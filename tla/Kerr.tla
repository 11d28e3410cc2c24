-------------------------------- MODULE Kerr --------------------------------
(***************************************************************************)
(* The Kerr-ODE of src/src/common/math: its right-hand side, the RK4       *)
(* integration with the cache the backward pass needs, and the reverse     *)
(* pass through derivative, stages and steps (ode_deriv.rs,                *)
(* ode_backward.rs).  A row of bands is a function 0 .. n-1 to complex     *)
(* numbers (r, s); w is the KerrWeights record                             *)
(*   [gammaRaw, omega : per band, alpha, beta, chi, mix : 0..3, steps]     *)
(* where mix is the code's rk4_weights.                                    *)
(***************************************************************************)
EXTENDS Field

(* |z_j|^2, or nothing beyond either edge of the row.                      *)
MagAt(n, z, j) == IF j \in 0 .. n - 1 THEN Mag(z[j]) ELSE Zero

NeighbourSum(n, z, k) ==
  Total([i \in 1 .. 4 |-> MagAt(n, z, k + <<-2, -1, 1, 2>>[i])])

(* Angular speed of band k: its own frequency, self and cross modulation.  *)
Phi(n, w, z, k) == w.omega[k] (+) (w.alpha (.) Mag(z[k])) (+) (w.beta (.) NeighbourSum(n, z, k))

Damping(gamma, z)   == [k \in DOMAIN z |-> CScale(Neg(gamma[k]), z[k])]
Turning(n, w, z)    == [k \in DOMAIN z |-> CScale(Phi(n, w, z, k), CTurn(z[k]))]

(***************************************************************************)
(* Four-wave mixing.  The two loops over quartets (a, b, c, d), a+b = c+d, *)
(* in the code's order, and what one quartet adds to its four bands:       *)
(*   dz_a = -i chi conj(z_b) z_c z_d        dz_c = -i chi z_a z_b conj(z_d)*)
(***************************************************************************)
FamilyA(n) == [i \in 1 .. n - 3 |-> LET k == i + 1 IN <<k - 2, k + 1, k - 1, k>>]
FamilyB(n) == [i \in 1 .. n - 3 |-> LET k == i     IN <<k - 1, k + 2, k, k + 1>>]
Quartets(n) == FamilyA(n) \o FamilyB(n)

(* Mutant: one conjugate of the coupling is forgotten.                     *)
QuartetFlowUnconjugated(chi, z, q) ==
  LET ab == CMul(z[q[1]], z[q[2]])
      cd == CMul(z[q[3]], z[q[4]])
  IN  << CScale(chi, CBack(CMul(z[q[2]], cd))),
         CScale(chi, CBack(CMul(CConj(z[q[1]]), cd))),
         CScale(chi, CBack(CMul(ab, CConj(z[q[4]])))),
         CScale(chi, CBack(CMul(ab, CConj(z[q[3]])))) >>

QuartetFlow(chi, z, q) ==
  LET ab == CMul(z[q[1]], z[q[2]])
      cd == CMul(z[q[3]], z[q[4]])
  IN  << CScale(chi, CBack(CMul(CConj(z[q[2]]), cd))),
         CScale(chi, CBack(CMul(CConj(z[q[1]]), cd))),
         CScale(chi, CBack(CMul(ab, CConj(z[q[4]])))),
         CScale(chi, CBack(CMul(ab, CConj(z[q[3]])))) >>

(* acc with the four entries of parts added at the bands of quartet q.     *)
AddAt(acc, q, parts) ==
  [acc EXCEPT ![q[1]] = CAdd(@, parts[1]), ![q[2]] = CAdd(@, parts[2]),
              ![q[3]] = CAdd(@, parts[3]), ![q[4]] = CAdd(@, parts[4])]

Mixing(n, chi, z) ==
  LET qs == Quartets(n)
      m[i \in 0 .. Len(qs)] ==
        IF i = 0 THEN Vec(n, C0) ELSE AddAt(m[i - 1], qs[i], QuartetFlow(chi, z, qs[i]))
  IN  m[Len(qs)]

Mixes(n, w) == w.chi[1] # 0 /\ n > 4

KerrDerivative(n, w, gamma, z) ==
  Given(ZAdd(Damping(gamma, z), Turning(n, w, z)), LAMBDA own :
    IF Mixes(n, w) THEN ZAdd(own, Mixing(n, w.chi, z)) ELSE own)

(* The three effects the capture buffers of the same function receive.     *)
DerivativeCapture(n, w, gamma, z) ==
  [damping |-> Damping(gamma, z),
   phase   |-> Turning(n, w, z),
   fwm     |-> IF Mixes(n, w) THEN Mixing(n, w.chi, z) ELSE Vec(n, C0)]

(***************************************************************************)
(* RK4 with free combination weights: the four slopes of a step, and the   *)
(* step they combine to.                                                   *)
(***************************************************************************)
Gamma(w)  == [k \in DOMAIN w.gammaRaw |-> Softplus(w.gammaRaw[k])]
StepOf(w) == Recip(Con(w.steps))

(* Where the slope k_(i+1) is taken, given the slope before it.            *)
EvalPoint(z, dt, i, k) == IF i < 3 THEN ZAdd(z, ZScale(Half (.) dt, k)) ELSE ZAdd(z, ZScale(dt, k))

Stages(n, w, gamma, dt, z) ==      \* the slopes k1 .. k4, each taken from the one before
  LET next(ks, i) == Append(ks, Table(KerrDerivative(n, w, gamma,
                       IF i = 0 THEN z ELSE Table(EvalPoint(z, dt, i, ks[i])))))
      taken[i \in 0 .. 4] == IF i = 0 THEN <<>> ELSE next(taken[i - 1], i - 1)
  IN  taken[4]

Rk4Step(w, dt, z, ks) ==
  [k \in DOMAIN z |->
     CAdd(z[k], CScale(dt, CAdd(CAdd(CScale(w.mix[0], ks[1][k]), CScale(w.mix[1], ks[2][k])),
                                CAdd(CScale(w.mix[2], ks[3][k]), CScale(w.mix[3], ks[4][k])))))]

(***************************************************************************)
(* Reverse pass.  g is the gradient with respect to the derivative at z;   *)
(* the result is the gradient with respect to z and what this evaluation   *)
(* adds to the parameters'.                                                *)
(***************************************************************************)
(* Gradient with respect to the angular speed of band k.                   *)
SpeedGrad(g, z, k) == (g[k][2] (.) z[k][1]) (-) (g[k][1] (.) z[k][2])

QuartetBackward(chi, z, g, q) ==
  LET a == z[q[1]]  b == z[q[2]]  c == z[q[3]]  d == z[q[4]]
      ga == g[q[1]] gb == g[q[2]] gc == g[q[3]] gd == g[q[4]]
      ab == CMul(a, b)
      cd == CMul(c, d)
      (* through the product that holds the band, and through the factors *)
      own(x, p)        == CBack(CMul(CConj(x), p))
      cross(x, p, y, q2) == CTurn(CAdd(CMul(x, p), CMul(y, q2)))
  IN  << CScale(chi, CAdd(own(gb, cd), CMul(CConj(b), cross(gc, d, gd, c)))),
         CScale(chi, CAdd(own(ga, cd), CMul(CConj(a), cross(gc, d, gd, c)))),
         CScale(chi, CAdd(own(gd, ab), CMul(CConj(d), cross(ga, b, gb, a)))),
         CScale(chi, CAdd(own(gc, ab), CMul(CConj(c), cross(ga, b, gb, a)))) >>

ChiGrad(z, g, q) ==
  Given(QuartetFlow(One, z, q), LAMBDA f : Total([i \in 1 .. 4 |-> CDot(g[q[i]], f[i])]))

DerivBackward(n, w, gamma, g, z) ==
  LET t    == [k \in 0 .. n - 1 |-> SpeedGrad(g, z, k)]
      near == [j \in 0 .. n - 1 |->
                 Total([i \in 1 .. 4 |-> LET k == j + <<-2, -1, 1, 2>>[i]
                                         IN  IF k \in 0 .. n - 1 THEN t[k] ELSE Zero])]
      self(k) == CAdd(CScale(Neg(gamma[k]), g[k]), CScale(Phi(n, w, z, k), CBack(g[k])))
      bent(k) == CScale(Two (.) ((w.alpha (.) t[k]) (+) (w.beta (.) near[k])), z[k])
      qs    == IF Mixes(n, w) THEN Quartets(n) ELSE <<>>
      row[i \in 0 .. Len(qs)] ==
        IF i = 0 THEN [k \in 0 .. n - 1 |-> CAdd(self(k), bent(k))]
        ELSE AddAt(row[i - 1], qs[i], QuartetBackward(w.chi, z, g, qs[i]))
  IN  [z     |-> row[Len(qs)],
       gamma |-> [k \in 0 .. n - 1 |-> Neg(CDot(g[k], z[k]))],
       alpha |-> SumTo(n, [k \in 0 .. n - 1 |-> Mag(z[k]) (.) t[k]]),
       beta  |-> SumTo(n, [k \in 0 .. n - 1 |-> NeighbourSum(n, z, k) (.) t[k]]),
       chi   |-> Total([i \in 1 .. Len(qs) |-> ChiGrad(z, g, qs[i])])]

(* Sum of the parameter gradients of several evaluations.                  *)
NoGrads(n) == [gamma |-> Vec(n, Zero), alpha |-> Zero, beta |-> Zero, chi |-> Zero, mix |-> Vec(4, Zero)]

AddParams(acc, b) ==
  [acc EXCEPT !.gamma = VAdd(@, b.gamma), !.alpha = @ (+) b.alpha,
              !.beta = @ (+) b.beta, !.chi = @ (+) b.chi]

(* One RK4 step in reverse, the fourth slope first: a slope's gradient is  *)
(* its share of the combined step and what the next slope's point took.    *)
StepBackward(n, w, gamma, dt, z0, ks, d, acc) ==
  LET reach(i) == IF i = 3 THEN dt ELSE Half (.) dt
      slopeGrad(i, z) == Table(IF i = 4 THEN ZScale(dt (.) w.mix[3], d)
                               ELSE ZAdd(ZScale(dt (.) w.mix[i - 1], d), ZScale(reach(i), z)))
      at(i)      == IF i = 1 THEN z0 ELSE Table(EvalPoint(z0, dt, i - 1, ks[i - 1]))
      took(q, b) == [z |-> b.z, d |-> ZAdd(q.d, b.z), acc |-> AddParams(q.acc, b)]
      step(i, q) == took(q, Table(DerivBackward(n, w, gamma, slopeGrad(i, q.z), at(i))))
      back[i \in 1 .. 5] == IF i = 5 THEN [z |-> d, d |-> d, acc |-> acc] ELSE step(i, back[i + 1])
      mix == [i \in 0 .. 3 |-> dt (.) SumTo(n, [k \in 0 .. n - 1 |-> CDot(d[k], ks[i + 1][k])])]
  IN  Given(back[1], LAMBDA q : [d |-> q.d, acc |-> [q.acc EXCEPT !.mix = VAdd(@, mix)]])

(* A whole integration with the cache, and a whole reverse pass.           *)
OdeForward(w, z0) ==
  LET n == Size(z0)
      g == Table(Gamma(w))
      run[i \in 0 .. w.steps] ==
        IF i = 0 THEN [z |-> z0, at |-> <<>>, ks |-> <<>>]
        ELSE Given(Table(run[i - 1]), LAMBDA p :
               Given(Stages(n, w, g, StepOf(w), p.z), LAMBDA ks :
                 [z  |-> Table(Rk4Step(w, StepOf(w), p.z, ks)),
                  at |-> Append(p.at, p.z), ks |-> Append(p.ks, ks)]))
  IN  Table(run[w.steps])

OdeBackward(w, f, d) ==
  LET n == Size(d)
      g == Table(Gamma(w))
      run[i \in 0 .. w.steps] ==      \* i steps already taken back
        IF i = 0 THEN [d |-> d, acc |-> NoGrads(n)]
        ELSE LET p == Table(run[i - 1])
                 s == w.steps - i + 1
             IN  StepBackward(n, w, g, StepOf(w), f.at[s], f.ks[s], p.d, p.acc)
  IN  Table(run[w.steps])

(* Mutant: the gradient of gamma is handed over as that of its raw value.  *)
ToRawUnscaled(w, acc) == acc

(* gamma's gradient is taken back through the softplus.                    *)
ToRaw(w, acc) ==
  [acc EXCEPT !.gamma = [k \in DOMAIN @ |-> @[k] (.) <<Opaque(2, w.gammaRaw[k][1]), 0>>]]

(***************************************************************************)
(* What the gradients must be.  dOut paired with the directions of the     *)
(* outputs is the derivative of the loss; the gradients paired with the    *)
(* directions of everything they are taken for must give the same number.  *)
(***************************************************************************)
ZPair(n, g, x) ==
  LET t[i \in 0 .. n] == IF i = 0 THEN 0
        ELSE (t[i - 1] + Pair(g[i - 1][1], x[i - 1][1]) + Pair(g[i - 1][2], x[i - 1][2])) % P
  IN  t[n]

ParamPair(n, g, w) ==
  (PairTo(n, g.gamma, w.gammaRaw) + Pair(g.alpha, w.alpha) + Pair(g.beta, w.beta)
     + Pair(g.chi, w.chi) + PairTo(4, g.mix, w.mix)) % P

(* Omega is not learnable: it has no direction.                            *)
Weights(n, seed, chiOn, steps) ==
  [gammaRaw |-> [k \in 0 .. n - 1 |-> Noise(seed, 1, k)],
   omega    |-> [k \in 0 .. n - 1 |-> Con(Noise(seed, 2, k)[1])],
   alpha    |-> Noise(seed, 3, 0),
   beta     |-> Noise(seed, 4, 0),
   chi      |-> IF chiOn THEN Noise(seed, 5, 0) ELSE Zero,
   mix      |-> [i \in 0 .. 3 |-> Noise(seed, 6, i)],
   steps    |-> steps]

Row(n, seed, tag) == [k \in 0 .. n - 1 |-> <<Noise(seed, tag, 2 * k), Noise(seed, tag, 2 * k + 1)>>]
=============================================================================
