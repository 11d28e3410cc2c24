----------------------------- MODULE SplitBand -----------------------------
(***************************************************************************)
(* The freeze-and-decouple integration of ode_split_band.rs: the           *)
(* neighbour sums are taken once before each half of the steps, and every  *)
(* band runs its own two-dimensional RK4 with them held constant.          *)
(***************************************************************************)
EXTENDS Kerr

StepsA(w) == w.steps \div 2
StepsB(w) == w.steps - StepsA(w)

Freeze(n, z) == [k \in 0 .. n - 1 |-> NeighbourSum(n, z, k)]

BandSpeed(w, k, ns, z) == w.omega[k] (+) (w.alpha (.) Mag(z)) (+) (w.beta (.) ns)

KerrDerivativeBand(w, gamma, k, ns, z) ==
  CAdd(CScale(Neg(gamma[k]), z), CScale(BandSpeed(w, k, ns, z), CTurn(z)))

BandPoint(z, dt, i, slope) == CAdd(z, CScale(IF i < 3 THEN Half (.) dt ELSE dt, slope))

BandStages(w, gamma, dt, k, ns, z) ==
  LET next(ks, i) == Append(ks, KerrDerivativeBand(w, gamma, k, ns,
                                  IF i = 0 THEN z ELSE BandPoint(z, dt, i, ks[i])))
      taken[i \in 0 .. 4] == IF i = 0 THEN <<>> ELSE next(taken[i - 1], i - 1)
  IN  taken[4]

Rk4StepBand(w, gamma, dt, k, ns, z) ==
  Given(BandStages(w, gamma, dt, k, ns, z), LAMBDA ks :
    CAdd(z, CScale(dt, CAdd(CAdd(CScale(w.mix[0], ks[1]), CScale(w.mix[1], ks[2])),
                            CAdd(CScale(w.mix[2], ks[3]), CScale(w.mix[3], ks[4]))))))

(* g: gradient with respect to the slope at z.                             *)
DerivBackwardBand(w, gamma, k, ns, g, z) ==
  LET t == (g[2] (.) z[1]) (-) (g[1] (.) z[2])
  IN  [z     |-> CAdd(CAdd(CScale(Neg(gamma[k]), g), CScale(BandSpeed(w, k, ns, z), CBack(g))),
                      CScale(Two (.) (w.alpha (.) t), z)),
       gamma |-> Neg(CDot(g, z)),
       alpha |-> Mag(z) (.) t,
       beta  |-> ns (.) t,
       ns    |-> w.beta (.) t]

(* One band's RK4 step in reverse; the slopes are derived again.           *)
Rk4StepBackwardBand(w, gamma, dt, k, ns, z0, d) ==
  LET reach(i) == IF i = 3 THEN dt ELSE Half (.) dt
      slopeGrad(i, bs) == IF i = 4 THEN CScale(dt (.) w.mix[3], d)
                          ELSE CAdd(CScale(dt (.) w.mix[i - 1], d), CScale(reach(i), bs[1].z))
      at(ks, i)    == IF i = 1 THEN z0 ELSE BandPoint(z0, dt, i - 1, ks[i - 1])
      step(ks, i, bs) == <<DerivBackwardBand(w, gamma, k, ns, slopeGrad(i, bs), at(ks, i))>> \o bs
      all(ks) == LET back[i \in 1 .. 5] == IF i = 5 THEN <<>> ELSE step(ks, i, back[i + 1]) IN back[1]
      sums(ks, bs) ==
        [z     |-> CAdd(d, <<Total([i \in 1 .. 4 |-> bs[i].z[1]]), Total([i \in 1 .. 4 |-> bs[i].z[2]])>>),
         gamma |-> Total([i \in 1 .. 4 |-> bs[i].gamma]),
         alpha |-> Total([i \in 1 .. 4 |-> bs[i].alpha]),
         beta  |-> Total([i \in 1 .. 4 |-> bs[i].beta]),
         ns    |-> Total([i \in 1 .. 4 |-> bs[i].ns]),
         mix   |-> [i \in 0 .. 3 |-> dt (.) CDot(d, ks[i + 1])]]
  IN  Given(BandStages(w, gamma, dt, k, ns, z0), LAMBDA ks : sums(ks, all(ks)))

(* Gradient of the frozen sums, handed back to the bands they were taken   *)
(* from.                                                                   *)
NsFrozenBackward(n, dNs, z, d) ==
  [j \in 0 .. n - 1 |->
     LET near == Total([i \in 1 .. 4 |-> LET k == j + <<-2, -1, 1, 2>>[i]
                                         IN  IF k \in 0 .. n - 1 THEN dNs[k] ELSE Zero])
     IN  CAdd(d[j], CScale(Two (.) near, z[j]))]

(***************************************************************************)
(* The whole forward with its cache, and its reverse.                      *)
(***************************************************************************)
SplitBandForward(w, z0) ==
  LET n == Size(z0)
      g == Table(Gamma(w))
      run[i \in 0 .. w.steps] ==
        IF i = 0 THEN [z |-> z0, at |-> <<>>, ns |-> <<>>]
        ELSE Given(Table(run[i - 1]), LAMBDA p :
               Given(Table(IF i - 1 \in {0, StepsA(w)} THEN Freeze(n, p.z) ELSE p.ns[i - 1]), LAMBDA ns :
                 [z  |-> Table([k \in DOMAIN z0 |-> Rk4StepBand(w, g, StepOf(w), k, ns[k], p.z[k])]),
                  at |-> Append(p.at, p.z), ns |-> Append(p.ns, ns)]))
  IN  Table(run[w.steps])

(* One step of all bands in reverse.  After the first step of a half, the  *)
(* gradient of that half's frozen sums goes back to the row they were      *)
(* taken from.  q is [d, dNs, acc].                                        *)
SplitStepBackward(w, gamma, z0, ns, s, q) ==
  LET n     == Size(z0)
      first == s - 1 \in {0, StepsA(w)}
      step(b, sums, row) ==
        [d   |-> IF first THEN Table(NsFrozenBackward(n, sums, z0, row)) ELSE row,
         dNs |-> IF first THEN Vec(n, Zero) ELSE sums,
         acc |-> [q.acc EXCEPT
           !.gamma = Table([k \in DOMAIN z0 |-> @[k] (+) b[k].gamma]),
           !.alpha = @ (+) Sum0([k \in DOMAIN z0 |-> b[k].alpha]),
           !.beta  = @ (+) Sum0([k \in DOMAIN z0 |-> b[k].beta]),
           !.mix   = Table([i \in 0 .. 3 |-> @[i] (+) Sum0([k \in DOMAIN z0 |-> b[k].mix[i]])])]]
  IN  Given(Table([k \in DOMAIN z0 |-> Table(Rk4StepBackwardBand(w, gamma, StepOf(w), k, ns[k], z0[k], q.d[k]))]),
        LAMBDA b : step(b, Table([k \in DOMAIN z0 |-> q.dNs[k] (+) b[k].ns]), Table([k \in DOMAIN z0 |-> b[k].z])))

SplitBandBackward(w, f, d) ==
  LET n == Size(d)
      g == Table(Gamma(w))
      run[i \in 0 .. w.steps] ==
        IF i = 0 THEN [d |-> d, dNs |-> Vec(n, Zero), acc |-> NoGrads(n)]
        ELSE LET s == w.steps - i + 1
             IN  SplitStepBackward(w, g, f.at[s], f.ns[s], s, Table(run[i - 1]))
  IN  Table(run[w.steps])
=============================================================================
