------------------------------- MODULE Candle -------------------------------
(***************************************************************************)
(* The Candle tier's own forward pass (candle_tier/candle_forward.rs) over *)
(* the weights of the other tiers: attention goes through an op that calls *)
(* the CPU's, the ODE through an op that does so or through tensor         *)
(* operations (candle_tier/ode.rs), everything else is tensors.  A tensor  *)
(* is again a function of functions.                                       *)
(*                                                                         *)
(* Every band's mask is 1, as without a curriculum, rows are below the     *)
(* gain control's knee, and chi is 0, so that no tensor mixes four waves.  *)
(***************************************************************************)
EXTENDS WaveParams

(***************************************************************************)
(* The ODE in tensors: |z|^2 of a row between two zeros on either side,    *)
(* and the neighbours of all bands as four windows of that.                *)
(***************************************************************************)
Padded(z) == LET n == Size(z)
             IN  [j \in 0 .. n + 3 |-> IF j \in 2 .. n + 1 THEN Mag(z[j - 2]) ELSE Zero]

TensorDerivative(w, gamma, z) ==
  LET near(pad, k) == (pad[k] (+) pad[k + 1]) (+) (pad[k + 3] (+) pad[k + 4])
      phi(pad, k)  == ((Mag(z[k]) (.) w.alpha) (+) (near(pad, k) (.) w.beta)) (+) w.omega[k]
      turn(k, p)   == << Neg(z[k][1] (.) gamma[k]) (-) (p (.) z[k][2]),
                         Neg(z[k][2] (.) gamma[k]) (+) (p (.) z[k][1]) >>
  IN  Given(Table(Padded(z)), LAMBDA pad : Table([k \in DOMAIN z |-> turn(k, phi(pad, k))]))

(* Without learnable weights a step is dt/6 (k1 + 2 k2 + 2 k3 + k4).       *)
TensorCombine(d, w, dt, ks) ==
  IF d.rk4w
  THEN ZScale(dt, ZAdd(ZAdd(ZScale(w.mix[0], ks[1]), ZScale(w.mix[1], ks[2])),
                       ZAdd(ZScale(w.mix[2], ks[3]), ZScale(w.mix[3], ks[4]))))
  ELSE ZScale(dt (/) Con(6), ZAdd(ZAdd(ks[1], ZScale(Two, ks[2])), ZAdd(ZScale(Two, ks[3]), ks[4])))

TensorOde(d, w, z0) ==
  LET dt == Recip(Con(w.steps))
      g  == Table([k \in DOMAIN w.gammaRaw |-> Softplus(w.gammaRaw[k])])
      reach(i)  == IF i = 3 THEN dt ELSE Half (.) dt
      next(z, ks, i) == Append(ks, TensorDerivative(w, g,
                          IF i = 0 THEN z ELSE Table(ZAdd(z, ZScale(reach(i), ks[i])))))
      slopes(z) == LET taken[i \in 0 .. 4] == IF i = 0 THEN <<>> ELSE next(z, taken[i - 1], i - 1)
                   IN  taken[4]
      run[i \in 0 .. w.steps] ==
        IF i = 0 THEN z0
        ELSE Given(run[i - 1], LAMBDA z : Table(ZAdd(z, TensorCombine(d, w, dt, slopes(z)))))
  IN  run[w.steps]

(* The op that runs the CPU's integration, always without mixing.          *)
KerrOdeCustomOp(d, w, z) ==
  LET own == [w EXCEPT !.chi = Zero]
  IN  IF d.splitBand THEN SplitBandForward(own, z).z ELSE OdeForward(own, z).z

(* The op that runs the CPU's attention.                                   *)
WaveAttentionCustomOp(b, x) == AttentionForward(b.attn, x).out

(***************************************************************************)
(* A block.  customOp chooses between the two integrations; the plate is   *)
(* always there.                                                           *)
(***************************************************************************)
CandleFfn(d, b, x, customOp) ==
  LET pre == AddBatch(x, MaestroForward(b.maestroIn, x).out)
      ode == Each(pre, LAMBDA v : IF customOp THEN KerrOdeCustomOp(d, b.kerr, Bands(v))
                                  ELSE TensorOde(d, b.kerr, Bands(v)))
  IN  Given(Each(ode, LAMBDA z : Interleave(Correct(b.plate, z))), LAMBDA cor :
        Each(AddBatch(cor, MaestroForward(b.maestroOut, cor).out), LAMBDA v : OutProjForward(b.outProj, v)))

CandleBlock(d, m, i, hidden, customOp) ==
  LET b == m.blocks[i]
      leave(both) == AddBatch(hidden, IF d.layerScale THEN Each(both, LAMBDA v : VScale(m.scale[i], v)) ELSE both)
  IN  Given(Each(hidden, LAMBDA h : LayerNorm(b.ln, h)), LAMBDA normed :
        leave(AddBatch(WaveAttentionCustomOp(b, normed), CandleFfn(d, b, normed, customOp))))

CandleLogits(d, m, h) ==
  IF d.head = "phase" THEN Times(m.wte, Interleave(Correct(m.head.corr, Bands(h)))) ELSE Times(m.head.w, h)

CandleForward(d, m, rows, customOp) ==
  LET hidden[i \in 0 .. d.layers] ==
        IF i = 0 THEN rows ELSE CandleBlock(d, m, i - 1, Table(hidden[i - 1]), customOp)
  IN  Each(hidden[d.layers], LAMBDA h : CandleLogits(d, m, LayerNorm(m.lnF, h)))

(* The models both tiers can hold.                                         *)
CandleRuns(d)  == d.learnOde /\ d.corrector /\ d.head \in {"phase", "dense"} /\ d.loss = "tokens"
CandlePaths(d) == IF d.splitBand THEN {TRUE} ELSE BOOLEAN

(***************************************************************************)
(* What the attention op leaves for its harmonics, from the gradient of    *)
(* the op's output: back through the projection, the values and the        *)
(* softmax to the scores, whose slope in n is -sin(n delta) delta.         *)
(***************************************************************************)
HarmonicGrads(attn, f, dOut) ==
  LET headDim == Size(dOut[0]) \div Size(attn.heads)
      T       == Size(dOut)
      weightGrads(merged, c, h) ==
        Grid(T, T, LAMBDA q, k :
          IF ~Attended(c.attW, q, k) THEN Zero
          ELSE SumTo(headDim, [e \in 0 .. headDim - 1 |-> merged[q][h * headDim + e] (.) c.v[k][e]]))
      slope(c, delta) == Neg(Sin(c.n (.) delta)) (.) delta
      row(c, sm, q) ==
        SumTo(q + 1, [k \in 0 .. q |->
          IF ~Attended(c.attW, q, k) THEN Zero
          ELSE (c.attW[q][k] (.) (sm[q][k] (-) Dot(c.attW[q], sm[q]))) (.) slope(c, c.phases[q] (-) c.phases[k])])
      head(c, sm, raw) == SumTo(T, [q \in 0 .. T - 1 |-> row(c, sm, q)]) (.) <<Opaque(2, raw[1]), 0>>
  IN  Given(Each(dOut, LAMBDA v : LinearBackwardDx(attn.out.w, v)), LAMBDA merged :
        Table([h \in DOMAIN attn.heads |->
          head(f.heads[h], weightGrads(merged, f.heads[h], h), attn.heads[h].raw)]))

(* One such vector per block, the gradient of the rows carried down.       *)
CandleHarmonics(d, m, caches, dh) ==
  LET leave(at, p) ==
        [d    |-> BlockBackward(d, m, at, caches[at + 1], p.d).d,
         raws |-> <<HarmonicGrads(m.blocks[at].attn, caches[at + 1].attn,
                                  Each(p.d, LAMBDA v : VScale(Scale(d, m, at), v)))>> \o p.raws]
      back[i \in 0 .. d.layers] ==      \* i blocks already left behind
        IF i = 0 THEN [d |-> dh, raws |-> <<>>] ELSE leave(d.layers - i, Table(back[i - 1]))
  IN  back[d.layers].raws
=============================================================================
