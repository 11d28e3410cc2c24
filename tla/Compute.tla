------------------------------ MODULE Compute ------------------------------
(***************************************************************************)
(* The operations a compute backend answers, as the CPU backend computes   *)
(* them (common/compute.rs, and the reverse passes of cpu/backward.rs that *)
(* only this interface still uses).  Linear maps, layer norm, GELU and the *)
(* maestro are those of Layers; the ODE's own are those of Kerr.           *)
(***************************************************************************)
EXTENDS WaveModel

(* The weights of classical RK4, which no caller of the fused GPU programs *)
(* can change.                                                             *)
Sixths == Table([i \in 0 .. 3 |-> Recip(Con(IF i \in {0, 3} THEN 6 ELSE 3))])

(***************************************************************************)
(* Causal attention: c = [attn, proj, nHead], one linear map giving        *)
(* queries, keys and values.                                               *)
(***************************************************************************)
HeadScale(size) == Con(size + 5)      \* stands for 1 / sqrt(head_dim)

SplitRows(qkv) ==      \* one linear map's rows hold the query, the key and the value
  LET e == Size(qkv[0]) \div 3
      part(o) == Grid(Size(qkv), e, LAMBDA pos, i : qkv[pos][o * e + i])
  IN  [q |-> part(0), k |-> part(1), v |-> part(2)]

SplitQkv(c, x) == SplitRows(Each(x, LAMBDA v : LinearFn(c.attn, v)))

CausalWeights(c, s) ==      \* per head, query and key
  LET T  == Size(s.q)
      hd == Size(s.q[0]) \div c.nHead
      dot(h, q, k) == SumTo(hd, [d \in 0 .. hd - 1 |-> s.q[q][h * hd + d] (.) s.k[k][h * hd + d]])
      e(h) == Grid(T, T, LAMBDA q, k : IF k <= q THEN Exp(dot(h, q, k) (.) HeadScale(hd)) ELSE Zero)
  IN  Table([h \in 0 .. c.nHead - 1 |->
        LET eh == e(h) IN Grid(T, T, LAMBDA q, k : eh[q][k] (/) Sum0(eh[q]))])

CausalHeads(c, s) ==
  LET att == CausalWeights(c, s)
      hd  == Size(s.q[0]) \div c.nHead
  IN  Grid(Size(s.q), Size(s.q[0]), LAMBDA q, i :
        SumTo(q + 1, [k \in 0 .. q |-> att[i \div hd][q][k] (.) s.v[k][i]]))

CausalAttention(c, x) == Each(CausalHeads(c, SplitQkv(c, x)), LAMBDA o : LinearFn(c.proj, o))

(* What the query at pos adds to every position's gradients.               *)
AttentionBackwardSingle(c, s, att, dOut, pos) ==
  LET e  == Size(dOut)
      hd == e \div c.nHead
      dAtt(h) == Table([k \in 0 .. pos |-> SumTo(hd, [d \in 0 .. hd - 1 |-> dOut[h * hd + d] (.) s.v[k][h * hd + d]])])
      dScore  == Table([h \in 0 .. c.nHead - 1 |->
                   LET da  == dAtt(h)
                       sum == SumTo(pos + 1, [k \in 0 .. pos |-> att[h][pos][k] (.) da[k]])
                   IN  Table([k \in 0 .. pos |-> att[h][pos][k] (.) (da[k] (-) sum)])])
      scaled(i, k) == dScore[i \div hd][k] (.) HeadScale(hd)
  IN  [q |-> Table([i \in 0 .. e - 1 |-> SumTo(pos + 1, [k \in 0 .. pos |-> scaled(i, k) (.) s.k[k][i]])]),
       k |-> Grid(Size(s.q), e, LAMBDA k, i : IF k <= pos THEN scaled(i, k) (.) s.q[pos][i] ELSE Zero),
       v |-> Grid(Size(s.q), e, LAMBDA k, i : IF k <= pos THEN att[i \div hd][pos][k] (.) dOut[i] ELSE Zero)]

CausalAttentionBackward(c, s, att, d) ==
  LET T   == Size(d)
      per == Table([pos \in 0 .. T - 1 |-> AttentionBackwardSingle(c, s, att, d[pos], pos)])
      sum(F(_)) == Grid(T, Size(d[0]), LAMBDA k, i : SumTo(T, [pos \in 0 .. T - 1 |-> F(per[pos])[k][i]]))
  IN  [q |-> Table([pos \in 0 .. T - 1 |-> per[pos].q]),
       k |-> sum(LAMBDA g : g.k), v |-> sum(LAMBDA g : g.v)]

(***************************************************************************)
(* The three feed-forward layers a block may have.  b.kerr is the ODE.     *)
(***************************************************************************)
KerrOde(w, x) == Interleave(OdeForward(w, Bands(x)).z)

OwnBand(p, k, z) ==      \* p.band[k] is applied from the left
  << ((p.band[k][0][0] (.) z[1]) (+) (p.band[k][1][0] (.) z[2])) (+) p.bias[k][0],
     ((p.band[k][0][1] (.) z[1]) (+) (p.band[k][1][1] (.) z[2])) (+) p.bias[k][1] >>

OwnBands(p, x) ==
  Each(x, LAMBDA v : LET z == Bands(v) IN Interleave(Table([k \in DOMAIN z |-> OwnBand(p, k, z[k])])))

PerBandLinear(p, x) == Each(OwnBands(p, x), LAMBDA v : LinearFn(p.out, v))

KerrMaestroAdd(b, x) ==
  LET kerr == Each(x, LAMBDA v : KerrOde(b.kerr, v))
  IN  Each(AddBatch(kerr, MaestroForward(b.maestro, x).out), LAMBDA v : LinearFn(b.out, v))

KerrDualMaestroAdd(b, x) ==
  LET pre  == AddBatch(x, MaestroForward(b.maestroIn, x).out)
      kerr == Each(pre, LAMBDA v : KerrOde(b.kerr, v))
      reg  == AddBatch(kerr, MaestroForward(b.maestroOut, kerr).out)
  IN  Each(reg, LAMBDA v : OutProjForward(b.outProj, v))

(***************************************************************************)
(* The older reverse pass through the ODE.  It integrates forward with the *)
(* whole model again, but takes the steps back as if there were no mixing  *)
(* and the combination were the classical one.  (It also sums omega's      *)
(* gradient, which no caller reads.)                                       *)
(***************************************************************************)
Legacy(w) == [w EXCEPT !.chi = Zero, !.mix = Sixths]

KerrOdeBackward(w, x, d) ==
  LET n  == Size(d)
      g  == Table(Gamma(w))
      lw == Legacy(w)
      at == OdeForward(w, x).at
      step(z0, p) == StepBackward(n, lw, g, StepOf(w), z0, Stages(n, lw, g, StepOf(w), z0), p.d, p.acc)
      run[i \in 0 .. w.steps] ==
        IF i = 0 THEN [d |-> d, acc |-> NoGrads(n)]
        ELSE step(at[w.steps - i + 1], Table(run[i - 1]))
  IN  [run[w.steps] EXCEPT !.acc = ToRaw(w, [@ EXCEPT !.mix = Vec(4, Zero)])]
=============================================================================
