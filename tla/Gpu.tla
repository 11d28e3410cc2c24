-------------------------------- MODULE Gpu --------------------------------
(***************************************************************************)
(* What the wgpu tier does: its kernels, each a change of named buffers,   *)
(* and the command lists its operations encode from them (src/shaders,     *)
(* src/src/wgpu_tier).  mem is the device's memory: buffer name -> value.  *)
(* A value is a batch of rows (of bands or of channels), a pair of halves, *)
(* or a gradient summed over the batch.  A command is                      *)
(*   [op, from : seq of buffers read, to : seq of buffers written, c]      *)
(* where c is the constant its bind group holds (a scale, a map, a norm).  *)
(***************************************************************************)
EXTENDS Compute

Cmd(op, from, to, c) == [op |-> op, from |-> from, to |-> to, c |-> c]

(***************************************************************************)
(* The derivative kernel.  A thread owns one band and gathers what mixing  *)
(* gives it, over the eight parts a band may play in the quartets: part i  *)
(* of quartet <<a, b, c, d>>, taken only where the thread's guard holds.   *)
(***************************************************************************)
QuartetA(k) == <<k - 2, k + 1, k - 1, k>>
QuartetB(k) == <<k - 1, k + 2, k, k + 1>>

Parts(n, b) ==
  { p \in { [i |-> 1, q |-> QuartetA(b + 2), on |-> b + 2 < n - 1, fam |-> "A"],
            [i |-> 2, q |-> QuartetA(b - 1), on |-> b >= 3, fam |-> "A"],
            [i |-> 3, q |-> QuartetA(b + 1), on |-> b >= 1 /\ b + 1 < n - 1, fam |-> "A"],
            [i |-> 4, q |-> QuartetA(b),     on |-> b >= 2 /\ b < n - 1, fam |-> "A"],
            [i |-> 1, q |-> QuartetB(b + 1), on |-> b + 1 < n - 2, fam |-> "B"],
            [i |-> 2, q |-> QuartetB(b - 2), on |-> b >= 3, fam |-> "B"],
            [i |-> 3, q |-> QuartetB(b),     on |-> b >= 1 /\ b < n - 2, fam |-> "B"],
            [i |-> 4, q |-> QuartetB(b - 1), on |-> b >= 2 /\ b < n - 1, fam |-> "B"] } : p.on }

SumOver(S, F(_), zero, plus(_, _)) ==
  LET f[T \in SUBSET S] == IF T = {} THEN zero
                           ELSE LET p == CHOOSE p \in T : TRUE IN plus(F(p), f[T \ {p}])
  IN  f[S]

(* The parameter buffer holds alpha, beta and, where its maker thought of  *)
(* it, chi.  A read behind the end gives whatever the driver gives.        *)
ParamAt(mem, i) == IF i <= Len(mem["ab"]) THEN mem["ab"][i] ELSE mem["beyond"]

DeviceKerr(mem) ==
  [omega |-> mem["omega"], alpha |-> ParamAt(mem, 1), beta |-> ParamAt(mem, 2), chi |-> ParamAt(mem, 3)]

KernelDerive(mem, z) ==
  LET w == DeviceKerr(mem)
      n == Size(z)
      own == ZAdd(Damping(mem["gamma"], z), Turning(n, w, z))
      mixed(b) == SumOver(Parts(n, b), LAMBDA p : QuartetFlow(w.chi, z, p.q)[p.i], C0, CAdd)
  IN  Table([b \in DOMAIN z |-> IF Mixes(n, w) THEN CAdd(own[b], mixed(b)) ELSE own[b]])

(* The reverse kernel gathers the same way; the thread with part 1 counts  *)
(* the whole quartet for chi.  c is the weights its uniform holds.         *)
KernelKerrBackward(mem, c, z, g) ==
  LET n == Size(z)
      plain == DerivBackward(n, [c EXCEPT !.chi = Zero], mem["gamma"], g, z)
      mixed(b) == SumOver(Parts(n, b), LAMBDA p : QuartetBackward(c.chi, z, g, p.q)[p.i], C0, CAdd)
      chi(b)   == SumOver({p \in Parts(n, b) : p.i = 1}, LAMBDA p : ChiGrad(z, g, p.q), Zero, LAMBDA x, y : x (+) y)
      speed(b) == SpeedGrad(g, z, b)
  IN  [z     |-> Table([b \in DOMAIN z |-> IF Mixes(n, c) THEN CAdd(plain.z[b], mixed(b)) ELSE plain.z[b]]),
       gamma |-> Table(plain.gamma),
       alpha |-> Table([b \in DOMAIN z |-> Mag(z[b]) (.) speed(b)]),
       beta  |-> Table([b \in DOMAIN z |-> NeighbourSum(n, z, b) (.) speed(b)]),
       chi   |-> Table([b \in DOMAIN z |-> IF Mixes(n, c) THEN chi(b) ELSE Zero])]

(***************************************************************************)
(* The other kernels on rows.  vec_accumulate works below params.len, which *)
(* its only user sets to one half of the packed alpha-and-beta buffer;     *)
(* outer_product adds to what its buffers hold.                            *)
(***************************************************************************)
BatchOf(x, Op(_)) == Table([pos \in DOMAIN x |-> Table(Op(pos))])

KernelScaleAdd(c, x, y) == BatchOf(x, LAMBDA p : ZAdd(x[p], ZScale(c, y[p])))

KernelCombine(mem, c, x) ==
  LET sum(p) == ZAdd(ZAdd(mem["k1"][p], ZScale(Two, mem["k2"][p])), ZAdd(ZScale(Two, mem["k3"][p]), mem["k4"][p]))
  IN  BatchOf(x, LAMBDA p : ZAdd(x[p], ZScale(c, sum(p))))

KernelAccumulate(kind, x, y) == IF kind = "bands" THEN BatchOf(x, LAMBDA p : ZAdd(x[p], y[p])) ELSE AddBatch(x, y)

Accumulated(acc, x) == <<AddBatch(acc[1], x[1]), acc[2]>>

KernelMatvec(l, x)     == Each(x, LAMBDA v : LinearFn(l, v))
KernelMatvecT(l, d)    == Each(d, LAMBDA v : LinearBackwardDx(l.w, v))
KernelBlockDiag(op, x) == Each(x, LAMBDA v : OutProjForward(op, v))
KernelDeinterleave(x)  == Each(x, Bands)
KernelReinterleave(z)  == Each(z, Interleave)
KernelGelu(x)          == Each(x, LAMBDA v : [i \in DOMAIN v |-> Gelu(v[i])])
KernelGeluBackward(d, x) == BatchOf(d, LAMBDA p : [i \in DOMAIN d[p] |-> GeluBackward(d[p][i], x[p][i])])
KernelNormBackward(ln, d, x) == BatchOf(d, LAMBDA p : LayerNormBackward(ln, d[p], x[p]))

KernelOuter(held, d, x) ==
  LET o == OuterProductAccum(d, x)
  IN  [w |-> Grid(Size(o.w), Size(o.w[0]), LAMBDA i, j : held.w[i][j] (+) o.w[i][j]), b |-> Table(VAdd(held.b, o.b))]

(* scores: the softmax of a query's row taken back; per head, query, key.  *)
KernelScores(c, dOut, s) ==
  LET hd == Size(dOut[0]) \div c.nHead
      dAtt(h, q, k) == SumTo(hd, [d \in 0 .. hd - 1 |-> dOut[q][h * hd + d] (.) s.v[k][h * hd + d]])
      head(h) == Grid(Size(dOut), Size(dOut), LAMBDA q, k :
                   IF k > q THEN Zero
                   ELSE c.att[h][q][k] (.) (dAtt(h, q, k) (-) SumTo(q + 1, [j \in 0 .. q |-> c.att[h][q][j] (.) dAtt(h, q, j)])))
  IN  Table([h \in 0 .. c.nHead - 1 |-> head(h)])

KernelDq(c, score, s) ==
  LET hd == Size(s.q[0]) \div c.nHead
  IN  Grid(Size(s.q), Size(s.q[0]), LAMBDA q, i :
        SumTo(q + 1, [k \in 0 .. q |-> score[i \div hd][q][k] (.) s.k[k][i]]) (.) HeadScale(hd))

FirstQuery(k) == k       \* a key is seen by the queries from its own position on

(* One thread per key and channel sums over the queries that saw the key.  *)
KernelDkv(c, score, s, dOut) ==
  LET hd == Size(s.q[0]) \div c.nHead
      T  == Size(s.q)
      over(k, F(_)) == SumTo(T, [q \in 0 .. T - 1 |-> IF q >= FirstQuery(k) THEN F(q) ELSE Zero])
  IN  [k |-> Grid(T, Size(s.q[0]), LAMBDA k, i :
               over(k, LAMBDA q : score[i \div hd][q][k] (.) s.q[q][i]) (.) HeadScale(hd)),
       v |-> Grid(T, Size(s.q[0]), LAMBDA k, i : over(k, LAMBDA q : c.att[i \div hd][q][k] (.) dOut[q][i]))]

(* The closed form: damp and turn for the whole time, then bend by what    *)
(* the damped row's intensities say.                                       *)
KernelPerturbative(c, z) ==
  LET n   == Size(z)
      lin == Table([k \in DOMAIN z |-> CScale(c.decay[k], CAdd(CScale(c.cos[k], z[k]), CScale(c.sin[k], CTurn(z[k]))))])
      phi(k) == (c.alpha (.) Mag(lin[k])) (+) (c.beta (.) NeighbourSum(n, lin, k))
  IN  Table([k \in DOMAIN z |-> CAdd(lin[k], CScale(phi(k), CTurn(lin[k])))])

(***************************************************************************)
(* One command's effect on memory: the pipeline it sets, its bind group and *)
(* the kernel compiled into that pipeline.  The last two of Run are what   *)
(* the host does between submits.                                          *)
(***************************************************************************)
Write(mem, b, v) == (b :> v) @@ mem

(* The reverse kernel's bindings 6 to 11, one row of each per position.    *)
WriteGrads(mem, grads) ==
  LET of(f(_)) == Table([p \in DOMAIN grads |-> f(grads[p])])
  IN  ("dEval" :> of(LAMBDA r : r.z)) @@ ("dgStep" :> of(LAMBDA r : r.gamma))
      @@ ("dabStep" :> <<of(LAMBDA r : r.alpha), of(LAMBDA r : r.beta)>>) @@ ("dchiStep" :> of(LAMBDA r : r.chi)) @@ mem

Kernels == { "derive", "scaleAdd", "combine", "copy", "kerrBackward", "accumulate", "accumulateHalf",
             "perturbative", "matvec", "matvecT", "gelu", "geluBackward", "add", "deinterleave",
             "reinterleave", "outer", "blockDiag", "scores", "dq", "dkv", "normBackward", "heads", "ownBands" }

Run(mem, cmd) ==
  LET x == mem[cmd.from[1]]
      y == mem[cmd.from[2]]
      c == cmd.c
      to == cmd.to[1]
      set(v) == Write(mem, to, v)
  IN CASE cmd.op = "derive"         -> set(BatchOf(x, LAMBDA p : KernelDerive(mem, x[p])))
       [] cmd.op = "scaleAdd"       -> set(KernelScaleAdd(c, x, y))
       [] cmd.op = "combine"        -> set(KernelCombine(mem, c, x))
       [] cmd.op = "copy"           -> set(x)
       [] cmd.op = "kerrBackward"   -> WriteGrads(mem, BatchOf(x, LAMBDA p : KernelKerrBackward(mem, c, x[p], y[p])))
       [] cmd.op = "accumulate"     -> set(KernelAccumulate(c, x, y))
       [] cmd.op = "accumulateHalf" -> set(Accumulated(x, y))
       [] cmd.op = "perturbative"   -> set(BatchOf(x, LAMBDA p : KernelPerturbative(c, x[p])))
       [] cmd.op = "matvec"         -> set(KernelMatvec(c, x))
       [] cmd.op = "matvecT"        -> set(KernelMatvecT(c, x))
       [] cmd.op = "blockDiag"      -> set(KernelBlockDiag(c, x))
       [] cmd.op = "gelu"           -> set(KernelGelu(x))
       [] cmd.op = "geluBackward"   -> set(KernelGeluBackward(x, y))
       [] cmd.op = "add"            -> set(AddBatch(x, y))
       [] cmd.op = "deinterleave"   -> set(KernelDeinterleave(x))
       [] cmd.op = "reinterleave"   -> set(KernelReinterleave(x))
       [] cmd.op = "outer"          -> set(KernelOuter(mem[to], x, y))
       [] cmd.op = "scores"         -> set(KernelScores(c, x, y))
       [] cmd.op = "dq"             -> set(KernelDq(c, x, y))
       [] cmd.op = "dkv"            -> LET g == KernelDkv(c, x, y, mem[cmd.from[3]])
                                       IN  (to :> g.k) @@ (cmd.to[2] :> g.v) @@ mem
       [] cmd.op = "normBackward"   -> set(KernelNormBackward(c, x, y))
       [] cmd.op = "heads"          -> set(CausalHeads(c, SplitRows(x)))
       [] cmd.op = "ownBands"       -> set(OwnBands(c, x))

(***************************************************************************)
(* Command lists.                                                          *)
(***************************************************************************)
Repeat(n, F(_)) == LET r[i \in 0 .. n] == IF i = 0 THEN <<>> ELSE r[i - 1] \o F(i) IN r[n]

ScaleAdd(a, b, c, to) == Cmd("scaleAdd", <<a, b>>, <<to>>, c)
Derive(z, k)          == Cmd("derive", <<z, z>>, <<k>>, <<>>)
Copy(a, b)            == Cmd("copy", <<a, a>>, <<b>>, <<>>)
Accumulate(a, b, kind) == Cmd("accumulate", <<a, b>>, <<a>>, kind)

(* The slopes of one step, the last one excepted; "mid" ends as its point. *)
SlopeCommands(dt) ==
  << Derive("z", "k1"), ScaleAdd("z", "k1", Half (.) dt, "mid"),
     Derive("mid", "k2"), ScaleAdd("z", "k2", Half (.) dt, "mid"),
     Derive("mid", "k3"), ScaleAdd("z", "k3", dt, "mid") >>

(* Mutant: the four slopes are averaged.                                   *)
CombineScaleQuarter(dt) == dt (/) Con(4)

CombineScale(dt) == dt (/) Con(6)

StepCommands(dt) ==
  SlopeCommands(dt) \o << Derive("mid", "k4"), Cmd("combine", <<"z", "z">>, <<"new">>, CombineScale(dt)), Copy("new", "z") >>

OdeCommands(w) == Repeat(w.steps, LAMBDA i : StepCommands(StepOf(w)))

Cache(i) == "cache" \o ToString(i)

(* One evaluation taken back at the row in buffer z.                       *)
EvalBackward(w, z) ==
  << Cmd("kerrBackward", <<z, "dk">>, <<>>, w),
     Accumulate("d", "dEval", "bands"), Accumulate("dgAcc", "dgStep", "rows"),
     Cmd("accumulateHalf", <<"dabAcc", "dabStep">>, <<"dabAcc">>, <<>>), Accumulate("dchiAcc", "dchiStep", "rows") >>

(* The row the third slope was taken at, put together again.               *)
MidOfThird(dt) == ScaleAdd("z", "k2", Half (.) dt, "mid")

StepBackwardCommands(w, s) ==
  LET dt == StepOf(w)
      sixth == CombineScale(dt)
      third == dt (/) Con(3)
      extra(c) == <<ScaleAdd("zero", "dEval", c, "extra")>>
  IN  <<Copy(Cache(s), "z"), Copy("d", "dStep")>> \o SlopeCommands(dt)
      \o <<ScaleAdd("zero", "dStep", sixth, "dk")>> \o EvalBackward(w, "mid") \o extra(dt)
      \o <<ScaleAdd("extra", "dStep", third, "dk"), MidOfThird(dt)>> \o EvalBackward(w, "mid") \o extra(Half (.) dt)
      \o <<ScaleAdd("extra", "dStep", third, "dk"), ScaleAdd("z", "k1", Half (.) dt, "mid")>>
      \o EvalBackward(w, "mid") \o extra(Half (.) dt)
      \o <<ScaleAdd("extra", "dStep", sixth, "dk")>> \o EvalBackward(w, "z")

OdeBackwardCommands(w) ==
  Repeat(w.steps, LAMBDA i : <<Copy("z", Cache(i))>> \o StepCommands(StepOf(w)))
  \o Repeat(w.steps, LAMBDA i : StepBackwardCommands(w, w.steps + 1 - i))

(***************************************************************************)
(* The whole feed-forward layer in one list, and its reverse, over buffers *)
(* that live as long as the layer.                                         *)
(***************************************************************************)
MaestroCommands(m, x, sq, act, to) ==
  << Cmd("matvec", <<x, x>>, <<sq>>, m.squeeze), Cmd("gelu", <<sq, sq>>, <<act>>, <<>>),
     Cmd("matvec", <<act, act>>, <<to>>, m.process) >>

FfnCommands(b, project) ==
  MaestroCommands(b.maestroIn, "input", "sqIn", "actIn", "maeInOut")
  \o << Cmd("add", <<"input", "maeInOut">>, <<"precond">>, <<>>), Cmd("deinterleave", <<"precond", "precond">>, <<"z">>, <<>>) >>
  \o OdeCommands(b.kerr)
  \o << Cmd("reinterleave", <<"z", "z">>, <<"kerrOut">>, <<>>) >>
  \o MaestroCommands(b.maestroOut, "kerrOut", "sqOut", "actOut", "maeOutOut")
  \o << Cmd("add", <<"kerrOut", "maeOutOut">>, <<"regulated">>, <<>>),
        Cmd(project, <<"regulated", "regulated">>, <<"output">>, IF project = "blockDiag" THEN b.outProj ELSE b.outProj.groups[0]) >>

Back(l, d, to)      == Cmd("matvecT", <<d, d>>, <<to>>, l)
OuterInto(d, x, to) == Cmd("outer", <<d, x>>, <<to>>, <<>>)

(* One maestro taken back, the gradient of its input left in scratch.      *)
MaestroBackCommands(m, d, act, sq, x, g, scratch) ==
  << Back(m.process, d, g.act), OuterInto(d, act, g.pr),
     Cmd("geluBackward", <<g.act, sq>>, <<g.sqd>>, <<>>),
     Back(m.squeeze, g.sqd, scratch), OuterInto(g.sqd, x, g.sq) >>

FfnBackwardCommands(b) ==
  << Back(b.outProj.groups[0], "dOutput", "dRegulated"), OuterInto("dOutput", "regulated", "dOp") >>
  \o MaestroBackCommands(b.maestroOut, "dRegulated", "actOut", "sqOut", "kerrOut",
       [act |-> "dActOut", pr |-> "dOutPr", sqd |-> "dSqOut", sq |-> "dOutSq"], "maeOutOut")
  \o << Cmd("add", <<"dRegulated", "maeOutOut">>, <<"dKerrOut">>, <<>>), Copy("dKerrOut", "dPrecond") >>
  \o MaestroBackCommands(b.maestroIn, "dPrecond", "actIn", "sqIn", "input",
       [act |-> "dActIn", pr |-> "dInPr", sqd |-> "dSqIn", sq |-> "dInSq"], "maeInOut")
  \o << Cmd("add", <<"dPrecond", "maeInOut">>, <<"dInput">>, <<>>) >>

GradBuffers == {"dOp", "dOutPr", "dOutSq", "dInPr", "dInSq"}

(***************************************************************************)
(* Operations that go back to the host between their kernels.              *)
(***************************************************************************)
Project(l, x, to) == Cmd("matvec", <<x, x>>, <<to>>, l)

HeadsCommands(c) == << Project(c.attn, "x", "qkvRows"), Cmd("heads", <<"qkvRows", "x">>, <<"o">>, c), Project(c.proj, "o", "y") >>

PerBandCommands(p) == << Cmd("ownBands", <<"x", "x">>, <<"o">>, p), Project(p.out, "o", "y") >>

KerrMaestroCommands(b) ==
  << Cmd("deinterleave", <<"x", "x">>, <<"z">>, <<>>) >> \o OdeCommands(b.kerr)
  \o << Cmd("reinterleave", <<"z", "z">>, <<"kerrOut">>, <<>>) >>
  \o MaestroCommands(b.maestro, "x", "sq", "act", "mae")
  \o << Cmd("add", <<"kerrOut", "mae">>, <<"o">>, <<>>), Project(b.out, "o", "y") >>

(***************************************************************************)
(* Attention taken back in two kernels.                                    *)
(***************************************************************************)
AttentionCommands(c) ==
  << Cmd("scores", <<"dOut", "qkv">>, <<"score">>, c), Cmd("dq", <<"score", "qkv">>, <<"dQ">>, c),
     Cmd("dkv", <<"score", "qkv", "dOut">>, <<"dK", "dV">>, c) >>
=============================================================================
