------------------------------ MODULE GpuPass ------------------------------
(***************************************************************************)
(* The wgpu tier at work: an operation is one or more calls, a call        *)
(* uploads its inputs, submits one command list and reads buffers back.    *)
(* Buffers outlive a call where the operation keeps them: the feed-forward *)
(* layer runs forward and back, twice, over one set, and an allocation     *)
(* starts as zeros only the first time.                                    *)
(*                                                                         *)
(* job   [kind, n, chi, steps, seed, T, groups, beyond]; beyond is what a  *)
(*       read behind the end of a buffer gives: "zero" or the "last" entry *)
(* todo  the calls left; mem the device's memory; queue the commands not   *)
(*       yet run; out what each call read back                             *)
(***************************************************************************)
EXTENDS Gpu

CONSTANT GpuJobs

VARIABLES job, todo, pc, mem, queue, out

vars == <<job, todo, pc, mem, queue, out>>

n == job.n
W == [Weights(n, job.seed, job.chi, job.steps) EXCEPT !.mix = Sixths,
        !.alpha = IF job.kind = "perturb" /\ ~job.chi THEN Zero ELSE @,
        !.beta  = IF job.kind = "perturb" /\ ~job.chi THEN Zero ELSE @]

Rows(tag)  == Grid(job.T, 2 * n, LAMBDA pos, i : Noise(job.seed, tag + pos, i))
BandRows(tag) == Each(Rows(tag), Bands)
Map(rows, cols, tag) == [w |-> Grid(rows, cols, LAMBDA i, j : Noise(job.seed, tag, 10 * i + j)),
                         b |-> Table([i \in 0 .. rows - 1 |-> Noise(job.seed, tag + 1, i)])]
Maestro(tag) == [squeeze |-> Map(2, 2 * n, tag), process |-> Map(2 * n, 2, tag + 2)]
Block == [maestroIn |-> Maestro(40), maestroOut |-> Maestro(50), kerr |-> W,
          outProj |-> [groups |-> Table([g \in 0 .. job.groups - 1 |->
                         Map((2 * n) \div job.groups, (2 * n) \div job.groups, 60 + 2 * g)])]]
Causal   == [attn |-> Map(6 * n, 2 * n, 70), proj |-> Map(2 * n, 2 * n, 72), nHead |-> 2]
Qkv      == SplitQkv(Causal, Rows(10))
AttnConst == [nHead |-> Causal.nHead, att |-> CausalWeights(Causal, Qkv)]
PerBand  == [band |-> Table([k \in 0 .. n - 1 |-> Map(2, 2, 100 + k).w]),
             bias |-> Table([k \in 0 .. n - 1 |-> Map(2, 2, 100 + k).b]), out |-> Map(2 * n, 2 * n, 110)]
OneMaestro == [kerr |-> W, maestro |-> Maestro(40), out |-> Map(2 * n, 2 * n, 112)]
Norm     == [w |-> Rows(80)[0], b |-> Rows(90)[0]]

(***************************************************************************)
(* The calls of each operation.  Which parameters a buffer gets is decided *)
(* where it is made: the fused forward and the resident chain upload       *)
(* alpha, beta and chi, the reverse pass and the layer's only two.         *)
(***************************************************************************)
OdeBuffers(ab) ==
  ("gamma" :> Table(Gamma(W))) @@ ("omega" :> W.omega) @@ ("ab" :> ab)
  @@ ("beyond" :> IF job.beyond = "zero" THEN Zero ELSE ab[Len(ab)])

ThreeParams == <<W.alpha, W.beta, W.chi>>
TwoParams   == <<W.alpha, W.beta>>

Call(up, program, read) == [up |-> up, program |-> program, read |-> read]

ForwardCall == Call(OdeBuffers(ThreeParams) @@ ("z" :> BandRows(10)), OdeCommands(W), {"z"})

NoRows   == Table([pos \in 0 .. job.T - 1 |-> Vec(n, Zero)])
BackwardCall ==
  Call(OdeBuffers(TwoParams) @@ ("z" :> BandRows(10)) @@ ("d" :> BandRows(20))
         @@ ("zero" :> Table([pos \in 0 .. job.T - 1 |-> Vec(n, C0)]))
         @@ ("dgAcc" :> NoRows) @@ ("dabAcc" :> <<NoRows, NoRows>>) @@ ("dchiAcc" :> NoRows),
       OdeBackwardCommands(W), {"d", "dgAcc", "dabAcc", "dchiAcc"})

(* One step or less is answered in closed form, unless there is mixing.    *)
PerturbCall ==
  IF W.chi[1] # 0 THEN ForwardCall
  ELSE Call("z" :> BandRows(10),
            << Cmd("perturbative", <<"z", "z">>, <<"z">>,
                   [decay |-> [k \in 0 .. n - 1 |-> Exp(Neg(Softplus(W.gammaRaw[k])))],
                    cos |-> [k \in 0 .. n - 1 |-> Cos(W.omega[k])], sin |-> [k \in 0 .. n - 1 |-> Sin(W.omega[k])],
                    alpha |-> W.alpha, beta |-> W.beta]) >>, {"z"})

Layer(ab, x, project) == Call(OdeBuffers(ab) @@ ("input" :> x), FfnCommands(Block, project), {"output"})

ZeroMap(l) == [w |-> Grid(Size(l.w), Size(l.w[0]), LAMBDA i, j : Zero), b |-> Vec(Size(l.b), Zero)]

(* Mutant: the accumulators are cleared when allocated, not per call.      *)
ZeroedGradsOnce(round) ==
  IF round = 1 THEN ("dOp" :> ZeroMap(Block.outProj.groups[0]))
                      @@ ("dOutPr" :> ZeroMap(Block.maestroOut.process)) @@ ("dOutSq" :> ZeroMap(Block.maestroOut.squeeze))
                      @@ ("dInPr" :> ZeroMap(Block.maestroIn.process)) @@ ("dInSq" :> ZeroMap(Block.maestroIn.squeeze))
  ELSE <<>>

ZeroedGrads(round) ==
  ("dOp" :> ZeroMap(Block.outProj.groups[0]))
  @@ ("dOutPr" :> ZeroMap(Block.maestroOut.process)) @@ ("dOutSq" :> ZeroMap(Block.maestroOut.squeeze))
  @@ ("dInPr" :> ZeroMap(Block.maestroIn.process)) @@ ("dInSq" :> ZeroMap(Block.maestroIn.squeeze))

LayerBack(d, round) ==
  Call(("dOutput" :> d) @@ ZeroedGrads(round), FfnBackwardCommands(Block), {"dInput"} \cup GradBuffers)

Transposed(l) == [w |-> Grid(Size(l.w[0]), Size(l.w), LAMBDA j, i : l.w[i][j]), b |-> Vec(Size(l.w[0]), Zero)]

Calls ==
  CASE job.kind = "forward"  -> <<ForwardCall>>
    [] job.kind = "backward" -> <<BackwardCall>>
    [] job.kind = "perturb"  -> <<PerturbCall>>
    [] job.kind = "layer"    -> << Layer(TwoParams, Rows(10), "matvec"), LayerBack(Rows(20), 1),
                                   Layer(TwoParams, Rows(30), "matvec"), LayerBack(Rows(25), 2) >>
    [] job.kind = "chain"    -> << Layer(ThreeParams, Rows(10), "matvec"), Layer(ThreeParams, Rows(30), "matvec") >>
    [] job.kind = "fallback" -> << Layer(ThreeParams, Rows(10), "blockDiag") >>
    [] job.kind = "attention" -> << Call(("dOut" :> Rows(20)) @@ ("qkv" :> Qkv), AttentionCommands(AttnConst), {"dQ", "dK", "dV"}) >>
    [] job.kind = "linear"   -> << Call("d" :> Rows(20), <<Cmd("matvec", <<"d", "d">>, <<"dx">>, Transposed(Causal.proj))>>, {"dx"}) >>
    [] job.kind = "norm"     -> [i \in 1 .. job.T |->
         Call(("d" :> [pos \in {0} |-> Rows(20)[i - 1]]) @@ ("x" :> [pos \in {0} |-> Rows(10)[i - 1]]),
              <<Cmd("normBackward", <<"d", "x">>, <<"parts">>, Norm)>>, {"parts"})]
    [] job.kind = "heads"    -> << Call("x" :> Rows(10), HeadsCommands(Causal), {"y"}) >>
    [] job.kind = "perBand"  -> << Call("x" :> Rows(10), PerBandCommands(PerBand), {"y"}) >>
    [] job.kind = "oneMaestro" -> << Call(OdeBuffers(ThreeParams) @@ ("x" :> Rows(10)), KerrMaestroCommands(OneMaestro), {"y"}) >>
    [] job.kind = "legacy"   -> <<>>

Init ==
  /\ job \in GpuJobs
  /\ todo = Calls
  /\ pc = "idle"
  /\ mem = <<>>
  /\ queue = <<>>
  /\ out = <<>>

Submit ==
  /\ pc = "idle" /\ todo # <<>>
  /\ mem' = todo[1].up @@ mem
  /\ queue' = todo[1].program
  /\ pc' = "running"
  /\ UNCHANGED <<job, todo, out>>

(* Commands of a list run one after the other, whatever threads each has.  *)
Execute(op) ==
  /\ pc = "running" /\ queue # <<>>
  /\ queue[1].op = op
  /\ mem' = Run(mem, queue[1])
  /\ queue' = Tail(queue)
  /\ UNCHANGED <<job, todo, pc, out>>

Readback ==
  /\ pc = "running" /\ queue = <<>>
  /\ out' = Append(out, [b \in todo[1].read |-> mem[b]])
  /\ todo' = Tail(todo)
  /\ pc' = IF Len(todo) = 1 THEN "done" ELSE "idle"
  /\ UNCHANGED <<job, mem, queue>>

(* The backend that has no such kernel answers on the host.                *)
OnHost ==
  /\ pc = "idle" /\ todo = <<>>
  /\ out' = [pos \in 0 .. job.T - 1 |-> KerrOdeBackward(W, BandRows(10)[pos], BandRows(20)[pos])]
  /\ pc' = "done"
  /\ UNCHANGED <<job, todo, mem, queue>>

Next == Submit \/ Readback \/ OnHost \/ \E op \in Kernels : Execute(op)

Spec == Init /\ [][Next]_vars

-----------------------------------------------------------------------------
(* What the host makes of the buffers it read: sums over positions, and    *)
(* gamma's gradient through the softplus.                                  *)
Gathered ==
  LET r == out[1]
  IN  [d |-> r["d"],
       gamma |-> ToRaw(W, [gamma |-> SumBatch(r["dgAcc"])]).gamma,
       alpha |-> Sum0(SumBatch(r["dabAcc"][1])), beta |-> Sum0(SumBatch(r["dabAcc"][2])),
       chi   |-> Sum0(SumBatch(r["dchiAcc"]))]

Reference == Table([pos \in 0 .. job.T - 1 |-> Table(OdeBackward(W, OdeForward(W, BandRows(10)[pos]), BandRows(20)[pos]))])
RefSum(F(_)) == Sum0([pos \in 0 .. job.T - 1 |-> F(Reference[pos].acc)])

(* The reverse pass reads chi behind the end of its buffer when it derives *)
(* the slopes again; only where that read is harmless are they the         *)
(* forward's.                                                              *)
SlopesRight == n <= 4 \/ (~job.chi /\ job.beyond = "zero")

(* A feed-forward layer or an integration run as kernels over buffers, one *)
(* thread gathering per band, gives what the CPU's loops give, and in a    *)
(* second call over the same buffers as well.                              *)
GpuForwardAgrees ==
  pc = "done" =>
    /\ job.kind = "forward" => out[1]["z"] = Each(BandRows(10), LAMBDA z : OdeForward(W, z).z)
    /\ job.kind = "perturb" /\ job.chi => out[1]["z"] = Each(BandRows(10), LAMBDA z : OdeForward(W, z).z)
    /\ job.kind = "perturb" /\ ~job.chi =>
         out[1]["z"] = Each(BandRows(10), LAMBDA z : [k \in DOMAIN z |->
           CMul(CScale(Exp(Neg(Softplus(W.gammaRaw[k]))), z[k]), <<Cos(W.omega[k]), Sin(W.omega[k])>>)])
    /\ job.kind \in {"chain", "fallback"} \/ (job.kind = "layer" /\ SlopesRight) =>
         out[1]["output"] = KerrDualMaestroAdd(Block, Rows(10))
    /\ job.kind = "chain" => out[2]["output"] = KerrDualMaestroAdd(Block, Rows(30))
    /\ job.kind = "heads" => out[1]["y"] = CausalAttention(Causal, Rows(10))
    /\ job.kind = "perBand" => out[1]["y"] = PerBandLinear(PerBand, Rows(10))
    /\ job.kind = "oneMaestro" => out[1]["y"] = KerrMaestroAdd(OneMaestro, Rows(10))
    /\ job.kind = "layer" /\ SlopesRight => out[3]["output"] = KerrDualMaestroAdd(Block, Rows(30))

(* The reverse passes on the device give the host's gradients: the ODE's   *)
(* (beta's apart), the layer's for each call on its own, attention's where *)
(* each key gathers from its queries, a layer norm's position by position; *)
(* and the older pass on the host gives them where nothing it leaves out   *)
(* is there.                                                               *)
LayerDims == [nBands |-> n, steps |-> job.steps, learnOde |-> FALSE, odePathway |-> FALSE,
              splitBand |-> FALSE, corrector |-> FALSE]
HostLayer(x, d) ==
  Given(FfnBackward(LayerDims, Block, FfnForward(LayerDims, Block, x), x, d), LAMBDA b :
    ("dInput" :> b.x) @@ ("dOp" :> b.outProj)
    @@ ("dOutPr" :> b.maestroOut.process) @@ ("dOutSq" :> b.maestroOut.squeeze)
    @@ ("dInPr" :> b.maestroIn.process) @@ ("dInSq" :> b.maestroIn.squeeze))

GpuBackwardAgrees ==
  pc = "done" =>
    /\ job.kind = "backward" /\ SlopesRight =>
         /\ \A pos \in DOMAIN Reference : Gathered.d[pos] = Reference[pos].d
         /\ Gathered.gamma = ToRaw(W, [gamma |-> SumBatch([pos \in DOMAIN Reference |-> Reference[pos].acc.gamma])]).gamma
         /\ Gathered.alpha = RefSum(LAMBDA a : a.alpha)
         /\ Gathered.chi = RefSum(LAMBDA a : a.chi)
    /\ job.kind = "layer" /\ SlopesRight =>
         out[2] = HostLayer(Rows(10), Rows(20)) /\ out[4] = HostLayer(Rows(30), Rows(25))
    /\ job.kind = "attention" =>
         LET g == CausalAttentionBackward(Causal, Qkv, AttnConst.att, Rows(20))
         IN  out[1] = [b \in {"dQ", "dK", "dV"} |-> CASE b = "dQ" -> g.q [] b = "dK" -> g.k [] b = "dV" -> g.v]
    /\ job.kind = "linear" => out[1]["dx"] = Each(Rows(20), LAMBDA v : LinearBackwardDx(Causal.proj.w, v))
    /\ job.kind = "norm" => \A i \in 1 .. job.T : out[i]["parts"][0] = LayerNormBackward(Norm, Rows(20)[i - 1], Rows(10)[i - 1])
    /\ job.kind = "legacy" /\ ~job.chi =>
         \A pos \in DOMAIN out :
           /\ out[pos].d = Reference[pos].d
           /\ [out[pos].acc EXCEPT !.mix = 0] = [ToRaw(W, Reference[pos].acc) EXCEPT !.mix = 0]

(* As documented, the last but one number the reverse pass returns is      *)
(* beta's gradient.                                                        *)
GpuBetaGradient ==
  pc = "done" /\ job.kind = "backward" /\ SlopesRight => Gathered.beta = RefSum(LAMBDA a : a.beta)
=============================================================================
