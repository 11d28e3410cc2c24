------------------------------ MODULE CudaOde ------------------------------
(***************************************************************************)
(* The candle tier's CUDA op (candle_tier/cuda_ode.rs): a forward kernel   *)
(* that integrates a row and leaves the state of every step on the device, *)
(* and a reverse kernel that recomputes the slopes from it.  A block has   *)
(* one thread per band; its threads share three rows (intensity, state and *)
(* incoming gradient) and meet at barriers, so a kernel is a list of       *)
(* segments between barriers, and within a segment threads run in any      *)
(* order.  Blocks share nothing; they are taken one after the other here.  *)
(* The gain control in front of the integration is compiled in, but the    *)
(* model passes no ceiling (f32::MAX) and it changes nothing.              *)
(*                                                                         *)
(* Jobs  [n, chi, steps, rows, seed, dev], dev "cuda", "cpu" (the op on    *)
(*       the host) or "none" (a reverse pass without a forward one)        *)
(***************************************************************************)
EXTENDS Kerr

CONSTANT Jobs

ASSUME CudaOdeAssumption == \A j \in Jobs : j.n \in Nat /\ j.steps \in Nat

VARIABLES
  job,
  stage,     \* "idle", "fwd", "between", "bwd", "reduce", "done" or "error"
  pos,       \* the block that runs
  pc,        \* thread -> the segment it runs next
  reg,       \* thread -> its registers
  shared,    \* [mag, z, g]: the rows the threads share
  cache,     \* position -> step -> row, kept on the device
  out,       \* position -> the forward kernel's row
  grads      \* position -> what the reverse kernel writes

vars == <<job, stage, pos, pc, reg, shared, cache, out, grads>>

n       == job.n
Threads == 0 .. n - 1
w       == Weights(n, job.seed, job.chi, job.steps)
gamma   == Table(Gamma(w))
dt      == StepOf(w)
Input(p)   == Row(n, job.seed, 10 + p)
OutGrad(p) == Row(n, job.seed, 20 + p)

-----------------------------------------------------------------------------
(* The kernels as segments [do, i, s]: what is done, for which slope, in   *)
(* which step.                                                             *)
Seg(do, i, s) == [do |-> do, i |-> i, s |-> s]

StepSegments(s) == [j \in 1 .. 8 |-> Seg(IF j % 2 = 1 THEN "load" ELSE "eval", (j + 1) \div 2, s)]
BackSegments(s) == [j \in 1 .. 8 |-> Seg(IF j % 2 = 1 THEN "push" ELSE "gather", 4 - (j - 1) \div 2, s)]
SumSegments     == [j \in 1 .. 21 |-> Seg(<<"zero", "add", "take">>[((j - 1) % 3) + 1], ((j - 1) \div 3) + 1, 0)]

Forward ==
  LET f[s \in 0 .. job.steps] == IF s = 0 THEN <<>> ELSE f[s - 1] \o StepSegments(s) IN f[job.steps] \o <<Seg("store", 0, 0)>>

Reverse ==
  LET f[s \in 0 .. job.steps] == IF s = 0 THEN <<>> ELSE StepSegments(s) \o BackSegments(s) \o f[s - 1]
  IN  f[job.steps] \o SumSegments

Program == IF stage = "fwd" THEN Forward ELSE Reverse

Running    == {k \in Threads : stage \in {"fwd", "bwd"} /\ pc[k] <= Len(Program)}
Segment(k) == Program[pc[k]]

(* Mutant: no barrier between reading the neighbours and writing the next  *)
(* point.                                                                  *)
BarrierBeforeReadOnly(seg) == seg.do \notin {"eval", "gather"}

BarrierAfter(seg) == seg.do # "store"

(* A thread may enter a segment when no thread is still before a barrier   *)
(* the thread has passed.                                                  *)
CanRun(k) ==
  /\ k \in Running
  /\ \A j \in Threads : \A i \in pc[j] .. pc[k] - 1 : ~BarrierAfter(Program[i])

-----------------------------------------------------------------------------
(* What a thread computes from the shared rows.                            *)
NearOf(k) == {j \in Threads : j # k /\ j - k \in -2 .. 2}

SharedSum(k) == SumTo(n, [j \in Threads |-> IF j \in NearOf(k) THEN shared.mag[j] ELSE Zero])

(* The quartets band k plays in, by their place in the code's two families. *)
Roles(k) == {j \in 1 .. Len(Quartets(n)) : \E i \in 1 .. 4 : Quartets(n)[j][i] = k}
PartOf(k, q) == CHOOSE i \in 1 .. 4 : q[i] = k

MixBand(k) ==      \* compute_fwm_band
  CSumTo(Len(Quartets(n)), [j \in 0 .. Len(Quartets(n)) - 1 |->
    IF j + 1 \in Roles(k) THEN LET q == Quartets(n)[j + 1] IN QuartetFlow(w.chi, shared.z, q)[PartOf(k, q)] ELSE C0])

(* Mutant: every band of a quartet counts it for chi.                      *)
CountsChiEvery(k, q) == TRUE

CountsChi(k, q) == PartOf(k, q) = 1

MixBandBackward(k) ==      \* compute_fwm_band_backward
  LET qs == Quartets(n)
  IN  [z |-> CSumTo(Len(qs), [j \in 0 .. Len(qs) - 1 |->
               IF j + 1 \in Roles(k) THEN QuartetBackward(w.chi, shared.z, shared.g, qs[j + 1])[PartOf(k, qs[j + 1])] ELSE C0]),
       chi |-> SumTo(Len(qs), [j \in 0 .. Len(qs) - 1 |->
               IF j + 1 \in Roles(k) /\ CountsChi(k, qs[j + 1]) THEN ChiGrad(shared.z, shared.g, qs[j + 1]) ELSE Zero])]

PhiOf(k, ns) == w.omega[k] (+) (w.alpha (.) shared.mag[k]) (+) (w.beta (.) ns)

(* The point of slope i from the row the step started at.                  *)
PointOf(r, i) == IF i = 1 THEN r.z ELSE CAdd(r.z, CScale(IF i = 4 THEN dt ELSE Half (.) dt, r.ks[i - 1]))

Combined(r) ==
  CAdd(r.z, CScale(dt, CAdd(CAdd(CScale(w.mix[0], r.ks[1]), CScale(w.mix[1], r.ks[2])),
                            CAdd(CScale(w.mix[2], r.ks[3]), CScale(w.mix[3], r.ks[4])))))

Registers(k, z, d) ==
  [z |-> z, at |-> <<C0, C0, C0, C0>>, ks |-> <<C0, C0, C0, C0>>, ns |-> <<Zero, Zero, Zero, Zero>>,
   phi |-> <<Zero, Zero, Zero, Zero>>, d |-> d, dk |-> <<C0, C0, C0, C0>>,
   gamma |-> Zero, alpha |-> Zero, beta |-> Zero, chi |-> Zero, mix |-> Vec(4, Zero)]

-----------------------------------------------------------------------------
(* The segments.                                                           *)
Advance(k) == pc' = [pc EXCEPT ![k] = @ + 1]

Do(k, do) == CanRun(k) /\ Segment(k).do = do /\ Advance(k) /\ UNCHANGED <<job, stage, pos>>

Load(k) ==
  LET i == Segment(k).i
      s == Segment(k).s
      r == [reg[k] EXCEPT !.z = IF stage = "bwd" /\ i = 1 THEN cache[pos][s][k] ELSE @]
      p == Table(PointOf(r, i))
  IN  /\ Do(k, "load")
      /\ reg' = [reg EXCEPT ![k] = [r EXCEPT !.at[i] = p]]
      /\ shared' = [shared EXCEPT !.mag[k] = Mag(p), !.z[k] = p]
      /\ cache' = IF stage = "fwd" /\ i = 1 THEN [cache EXCEPT ![pos][s][k] = r.z] ELSE cache
      /\ UNCHANGED <<out, grads>>

Eval(k) ==
  LET i   == Segment(k).i
      r   == reg[k]
      ns  == SharedSum(k)
      phi == PhiOf(k, ns)
      own == CAdd(CScale(Neg(gamma[k]), r.at[i]), CScale(phi, CTurn(r.at[i])))
      r2  == [r EXCEPT !.ks[i] = Table(IF Mixes(n, w) THEN CAdd(own, MixBand(k)) ELSE own), !.ns[i] = ns, !.phi[i] = phi]
  IN  /\ Do(k, "eval")
      /\ reg' = [reg EXCEPT ![k] = IF stage = "fwd" /\ i = 4 THEN [r2 EXCEPT !.z = Combined(r2)] ELSE r2]
      /\ UNCHANGED <<shared, cache, out, grads>>

Store(k) ==
  /\ Do(k, "store")
  /\ out' = [out EXCEPT ![pos][k] = reg[k].z]
  /\ UNCHANGED <<reg, shared, cache, grads>>

(* Before the fourth slope is taken back, the step's gradient is split     *)
(* over the four.                                                          *)
Push(k) ==
  LET i == Segment(k).i
      r == IF i = 4 THEN [reg[k] EXCEPT !.dk = [j \in 1 .. 4 |-> CScale(dt (.) w.mix[j - 1], reg[k].d)],
                                        !.mix = [j \in 0 .. 3 |-> @[j] (+) (dt (.) CDot(reg[k].d, reg[k].ks[j + 1]))]]
           ELSE reg[k]
  IN  /\ Do(k, "push")
      /\ reg' = [reg EXCEPT ![k] = r]
      /\ shared' = [shared EXCEPT !.z[k] = r.at[i], !.g[k] = r.dk[i]]
      /\ UNCHANGED <<cache, out, grads>>

Gather(k) ==
  LET i    == Segment(k).i
      r    == reg[k]
      p    == r.at[i]
      g    == r.dk[i]
      t    == SpeedGrad(shared.g, shared.z, k)
      near == SumTo(n, [j \in Threads |-> IF j \in NearOf(k) THEN SpeedGrad(shared.g, shared.z, j) ELSE Zero])
      own  == CAdd(CAdd(CScale(Neg(gamma[k]), g), CScale(r.phi[i], CBack(g))),
                   CScale(Two (.) ((w.alpha (.) t) (+) (w.beta (.) near)), p))
      mix  == IF Mixes(n, w) THEN MixBandBackward(k) ELSE [z |-> C0, chi |-> Zero]
      e    == Table(CAdd(own, mix.z))
  IN  /\ Do(k, "gather")
      /\ reg' = [reg EXCEPT ![k] =
                   [r EXCEPT !.d = CAdd(@, e),
                             !.dk = IF i = 1 THEN @ ELSE [@ EXCEPT ![i - 1] = CAdd(@, CScale(IF i = 4 THEN dt ELSE Half (.) dt, e))],
                             !.gamma = @ (-) CDot(g, p), !.alpha = @ (+) (Mag(p) (.) t),
                             !.beta = @ (+) (r.ns[i] (.) t), !.chi = @ (+) mix.chi]]
      /\ UNCHANGED <<shared, cache, out, grads>>

(* The seven sums over the block: alpha, beta, chi, the four RK4 weights.  *)
Summand(r, j) == <<r.alpha, r.beta, r.chi, r.mix[0], r.mix[1], r.mix[2], r.mix[3]>>[j]

Zero1(k) ==      \* the first also writes what needs no sum
  LET j == Segment(k).i IN
  /\ Do(k, "zero")
  /\ shared' = IF k = 0 THEN [shared EXCEPT !.mag[0] = Zero] ELSE shared
  /\ grads' = IF j = 1
              THEN [grads EXCEPT ![pos].d[k] = reg[k].d,
                                 ![pos].gamma[k] = reg[k].gamma (.) <<Opaque(2, w.gammaRaw[k][1]), 0>>]
              ELSE grads
  /\ UNCHANGED <<reg, cache, out>>

AtomicAdd(k) ==
  /\ Do(k, "add")
  /\ shared' = [shared EXCEPT !.mag[0] = @ (+) Summand(reg[k], Segment(k).i)]
  /\ UNCHANGED <<reg, cache, out, grads>>

TakeSum(k) ==
  /\ Do(k, "take")
  /\ grads' = IF k = 0 THEN [grads EXCEPT ![pos].sums[Segment(k).i] = shared.mag[0]] ELSE grads
  /\ UNCHANGED <<reg, shared, cache, out>>

-----------------------------------------------------------------------------
(* The host.                                                               *)
Rows == 1 .. job.rows

Init ==
  /\ job \in Jobs
  /\ stage = "idle" /\ pos = 1
  /\ pc = [k \in Threads |-> 1]
  /\ reg = [k \in Threads |-> Registers(k, C0, C0)]
  /\ shared = [mag |-> Vec(n, Zero), z |-> Vec(n, C0), g |-> Vec(n, C0)]
  /\ cache = <<>> /\ out = <<>> /\ grads = <<>>

Launch(p, z, d) ==
  /\ pos' = p
  /\ pc' = [k \in Threads |-> 1]
  /\ reg' = [k \in Threads |-> Registers(k, z[k], d[k])]
  /\ UNCHANGED <<job, shared>>

CudaFwd ==
  /\ stage = "idle" /\ job.dev = "cuda"
  /\ stage' = "fwd"
  /\ cache' = [p \in Rows |-> [s \in 1 .. job.steps |-> Vec(n, C0)]]
  /\ out' = [p \in Rows |-> Vec(n, C0)]
  /\ Launch(1, Input(1), Vec(n, C0))
  /\ UNCHANGED grads

CudaBwd ==
  /\ stage = "between" /\ job.dev = "cuda"
  /\ stage' = "bwd"
  /\ grads' = [p \in Rows |-> [d |-> Vec(n, C0), gamma |-> Vec(n, Zero), sums |-> [j \in 1 .. 7 |-> Zero]]]
  /\ Launch(1, Vec(n, C0), OutGrad(1))
  /\ UNCHANGED <<cache, out>>

BlockDone ==
  /\ stage \in {"fwd", "bwd"} /\ Running = {}
  /\ IF pos < job.rows
     THEN /\ Launch(pos + 1, IF stage = "fwd" THEN Input(pos + 1) ELSE Vec(n, C0),
                             IF stage = "fwd" THEN Vec(n, C0) ELSE OutGrad(pos + 1))
          /\ UNCHANGED stage
     ELSE /\ stage' = IF stage = "fwd" THEN "between" ELSE "reduce"
          /\ UNCHANGED <<job, pos, pc, reg, shared>>
  /\ UNCHANGED <<cache, out, grads>>

(* The op's host fallback keeps the common cache instead.                  *)
CpuFwd ==
  /\ stage = "idle" /\ job.dev = "cpu"
  /\ stage' = "between"
  /\ cache' = [p \in Rows |-> OdeForward(w, Input(p))]
  /\ out' = [p \in Rows |-> cache'[p].z]
  /\ UNCHANGED <<job, pos, pc, reg, shared, grads>>

(* Sums over positions, left in the training loop's shared cell.           *)
Accumulated(per) ==
  [d |-> [p \in Rows |-> per[p].d],
   gamma |-> Table([k \in Threads |-> Total([p \in Rows |-> per[p].gamma[k]])]),
   sums |-> [j \in 1 .. 7 |-> Total([p \in Rows |-> per[p].sums[j]])]]

AsWritten(b) ==
  [d |-> b.d, gamma |-> ToRaw(w, b.acc).gamma,
   sums |-> <<b.acc.alpha, b.acc.beta, b.acc.chi, b.acc.mix[0], b.acc.mix[1], b.acc.mix[2], b.acc.mix[3]>>]

CpuBwd ==
  /\ stage = "between" /\ job.dev = "cpu"
  /\ stage' = "done"
  /\ grads' = Accumulated([p \in Rows |-> AsWritten(OdeBackward(w, cache[p], OutGrad(p)))])
  /\ UNCHANGED <<job, pos, pc, reg, shared, cache, out>>

Reduce ==
  /\ stage = "reduce"
  /\ stage' = "done"
  /\ grads' = Accumulated(grads)
  /\ UNCHANGED <<job, pos, pc, reg, shared, cache, out>>

NoCache ==      \* "ODE backward called without forward cache"
  /\ stage = "idle" /\ job.dev = "none"
  /\ stage' = "error"
  /\ UNCHANGED <<job, pos, pc, reg, shared, cache, out, grads>>

Finished ==
  /\ stage \in {"done", "error"}
  /\ UNCHANGED vars

Next ==
  \/ Finished
  \/ CudaFwd \/ CudaBwd \/ BlockDone \/ CpuFwd \/ CpuBwd \/ Reduce \/ NoCache
  \/ \E k \in Threads : Load(k) \/ Eval(k) \/ Store(k) \/ Push(k) \/ Gather(k) \/ Zero1(k) \/ AtomicAdd(k) \/ TakeSum(k)

Spec == Init /\ [][Next]_vars

-----------------------------------------------------------------------------
(* The cells of the shared rows a thread touches in a segment.             *)
Touched(k, rows) == {<<row, j>> : row \in rows, j \in NearOf(k) \cup {k} \cup
                       (IF Mixes(n, w) THEN UNION {{Quartets(n)[r][i] : i \in 1 .. 4} : r \in Roles(k)} ELSE {})}

Reads(k) ==
  CASE Segment(k).do = "eval"   -> Touched(k, {"mag", "z"})
    [] Segment(k).do = "gather" -> Touched(k, {"z", "g"})
    [] Segment(k).do = "take"   -> IF k = 0 THEN {<<"mag", 0>>} ELSE {}
    [] OTHER -> {}

Writes(k) ==
  CASE Segment(k).do = "load" -> {<<"mag", k>>, <<"z", k>>}
    [] Segment(k).do = "push" -> {<<"z", k>>, <<"g", k>>}
    [] Segment(k).do = "zero" -> IF k = 0 THEN {<<"mag", 0>>} ELSE {}
    [] Segment(k).do = "add"  -> {<<"mag", 0>>}
    [] OTHER -> {}

(* Two threads with no barrier between them never touch one shared cell,   *)
(* one of them writing, other than by the atomic addition: the kernels     *)
(* have no data race in any schedule.                                      *)
RaceFree ==
  \A j, k \in Threads :
    j # k /\ CanRun(j) /\ CanRun(k) /\ ~(Segment(j).do = "add" /\ Segment(k).do = "add") =>
      Writes(j) \cap (Reads(k) \cup Writes(k)) = {}

(* However a block's threads are scheduled, the kernels give the row and   *)
(* the gradients of the sequential integration, and so does the fallback.  *)
CudaAgrees ==
  stage = "done" =>
    /\ \A p \in Rows : out[p] = OdeForward(w, Input(p)).z
    /\ grads = Accumulated([p \in Rows |-> AsWritten(OdeBackward(w, OdeForward(w, Input(p)), OutGrad(p)))])
=============================================================================
