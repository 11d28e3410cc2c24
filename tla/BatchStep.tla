----------------------------- MODULE BatchStep -----------------------------
(***************************************************************************)
(* One iteration of cpu/train_loop.rs seen from inside: every element of   *)
(* the batch runs its forward and backward pass on a thread of its own     *)
(* (lines 320-366), and the threads share three things.                    *)
(*                                                                         *)
(*   - the model, which only the main thread changes, after the join;      *)
(*   - the automatic gain control, one mutex-protected OdeAgc for the      *)
(*     whole process (common/ffn.rs, common/agc.rs), which every layer of  *)
(*     every element observes and reads, unless --agc-headroom gives each  *)
(*     thread one per layer;                                               *)
(*   - on a GPU, the pool of weight buffers, keyed by the address of the   *)
(*     weights (wgpu_tier/buffers.rs, wgpu_tier/dispatch_batch.rs).        *)
(*                                                                         *)
(* Weights are named by the optimizer steps they have seen.  A coupling    *)
(* pair (alpha, beta) is kept as the magnitude its ODE is stable up to,    *)
(* sqrt(pi/2 / (alpha + 4 beta)) and at least 0.5, in tenths; a forward    *)
(* pass is the thresholds and weights it used, a gradient the weights it   *)
(* was taken at.  The running mean and deviation behind a threshold are    *)
(* any reading.                                                            *)
(***************************************************************************)
EXTENDS Integers, FiniteSets, FiniteSetsExt

CONSTANTS Elements,      \* the batch indices, one thread each
          NLayers,       \* blocks of the model
          Ceilings,      \* stability limits a coupling pair may have (tenths)
          Configured,    \* the limit of the alpha and beta given on the command line
          CliCeiling,    \* --agc-ceiling in tenths, 0 when it is not given
          Readings,      \* values mean + headroom * deviation may take
          LearnableAttn, \* --learnable-attn
          Devices,       \* subset of {"cpu", "gpu"} to start on
          Headrooms,     \* subset of BOOLEAN: is --agc-headroom active
          Resumes,       \* subset of BOOLEAN: was the model read from a checkpoint
          NIters         \* bound: iterations of the run

Layers == 1..NLayers
Minimum == 5             \* the 0.5 that with_ceiling and update_ceiling insist on

ASSUME BatchStepAssumption ==
  /\ IsFiniteSet(Elements) /\ Elements # {}
  /\ NLayers \in Nat \ {0} /\ NIters \in Nat
  /\ Ceilings \subseteq Nat /\ Configured \in Ceilings
  /\ \A c \in Ceilings : c >= Minimum
  /\ CliCeiling \in Nat /\ (CliCeiling = 0 \/ CliCeiling >= Minimum)
  /\ Readings \subseteq Nat
  /\ LearnableAttn \in BOOLEAN
  /\ Devices \subseteq {"cpu", "gpu"} /\ Headrooms \subseteq BOOLEAN /\ Resumes \subseteq BOOLEAN

VARIABLES device,   \* "cpu" or "gpu", for the whole run
          perLayer, \* TRUE when each thread has an AGC per layer
          resumed,  \* TRUE when the run started from a checkpoint
          iter,     \* train_loop's iter
          main,     \* where the main thread is
          model,    \* steps taken and, per layer, the ODE's stability limit
          agc,      \* the process-wide gain control
          cache,    \* the pool: which out_proj the buffer of a layer holds
          thread    \* the batch threads

vars == <<device, perLayer, resumed, iter, main, model, agc, cache, thread>>

Never == -1
Lesser(a, b) == IF a < b THEN a ELSE b
Greater(a, b) == IF a > b THEN a ELSE b

(* The version of a layer's attention output projection: frozen weights    *)
(* keep the one they started with.                                         *)
OutProj == [l \in Layers |-> [layer |-> l, step |-> IF LearnableAttn THEN model.step ELSE 0]]
NoBuffer == [layer |-> 0, step |-> Never]

----------------------------------------------------------------------------
(* The gain control *)

Floor(ceiling) == Greater((3 * ceiling) \div 10, Minimum)

WithCeiling(c) ==
  LET ceiling == Greater(c, Minimum)
  IN  [ceiling |-> ceiling, threshold |-> Greater((3 * ceiling) \div 4, Minimum)]

(* Magnitudes that are not finite, or twice over the ceiling, are thrown   *)
(* away; when nothing is left the threshold stays.                         *)
Observations(g) ==
  {g} \union {[g EXCEPT !.threshold = Lesser(Greater(x, Floor(g.ceiling)), g.ceiling)] : x \in Readings}

(* Mutant of Effective: the ceiling follows the first block.               *)
OfFirstBlock(physics) ==
  IF CliCeiling = 0 THEN physics[1] ELSE Lesser(physics[1], CliCeiling)

(* update_ceiling_with_max, called with the least limit of all layers, cut *)
(* to --agc-ceiling.                                                       *)
Effective(physics) ==
  LET least == Min({physics[l] : l \in Layers})
  IN  IF CliCeiling = 0 THEN least ELSE Lesser(least, CliCeiling)

UpdateCeiling(g, physics) ==
  [ceiling |-> Effective(physics), threshold |-> Lesser(g.threshold, Effective(physics))]

----------------------------------------------------------------------------
(* The threads of a batch *)

Asleep == [at |-> "asleep", layer |-> 1, reads |-> {}, gains |-> [l \in Layers |-> 0],
           projs |-> [l \in Layers |-> NoBuffer], own |-> [l \in Layers |-> 0], bad |-> FALSE]

(* A thread's own gain controls take their ceiling from the first block.   *)
Spawned == [Asleep EXCEPT !.at = "ffn",
              !.own = [l \in Layers |-> IF perLayer THEN model.physics[1] ELSE 0]]

Spawn ==
  /\ main = "draw" /\ iter < NIters
  /\ main' = "batch"
  /\ thread' = [e \in Elements |-> Spawned]
  /\ UNCHANGED <<device, perLayer, resumed, iter, model, agc, cache>>

(* maestro_in, the gain control, the ODE and the projections of one layer. *)
Ffn(e) ==
  LET t == thread[e]
  IN  /\ main = "batch" /\ t.at = "ffn"
      /\ \E g \in Observations(IF perLayer THEN WithCeiling(t.own[t.layer]) ELSE agc) :
           /\ thread' = [thread EXCEPT ![e] = [t EXCEPT !.at = "attn", !.reads = @ \union {model.step},
                                                        !.gains[t.layer] = g.threshold]]
           /\ agc' = IF perLayer THEN agc ELSE g
      /\ UNCHANGED <<device, perLayer, resumed, iter, main, model, cache>>

(* Mutant of Buffered: the buffers of all layers under one key.            *)
OneBuffer(l) == IF cache[1] = NoBuffer THEN OutProj[l] ELSE cache[1]

(* What the batched projection multiplies by: on a GPU the pool's buffer,  *)
(* filled under the pool's lock the first time an address is met.          *)
Buffered(l) == IF cache[l] = NoBuffer THEN OutProj[l] ELSE cache[l]
Projected(l) == IF device = "gpu" THEN Buffered(l) ELSE OutProj[l]

Attn(e) ==
  LET t == thread[e]
  IN  /\ main = "batch" /\ t.at = "attn"
      /\ thread' = [thread EXCEPT ![e] =
                      [t EXCEPT !.projs[t.layer] = Projected(t.layer),
                                !.reads = @ \union {model.step},
                                !.at = IF t.layer = NLayers THEN "backward" ELSE "ffn",
                                !.layer = IF t.layer = NLayers THEN t.layer ELSE t.layer + 1]]
      /\ cache' = IF device = "gpu" THEN [cache EXCEPT ![t.layer] = Buffered(t.layer)] ELSE cache
      /\ UNCHANGED <<device, perLayer, resumed, iter, main, model, agc>>

(* Loss and gradients, taken at the model's weights; the loss may not be   *)
(* finite.                                                                 *)
Backward(e) ==
  LET t == thread[e]
  IN  /\ main = "batch" /\ t.at = "backward"
      /\ \E bad \in BOOLEAN :
           thread' = [thread EXCEPT ![e] = [t EXCEPT !.at = "done", !.bad = bad, !.reads = @ \union {model.step}]]
      /\ UNCHANGED <<device, perLayer, resumed, iter, main, model, agc, cache>>

----------------------------------------------------------------------------
(* The main thread *)

(* Mutant of Joined: the optimizer does not wait for the last thread.      *)
SomeJoined == \E e \in Elements : thread[e].at = "done"

(* handles.into_iter().map(join): every thread of the scope.               *)
Joined == {e \in Elements : thread[e].at = "done"} = Elements

Join ==
  /\ main = "batch" /\ Joined
  /\ main' = "sample"
  /\ UNCHANGED <<device, perLayer, resumed, iter, model, agc, cache, thread>>

(* With --health-interval (or FWM at iteration 0) the main thread runs a   *)
(* forward pass of its own on the shared gain control, before the loss is  *)
(* looked at; the last reading is what it leaves behind.                   *)
SampleForward ==
  /\ main = "sample"
  /\ main' = "decide"
  /\ agc' \in Observations(agc)
  /\ UNCHANGED <<device, perLayer, resumed, iter, model, cache, thread>>

NoSample ==
  /\ main = "sample"
  /\ main' = "decide"
  /\ UNCHANGED <<device, perLayer, resumed, iter, model, agc, cache, thread>>

BatchIsBad == \E e \in Elements : thread[e].bad

(* Mutant of NextIteration: a bad batch is tried again.                    *)
RetryBatch ==
  /\ main' = "draw"
  /\ iter' = IF BatchIsBad THEN iter ELSE iter + 1

NextIteration ==
  /\ main' = "draw"
  /\ iter' = iter + 1

Skip ==
  /\ main = "decide" /\ BatchIsBad
  /\ NextIteration
  /\ thread' = [e \in Elements |-> Asleep]
  /\ UNCHANGED <<device, perLayer, resumed, model, agc, cache>>

(* The ODE is learned (no --freeze-ode): Adam moves every layer's          *)
(* coupling, and apply_springs sets the shared ceiling from them.  Nothing *)
(* is told to the pool: invalidate_weight_cache has no caller.             *)
Optimise ==
  /\ main = "decide" /\ ~BatchIsBad
  /\ NextIteration
  /\ \E physics \in [Layers -> Ceilings] :
       /\ model' = [step |-> model.step + 1, physics |-> physics]
       /\ agc' = UpdateCeiling(agc, physics)
  /\ thread' = [e \in Elements |-> Asleep]
  /\ UNCHANGED <<device, perLayer, resumed, cache>>

Done == /\ main = "draw" /\ iter = NIters
        /\ UNCHANGED vars

----------------------------------------------------------------------------
(* A new model has the couplings of the command line in every layer, a     *)
(* resumed one those it has learned.  The gain control starts from the     *)
(* command line in both cases.                                             *)
Init ==
  /\ device \in Devices /\ perLayer \in Headrooms /\ resumed \in Resumes
  /\ iter = 0 /\ main = "draw"
  /\ model \in {[step |-> 0, physics |-> p] : p \in [Layers -> Ceilings]}
  /\ resumed \/ \A l \in Layers : model.physics[l] = Configured
  /\ agc = WithCeiling(IF CliCeiling = 0 THEN Configured ELSE CliCeiling)
  /\ cache = [l \in Layers |-> NoBuffer]
  /\ thread = [e \in Elements |-> Asleep]

Worker(e) == Ffn(e) \/ Attn(e) \/ Backward(e)
Main == Spawn \/ Join \/ SampleForward \/ NoSample \/ Skip \/ Optimise

Next == Main \/ (\E e \in Elements : Worker(e)) \/ Done

Spec == Init /\ [][Next]_vars

(* Each thread and the main one are run by the operating system; both      *)
(* locks are held for a bounded time and never one inside the other.       *)
FairSpec == Spec /\ WF_vars(Main) /\ \A e \in Elements : WF_vars(Worker(e))

----------------------------------------------------------------------------
(* Properties *)

Versions == [layer : 0..NLayers, step : {Never} \union (0..NIters)]
Ats == {"asleep", "ffn", "attn", "backward", "done"}

(* The main thread, the batch threads, the shared gain control and the GPU *)
(* pool are in one of their states.                                        *)
TypeOK ==
  /\ device \in {"cpu", "gpu"} /\ perLayer \in BOOLEAN /\ resumed \in BOOLEAN
  /\ iter \in 0..NIters /\ main \in {"draw", "batch", "sample", "decide"}
  /\ model \in [step : 0..iter, physics : [Layers -> Ceilings]]
  /\ agc.ceiling >= Minimum /\ agc.threshold \in Minimum..agc.ceiling
  /\ cache \in [Layers -> Versions]
  /\ thread \in [Elements -> [at : Ats, layer : Layers, reads : SUBSET (0..NIters),
                              gains : [Layers -> Nat], projs : [Layers -> Versions],
                              own : [Layers -> Nat], bad : BOOLEAN]]

(* When the gradients are summed and the optimizer steps, every element's  *)
(* forward and backward pass is finished and was run, in every layer, at   *)
(* the weights the step is applied to: the mean of the batch is a gradient *)
(* of one model.  The attention projections are OneForwardPerBatch's.      *)
GradientsOfOneModel ==
  main \in {"sample", "decide"} =>
    \A e \in Elements : thread[e].reads = {model.step} /\ \A l \in Layers : thread[e].gains[l] > 0

(* Whatever the order of the threads, the health samples and the skipped   *)
(* batches, a magnitude is let through to a layer's ODE unchanged only up  *)
(* to a threshold that layer's own learned coupling is stable at, and      *)
(* never compressed below 0.5.  Two cases of the code are apart:           *)
(* PerLayerWithinPhysics and ResumedWithinPhysics.                         *)
SharedWithinPhysics ==
  ~perLayer /\ (resumed => model.step > 0) =>
    \A e \in Elements, l \in Layers :
      thread[e].gains[l] # 0 => thread[e].gains[l] \in Minimum..model.physics[l]

(* common/ffn.rs:70 of --agc-headroom: "dynamic ceiling tracks learned     *)
(* alpha/beta", for the layer it belongs to.                               *)
PerLayerWithinPhysics ==
  perLayer => \A e \in Elements, l \in Layers :
                thread[e].gains[l] # 0 => thread[e].gains[l] <= model.physics[l]

(* The same of the first batches of a resumed run, whose layers have the   *)
(* couplings of the checkpoint (common/agc.rs, the field max_threshold:    *)
(* the physics ceiling of the ODE).                                        *)
ResumedWithinPhysics ==
  resumed /\ ~perLayer => \A e \in Elements, l \in Layers :
                thread[e].gains[l] # 0 => thread[e].gains[l] <= model.physics[l]

(* The batch computes one function: the forward passes of all its threads  *)
(* project every layer's attention by weights of that layer and of one     *)
(* step of the optimizer, in whatever order the threads of this and of     *)
(* skipped batches met the pool, and whether the attention is learned or   *)
(* frozen.  Without a pool that step is the last one.                      *)
OneForwardPerBatch ==
  \E s \in 0..model.step :
    /\ device = "cpu" /\ LearnableAttn => s = model.step
    /\ \A e \in Elements, l \in Layers :
         thread[e].projs[l] # NoBuffer => thread[e].projs[l] = [layer |-> l, step |-> s]

(* wgpu_tier/buffers.rs:139 of the pool: "Only re-upload after optimizer   *)
(* step invalidates the cache", and common/compute.rs:9: "Call after       *)
(* optimizer step changes weights".  So a forward pass projects a layer's  *)
(* attention by that layer's weights as they are now, on every device.     *)
ForwardUsesModel ==
  \A e \in Elements, l \in Layers :
    thread[e].projs[l] # NoBuffer => thread[e].projs[l] = OutProj[l]

(* No interleaving of threads, locks and skipped batches keeps the run     *)
(* from its end.                                                           *)
BatchesEnd == <>(iter = NIters /\ main = "draw")

=============================================================================
