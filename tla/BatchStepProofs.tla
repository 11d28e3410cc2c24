-------------------------- MODULE BatchStepProofs --------------------------
(***************************************************************************)
(* Proofs about BatchStep, for any number of threads, layers, stability    *)
(* limits, readings and iterations.  The invariant adds to the properties  *)
(* how far a thread has come, that the shared ceiling lies below every     *)
(* layer's limit, and that the pool, once the first batch has filled it,   *)
(* holds every layer's first projection.                                   *)
(***************************************************************************)
EXTENDS BatchStep, WellFoundedInduction, TLAPS

Gain == {g \in [ceiling : Nat, threshold : Nat] : Minimum <= g.threshold /\ g.threshold <= g.ceiling}

Threads == [at : Ats, layer : Layers, reads : SUBSET (0..NIters), gains : [Layers -> Nat],
            projs : [Layers -> Versions], own : [Layers -> Nat], bad : BOOLEAN]

Past == {"attn", "backward", "done"}      \* a thread that left the layer's ODE behind

Progress(t) ==
  /\ t.reads \subseteq {model.step}
  /\ t.at \in Past => model.step \in t.reads
  /\ \A l \in Layers : l < t.layer \/ (t.at \in Past /\ l = t.layer) => t.gains[l] > 0
  /\ t.at \in {"backward", "done"} => t.layer = NLayers

Phases ==
  /\ main = "draw" => thread = [e \in Elements |-> Asleep]
  /\ main # "draw" => iter < NIters
  /\ main \in {"sample", "decide"} => \A e \in Elements : thread[e].at = "done"

(* The manual ceiling, if any, is not above what the command line's        *)
(* coupling is stable at: otherwise it holds until the first step.         *)
ManualIsLower == CliCeiling <= Configured

CeilingBelow ==
  ManualIsLower /\ (resumed => model.step > 0) => \A l \in Layers : agc.ceiling <= model.physics[l]

GainsBelow == ManualIsLower => SharedWithinPhysics

First(l) == [layer |-> l, step |-> 0]     \* a layer's projection before any step

(* The projections a thread has behind it are in the pool, so that no step *)
(* is taken before the pool is full.                                       *)
PoolFirst ==
  /\ device = "cpu" => cache = [l \in Layers |-> NoBuffer]
  /\ \A l \in Layers : cache[l] # NoBuffer => cache[l] = First(l)
  /\ device = "gpu" /\ model.step > 0 => \A l \in Layers : cache[l] # NoBuffer
  /\ device = "gpu" => \A e \in Elements, l \in Layers :
       l < thread[e].layer \/ thread[e].at \in {"backward", "done"} => cache[l] # NoBuffer

Projections ==
  \A e \in Elements, l \in Layers : thread[e].projs[l] # NoBuffer =>
    thread[e].projs[l] = IF device = "gpu" THEN First(l) ELSE OutProj[l]

IInv ==
  /\ TypeOK
  /\ agc \in Gain /\ device \in Devices
  /\ Phases
  /\ \A e \in Elements : Progress(thread[e])
  /\ CeilingBelow
  /\ GainsBelow
  /\ PoolFirst
  /\ Projections

-----------------------------------------------------------------------------
(* The gain control *)

\* Every nonempty set of numbers has a least one, and Min is that.
LEMMA LeastNat ==
  ASSUME NEW S \in SUBSET Nat, S # {}
  PROVE  Min(S) \in S /\ \A y \in S : Min(S) <= y
<1> DEFINE R == {ss \in Nat \X Nat : ss[1] < ss[2]}
<1>1. IsWellFoundedOn(R, Nat)
  BY NatLessThanWellFounded DEF OpToRel
<1>2. \A x, y \in Nat : <<y, x>> \notin R => x <= y
  OBVIOUS
<1> HIDE DEF R
<1>3. \E x \in S : \A y \in S : <<y, x>> \notin R
  BY <1>1, WFMin
<1>4. \E x \in S : \A y \in S : x <= y
  BY <1>2, <1>3
<1> QED
  BY <1>4 DEF Min

\* A model has a first block, and every limit is a number of at least 0.5.
LEMMA Blocks ==
  /\ 1 \in Layers /\ NLayers \in Layers /\ Layers \subseteq Nat
  /\ \A physics \in [Layers -> Ceilings], l \in Layers :
       physics[l] \in Nat /\ physics[l] >= Minimum
<1>1. 1 \in Layers /\ NLayers \in Layers /\ Layers \subseteq Nat
  BY BatchStepAssumption DEF Layers
<1>2. \A c \in Ceilings : c \in Nat /\ c >= Minimum
  BY BatchStepAssumption
<1> QED
  BY <1>1, <1>2

\* A thread that sleeps, and one that starts, has the type of a thread.
LEMMA ThreadTypes ==
  ASSUME perLayer \in BOOLEAN, model.physics \in [Layers -> Ceilings]
  PROVE  Asleep \in Threads /\ Spawned \in Threads
<1>1. NoBuffer \in Versions
  BY BatchStepAssumption DEF NoBuffer, Versions, Never
<1>2. [l \in Layers |-> NoBuffer] \in [Layers -> Versions] /\ [l \in Layers |-> 0] \in [Layers -> Nat]
  BY <1>1
<1>3. Asleep \in Threads
  BY <1>2, Blocks DEF Asleep, Threads, Ats
<1>4. [l \in Layers |-> IF perLayer THEN model.physics[1] ELSE 0] \in [Layers -> Nat]
  BY Blocks
<1> QED
  BY <1>3, <1>4 DEF Spawned, Threads, Ats

\* The ceiling set after a step is below the limit of every layer and never
\* below 0.5 (update_ceiling_with_max).
LEMMA EffectiveBounds ==
  ASSUME NEW physics \in [Layers -> Ceilings]
  PROVE  /\ Effective(physics) \in Nat /\ Effective(physics) >= Minimum
         /\ \A l \in Layers : Effective(physics) <= physics[l]
<1> DEFINE S == {physics[l] : l \in Layers}
<1>1. S \in SUBSET Nat /\ S # {}
  BY Blocks
<1>2. Min(S) \in S /\ \A y \in S : Min(S) <= y
  BY <1>1, LeastNat
<1>3. Min(S) \in Nat /\ Min(S) >= Minimum /\ \A l \in Layers : Min(S) <= physics[l]
  BY <1>2, Blocks
<1> HIDE DEF S
<1>4. Effective(physics) = IF CliCeiling = 0 THEN Min(S) ELSE Lesser(Min(S), CliCeiling)
  BY DEF Effective, S
<1> QED
  BY <1>3, <1>4, BatchStepAssumption, Blocks DEF Lesser, Minimum

\* An observation leaves the ceiling alone and the threshold between 0.5 and it
\* (agc.rs, observe).
LEMMA ObservationBounds ==
  ASSUME NEW g \in Gain, NEW h \in Observations(g)
  PROVE  h \in Gain /\ h.ceiling = g.ceiling
<1>1. CASE h = g
  BY <1>1
<1>2. CASE h # g
  <2>1. PICK x \in Readings :
          h = [g EXCEPT !.threshold = Lesser(Greater(x, Floor(g.ceiling)), g.ceiling)]
    BY <1>2 DEF Observations
  <2>2. x \in Nat /\ Floor(g.ceiling) \in Nat /\ Floor(g.ceiling) >= Minimum
    BY BatchStepAssumption DEF Gain, Floor, Greater, Minimum
  <2> QED
    BY <2>1, <2>2 DEF Gain, Lesser, Greater, Minimum
<1> QED
  BY <1>1, <1>2

\* A gain control made for a ceiling starts between 0.5 and that ceiling
\* (with_ceiling).
LEMMA WithCeilingBounds ==
  ASSUME NEW c \in Nat
  PROVE  WithCeiling(c) \in Gain /\ WithCeiling(c).ceiling = Greater(c, Minimum)
  BY DEF WithCeiling, Gain, Greater, Minimum

-----------------------------------------------------------------------------
\* The invariant holds when training starts.
LEMMA InitIInv ==
  ASSUME Init
  PROVE  IInv
<1> USE DEF Init
<1>1. PICK c \in Nat : agc = WithCeiling(c) /\ (CliCeiling = 0 => c = Configured)
                       /\ (CliCeiling # 0 => c = CliCeiling)
  BY BatchStepAssumption
<1>2. agc \in Gain /\ agc.ceiling = Greater(c, Minimum)
  BY <1>1, WithCeilingBounds
<1>3. PICK p \in [Layers -> Ceilings] : model = [step |-> 0, physics |-> p]
  OBVIOUS
<1>4. TypeOK
  BY <1>2, <1>3, Blocks, BatchStepAssumption
     DEF TypeOK, Gain, Asleep, NoBuffer, Versions, Never, Ats, Minimum
<1>5. Phases
  BY DEF Phases
<1>6. \A e \in Elements : Progress(thread[e])
  BY Blocks DEF Progress, Asleep, Past, Layers
<1>7. CeilingBelow
  BY <1>1, <1>2, <1>3, BatchStepAssumption DEF CeilingBelow, ManualIsLower, Greater, Minimum
<1>8. GainsBelow
  BY DEF GainsBelow, SharedWithinPhysics, Asleep
<1>9. PoolFirst /\ Projections
  <2>1. \A l \in Layers : ~(l < 1)
    BY DEF Layers
  <2> QED
    BY <1>3, <2>1 DEF PoolFirst, Projections, Asleep
<1> QED
  BY <1>2, <1>4, <1>5, <1>6, <1>7, <1>8, <1>9 DEF IInv

-----------------------------------------------------------------------------
(* The batch threads *)

\* A thread that starts has read nothing yet.
LEMMA SpawnIInv ==
  ASSUME IInv, Spawn
  PROVE  IInv'
<1> USE DEF IInv, Spawn
<1>1. Spawned \in Threads
  BY ThreadTypes DEF TypeOK
<1>2. TypeOK'
  BY <1>1 DEF TypeOK, Threads
<1>3. Phases'
  BY DEF Phases
<1>4. \A e \in Elements : Progress(thread[e])'
  <2>1. Spawned.reads = {} /\ Spawned.at = "ffn" /\ Spawned.layer = 1
    BY DEF Spawned, Asleep
  <2>2. \A l \in Layers : ~(l < 1)
    BY DEF Layers
  <2> QED
    BY <2>1, <2>2 DEF Progress, Past
<1>5. CeilingBelow' /\ GainsBelow'
  BY DEF CeilingBelow, GainsBelow, SharedWithinPhysics, Spawned, Asleep
<1>6. PoolFirst' /\ Projections'
  <2>1. \A l \in Layers : ~(l < 1)
    BY DEF Layers
  <2>2. Spawned.layer = 1 /\ Spawned.at = "ffn" /\ \A l \in Layers : Spawned.projs[l] = NoBuffer
    BY DEF Spawned, Asleep
  <2> QED
    BY <2>1, <2>2 DEF PoolFirst, Projections
<1> QED
  BY <1>2, <1>3, <1>4, <1>5, <1>6

\* One layer's gain control, whichever thread is next to take its lock.
LEMMA FfnIInv ==
  ASSUME IInv, NEW e \in Elements, Ffn(e)
  PROVE  IInv'
<1> USE DEF IInv, Ffn
<1> DEFINE t == thread[e]
           from == IF perLayer THEN WithCeiling(t.own[t.layer]) ELSE agc
<1>1. t.layer \in Layers /\ t.own[t.layer] \in Nat /\ t.at = "ffn" /\ model.step \in 0 .. NIters
  BY BatchStepAssumption DEF TypeOK
<1>2. from \in Gain
  BY <1>1, WithCeilingBounds
<1> DEFINE after(g) == [t EXCEPT !.at = "attn", !.reads = @ \union {model.step}, !.gains[t.layer] = g.threshold]
<1>3. PICK g \in Observations(from) :
        thread' = [thread EXCEPT ![e] = after(g)] /\ agc' = IF perLayer THEN agc ELSE g
  OBVIOUS
<1>4. g \in Gain /\ g.ceiling = from.ceiling
  BY <1>2, <1>3, ObservationBounds
<1>5. agc' \in Gain /\ agc'.ceiling = agc.ceiling
  BY <1>3, <1>4
<1>6. g.threshold \in Nat /\ g.threshold >= Minimum /\ g.threshold <= from.ceiling
  BY <1>4 DEF Gain
<1> HIDE DEF from
<1> DEFINE u == after(g)
<1>7a. thread \in [Elements -> Threads] /\ thread' = [thread EXCEPT ![e] = u]
  <2>1. thread \in [Elements -> Threads]
    BY DEF TypeOK, Threads
  <2>2. thread' = [thread EXCEPT ![e] = u]
    BY <1>3
  <2> QED
    BY <2>1, <2>2
<1>7b. u \in Threads
  BY <1>1, <1>6, <1>7a DEF Threads, Ats
<1>7. TypeOK'
  BY <1>5, <1>7a, <1>7b DEF TypeOK, Threads, Gain, Minimum
<1>8. Phases'
  BY <1>1, <1>3 DEF Phases
<1>9. \A f \in Elements : Progress(thread[f])'
  <2>1. t \in Threads /\ Progress(t)
    BY <1>7a
  <2>2. u.at = "attn" /\ u.layer = t.layer /\ u.reads = t.reads \union {model.step}
    BY <2>1 DEF Threads
  <2>3. \A l \in Layers : u.gains[l] = IF l = t.layer THEN g.threshold ELSE t.gains[l]
    BY <2>1 DEF Threads
  <2>4. Progress(u)
    BY <1>6, <2>1, <2>2, <2>3 DEF Progress, Past, Minimum
  <2>5. ASSUME NEW f \in Elements PROVE Progress(thread'[f])
    BY <1>7a, <2>4
  <2> QED
    BY <2>5 DEF Progress
<1>10. CeilingBelow'
  BY <1>5 DEF CeilingBelow
<1>11. GainsBelow'
  BY <1>1, <1>3, <1>6, Blocks DEF GainsBelow, SharedWithinPhysics, CeilingBelow, TypeOK, Gain, Minimum, from
<1>12. PoolFirst' /\ Projections'
  <2>1. u.layer = t.layer /\ u.at = "attn" /\ u.projs = t.projs
    BY <1>7a DEF Threads
  <2>2. UNCHANGED <<device, model, cache>> /\ OutProj' = OutProj
    BY DEF OutProj
  <2> HIDE DEF u
  <2>3. PoolFirst'
    BY <1>7a, <2>1, <2>2 DEF PoolFirst
  <2>4. Projections'
    BY <1>7a, <2>1, <2>2 DEF Projections
  <2> QED
    BY <2>3, <2>4
<1> QED
  BY <1>5, <1>7, <1>8, <1>9, <1>10, <1>11, <1>12

\* A pooled buffer is one version of one layer's projection, like any other.
LEMMA ProjectionTypes ==
  ASSUME TypeOK, NEW l \in Layers
  PROVE  OutProj[l] \in Versions /\ Buffered(l) \in Versions /\ Projected(l) \in Versions
<1>1. model.step \in 0 .. NIters /\ l \in 0 .. NLayers /\ 0 \in 0 .. NIters
  BY BatchStepAssumption DEF TypeOK, Layers
<1>2. OutProj[l] \in Versions
  BY <1>1 DEF OutProj, Versions
<1> QED
  BY <1>2 DEF Buffered, Projected, TypeOK

\* One layer's projection, through the pool or not.
LEMMA AttnIInv ==
  ASSUME IInv, NEW e \in Elements, Attn(e)
  PROVE  IInv'
<1> USE DEF IInv, Attn
<1> DEFINE t == thread[e]
           k == t.layer
           u == [t EXCEPT !.projs[k] = Projected(k), !.reads = @ \union {model.step},
                          !.at = IF k = NLayers THEN "backward" ELSE "ffn",
                          !.layer = IF k = NLayers THEN k ELSE k + 1]
<1>1. thread \in [Elements -> Threads] /\ thread' = [thread EXCEPT ![e] = u]
  <2>1. thread \in [Elements -> Threads]
    BY DEF TypeOK, Threads
  <2> QED
    BY <2>1
<1>2. t \in Threads /\ Progress(t) /\ k \in Layers /\ t.at = "attn" /\ model.step \in 0 .. NIters
  BY <1>1, BatchStepAssumption DEF Threads, TypeOK
<1>3. /\ u.reads = t.reads \union {model.step} /\ u.gains = t.gains
      /\ u.at = IF k = NLayers THEN "backward" ELSE "ffn"
      /\ u.layer = IF k = NLayers THEN k ELSE k + 1
      /\ \A l \in Layers : u.projs[l] = IF l = k THEN Projected(k) ELSE t.projs[l]
  BY <1>2 DEF Threads
<1>4. u.layer \in Layers
  BY <1>2, <1>3, BatchStepAssumption DEF Layers
<1>5. u \in Threads
  BY <1>2, <1>4, ProjectionTypes DEF Threads, Ats
<1>6. Progress(u)
  <2>1. \A l \in Layers : l < k + 1 => l < k \/ l = k
    BY <1>2, Blocks
  <2> QED
    BY <1>2, <1>3, <2>1 DEF Progress, Past
<1> HIDE DEF u
<1>7. cache' \in [Layers -> Versions]
  BY <1>2, ProjectionTypes DEF TypeOK
<1>8. TypeOK'
  BY <1>1, <1>5, <1>7 DEF TypeOK, Threads
<1>9. Phases'
  BY <1>1 DEF Phases
<1>10. \A f \in Elements : Progress(thread[f])'
  <2>1. ASSUME NEW f \in Elements PROVE Progress(thread'[f])
    BY <1>1, <1>6
  <2> QED
    BY <2>1 DEF Progress
<1>11. CeilingBelow' /\ GainsBelow'
  BY <1>1, <1>3 DEF CeilingBelow, GainsBelow, SharedWithinPhysics
<1>12. OutProj' = OutProj
  BY DEF OutProj
<1>13. device = "gpu" => Projected(k) = First(k) /\ cache' = [cache EXCEPT ![k] = First(k)]
  <2>1. SUFFICES ASSUME device = "gpu" PROVE Buffered(k) = First(k)
    BY DEF Projected
  <2>2. cache[k] = NoBuffer => model.step = 0
    BY <1>2, <2>1 DEF PoolFirst
  <2>3. OutProj[k] = [layer |-> k, step |-> IF LearnableAttn THEN model.step ELSE 0]
    BY <1>2 DEF OutProj
  <2> QED
    BY <1>2, <2>2, <2>3 DEF PoolFirst, Buffered, First
<1>14. device # "gpu" => Projected(k) = OutProj[k] /\ cache' = cache
  BY DEF Projected
<1>15. Projections'
  BY <1>1, <1>2, <1>3, <1>12, <1>13, <1>14 DEF Projections
<1>16. First(k) # NoBuffer /\ \A l \in Layers : l < k + 1 => l < k \/ l = k
  BY <1>2, Blocks DEF First, NoBuffer, Never
<1>17. \A l \in Layers : l < NLayers \/ l = NLayers
  BY BatchStepAssumption DEF Layers
<1>18. \A l \in Layers : device = "gpu" => cache'[l] = IF l = k THEN First(k) ELSE cache[l]
  BY <1>2, <1>13 DEF TypeOK
<1>19. PoolFirst'
  <2>1. CASE device = "gpu"
    <3>1. \A l \in Layers : (cache'[l] # NoBuffer => cache'[l] = First(l)) /\ (cache[l] # NoBuffer => cache'[l] # NoBuffer)
      BY <1>16, <1>18, <2>1 DEF PoolFirst
    <3>2. \A l \in Layers : l < u.layer \/ u.at \in {"backward", "done"} => cache'[l] # NoBuffer
      BY <1>2, <1>3, <1>16, <1>17, <1>18, <2>1, <3>1 DEF PoolFirst
    <3>3. ASSUME NEW f \in Elements, NEW l \in Layers,
                 l < thread'[f].layer \/ thread'[f].at \in {"backward", "done"}
          PROVE  cache'[l] # NoBuffer
      BY <1>1, <2>1, <3>1, <3>2, <3>3 DEF PoolFirst
    <3> QED
      BY <2>1, <3>1, <3>3 DEF PoolFirst
  <2>2. CASE device # "gpu"
    BY <1>14, <2>2 DEF PoolFirst
  <2> QED
    BY <2>1, <2>2
<1> QED
  BY <1>8, <1>9, <1>10, <1>11, <1>15, <1>19

\* The gradients of one element.
LEMMA BackwardIInv ==
  ASSUME IInv, NEW e \in Elements, Backward(e)
  PROVE  IInv'
<1> USE DEF IInv, Backward
<1> DEFINE t == thread[e]
           after(bad) == [t EXCEPT !.at = "done", !.bad = bad, !.reads = @ \union {model.step}]
<1>1. PICK bad \in BOOLEAN : thread' = [thread EXCEPT ![e] = after(bad)]
  OBVIOUS
<1> DEFINE u == after(bad)
<1>2. thread \in [Elements -> Threads]
  BY DEF TypeOK, Threads
<1>3. t \in Threads /\ Progress(t) /\ t.at = "backward" /\ model.step \in 0 .. NIters
  BY <1>2, BatchStepAssumption DEF TypeOK
<1>4. /\ u.reads = t.reads \union {model.step} /\ u.gains = t.gains /\ u.projs = t.projs
      /\ u.at = "done" /\ u.layer = t.layer
  BY <1>3 DEF Threads
<1>5. u \in Threads
  BY <1>3 DEF Threads, Ats
<1>6. Progress(u)
  BY <1>3, <1>4 DEF Progress, Past
<1>7. thread' = [thread EXCEPT ![e] = u]
  BY <1>1
<1> HIDE DEF u
<1>8. TypeOK'
  BY <1>2, <1>5, <1>7 DEF TypeOK, Threads
<1>9. Phases'
  BY <1>2, <1>7 DEF Phases
<1>10. \A f \in Elements : Progress(thread[f])'
  <2>1. ASSUME NEW f \in Elements PROVE Progress(thread'[f])
    BY <1>2, <1>6, <1>7
  <2> QED
    BY <2>1 DEF Progress
<1>11. CeilingBelow' /\ GainsBelow'
  BY <1>2, <1>4, <1>7 DEF CeilingBelow, GainsBelow, SharedWithinPhysics
<1>12. PoolFirst' /\ Projections'
  <2>1. \A l \in Layers : l < NLayers \/ l = NLayers
    BY BatchStepAssumption DEF Layers
  <2>2. OutProj' = OutProj
    BY DEF OutProj
  <2>3. PoolFirst'
    BY <1>2, <1>3, <1>4, <1>7, <2>1 DEF PoolFirst
  <2>4. Projections'
    BY <1>2, <1>4, <1>7, <2>2 DEF Projections
  <2> QED
    BY <2>3, <2>4
<1> QED
  BY <1>8, <1>9, <1>10, <1>11, <1>12

-----------------------------------------------------------------------------
(* The main thread *)

\* The join, and a forward pass of the health monitor or none: at most the
\* shared threshold moves.
LEMMA BetweenIInv ==
  ASSUME IInv, Join \/ SampleForward \/ NoSample
  PROVE  IInv'
<1> USE DEF IInv
<1>1. /\ UNCHANGED <<device, perLayer, resumed, iter, model, cache, thread>>
      /\ main \in {"batch", "sample"} /\ main' \in {"sample", "decide"}
      /\ \A e \in Elements : thread[e].at = "done"
  BY DEF Join, Joined, SampleForward, NoSample, Phases
<1>2. agc' \in Gain /\ agc'.ceiling = agc.ceiling
  BY ObservationBounds DEF Join, SampleForward, NoSample
<1>3. TypeOK'
  BY <1>1, <1>2 DEF TypeOK, Gain, Minimum
<1>4. Phases'
  BY <1>1 DEF Phases
<1>5. \A e \in Elements : Progress(thread[e])'
  BY <1>1 DEF Progress
<1>6. CeilingBelow' /\ GainsBelow'
  BY <1>1, <1>2 DEF CeilingBelow, GainsBelow, SharedWithinPhysics
<1>7. PoolFirst' /\ Projections'
  BY <1>1 DEF PoolFirst, Projections, OutProj
<1> QED
  BY <1>1, <1>2, <1>3, <1>4, <1>5, <1>6, <1>7

\* What an iteration leaves behind when its threads are gone, whether it took
\* a step or not.
LEMMA EndIInv ==
  ASSUME IInv, main = "decide", NextIteration, thread' = [e \in Elements |-> Asleep],
         UNCHANGED <<device, perLayer, resumed, cache>>, agc' \in Gain,
         model' \in [step : 0 .. iter', physics : [Layers -> Ceilings]],
         CeilingBelow',
         device = "gpu" /\ model.step # model'.step => \A l \in Layers : cache[l] # NoBuffer
  PROVE  IInv'
<1> USE DEF IInv
<1>1. iter' \in 0 .. NIters /\ main' = "draw"
  BY BatchStepAssumption DEF NextIteration, Phases, TypeOK
<1>2. Asleep \in Threads
  BY ThreadTypes DEF TypeOK
<1>3. TypeOK'
  BY <1>1, <1>2 DEF TypeOK, Threads, Gain, Minimum
<1>4. Phases'
  BY <1>1 DEF Phases, Asleep
<1>5. \A e \in Elements : Progress(thread[e])'
  <2>1. \A l \in Layers : ~(l < 1)
    BY DEF Layers
  <2>2. Asleep.reads = {} /\ Asleep.at = "asleep" /\ Asleep.layer = 1
    BY DEF Asleep
  <2> QED
    BY <2>1, <2>2 DEF Progress, Past
<1>6. GainsBelow'
  BY DEF GainsBelow, SharedWithinPhysics, Asleep
<1>7. PoolFirst' /\ Projections'
  <2>1. \A l \in Layers : ~(l < 1)
    BY DEF Layers
  <2>2. Asleep.layer = 1 /\ Asleep.at = "asleep" /\ \A l \in Layers : Asleep.projs[l] = NoBuffer
    BY DEF Asleep
  <2> QED
    BY <2>1, <2>2 DEF PoolFirst, Projections
<1> QED
  BY <1>3, <1>4, <1>5, <1>6, <1>7

\* A bad batch leaves everything but the threshold as it was.
LEMMA SkipIInv ==
  ASSUME IInv, Skip
  PROVE  IInv'
<1> USE DEF IInv, Skip
<1>1. model' \in [step : 0 .. iter', physics : [Layers -> Ceilings]]
  BY DEF NextIteration, TypeOK
<1>2. CeilingBelow'
  BY DEF CeilingBelow
<1> QED
  BY <1>1, <1>2, EndIInv

\* A step moves every coupling, and the ceiling with them.
LEMMA OptimiseIInv ==
  ASSUME IInv, Optimise
  PROVE  IInv'
<1> USE DEF IInv, Optimise
<1>1. PICK p \in [Layers -> Ceilings] :
        model' = [step |-> model.step + 1, physics |-> p] /\ agc' = UpdateCeiling(agc, p)
  OBVIOUS
<1>2. /\ Effective(p) \in Nat /\ Effective(p) >= Minimum
      /\ \A l \in Layers : Effective(p) <= p[l]
  BY EffectiveBounds
<1>3. agc' \in Gain /\ agc'.ceiling = Effective(p)
  BY <1>1, <1>2 DEF UpdateCeiling, Gain, Lesser, Minimum
<1>4. model' \in [step : 0 .. iter', physics : [Layers -> Ceilings]]
  BY <1>1 DEF NextIteration, TypeOK
<1>5. CeilingBelow'
  BY <1>1, <1>2, <1>3 DEF CeilingBelow
<1>6. device = "gpu" => \A l \in Layers : cache[l] # NoBuffer
  BY BatchStepAssumption DEF Phases, PoolFirst
<1> QED
  BY <1>3, <1>4, <1>5, <1>6, EndIInv

-----------------------------------------------------------------------------
(* The theorems *)

\* Every step keeps the invariant.
LEMMA NextIInv ==
  ASSUME IInv, [Next]_vars
  PROVE  IInv'
<1>1. CASE Main
  BY <1>1, SpawnIInv, BetweenIInv, SkipIInv, OptimiseIInv DEF Main
<1>2. CASE \E e \in Elements : Worker(e)
  BY <1>2, FfnIInv, AttnIInv, BackwardIInv DEF Worker
<1>3. CASE UNCHANGED vars
  BY <1>3 DEF vars, IInv, TypeOK, Phases, Progress, CeilingBelow, GainsBelow, SharedWithinPhysics,
              PoolFirst, Projections, OutProj
<1> QED
  BY <1>1, <1>2, <1>3 DEF Next, Done

\* The invariant holds throughout, on every device and with either gain control.
THEOREM Invariance == Spec => []IInv
<1>1. Init => IInv
  BY InitIInv
<1>2. IInv /\ [Next]_vars => IInv'
  BY NextIInv
<1> QED
  BY <1>1, <1>2, PTL DEF Spec

\* The main thread, the batch threads, the shared gain control and the pool are
\* in one of their states, however the threads interleave (train_loop.rs:299-611).
THEOREM TypeCorrect == Spec => []TypeOK
<1>1. IInv => TypeOK
  BY DEF IInv
<1> QED
  BY <1>1, Invariance, PTL

\* The gradients the main thread reduces after the join are those of one model,
\* taken by finished passes through all layers (train_loop.rs:317-378).
THEOREM GradientsOfOneModelAlways == Spec => []GradientsOfOneModel
<1>1. ASSUME IInv PROVE GradientsOfOneModel
  <2>1. SUFFICES ASSUME main \in {"sample", "decide"}, NEW e \in Elements
                 PROVE  thread[e].reads = {model.step} /\ \A l \in Layers : thread[e].gains[l] > 0
    BY DEF GradientsOfOneModel
  <2>2. Progress(thread[e]) /\ thread[e].at = "done"
    BY <1>1, <2>1 DEF IInv, Phases
  <2>3. thread[e].layer = NLayers /\ \A l \in Layers : l < NLayers \/ l = NLayers
    BY <2>2, BatchStepAssumption DEF Progress, Layers
  <2> QED
    BY <2>2, <2>3 DEF Progress, Past
<1> QED
  BY <1>1, Invariance, PTL

\* With one gain control, and no manual ceiling above the configured coupling's,
\* every magnitude let through unchanged is one the layer's own learned coupling
\* is stable at, in every schedule of threads, samples, skips and steps
\* (ffn.rs:60-110, agc.rs:97-149, train_health.rs:88-101).
THEOREM SharedWithinPhysicsAlways ==
  ASSUME CliCeiling <= Configured
  PROVE  Spec => []SharedWithinPhysics
<1>1. IInv => SharedWithinPhysics
  BY DEF IInv, GainsBelow, ManualIsLower
<1> QED
  BY <1>1, Invariance, PTL

\* Whatever the order in which threads meet the pool and however many batches
\* are skipped, the forward passes of a batch use one optimizer step's attention
\* projections, each layer its own, frozen or learned; without a GPU the last
\* step's (dispatch_batch.rs:33-60, buffers.rs:121-149, train_loop.rs:317-378).
THEOREM OneForwardPerBatchAlways == Spec => []OneForwardPerBatch
<1>1. ASSUME IInv PROVE OneForwardPerBatch
  <2> USE <1>1 DEF IInv
  <2>1. model.step \in 0 .. model.step /\ 0 \in 0 .. model.step
    BY BatchStepAssumption DEF TypeOK
  <2>2. CASE device = "cpu" /\ LearnableAttn
    BY <2>1, <2>2 DEF OneForwardPerBatch, Projections, OutProj
  <2>3. CASE ~(device = "cpu" /\ LearnableAttn)
    <3>1. \A e \in Elements, l \in Layers :
            thread[e].projs[l] # NoBuffer => thread[e].projs[l] = [layer |-> l, step |-> 0]
      BY <2>3, BatchStepAssumption DEF Projections, OutProj, First, TypeOK
    <3> QED
      BY <2>1, <2>3, <3>1 DEF OneForwardPerBatch
  <2> QED
    BY <2>2, <2>3
<1> QED
  BY <1>1, Invariance, PTL
=============================================================================
