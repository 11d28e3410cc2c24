--------------------------- MODULE GpuPoolProofs ----------------------------
(***************************************************************************)
(* Proofs about GpuPool: for every set of threads and every program they   *)
(* run, scratch buffers are large enough and an undisturbed operation      *)
(* reads back its own result.                                              *)
(***************************************************************************)
EXTENDS GpuPool, SequenceTheorems, TLAPS

-----------------------------------------------------------------------------
(* The inductive invariant *)

Doing(t, steps) == todo[t] # <<>> /\ Step(t) \in steps

Ensured(t)   == Doing(t, {"submit", "read0", "read1"})
Submitted(t) == Doing(t, {"read0", "read1"})

\* What t's submit leaves in the buffer of slot s.
Own(t, s) == [of |-> <<t, Nth(t)>>, slot |-> s, params |-> Params(Op1(t))]

\* A thread holds the pool throughout a scope.
InScope(t) == lock = t \/ at[t].step = 1

\* While one thread holds the pool, everyone between two scopes of an operation
\* counts as disturbed; within its first scope an operation is not.
Disturbance(t) ==
  /\ lock \notin {t, Free} /\ at[t].scope > 1 => disturbed[t]
  /\ lock = t /\ at[t].scope = 1 => ~disturbed[t]

\* Slots grow only, so what an operation ensured stays ensured.
Sized(t) == Ensured(t) => \A s \in SlotsOf(Op1(t).kind) : slot[s].size >= Op1(t).size

\* What was read back so far, by the steps of the current operation.
ReadParts(t) ==
  /\ Len(read[t]) = IF Doing(t, {"read1"}) THEN 1 ELSE 0
  /\ \A i \in DOMAIN read[t] : read[t][i].size >= Op1(t).size
  /\ ~disturbed[t] => \A i \in DOMAIN read[t] : read[t][i].holds = Own(t, i - 1)

\* Until it is disturbed, an operation's parameters and results are in place.
InDevice(t) ==
  ~disturbed[t] =>
    /\ Ensured(t) => uniform = Params(Op1(t))
    /\ Submitted(t) => \A s \in SlotsOf(Op1(t).kind) : buffer[slot[s].id] = Own(t, s)

Finished(t) ==
  \A k \in DOMAIN out[t] :
    LET r == out[t][k] IN
    /\ r.op.kind = "linearBatch" => ~r.disturbed
    /\ \A i \in DOMAIN r.parts : r.parts[i].size >= r.op.size
    /\ ~r.disturbed =>
         \A i \in DOMAIN r.parts : r.parts[i].holds = [of |-> <<t, k>>, slot |-> i - 1, params |-> Params(r.op)]

ThreadInv(t) ==
  InScope(t) /\ Disturbance(t) /\ Sized(t) /\ ReadParts(t) /\ InDevice(t) /\ Finished(t)

\* Each slot has its own buffer once it has any, and the buffer exists.
SlotIds ==
  \A s \in Slots :
    /\ slot[s].id \in DOMAIN buffer
    /\ slot[s].size > 0 => slot[s].id \in 10 * (s + 1) + 1 .. 10 * (s + 1) + 10

IInv ==
  /\ TypeOK
  /\ lock # Free => todo[lock] # <<>>
  /\ SlotIds
  /\ \A t \in Threads : ThreadInv(t)

-----------------------------------------------------------------------------
(* The order of an operation's steps *)

Derives(kind) == kind \in {"derivative", "derivativeBatch"}

Final(kind) == IF Derives(kind) THEN "read1" ELSE "read0"

Follows(kind, a, b) ==
  \/ a = "weights" /\ b = "ensure"
  \/ a = "ensure" /\ b = "submit"
  \/ a = "submit" /\ b = "read0"
  \/ a = "read0" /\ b = "read1" /\ Derives(kind)

\* What is true of every place in the scopes sc of an operation: its step is one
\* of the five, the next place has the step that follows, and only the last
\* place has the final one.
OrderedAt(kind, sc, i, j) ==
    /\ i \in Nat \ {0} /\ j \in Nat \ {0}
    /\ i = 1 /\ j = 1 => sc[i][j] \in {"weights", "ensure"}
    /\ sc[i][j] = "read1" => Derives(kind)
    /\ (j = Len(sc[i]) /\ i = Len(sc)) <=> sc[i][j] = Final(kind)
    /\ j # Len(sc[i]) => j + 1 \in DOMAIN sc[i] /\ Follows(kind, sc[i][j], sc[i][j + 1])
    /\ j = Len(sc[i]) /\ i # Len(sc) =>
         i + 1 \in DOMAIN sc /\ 1 \in DOMAIN sc[i + 1] /\ Follows(kind, sc[i][j], sc[i + 1][1])

Ordered(kind, sc) == \A i \in DOMAIN sc : \A j \in DOMAIN sc[i] : OrderedAt(kind, sc, i, j)

\* One scope from the upload to the readback.
LEMMA KeptOrdered ==
  ASSUME NEW kind, ~Derives(kind)
  PROVE  Ordered(kind, Kept)
<1>1. /\ Len(Kept) = 1 /\ DOMAIN Kept = 1 .. 1
      /\ Kept[1] = <<"weights", "ensure", "submit", "read0">>
  BY DEF Kept
<1>2. /\ Len(Kept[1]) = 4 /\ DOMAIN Kept[1] = 1 .. 4
      /\ Kept[1][1] = "weights" /\ Kept[1][2] = "ensure" /\ Kept[1][3] = "submit" /\ Kept[1][4] = "read0"
  BY <1>1
<1>3. OrderedAt(kind, Kept, 1, 1)
  BY <1>1, <1>2 DEF OrderedAt, Final, Derives, Follows
<1>4. OrderedAt(kind, Kept, 1, 2)
  BY <1>1, <1>2 DEF OrderedAt, Final, Derives, Follows
<1>5. OrderedAt(kind, Kept, 1, 3)
  BY <1>1, <1>2 DEF OrderedAt, Final, Derives, Follows
<1>6. OrderedAt(kind, Kept, 1, 4)
  BY <1>1, <1>2 DEF OrderedAt, Final, Derives, Follows
<1>7. \A j \in DOMAIN Kept[1] : OrderedAt(kind, Kept, 1, j)
  BY <1>2, <1>3, <1>4, <1>5, <1>6
<1> QED
  BY <1>1, <1>7 DEF Ordered

\* A scope for each step.
LEMMA SplitOrdered ==
  ASSUME NEW kind, ~Derives(kind)
  PROVE  Ordered(kind, Split)
<1>1. /\ Len(Split) = 3 /\ DOMAIN Split = 1 .. 3
      /\ Split[1] = <<"ensure">>
      /\ Split[2] = <<"submit">>
      /\ Split[3] = <<"read0">>
  BY DEF Split
<1>2. /\ Len(Split[1]) = 1 /\ DOMAIN Split[1] = 1 .. 1
      /\ Split[1][1] = "ensure"
  BY <1>1
<1>3. /\ Len(Split[2]) = 1 /\ DOMAIN Split[2] = 1 .. 1
      /\ Split[2][1] = "submit"
  BY <1>1
<1>4. /\ Len(Split[3]) = 1 /\ DOMAIN Split[3] = 1 .. 1
      /\ Split[3][1] = "read0"
  BY <1>1
<1>5. OrderedAt(kind, Split, 1, 1)
  BY <1>1, <1>2, <1>3 DEF OrderedAt, Final, Derives, Follows
<1>6. OrderedAt(kind, Split, 2, 1)
  BY <1>1, <1>3, <1>4 DEF OrderedAt, Final, Derives, Follows
<1>7. OrderedAt(kind, Split, 3, 1)
  BY <1>1, <1>4 DEF OrderedAt, Final, Derives, Follows
<1>8. \A j \in DOMAIN Split[1] : OrderedAt(kind, Split, 1, j)
  BY <1>2, <1>5
<1>9. \A j \in DOMAIN Split[2] : OrderedAt(kind, Split, 2, j)
  BY <1>3, <1>6
<1>10. \A j \in DOMAIN Split[3] : OrderedAt(kind, Split, 3, j)
  BY <1>4, <1>7
<1> QED
  BY <1>1, <1>8, <1>9, <1>10 DEF Ordered

\* The same with a weight first.
LEMMA NormsOrdered ==
  ASSUME NEW kind, ~Derives(kind)
  PROVE  Ordered(kind, Norms)
<1>1. /\ Len(Norms) = 4 /\ DOMAIN Norms = 1 .. 4
      /\ Norms[1] = <<"weights">>
      /\ Norms[2] = <<"ensure">>
      /\ Norms[3] = <<"submit">>
      /\ Norms[4] = <<"read0">>
  BY DEF Norms
<1>2. /\ Len(Norms[1]) = 1 /\ DOMAIN Norms[1] = 1 .. 1
      /\ Norms[1][1] = "weights"
  BY <1>1
<1>3. /\ Len(Norms[2]) = 1 /\ DOMAIN Norms[2] = 1 .. 1
      /\ Norms[2][1] = "ensure"
  BY <1>1
<1>4. /\ Len(Norms[3]) = 1 /\ DOMAIN Norms[3] = 1 .. 1
      /\ Norms[3][1] = "submit"
  BY <1>1
<1>5. /\ Len(Norms[4]) = 1 /\ DOMAIN Norms[4] = 1 .. 1
      /\ Norms[4][1] = "read0"
  BY <1>1
<1>6. OrderedAt(kind, Norms, 1, 1)
  BY <1>1, <1>2, <1>3 DEF OrderedAt, Final, Derives, Follows
<1>7. OrderedAt(kind, Norms, 2, 1)
  BY <1>1, <1>3, <1>4 DEF OrderedAt, Final, Derives, Follows
<1>8. OrderedAt(kind, Norms, 3, 1)
  BY <1>1, <1>4, <1>5 DEF OrderedAt, Final, Derives, Follows
<1>9. OrderedAt(kind, Norms, 4, 1)
  BY <1>1, <1>5 DEF OrderedAt, Final, Derives, Follows
<1>10. \A j \in DOMAIN Norms[1] : OrderedAt(kind, Norms, 1, j)
  BY <1>2, <1>6
<1>11. \A j \in DOMAIN Norms[2] : OrderedAt(kind, Norms, 2, j)
  BY <1>3, <1>7
<1>12. \A j \in DOMAIN Norms[3] : OrderedAt(kind, Norms, 3, j)
  BY <1>4, <1>8
<1>13. \A j \in DOMAIN Norms[4] : OrderedAt(kind, Norms, 4, j)
  BY <1>5, <1>9
<1> QED
  BY <1>1, <1>10, <1>11, <1>12, <1>13 DEF Ordered

\* The same with two slots to read back.
LEMMA PairOrdered ==
  ASSUME NEW kind, Derives(kind)
  PROVE  Ordered(kind, Pair)
<1>1. /\ Len(Pair) = 4 /\ DOMAIN Pair = 1 .. 4
      /\ Pair[1] = <<"ensure">>
      /\ Pair[2] = <<"submit">>
      /\ Pair[3] = <<"read0">>
      /\ Pair[4] = <<"read1">>
  BY DEF Pair
<1>2. /\ Len(Pair[1]) = 1 /\ DOMAIN Pair[1] = 1 .. 1
      /\ Pair[1][1] = "ensure"
  BY <1>1
<1>3. /\ Len(Pair[2]) = 1 /\ DOMAIN Pair[2] = 1 .. 1
      /\ Pair[2][1] = "submit"
  BY <1>1
<1>4. /\ Len(Pair[3]) = 1 /\ DOMAIN Pair[3] = 1 .. 1
      /\ Pair[3][1] = "read0"
  BY <1>1
<1>5. /\ Len(Pair[4]) = 1 /\ DOMAIN Pair[4] = 1 .. 1
      /\ Pair[4][1] = "read1"
  BY <1>1
<1>6. OrderedAt(kind, Pair, 1, 1)
  BY <1>1, <1>2, <1>3 DEF OrderedAt, Final, Derives, Follows
<1>7. OrderedAt(kind, Pair, 2, 1)
  BY <1>1, <1>3, <1>4 DEF OrderedAt, Final, Derives, Follows
<1>8. OrderedAt(kind, Pair, 3, 1)
  BY <1>1, <1>4, <1>5 DEF OrderedAt, Final, Derives, Follows
<1>9. OrderedAt(kind, Pair, 4, 1)
  BY <1>1, <1>5 DEF OrderedAt, Final, Derives, Follows
<1>10. \A j \in DOMAIN Pair[1] : OrderedAt(kind, Pair, 1, j)
  BY <1>2, <1>6
<1>11. \A j \in DOMAIN Pair[2] : OrderedAt(kind, Pair, 2, j)
  BY <1>3, <1>7
<1>12. \A j \in DOMAIN Pair[3] : OrderedAt(kind, Pair, 3, j)
  BY <1>4, <1>8
<1>13. \A j \in DOMAIN Pair[4] : OrderedAt(kind, Pair, 4, j)
  BY <1>5, <1>9
<1> QED
  BY <1>1, <1>10, <1>11, <1>12, <1>13 DEF Ordered

\* Submit and readback in one scope.
LEMMA LateOrdered ==
  ASSUME NEW kind, ~Derives(kind)
  PROVE  Ordered(kind, Late)
<1>1. /\ Len(Late) = 2 /\ DOMAIN Late = 1 .. 2
      /\ Late[1] = <<"ensure">>
      /\ Late[2] = <<"submit", "read0">>
  BY DEF Late
<1>2. /\ Len(Late[1]) = 1 /\ DOMAIN Late[1] = 1 .. 1
      /\ Late[1][1] = "ensure"
  BY <1>1
<1>3. /\ Len(Late[2]) = 2 /\ DOMAIN Late[2] = 1 .. 2
      /\ Late[2][1] = "submit" /\ Late[2][2] = "read0"
  BY <1>1
<1>4. OrderedAt(kind, Late, 1, 1)
  BY <1>1, <1>2, <1>3 DEF OrderedAt, Final, Derives, Follows
<1>5. OrderedAt(kind, Late, 2, 1)
  BY <1>1, <1>3 DEF OrderedAt, Final, Derives, Follows
<1>6. OrderedAt(kind, Late, 2, 2)
  BY <1>1, <1>3 DEF OrderedAt, Final, Derives, Follows
<1>7. \A j \in DOMAIN Late[1] : OrderedAt(kind, Late, 1, j)
  BY <1>2, <1>4
<1>8. \A j \in DOMAIN Late[2] : OrderedAt(kind, Late, 2, j)
  BY <1>3, <1>5, <1>6
<1> QED
  BY <1>1, <1>7, <1>8 DEF Ordered

\* Every kind of operation runs through its steps in the same order, however it
\* divides them into scopes (buffers.rs and the operations that use it).
LEMMA ScopesOrdered ==
  ASSUME NEW kind \in Kinds
  PROVE  /\ Ordered(kind, Scopes(kind))
         /\ 1 \in DOMAIN Scopes(kind) /\ 1 \in DOMAIN Scopes(kind)[1]
         /\ kind = "linearBatch" => Len(Scopes(kind)) = 1
         /\ SlotsOf(kind) = IF Derives(kind) THEN Slots ELSE {0}
<1>1. CASE kind = "linearBatch"
  <2>1. Scopes(kind) = Kept /\ ~Derives(kind)
    BY <1>1 DEF Scopes, Derives
  <2> QED
    BY <2>1, KeptOrdered DEF Kept, SlotsOf, Derives, Slots
<1>2. CASE kind = "layerNormBatch"
  <2>1. Scopes(kind) = Norms /\ ~Derives(kind) /\ kind # "linearBatch"
    BY <1>2 DEF Scopes, Derives
  <2> QED
    BY <2>1, NormsOrdered DEF Norms, SlotsOf, Derives, Slots
<1>3. CASE kind \in {"matvec", "matvecResident", "layerNorm"}
  <2>1. Scopes(kind) = Split /\ ~Derives(kind) /\ kind # "linearBatch"
    BY <1>3 DEF Scopes, Derives
  <2> QED
    BY <2>1, SplitOrdered DEF Split, SlotsOf, Derives, Slots
<1>4. CASE kind \in {"derivative", "derivativeBatch"}
  <2>1. Scopes(kind) = Pair /\ Derives(kind) /\ kind # "linearBatch"
    BY <1>4 DEF Scopes, Derives
  <2> QED
    BY <2>1, PairOrdered DEF Pair, SlotsOf, Derives, Slots
<1>5. CASE kind = "backwardDx"
  <2>1. Scopes(kind) = Late /\ ~Derives(kind) /\ kind # "linearBatch"
    BY <1>5 DEF Scopes, Derives
  <2> QED
    BY <2>1, LateOrdered DEF Late, SlotsOf, Derives, Slots
<1> QED
  BY <1>1, <1>2, <1>3, <1>4, <1>5 DEF Kinds

-----------------------------------------------------------------------------
(* One thread's move *)

\* The current operation and the place of its current step.
LEMMA CurrentStep ==
  ASSUME TypeOK, NEW t \in Threads, todo[t] # <<>>
  PROVE  /\ Op1(t) \in Ops /\ Tail(todo[t]) \in Seq(Ops)
         /\ at[t].scope = 1 /\ at[t].step = 1 => Step(t) \in {"weights", "ensure"}
         /\ Step(t) = "read1" => Derives(Op1(t).kind)
         /\ Ends(t) <=> Step(t) = Final(Op1(t).kind)
         /\ SlotsOf(Op1(t).kind) = IF Derives(Op1(t).kind) THEN Slots ELSE {0}
<1>1. todo[t] \in Seq(Ops) /\ InPlace(t)
  BY DEF TypeOK
<1>2. Op1(t) \in Ops /\ Tail(todo[t]) \in Seq(Ops)
  BY <1>1 DEF Op1
<1>3. Op1(t).kind \in Kinds
  BY <1>2 DEF Ops
<1>4. OrderedAt(Op1(t).kind, Scopes(Op1(t).kind), at[t].scope, at[t].step)
  BY <1>1, <1>3, ScopesOrdered DEF Ordered, InPlace, Scope
<1> QED
  BY <1>2, <1>3, <1>4, ScopesOrdered DEF OrderedAt, Step, Scope, Ends, Last

\* After a step the operation is at the step that follows, or at its end.
LEMMA AdvanceSteps ==
  ASSUME TypeOK, NEW t \in Threads, Busy(t), Advance(t)
  PROVE  /\ at' \in [Threads -> [scope : Nat \ {0}, step : Nat \ {0}]]
         /\ \A u \in Threads \ {t} : at'[u] = at[u]
         /\ lock' \in {t, Free}
         /\ lock' = t \/ at'[t].step = 1
         /\ lock' = t => ~Ends(t) /\ at'[t].scope = at[t].scope
         /\ Ends(t) => at'[t] = [scope |-> 1, step |-> 1]
         /\ ~Ends(t) =>
              /\ at'[t].scope \in DOMAIN Scopes(Op1(t).kind)
              /\ at'[t].step \in DOMAIN Scopes(Op1(t).kind)[at'[t].scope]
              /\ Follows(Op1(t).kind, Step(t), Scopes(Op1(t).kind)[at'[t].scope][at'[t].step])
<1> DEFINE sc == Scopes(Op1(t).kind)
           i  == at[t].scope
           j  == at[t].step
<1>1. /\ todo[t] # <<>> /\ todo[t] \in Seq(Ops) /\ InPlace(t) /\ lock = t
      /\ at \in [Threads -> [scope : Nat \ {0}, step : Nat \ {0}]]
  BY DEF TypeOK, Busy
<1>2. Op1(t).kind \in Kinds
  BY <1>1, CurrentStep DEF Ops
<1>3. OrderedAt(Op1(t).kind, sc, i, j)
  BY <1>1, <1>2, ScopesOrdered DEF Ordered, InPlace, Scope
<1>4. Last(t) <=> j = Len(sc[i])
  BY DEF Last, Scope
<1>5. Ends(t) <=> j = Len(sc[i]) /\ i = Len(sc)
  BY DEF Last, Scope, Ends
<1>6. i \in Nat \ {0} /\ j \in Nat \ {0} /\ at[t] = [scope |-> i, step |-> j]
  BY <1>1
<1>7. CASE Ends(t)
  <2>1. at' = [at EXCEPT ![t] = [scope |-> 1, step |-> 1]] /\ lock' = Free
    BY <1>7 DEF Advance, Ends
  <2> QED
    BY <2>1, <1>1, <1>7, GpuPoolAssumption
<1>8. CASE ~Ends(t) /\ Last(t)
  <2>1. at' = [at EXCEPT ![t] = [scope |-> i + 1, step |-> 1]] /\ lock' = Free
    BY <1>8, <1>1 DEF Advance
  <2>2. at'[t].scope = i + 1 /\ at'[t].step = 1
    BY <2>1, <1>1
  <2>3. /\ i + 1 \in DOMAIN sc /\ 1 \in DOMAIN sc[i + 1]
        /\ Follows(Op1(t).kind, sc[i][j], sc[i + 1][1])
    BY <1>3, <1>4, <1>5, <1>8 DEF OrderedAt
  <2>4. at' \in [Threads -> [scope : Nat \ {0}, step : Nat \ {0}]]
    BY <2>1, <1>1, <1>6
  <2> QED
    BY <2>1, <2>2, <2>3, <2>4, <1>1, <1>8, GpuPoolAssumption DEF Step, Scope
<1>9. CASE ~Last(t)
  <2>1. at' = [at EXCEPT ![t] = [scope |-> i, step |-> j + 1]] /\ lock' = t
    BY <1>9, <1>1 DEF Advance, Ends
  <2>2. at'[t].scope = i /\ at'[t].step = j + 1
    BY <2>1, <1>1
  <2>3. i \in DOMAIN sc /\ j + 1 \in DOMAIN sc[i] /\ Follows(Op1(t).kind, sc[i][j], sc[i][j + 1])
    BY <1>1, <1>3, <1>4, <1>9 DEF OrderedAt, InPlace
  <2>4. at' \in [Threads -> [scope : Nat \ {0}, step : Nat \ {0}]]
    BY <2>1, <1>1, <1>6
  <2>5. ~Ends(t)
    BY <1>9 DEF Ends
  <2> QED
    BY <2>1, <2>2, <2>3, <2>4, <2>5, <1>1 DEF Step, Scope
<1> QED
  BY <1>7, <1>8, <1>9 DEF Ends

\* While t holds the pool, nothing another thread relies on changes but the size
\* of the slots, which only grows.
LEMMA OthersKept ==
  ASSUME TypeOK, NEW t \in Threads, NEW u \in Threads \ {t}, ThreadInv(u), InPlace(u),
         lock = t, lock' \in {t, Free},
         todo'[u] = todo[u], at'[u] = at[u], read'[u] = read[u], out'[u] = out[u],
         disturbed'[u] = disturbed[u],
         \A s \in Slots : slot'[s].size \in Nat /\ slot'[s].size >= slot[s].size
  PROVE  ThreadInv(u)' /\ InPlace(u)'
<1>1. /\ Op1(u)' = Op1(u) /\ Step(u)' = Step(u) /\ Nth(u)' = Nth(u)
      /\ \A s : Own(u, s)' = Own(u, s)
      /\ Ensured(u)' = Ensured(u) /\ Submitted(u)' = Submitted(u)
      /\ Doing(u, {"read1"})' = Doing(u, {"read1"})
  BY DEF Op1, Step, Scope, Nth, Own, Ensured, Submitted, Doing, Params
<1>2. at[u].step = 1 /\ u # Free /\ t # Free /\ u # t /\ at[u].scope \in Nat \ {0}
  BY GpuPoolAssumption DEF ThreadInv, InScope, TypeOK
<1>3. InScope(u)' /\ Disturbance(u)'
  BY <1>2 DEF InScope, Disturbance, ThreadInv
<1>4. Sized(u)'
  <2>1. ASSUME Ensured(u), NEW s \in SlotsOf(Op1(u).kind)
        PROVE  slot'[s].size >= Op1(u).size
    <3>1. Op1(u) \in Ops /\ s \in Slots
      BY <2>1, CurrentStep DEF Ensured, Doing, Slots
    <3>2. slot[s].size >= Op1(u).size /\ slot[s].size \in Nat /\ Op1(u).size \in Nat
      BY <2>1, <3>1 DEF ThreadInv, Sized, TypeOK, Ops
    <3> QED
      BY <3>1, <3>2
  <2> QED
    BY <2>1, <1>1 DEF Sized
<1>5. ReadParts(u)' /\ Finished(u)'
  BY <1>1 DEF ThreadInv, ReadParts, Finished
<1>6. InDevice(u)'
  <2>1. ASSUME ~disturbed[u] PROVE ~Ensured(u) /\ ~Submitted(u)
    <3>1. at[u].scope = 1
      BY <2>1, <1>2 DEF ThreadInv, Disturbance
    <3> QED
      BY <3>1, <1>2, CurrentStep DEF Ensured, Submitted, Doing
  <2> QED
    BY <2>1, <1>1 DEF InDevice
<1>7. InPlace(u)'
  BY <1>1 DEF InPlace, Scope, Op1
<1> QED
  BY <1>3, <1>4, <1>5, <1>6, <1>7 DEF ThreadInv

-----------------------------------------------------------------------------
(* Every action preserves the invariant *)

\* Nothing has happened yet.
LEMMA InitIInv ==
  ASSUME Init
  PROVE  IInv
<1>1. todo \in [Threads -> Seq(Ops)]
  BY GpuPoolAssumption DEF Init
<1>2. /\ at = [t \in Threads |-> [scope |-> 1, step |-> 1]] /\ lock = Free
      /\ disturbed = [t \in Threads |-> FALSE] /\ read = [t \in Threads |-> <<>>]
      /\ out = [t \in Threads |-> <<>>] /\ uniform = <<>> /\ cached = {}
      /\ slot = [s \in Slots |-> [id |-> 0, size |-> 0]] /\ buffer = [i \in {0} |-> Unwritten]
  BY DEF Init
<1>3. ASSUME NEW t \in Threads PROVE InPlace(t)
  <2>1. at[t] = [scope |-> 1, step |-> 1] /\ todo[t] \in Seq(Ops)
    BY <1>1, <1>2
  <2>2. ASSUME todo[t] # <<>> PROVE Op1(t).kind \in Kinds
    <3>1. Op1(t) \in Ops
      BY <2>1, <2>2 DEF Op1
    <3> QED
      BY <3>1 DEF Ops
  <2> QED
    BY <2>1, <2>2, ScopesOrdered DEF InPlace, Scope
<1>4. TypeOK
  <2>1. Unwritten \in Contents
    BY DEF Unwritten, Contents, Uniforms, Slots
  <2>2. buffer \in [DOMAIN buffer -> Contents] /\ uniform \in Uniforms
    BY <1>2, <2>1 DEF Uniforms
  <2> QED
    BY <1>1, <1>2, <1>3, <2>2 DEF TypeOK
<1>5. ASSUME NEW t \in Threads PROVE ThreadInv(t)
  <2>1. at[t].scope = 1 /\ at[t].step = 1 /\ ~disturbed[t] /\ read[t] = <<>> /\ out[t] = <<>> /\ t # Free
    BY <1>2, GpuPoolAssumption
  <2>2. ~Ensured(t) /\ ~Submitted(t) /\ ~Doing(t, {"read1"})
    BY <2>1, <1>4, CurrentStep DEF Ensured, Submitted, Doing
  <2>3. InScope(t) /\ Disturbance(t) /\ Sized(t) /\ InDevice(t)
    BY <2>1, <2>2, <1>2 DEF InScope, Disturbance, Sized, InDevice
  <2>4. ReadParts(t) /\ Finished(t)
    BY <2>1, <2>2 DEF ReadParts, Finished
  <2> QED
    BY <2>3, <2>4 DEF ThreadInv
<1>6. SlotIds
  BY <1>2 DEF SlotIds
<1> QED
  BY <1>2, <1>4, <1>5, <1>6 DEF IInv

\* Taking the free pool disturbs those between two scopes and clears whoever
\* begins.
LEMMA TakeIInv ==
  ASSUME IInv, NEW t \in Threads, Take(t)
  PROVE  IInv'
<1>1. /\ todo[t] # <<>> /\ lock = Free /\ lock' = t /\ t # Free
      /\ UNCHANGED <<todo, at, slot, buffer, uniform, cached, read, out>>
      /\ TypeOK /\ SlotIds /\ disturbed \in [Threads -> BOOLEAN]
  BY GpuPoolAssumption DEF Take, IInv, TypeOK
<1>2. disturbed' = [u \in Threads |-> IF u = t THEN disturbed[u] /\ at[u].scope > 1
                                      ELSE disturbed[u] \/ at[u].scope > 1]
  BY DEF Take
<1>3. disturbed' \in [Threads -> BOOLEAN]
  BY <1>1, <1>2
<1>4. TypeOK'
  BY <1>1, <1>3 DEF TypeOK, InPlace, Scope, Op1
<1>5. SlotIds'
  BY <1>1 DEF SlotIds
<1>6. ASSUME NEW u \in Threads PROVE ThreadInv(u)'
  <2>1. /\ Op1(u)' = Op1(u) /\ Step(u)' = Step(u) /\ Nth(u)' = Nth(u)
        /\ \A s : Own(u, s)' = Own(u, s)
        /\ Ensured(u)' = Ensured(u) /\ Submitted(u)' = Submitted(u)
        /\ Doing(u, {"read1"})' = Doing(u, {"read1"})
    BY <1>1 DEF Op1, Step, Scope, Nth, Own, Ensured, Submitted, Doing, Params
  <2>2. ThreadInv(u) /\ at[u].step = 1 /\ at[u].scope \in Nat \ {0} /\ u # Free
    BY <1>1, GpuPoolAssumption DEF IInv, ThreadInv, InScope, TypeOK
  <2>3. InScope(u)' /\ Disturbance(u)'
    <3>1. CASE u = t
      <4>1. disturbed'[u] => at[u].scope > 1
        BY <3>1, <1>2
      <4> QED
        BY <4>1, <3>1, <1>1, <2>2 DEF InScope, Disturbance
    <3>2. CASE u # t
      <4>1. disturbed'[u] = (disturbed[u] \/ at[u].scope > 1)
        BY <3>2, <1>2
      <4> QED
        BY <4>1, <3>2, <1>1, <2>2 DEF InScope, Disturbance
    <3> QED
      BY <3>1, <3>2
  <2>4. Sized(u)' /\ Finished(u)'
    BY <1>1, <2>1, <2>2 DEF ThreadInv, Sized, Finished
  <2>5. CASE at[u].scope = 1
    <3>1. ~Ensured(u) /\ ~Submitted(u) /\ ~Doing(u, {"read1"})
      BY <2>2, <2>5, <1>1, CurrentStep DEF Ensured, Submitted, Doing
    <3>2. Len(read[u]) = 0 /\ read[u] \in Seq(Parts)
      BY <3>1, <2>2, <1>1 DEF ThreadInv, ReadParts, TypeOK
    <3>3. DOMAIN read[u] = {}
      BY <3>2
    <3> QED
      BY <3>1, <3>2, <3>3, <2>1, <2>3, <2>4, <1>1 DEF ThreadInv, ReadParts, InDevice
  <2>6. CASE at[u].scope # 1
    <3>1. ~disturbed'[u] => ~disturbed[u]
      BY <1>2, <1>1, <2>2, <2>6
    <3> QED
      BY <3>1, <2>1, <2>2, <2>3, <2>4, <1>1 DEF ThreadInv, ReadParts, InDevice
  <2> QED
    BY <2>5, <2>6
<1> QED
  BY <1>1, <1>4, <1>5, <1>6 DEF IInv

\* What a step of the thread that holds the pool must establish: the types of
\* what it writes, slots that only grow, and its own part of the invariant.
LEMMA HolderSteps ==
  ASSUME IInv, NEW t \in Threads, Busy(t), Advance(t),
         slot' \in [Slots -> [id : Nat, size : Nat]], SlotIds',
         \A s \in Slots : slot'[s].size >= slot[s].size,
         buffer' \in [DOMAIN buffer' -> Contents], uniform' \in Uniforms, cached' \subseteq STRING,
         disturbed' = disturbed,
         todo' \in [Threads -> Seq(Ops)], read' \in [Threads -> Seq(Parts)],
         out' \in [Threads -> Seq(Results)],
         \A u \in Threads \ {t} : todo'[u] = todo[u] /\ read'[u] = read[u] /\ out'[u] = out[u],
         todo'[t] = IF Ends(t) THEN Tail(todo[t]) ELSE todo[t],
         Sized(t)', ReadParts(t)', InDevice(t)', Finished(t)'
  PROVE  IInv'
<1>1. /\ TypeOK /\ lock = t /\ todo[t] # <<>> /\ t # Free /\ ThreadInv(t)
      /\ disturbed' \in [Threads -> BOOLEAN]
  BY GpuPoolAssumption DEF IInv, Busy, TypeOK
<1>2. /\ at' \in [Threads -> [scope : Nat \ {0}, step : Nat \ {0}]]
      /\ \A u \in Threads \ {t} : at'[u] = at[u]
      /\ lock' \in {t, Free}
  BY <1>1, AdvanceSteps
<1>3. ASSUME NEW u \in Threads \ {t} PROVE ThreadInv(u)' /\ InPlace(u)'
  <2>1. \A s \in Slots : slot'[s].size \in Nat /\ slot'[s].size >= slot[s].size
    OBVIOUS
  <2>2. ThreadInv(u) /\ InPlace(u)
    BY DEF IInv, TypeOK
  <2>3. /\ todo'[u] = todo[u] /\ at'[u] = at[u] /\ read'[u] = read[u] /\ out'[u] = out[u]
        /\ disturbed'[u] = disturbed[u]
    BY <1>2
  <2> QED
    BY <2>1, <2>2, <2>3, <1>1, <1>2, OthersKept
<1>4. InPlace(t)'
  <2>1. CASE Ends(t)
    <3>1. at'[t] = [scope |-> 1, step |-> 1] /\ todo'[t] \in Seq(Ops)
      BY <2>1, <1>1, AdvanceSteps
    <3>2. ASSUME todo'[t] # <<>> PROVE Op1(t)'.kind \in Kinds
      <4>1. Op1(t)' \in Ops
        BY <3>1, <3>2 DEF Op1
      <4> QED
        BY <4>1 DEF Ops
    <3> QED
      BY <3>1, <3>2, ScopesOrdered DEF InPlace, Scope
  <2>2. CASE ~Ends(t)
    BY <2>2, <1>1, AdvanceSteps DEF InPlace, Scope, Op1
  <2> QED
    BY <2>1, <2>2
<1>5. TypeOK'
  BY <1>1, <1>2, <1>3, <1>4 DEF TypeOK
<1>6. InScope(t)' /\ Disturbance(t)'
  BY <1>1, <1>2, AdvanceSteps DEF InScope, Disturbance, ThreadInv
<1>7. ThreadInv(t)'
  BY <1>6 DEF ThreadInv
<1>8. lock' # Free => todo'[lock'] # <<>>
  BY <1>1, <1>2, AdvanceSteps
<1> QED
  BY <1>3, <1>5, <1>7, <1>8 DEF IInv

\* What the operation of t and its step are after a step that does not end it.
LEMMA StepGoesOn ==
  ASSUME TypeOK, NEW t \in Threads, Busy(t), Advance(t), ~Ends(t), todo'[t] = todo[t]
  PROVE  /\ Op1(t)' = Op1(t) /\ Follows(Op1(t).kind, Step(t), Step(t)')
         /\ todo[t] # <<>> /\ todo'[t] # <<>> /\ Op1(t) \in Ops
BY AdvanceSteps, CurrentStep DEF Busy, Op1, Step, Scope

\* Before the readbacks nothing was read.
LEMMA NothingRead ==
  ASSUME TypeOK, NEW t \in Threads, ReadParts(t), ~Doing(t, {"read1"})
  PROVE  read[t] = <<>> /\ DOMAIN read[t] = {}
<1>1. read[t] \in Seq(Parts) /\ Len(read[t]) = 0
  BY DEF TypeOK, ReadParts
<1> QED
  BY <1>1, EmptySeq

\* Caching a weight touches no buffer.
LEMMA CacheWeightIInv ==
  ASSUME IInv, NEW t \in Threads, CacheWeight(t)
  PROVE  IInv'
<1>1. /\ Busy(t) /\ Advance(t) /\ Step(t) = "weights" /\ cached' = cached \cup {Op1(t).w}
      /\ UNCHANGED <<todo, slot, buffer, uniform, disturbed, read, out>>
      /\ TypeOK /\ ThreadInv(t) /\ todo[t] # <<>> /\ SlotIds
  BY DEF CacheWeight, IInv, Busy
<1>2. ~Ends(t) /\ Op1(t) \in Ops
  BY <1>1, CurrentStep DEF Final
<1>3. Step(t)' = "ensure" /\ Op1(t)' = Op1(t)
  BY <1>1, <1>2, StepGoesOn DEF Follows
<1>4. ~Ensured(t)' /\ ~Submitted(t)' /\ ~Doing(t, {"read1"})' /\ ~Doing(t, {"read1"})
  BY <1>1, <1>3 DEF Ensured, Submitted, Doing
<1>5. read'[t] = <<>> /\ DOMAIN read'[t] = {}
  BY <1>1, <1>4, NothingRead DEF ThreadInv
<1>6. Sized(t)' /\ ReadParts(t)' /\ InDevice(t)' /\ Finished(t)'
  BY <1>1, <1>4, <1>5 DEF Sized, ReadParts, InDevice, Finished, ThreadInv
<1>7. /\ cached' \subseteq STRING
      /\ \A s \in Slots : slot'[s].size >= slot[s].size
      /\ SlotIds'
  BY <1>1, <1>2 DEF TypeOK, Ops, SlotIds
<1> QED
  BY <1>1, <1>2, <1>6, <1>7, HolderSteps DEF TypeOK

\* What Over holds, and under which ids.
LEMMA OverHolds ==
  ASSUME NEW new, NEW old
  PROVE  /\ DOMAIN Over(new, old) = DOMAIN new \cup DOMAIN old
         /\ \A i \in DOMAIN new : Over(new, old)[i] = new[i]
         /\ \A S : new \in [DOMAIN new -> S] /\ old \in [DOMAIN old -> S] =>
              Over(new, old) \in [DOMAIN Over(new, old) -> S]
BY DEF Over

\* A new buffer's id belongs to its slot.
LEMMA FreshId ==
  ASSUME TypeOK, NEW s \in Slots
  PROVE  Fresh(s) \in Nat /\ Fresh(s) \in 10 * (s + 1) + 1 .. 10 * (s + 1) + 10
<1>1. slot[s].id \in Nat /\ s \in Nat
  BY DEF TypeOK, Slots
<1>2. slot[s].id % 10 \in 0 .. 9
  BY <1>1
<1> QED
  BY <1>1, <1>2 DEF Fresh

\* After ensure the slots are large enough and the parameters are the operation's.
LEMMA EnsureIInv ==
  ASSUME IInv, NEW t \in Threads, Ensure(t)
  PROVE  IInv'
<1> DEFINE op   == Op1(t)
           grow == {s \in SlotsOf(op.kind) : TooSmall(s, op.size)}
           new  == [i \in {Fresh(s) : s \in grow} |-> Unwritten]
<1>1. /\ Busy(t) /\ Advance(t) /\ Step(t) = "ensure"
      /\ slot' = [s \in Slots |-> IF s \in grow THEN [id |-> Fresh(s), size |-> op.size] ELSE slot[s]]
      /\ buffer' = Over(new, buffer) /\ uniform' = Params(op)
      /\ UNCHANGED <<todo, cached, disturbed, read, out>>
  BY DEF Ensure
<1>2. TypeOK /\ ThreadInv(t) /\ todo[t] # <<>> /\ SlotIds
  BY <1>1 DEF IInv, Busy
<1>3. /\ ~Ends(t) /\ op \in Ops /\ op.size \in Nat \ {0} /\ op.kind \in Kinds
      /\ SlotsOf(op.kind) \subseteq Slots
  BY <1>1, <1>2, CurrentStep DEF Final, Ops, Slots
<1>4. Step(t)' = "submit" /\ Op1(t)' = Op1(t) /\ todo'[t] # <<>>
  BY <1>1, <1>2, <1>3, StepGoesOn DEF Follows
<1>5. ASSUME NEW s \in Slots
      PROVE  /\ slot'[s] \in [id : Nat, size : Nat] /\ slot'[s].size >= slot[s].size
             /\ s \in SlotsOf(op.kind) => slot'[s].size >= op.size
             /\ slot'[s] = slot[s] \/ (slot'[s].id = Fresh(s) /\ s \in grow)
  <2>1. slot[s] \in [id : Nat, size : Nat]
    BY <1>2 DEF TypeOK
  <2>2. CASE s \in grow
    <3>1. slot'[s] = [id |-> Fresh(s), size |-> op.size] /\ slot[s].size < op.size
      BY <2>2, <1>1 DEF TooSmall
    <3> QED
      BY <3>1, <2>1, <2>2, <1>2, <1>3, FreshId
  <2>3. CASE s \notin grow
    <3>1. slot'[s] = slot[s] /\ (s \in SlotsOf(op.kind) => ~(slot[s].size < op.size))
      BY <2>3, <1>1 DEF TooSmall
    <3>2. slot[s].size \in Nat /\ op.size \in Nat
      BY <2>1, <1>3
    <3> HIDE DEF op, grow
    <3> QED
      BY <3>1, <3>2, <2>1
  <2> QED
    BY <2>2, <2>3
<1>6. slot' \in [Slots -> [id : Nat, size : Nat]]
  BY <1>1, <1>5
<1>7. /\ buffer' \in [DOMAIN buffer' -> Contents]
      /\ \A s \in grow : Fresh(s) \in DOMAIN buffer'
      /\ DOMAIN buffer \subseteq DOMAIN buffer'
  <2>1. Unwritten \in Contents
    BY DEF Unwritten, Contents, Uniforms, Slots
  <2>2. new \in [DOMAIN new -> Contents] /\ DOMAIN new = {Fresh(s) : s \in grow}
    BY <2>1
  <2>3. buffer \in [DOMAIN buffer -> Contents]
    BY <1>2 DEF TypeOK
  <2> HIDE DEF new, grow
  <2>4. DOMAIN buffer' = DOMAIN new \cup DOMAIN buffer
    BY <1>1, OverHolds
  <2>5. buffer' \in [DOMAIN buffer' -> Contents]
    BY <1>1, <2>2, <2>3, OverHolds
  <2> QED
    BY <2>2, <2>4, <2>5
<1>8. SlotIds'
  <2> SUFFICES ASSUME NEW s \in Slots
               PROVE  /\ slot'[s].id \in DOMAIN buffer'
                      /\ slot'[s].size > 0 => slot'[s].id \in 10 * (s + 1) + 1 .. 10 * (s + 1) + 10
    BY DEF SlotIds
  <2> HIDE DEF grow
  <2> QED
    BY <1>2, <1>5, <1>7, FreshId DEF SlotIds
<1>9. Sized(t)' /\ InDevice(t)'
  <2>1. ~Submitted(t)'
    BY <1>4 DEF Submitted, Doing
  <2> QED
    BY <2>1, <1>1, <1>3, <1>4, <1>5 DEF Sized, InDevice
<1>10. ReadParts(t)' /\ Finished(t)'
  <2>1. ~Doing(t, {"read1"})' /\ ~Doing(t, {"read1"})
    BY <1>1, <1>4 DEF Doing
  <2>2. read'[t] = <<>> /\ DOMAIN read'[t] = {}
    BY <2>1, <1>1, <1>2, NothingRead DEF ThreadInv
  <2> QED
    BY <2>1, <2>2, <1>1, <1>2 DEF ReadParts, Finished, ThreadInv
<1>11. uniform' \in Uniforms
  BY <1>1, <1>3 DEF Uniforms, Params
<1> QED
  BY <1>1, <1>2, <1>3, <1>5, <1>6, <1>7, <1>8, <1>9, <1>10, <1>11, HolderSteps DEF TypeOK

\* The slots of an operation that ensured them have different buffers.
LEMMA SlotsApart ==
  ASSUME TypeOK, SlotIds, NEW t \in Threads, Ensured(t), Sized(t),
         NEW s \in SlotsOf(Op1(t).kind), NEW r \in SlotsOf(Op1(t).kind), slot[s].id = slot[r].id
  PROVE  s = r
<1>1. /\ Op1(t) \in Ops /\ s \in Slots /\ r \in Slots
  BY CurrentStep DEF Ensured, Doing, Slots
<1>2. Op1(t).size \in Nat \ {0} /\ slot[s].size \in Nat /\ slot[r].size \in Nat
  BY <1>1 DEF Ops, TypeOK
<1>3. slot[s].size >= Op1(t).size /\ slot[r].size >= Op1(t).size
  BY DEF Sized
<1>4. slot[s].size > 0 /\ slot[r].size > 0
  BY <1>2, <1>3
<1>5. /\ slot[s].id \in 10 * (s + 1) + 1 .. 10 * (s + 1) + 10
      /\ slot[r].id \in 10 * (r + 1) + 1 .. 10 * (r + 1) + 10
  BY <1>1, <1>4 DEF SlotIds
<1>6. s \in {0, 1} /\ r \in {0, 1}
  BY <1>1 DEF Slots
<1> QED
  BY <1>5, <1>6

\* After submit the buffers hold the operation's results for the parameters the
\* device has.
LEMMA SubmitIInv ==
  ASSUME IInv, NEW t \in Threads, Submit(t)
  PROVE  IInv'
<1> DEFINE op  == Op1(t)
           ids == [s \in SlotsOf(op.kind) |-> slot[s].id]
           new == [i \in {ids[s] : s \in DOMAIN ids} |->
                     [of |-> <<t, Nth(t)>>, slot |-> CHOOSE s \in DOMAIN ids : ids[s] = i, params |-> uniform]]
<1>1. /\ Busy(t) /\ Advance(t) /\ Step(t) = "submit"
      /\ buffer' = Over(new, buffer)
      /\ UNCHANGED <<todo, slot, uniform, cached, disturbed, read, out>>
  BY DEF Submit
<1>2. TypeOK /\ ThreadInv(t) /\ todo[t] # <<>> /\ SlotIds
  BY <1>1 DEF IInv, Busy
<1>3. /\ ~Ends(t) /\ op \in Ops /\ op.kind \in Kinds /\ SlotsOf(op.kind) \subseteq Slots
      /\ Ensured(t) /\ Nth(t) \in Nat
  <2>1. ~Ends(t) /\ op \in Ops /\ SlotsOf(op.kind) \subseteq Slots
    BY <1>1, <1>2, CurrentStep DEF Final, Slots
  <2>2. out[t] \in Seq(Results)
    BY <1>2 DEF TypeOK
  <2> QED
    BY <2>1, <2>2, <1>1, <1>2 DEF Ops, Ensured, Doing, Nth
<1>4. Step(t)' = "read0" /\ Op1(t)' = Op1(t) /\ todo'[t] # <<>>
  BY <1>1, <1>2, <1>3, StepGoesOn DEF Follows
<1>5. ASSUME NEW s \in SlotsOf(op.kind)
      PROVE  new[slot[s].id] = [of |-> <<t, Nth(t)>>, slot |-> s, params |-> uniform]
  <2>1. \A r \in SlotsOf(op.kind) : slot[r].id = slot[s].id => r = s
    BY <1>2, <1>3, SlotsApart DEF ThreadInv
  <2>2. (CHOOSE r \in DOMAIN ids : ids[r] = slot[s].id) = s
    BY <2>1
  <2>3. slot[s].id \in {ids[r] : r \in DOMAIN ids}
    OBVIOUS
  <2> QED
    BY <2>2, <2>3
<1>6. /\ DOMAIN new = {slot[s].id : s \in SlotsOf(op.kind)}
      /\ new \in [DOMAIN new -> Contents]
  <2>1. DOMAIN new = {slot[s].id : s \in SlotsOf(op.kind)}
    OBVIOUS
  <2>2. ASSUME NEW s \in SlotsOf(op.kind) PROVE new[slot[s].id] \in Contents
    <3>1. <<t, Nth(t)>> \in Threads \X Nat /\ uniform \in Uniforms /\ s \in Slots
      BY <1>2, <1>3 DEF TypeOK
    <3> QED
      BY <1>5, <3>1 DEF Contents
  <2>3. new = [i \in DOMAIN new |-> new[i]]
    OBVIOUS
  <2> HIDE DEF new
  <2> QED
    BY <2>1, <2>2, <2>3
<1> HIDE DEF new, ids
<1>7. /\ buffer' \in [DOMAIN buffer' -> Contents]
      /\ DOMAIN buffer \subseteq DOMAIN buffer'
      /\ \A s \in SlotsOf(op.kind) : buffer'[slot[s].id] = [of |-> <<t, Nth(t)>>, slot |-> s, params |-> uniform]
  <2>1. buffer \in [DOMAIN buffer -> Contents]
    BY <1>2 DEF TypeOK
  <2>2. DOMAIN buffer' = DOMAIN new \cup DOMAIN buffer
    BY <1>1, OverHolds
  <2>3. buffer' \in [DOMAIN buffer' -> Contents]
    BY <1>1, <1>6, <2>1, OverHolds
  <2>4. ASSUME NEW s \in SlotsOf(op.kind) PROVE buffer'[slot[s].id] = new[slot[s].id]
    <3>1. slot[s].id \in DOMAIN new
      BY <1>6
    <3> QED
      BY <3>1, <1>1, OverHolds
  <2> QED
    BY <2>2, <2>3, <2>4, <1>5
<1>8. SlotIds'
  BY <1>1, <1>2, <1>7 DEF SlotIds
<1>9. Sized(t)'
  BY <1>1, <1>2, <1>3, <1>4 DEF Sized, ThreadInv
<1>10. InDevice(t)'
  <2>1. ASSUME ~disturbed[t] PROVE uniform = Params(op)
    BY <2>1, <1>2, <1>3 DEF InDevice, ThreadInv
  <2>2. Own(t, 0)' = Own(t, 0) /\ Own(t, 1)' = Own(t, 1) /\ \A s : Own(t, s)' = Own(t, s)
    BY <1>1, <1>4 DEF Own, Nth
  <2> QED
    BY <2>1, <2>2, <1>1, <1>4, <1>7 DEF InDevice, Own
<1>11. ReadParts(t)' /\ Finished(t)'
  <2>1. ~Doing(t, {"read1"})' /\ ~Doing(t, {"read1"})
    BY <1>1, <1>4 DEF Doing
  <2>2. read'[t] = <<>> /\ DOMAIN read'[t] = {}
    BY <2>1, <1>1, <1>2, NothingRead DEF ThreadInv
  <2> QED
    BY <2>1, <2>2, <1>1, <1>2 DEF ReadParts, Finished, ThreadInv
<1>12. \A s \in Slots : slot'[s].size >= slot[s].size
  BY <1>1, <1>2 DEF TypeOK
<1> QED
  BY <1>1, <1>2, <1>3, <1>7, <1>8, <1>9, <1>10, <1>11, <1>12, HolderSteps DEF TypeOK

\* What a readback adds to what was read: a buffer large enough, and the
\* operation's own as long as nobody disturbed it.
LEMMA PartRead ==
  ASSUME IInv, NEW t \in Threads, NEW s \in Slots, Busy(t), Step(t) = IF s = 0 THEN "read0" ELSE "read1",
         NEW parts, parts = Append(read[t], [size |-> slot[s].size, holds |-> buffer[slot[s].id]])
  PROVE  /\ parts \in Seq(Parts) /\ Len(parts) = s + 1
         /\ \A i \in DOMAIN parts : parts[i].size >= Op1(t).size
         /\ ~disturbed[t] => \A i \in DOMAIN parts : parts[i].holds = Own(t, i - 1)
<1> DEFINE part == [size |-> slot[s].size, holds |-> buffer[slot[s].id]]
<1>1. TypeOK /\ ThreadInv(t) /\ todo[t] # <<>> /\ SlotIds
  BY DEF IInv, Busy
<1>2. Ensured(t) /\ Submitted(t) /\ s \in {0, 1}
  BY <1>1 DEF Ensured, Submitted, Doing, Slots
<1>3. s \in SlotsOf(Op1(t).kind)
  BY <1>1, <1>2, CurrentStep DEF Slots
<1>4. part.size >= Op1(t).size /\ (~disturbed[t] => part.holds = Own(t, s))
  BY <1>1, <1>2, <1>3 DEF ThreadInv, Sized, InDevice
<1>5. part \in Parts
  BY <1>1 DEF TypeOK, SlotIds, Parts
<1>6. read[t] \in Seq(Parts) /\ Len(read[t]) = s
  BY <1>1, <1>2 DEF TypeOK, ThreadInv, ReadParts, Doing
<1> HIDE DEF part
<1>7. /\ parts \in Seq(Parts) /\ Len(parts) = s + 1 /\ DOMAIN parts = 1 .. s + 1
      /\ parts[s + 1] = part
      /\ \A i \in 1 .. s : i \in DOMAIN read[t] /\ parts[i] = read[t][i]
  BY <1>5, <1>6 DEF part
<1>8. ASSUME NEW i \in DOMAIN parts
      PROVE  parts[i].size >= Op1(t).size /\ (~disturbed[t] => parts[i].holds = Own(t, i - 1))
  <2>1. CASE i = s + 1
    BY <2>1, <1>2, <1>4, <1>7
  <2>2. CASE i \in 1 .. s
    <3>1. i \in DOMAIN read[t] /\ parts[i] = read[t][i]
      BY <2>2, <1>7
    <3> QED
      BY <3>1, <1>1 DEF ThreadInv, ReadParts
  <2> QED
    BY <2>1, <2>2, <1>2, <1>7
<1> QED
  BY <1>7, <1>8

\* A readback that is not the last leads to the second one.
LEMMA ReadbackGoesOn ==
  ASSUME IInv, NEW t \in Threads, NEW s \in Slots, ReadbackScratch(t, s), ~Ends(t)
  PROVE  IInv'
<1> DEFINE parts == Append(read[t], [size |-> slot[s].size, holds |-> buffer[slot[s].id]])
<1>1. /\ Busy(t) /\ Advance(t) /\ Step(t) = (IF s = 0 THEN "read0" ELSE "read1")
      /\ read' = [read EXCEPT ![t] = parts]
      /\ UNCHANGED <<out, todo, slot, buffer, uniform, cached, disturbed>>
  BY DEF ReadbackScratch
<1>2. TypeOK /\ ThreadInv(t) /\ todo[t] # <<>> /\ SlotIds
  BY <1>1 DEF IInv, Busy
<1>3. /\ parts \in Seq(Parts) /\ Len(parts) = s + 1
      /\ \A i \in DOMAIN parts : parts[i].size >= Op1(t).size
      /\ ~disturbed[t] => \A i \in DOMAIN parts : parts[i].holds = Own(t, i - 1)
  BY <1>1, PartRead
<1> HIDE DEF parts
<1>4. /\ s = 0 /\ Step(t)' = "read1" /\ Op1(t)' = Op1(t) /\ todo'[t] # <<>>
  BY <1>1, <1>2, StepGoesOn DEF Follows, Slots
<1>5. /\ Doing(t, {"read1"})' /\ Ensured(t) /\ Submitted(t)
      /\ \A r : Own(t, r)' = Own(t, r)
  BY <1>1, <1>2, <1>4 DEF Doing, Ensured, Submitted, Own, Nth
<1>6. read' \in [Threads -> Seq(Parts)] /\ read'[t] = parts /\ \A u \in Threads \ {t} : read'[u] = read[u]
  BY <1>1, <1>2, <1>3 DEF TypeOK
<1>7. ReadParts(t)'
  BY <1>1, <1>3, <1>4, <1>5, <1>6 DEF ReadParts
<1>8. Sized(t)' /\ InDevice(t)' /\ Finished(t)'
  BY <1>1, <1>2, <1>4, <1>5 DEF ThreadInv, Sized, InDevice, Finished
<1>9. SlotIds' /\ \A r \in Slots : slot'[r].size >= slot[r].size
  BY <1>1, <1>2 DEF SlotIds, TypeOK
<1> QED
  BY <1>1, <1>2, <1>6, <1>7, <1>8, <1>9, HolderSteps DEF TypeOK

\* The last readback ends the operation.
LEMMA ReadbackEnds ==
  ASSUME IInv, NEW t \in Threads, NEW s \in Slots, ReadbackScratch(t, s), Ends(t)
  PROVE  IInv'
<1> DEFINE parts == Append(read[t], [size |-> slot[s].size, holds |-> buffer[slot[s].id]])
           op    == Op1(t)
           r     == [op |-> op, parts |-> parts, disturbed |-> disturbed[t], kept |-> Len(Scopes(op.kind)) = 1]
<1>1. /\ Busy(t) /\ Advance(t) /\ Step(t) = (IF s = 0 THEN "read0" ELSE "read1")
      /\ out' = [out EXCEPT ![t] = Append(out[t], r)]
      /\ todo' = [todo EXCEPT ![t] = Tail(todo[t])]
      /\ read' = [read EXCEPT ![t] = <<>>]
      /\ UNCHANGED <<slot, buffer, uniform, cached, disturbed>>
  BY DEF ReadbackScratch
<1>2. /\ TypeOK /\ ThreadInv(t) /\ InPlace(t) /\ todo[t] # <<>> /\ SlotIds /\ lock = t
      /\ op \in Ops /\ op.kind \in Kinds /\ Tail(todo[t]) \in Seq(Ops) /\ disturbed[t] \in BOOLEAN
  BY <1>1, CurrentStep DEF IInv, Busy, TypeOK, Ops
<1>3. /\ parts \in Seq(Parts)
      /\ \A i \in DOMAIN parts : parts[i].size >= op.size
      /\ ~disturbed[t] => \A i \in DOMAIN parts : parts[i].holds = Own(t, i - 1)
  BY <1>1, PartRead
<1> HIDE DEF parts
<1>4. op.kind = "linearBatch" => ~disturbed[t]
  <2>1. ASSUME op.kind = "linearBatch" PROVE at[t].scope = 1
    <3>1. Len(Scopes(op.kind)) = 1
      BY <2>1, <1>2, ScopesOrdered
    <3> QED
      BY <3>1, <1>1 DEF Ends
  <2> QED
    BY <2>1, <1>2 DEF ThreadInv, Disturbance
<1>5. r \in Results
  BY <1>2, <1>3 DEF Results
<1>6. Finished(t)'
  <2>1. out[t] \in Seq(Results) /\ out'[t] = Append(out[t], r)
    BY <1>1, <1>2 DEF TypeOK
  <2> SUFFICES ASSUME NEW k \in DOMAIN out'[t]
               PROVE  LET q == out'[t][k] IN
                      /\ q.op.kind = "linearBatch" => ~q.disturbed
                      /\ \A i \in DOMAIN q.parts : q.parts[i].size >= q.op.size
                      /\ ~q.disturbed =>
                           \A i \in DOMAIN q.parts :
                             q.parts[i].holds = [of |-> <<t, k>>, slot |-> i - 1, params |-> Params(q.op)]
    BY DEF Finished
  <2>2. CASE k \in DOMAIN out[t]
    <3>1. out'[t][k] = out[t][k]
      BY <2>1, <2>2, <1>5
    <3> QED
      BY <3>1, <2>2, <1>2 DEF ThreadInv, Finished
  <2>3. CASE k = Nth(t)
    <3>1. out'[t][k] = r
      BY <2>1, <2>3, <1>5 DEF Nth
    <3>2. r.op = op /\ r.parts = parts /\ r.disturbed = disturbed[t]
      OBVIOUS
    <3> HIDE DEF r, op
    <3> QED
      BY <3>1, <3>2, <2>3, <1>3, <1>4 DEF Own, op
  <2>4. DOMAIN out[t] = 1 .. Len(out[t]) /\ k \in 1 .. Len(out[t]) + 1 /\ Len(out[t]) \in Nat
    <3> HIDE DEF r
    <3> QED
      BY <2>1, <1>5
  <2> QED
    BY <2>2, <2>3, <2>4 DEF Nth
<1>7. ~Ensured(t)' /\ ~Submitted(t)' /\ ~Doing(t, {"read1"})'
  <2>1. at'[t].scope = 1 /\ at'[t].step = 1 /\ todo'[t] \in Seq(Ops)
    BY <1>1, <1>2, AdvanceSteps DEF TypeOK
  <2>2. ASSUME todo'[t] # <<>> PROVE Step(t)' \in {"weights", "ensure"}
    <3>1. Op1(t)' \in Ops
      BY <2>1, <2>2 DEF Op1
    <3>2. Op1(t)'.kind \in Kinds
      BY <3>1 DEF Ops
    <3>3. OrderedAt(Op1(t)'.kind, Scopes(Op1(t)'.kind), 1, 1)
      BY <3>2, ScopesOrdered DEF Ordered
    <3> QED
      BY <3>3, <2>1 DEF OrderedAt, Step, Scope
  <2> QED
    BY <2>2 DEF Ensured, Submitted, Doing
<1>8. /\ todo' \in [Threads -> Seq(Ops)] /\ read' \in [Threads -> Seq(Parts)]
      /\ out' \in [Threads -> Seq(Results)]
      /\ todo'[t] = Tail(todo[t]) /\ read'[t] = <<>>
      /\ \A u \in Threads \ {t} : todo'[u] = todo[u] /\ read'[u] = read[u] /\ out'[u] = out[u]
  <2>1. <<>> \in Seq(Parts) /\ Append(out[t], r) \in Seq(Results)
    BY <1>2, <1>5 DEF TypeOK
  <2> HIDE DEF r
  <2> QED
    BY <2>1, <1>1, <1>2 DEF TypeOK
<1>9. Sized(t)' /\ ReadParts(t)' /\ InDevice(t)'
  BY <1>7, <1>8 DEF Sized, ReadParts, InDevice
<1>10. SlotIds' /\ \A q \in Slots : slot'[q].size >= slot[q].size
  BY <1>1, <1>2 DEF SlotIds, TypeOK
<1> HIDE DEF r
<1> QED
  BY <1>1, <1>2, <1>6, <1>8, <1>9, <1>10, HolderSteps DEF TypeOK

\* A step that changes nothing.
LEMMA StutterIInv ==
  ASSUME IInv, UNCHANGED vars
  PROVE  IInv'
<1>1. UNCHANGED <<todo, at, lock, slot, buffer, uniform, cached, disturbed, read, out>>
  BY DEF vars
<1>2. TypeOK' /\ SlotIds'
  BY <1>1 DEF IInv, TypeOK, InPlace, Scope, Op1, SlotIds
<1>3. ASSUME NEW t \in Threads PROVE ThreadInv(t)'
  <2>1. ThreadInv(t)
    BY DEF IInv
  <2> QED
    BY <2>1, <1>1 DEF ThreadInv, InScope, Disturbance, Sized, ReadParts, InDevice, Finished,
                      Ensured, Submitted, Doing, Own, Nth, Op1, Step, Scope
<1> QED
  BY <1>1, <1>2, <1>3 DEF IInv

-----------------------------------------------------------------------------
(* The theorems *)

\* In every reachable state a thread is where its operation's scopes say, the
\* slots it ensured are large enough, and what it put on the device is still
\* there unless another thread had the pool (buffers.rs:48-128).
THEOREM Invariance == Spec => []IInv
<1>1. Init => IInv
  BY InitIInv
<1>2. IInv /\ [Next]_vars => IInv'
  <2> SUFFICES ASSUME IInv, [Next]_vars PROVE IInv'
    OBVIOUS
  <2>1. ASSUME NEW t \in Threads, Take(t) PROVE IInv'
    BY <2>1, TakeIInv
  <2>2. ASSUME NEW t \in Threads, CacheWeight(t) PROVE IInv'
    BY <2>2, CacheWeightIInv
  <2>3. ASSUME NEW t \in Threads, Ensure(t) PROVE IInv'
    BY <2>3, EnsureIInv
  <2>4. ASSUME NEW t \in Threads, Submit(t) PROVE IInv'
    BY <2>4, SubmitIInv
  <2>5. ASSUME NEW t \in Threads, NEW s \in Slots, ReadbackScratch(t, s) PROVE IInv'
    BY <2>5, ReadbackGoesOn, ReadbackEnds
  <2>6. CASE AllDone
    BY <2>6, StutterIInv DEF AllDone
  <2>7. CASE UNCHANGED vars
    BY <2>7, StutterIInv
  <2> QED
    BY <2>1, <2>2, <2>3, <2>4, <2>5, <2>6, <2>7 DEF Next
<1> QED
  BY <1>1, <1>2, PTL DEF Spec

\* The pool's state and every thread's place keep their types.
THEOREM TypeCorrect == Spec => []TypeOK
<1>1. IInv => TypeOK
  BY DEF IInv
<1> QED
  BY <1>1, Invariance, PTL

\* Whatever other threads do between an operation's scopes, its buffers are as
\* large as it asked for when it submits and when it reads back
\* (buffers.rs:48-128).
THEOREM ScratchFitsAlways == Spec => []ScratchFits
<1>1. IInv => ScratchFits
  <2> SUFFICES ASSUME IInv, NEW t \in Threads
               PROVE  /\ \A k \in DOMAIN out[t] : \A i \in DOMAIN out[t][k].parts :
                           out[t][k].parts[i].size >= out[t][k].op.size
                      /\ todo[t] # <<>> =>
                           /\ \A i \in DOMAIN read[t] : read[t][i].size >= Op1(t).size
                           /\ lock = t /\ Step(t) \in {"submit", "read0", "read1"} =>
                                \A s \in SlotsOf(Op1(t).kind) : slot[s].size >= Op1(t).size
    BY DEF ScratchFits
  <2>1. Finished(t) /\ ReadParts(t) /\ Sized(t)
    BY DEF IInv, ThreadInv
  <2> QED
    BY <2>1 DEF Finished, ReadParts, Sized, Ensured, Doing
<1> QED
  BY <1>1, Invariance, PTL

\* An operation that keeps the pool from upload to readback returns its own
\* result, and so does any other that nobody came between
\* (dispatch_batch.rs:10-107, buffers.rs:94-128).
THEOREM OwnResultsAlways == Spec => []OwnResults
<1>1. IInv => OwnResults
  BY DEF IInv, ThreadInv, Finished, OwnResults
<1> QED
  BY <1>1, Invariance, PTL
=============================================================================
