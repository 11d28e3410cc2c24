------------------------------ MODULE GpuPool ------------------------------
(***************************************************************************)
(* The wgpu tier's buffer pool under the batch threads (wgpu_tier/         *)
(* buffers.rs and the operations that use it).  The pool is one mutex over *)
(* two scratch slots, a uniform buffer and cached weights; an operation    *)
(* takes the mutex for one or several scopes.  The device runs what is     *)
(* submitted in order, and a uniform written before a submit is what that  *)
(* submit sees.                                                            *)
(*                                                                         *)
(* Threads   the batch threads; Programs[t] the sequences of operations t  *)
(*           may be asked for; an operation is [kind, size, w]: what it    *)
(*           is, the floats it writes, the weight it caches                *)
(***************************************************************************)
EXTENDS Integers, Sequences, FiniteSets

CONSTANTS Threads, Programs

Free == "free"

Kinds == {"linearBatch", "layerNormBatch", "matvec", "matvecResident", "layerNorm",
          "derivative", "derivativeBatch", "backwardDx"}
Ops   == [kind : Kinds, size : Nat \ {0}, w : STRING]

\* Nobody asks for an empty result.
ASSUME GpuPoolAssumption ==
  /\ Free \notin Threads
  /\ \A t \in Threads : \A p \in Programs[t] : p \in Seq(Ops)

Unwritten == [of |-> <<>>, slot |-> 0, params |-> <<>>]
Slots == {0, 1}

VARIABLES
  todo,      \* thread -> operations left, the current one first
  at,        \* thread -> [scope, step] of the current operation
  lock,      \* who holds the pool
  slot,      \* slot -> [id, size]: the buffer there, size 0 before the first
  buffer,    \* id -> what the buffer holds
  uniform,   \* what the uniform buffer holds
  cached,    \* weights on the device
  disturbed, \* thread -> has another held the pool since the operation began
  read,      \* thread -> what the current operation read back so far
  out        \* thread -> [op, parts, kept, disturbed] of each finished operation

vars == <<todo, at, lock, slot, buffer, uniform, cached, disturbed, read, out>>

-----------------------------------------------------------------------------
(* What each operation does under each taking of the mutex.                *)
Kept  == << <<"weights", "ensure", "submit", "read0">> >>
Split == << <<"ensure">>, <<"submit">>, <<"read0">> >>
Norms == << <<"weights">>, <<"ensure">>, <<"submit">>, <<"read0">> >>
Pair  == << <<"ensure">>, <<"submit">>, <<"read0">>, <<"read1">> >>
Late  == << <<"ensure">>, <<"submit", "read0">> >>

(* Mutant: linear_batch drops the pool before reading back.                *)
ScopesDropped(kind) ==
  CASE kind = "linearBatch" -> << <<"weights", "ensure", "submit">>, <<"read0">> >>
    [] kind = "layerNormBatch" -> Norms
    [] kind \in {"matvec", "matvecResident", "layerNorm"} -> Split
    [] kind \in {"derivative", "derivativeBatch"} -> Pair
    [] kind = "backwardDx" -> Late

Scopes(kind) ==
  CASE kind = "linearBatch" -> Kept
    [] kind = "layerNormBatch" -> Norms
    [] kind \in {"matvec", "matvecResident", "layerNorm"} -> Split
    [] kind \in {"derivative", "derivativeBatch"} -> Pair
    [] kind = "backwardDx" -> Late

SlotsOf(kind) == IF kind \in {"derivative", "derivativeBatch"} THEN Slots ELSE {0}

Op(kind, size, w) == [kind |-> kind, size |-> size, w |-> w]

(* The integration the host steers asks for four derivatives a step.       *)
HostRk4(kind, size, steps) == [i \in 1 .. 4 * steps |-> Op(kind, size, "none")]

KerrOde(n, steps)              == HostRk4("derivative", n, steps)
KerrOdeBatch(n, rows, steps)   == HostRk4("derivativeBatch", n * rows, steps)

Params(op) == <<op.kind, op.size>>

(* The buffers of new take the place of the old ones under their ids.      *)
Over(new, old) == [i \in DOMAIN new \cup DOMAIN old |-> IF i \in DOMAIN new THEN new[i] ELSE old[i]]

-----------------------------------------------------------------------------
Op1(t)   == todo[t][1]
Nth(t)   == Len(out[t]) + 1
Scope(t) == Scopes(Op1(t).kind)[at[t].scope]
Step(t)  == Scope(t)[at[t].step]
Busy(t)  == todo[t] # <<>> /\ lock = t

Last(t)  == at[t].step = Len(Scope(t))
Ends(t)  == Last(t) /\ at[t].scope = Len(Scopes(Op1(t).kind))

(* After a step: the next of the scope, or the mutex is dropped.           *)
Advance(t) ==
  /\ lock' = IF Last(t) THEN Free ELSE lock
  /\ at' = [at EXCEPT ![t] = IF Ends(t) THEN [scope |-> 1, step |-> 1]
                             ELSE IF Last(t) THEN [scope |-> @.scope + 1, step |-> 1]
                             ELSE [scope |-> @.scope, step |-> @.step + 1]]

Take(t) ==
  /\ todo[t] # <<>> /\ lock = Free
  /\ lock' = t
  /\ disturbed' = [u \in Threads |-> IF u = t THEN disturbed[u] /\ at[u].scope > 1
                                     ELSE disturbed[u] \/ at[u].scope > 1]
  /\ UNCHANGED <<todo, at, slot, buffer, uniform, cached, read, out>>

CacheWeight(t) ==
  /\ Busy(t) /\ Step(t) = "weights"
  /\ cached' = cached \cup {Op1(t).w}
  /\ Advance(t)
  /\ UNCHANGED <<todo, slot, buffer, uniform, disturbed, read, out>>

(* Mutant: a slot is made anew whenever its size is not the one asked for. *)
TooSmallOrLarge(s, size) == slot[s].size # size

TooSmall(s, size) == slot[s].size < size

Fresh(s) == 10 * (s + 1) + (slot[s].id % 10) + 1

(* A slot too small is replaced, and what it held is gone.                 *)
Ensure(t) ==
  LET op   == Op1(t)
      grow == {s \in SlotsOf(op.kind) : TooSmall(s, op.size)}
  IN  /\ Busy(t) /\ Step(t) = "ensure"
      /\ slot' = [s \in Slots |-> IF s \in grow THEN [id |-> Fresh(s), size |-> op.size] ELSE slot[s]]
      /\ buffer' = Over([i \in {Fresh(s) : s \in grow} |-> Unwritten], buffer)
      /\ uniform' = Params(op)
      /\ Advance(t)
      /\ UNCHANGED <<todo, cached, disturbed, read, out>>

Submit(t) ==
  LET op  == Op1(t)
      ids == [s \in SlotsOf(op.kind) |-> slot[s].id]
  IN  /\ Busy(t) /\ Step(t) = "submit"
      /\ buffer' = Over([i \in {ids[s] : s \in DOMAIN ids} |->
                           [of |-> <<t, Nth(t)>>, slot |-> CHOOSE s \in DOMAIN ids : ids[s] = i, params |-> uniform]],
                        buffer)
      /\ Advance(t)
      /\ UNCHANGED <<todo, slot, uniform, cached, disturbed, read, out>>

(* Copies whatever buffer is in the slot now.                              *)
ReadbackScratch(t, s) ==
  LET op    == Op1(t)
      parts == Append(read[t], [size |-> slot[s].size, holds |-> buffer[slot[s].id]])
  IN  /\ Busy(t) /\ Step(t) = (IF s = 0 THEN "read0" ELSE "read1")
      /\ Advance(t)
      /\ IF Ends(t)
         THEN /\ out' = [out EXCEPT ![t] = Append(@, [op |-> op, parts |-> parts, disturbed |-> disturbed[t],
                                                      kept |-> Len(Scopes(op.kind)) = 1])]
              /\ todo' = [todo EXCEPT ![t] = Tail(@)]
              /\ read' = [read EXCEPT ![t] = <<>>]
         ELSE /\ read' = [read EXCEPT ![t] = parts]
              /\ UNCHANGED <<out, todo>>
      /\ UNCHANGED <<slot, buffer, uniform, cached, disturbed>>

AllDone ==
  /\ \A t \in Threads : todo[t] = <<>>
  /\ UNCHANGED vars

Init ==
  /\ todo \in {f \in [Threads -> UNION {Programs[t] : t \in Threads}] : \A t \in Threads : f[t] \in Programs[t]}
  /\ at = [t \in Threads |-> [scope |-> 1, step |-> 1]]
  /\ lock = Free
  /\ slot = [s \in Slots |-> [id |-> 0, size |-> 0]]
  /\ buffer = [i \in {0} |-> Unwritten]
  /\ uniform = <<>>
  /\ cached = {}
  /\ disturbed = [t \in Threads |-> FALSE]
  /\ read = [t \in Threads |-> <<>>]
  /\ out = [t \in Threads |-> <<>>]

Next ==
  \/ \E t \in Threads : Take(t) \/ CacheWeight(t) \/ Ensure(t) \/ Submit(t) \/ \E s \in Slots : ReadbackScratch(t, s)
  \/ AllDone

Spec == Init /\ [][Next]_vars

-----------------------------------------------------------------------------
Uniforms == {<<>>} \cup (Kinds \X (Nat \ {0}))
Contents == [of : {<<>>} \cup (Threads \X Nat), slot : Slots, params : Uniforms]
Parts    == [size : Nat, holds : Contents]
Results  == [op : Ops, parts : Seq(Parts), disturbed : BOOLEAN, kept : BOOLEAN]

(* A thread is at a step of its current operation, or has none.            *)
InPlace(t) ==
  /\ todo[t] = <<>> => at[t] = [scope |-> 1, step |-> 1]
  /\ todo[t] # <<>> => at[t].scope \in DOMAIN Scopes(Op1(t).kind) /\ at[t].step \in DOMAIN Scope(t)

TypeOK ==
  /\ todo \in [Threads -> Seq(Ops)]
  /\ at \in [Threads -> [scope : Nat \ {0}, step : Nat \ {0}]]
  /\ \A t \in Threads : InPlace(t)
  /\ lock \in Threads \cup {Free}
  /\ slot \in [Slots -> [id : Nat, size : Nat]]
  /\ buffer \in [DOMAIN buffer -> Contents]
  /\ uniform \in Uniforms
  /\ cached \subseteq STRING
  /\ disturbed \in [Threads -> BOOLEAN]
  /\ read \in [Threads -> Seq(Parts)]
  /\ out \in [Threads -> Seq(Results)]

(* Whatever the other threads do between an operation's scopes, a readback *)
(* copies from a buffer that exists and is at least as large as asked for, *)
(* and a kernel is bound to buffers that large.                            *)
ScratchFits ==
  \A t \in Threads :
    /\ \A k \in DOMAIN out[t] : \A i \in DOMAIN out[t][k].parts : out[t][k].parts[i].size >= out[t][k].op.size
    /\ todo[t] # <<>> =>
         /\ \A i \in DOMAIN read[t] : read[t][i].size >= Op1(t).size
         /\ lock = t /\ Step(t) \in {"submit", "read0", "read1"} => \A s \in SlotsOf(Op1(t).kind) : slot[s].size >= Op1(t).size

(* An operation that keeps the mutex from upload to readback gets its own  *)
(* result whatever the rest of the tier does; one that drops it in between *)
(* gets its own if nobody else took the pool meanwhile.                    *)
OwnResults ==
  \A t \in Threads : \A k \in DOMAIN out[t] :
    LET r == out[t][k] IN
    r.op.kind = "linearBatch" \/ ~r.disturbed =>
      \A i \in DOMAIN r.parts : r.parts[i].holds = [of |-> <<t, k>>, slot |-> i - 1, params |-> Params(r.op)]
=============================================================================
