---------------------------- MODULE ServeProofs -----------------------------
(***************************************************************************)
(* Proofs about the serving side, ChatServe and the cache its generations  *)
(* run on, KvCache.                                                        *)
(*                                                                         *)
(* ChatServe: for every finite set of requests, channel capacity and       *)
(* number of threads, and whoever leaves, panics or is killed, clients     *)
(* read one script, the memory file counts what was answered, and the      *)
(* server implements Completion.                                           *)
(*                                                                         *)
(* KvCache: for every model, whatever its layers compute, and every        *)
(* conversation, the cache holds at each layer what recomputing all        *)
(* positions with the attention of training would give.  The layers of a   *)
(* pass are a recursive function.  That it exists, for any number of       *)
(* layers, is shown by the least number of layers for which it might not.  *)
(***************************************************************************)
EXTENDS ChatServe, KvCache, FiniteSetTheorems, SequenceTheorems, WellFoundedInduction, TLAPS

-----------------------------------------------------------------------------
(* The inductive invariant *)

\* What a handler and its blocking task are doing, by where the other and the
\* connection are; only the handler that saves has the mutex.
HandlerFits(r) ==
  /\ conn[r] \in {"idle", "refused"} => handler[r] = "none" /\ worker[r] = "none"
  /\ conn[r] = "answered" => worker[r] = "done"
  /\ handler[r] = "start" => conn[r] = "open" /\ worker[r] = "none"
  /\ handler[r] = "await" => conn[r] = "open" /\ kind[r] = "whole" /\ worker[r] \in {"queued", "run", "done"}
  /\ handler[r] \in {"count", "save", "reply"} =>
       conn[r] \in {"open", "gone"} /\ kind[r] = "whole" /\ worker[r] = "done"
  /\ handler[r] \in {"count", "save"} => UseMemory
  /\ lock = r <=> handler[r] = "save"
  /\ server = "down" => handler[r] = "none"

\* Tokens are generated by a task that has a thread, and a whole answer that is
\* finished has all of them.
MadeFits(r) ==
  /\ made[r] <= want[r]
  /\ worker[r] \in {"none", "queued"} => made[r] = 0
  /\ worker[r] = "stop" => kind[r] = "stream"
  /\ worker[r] = "done" /\ kind[r] = "whole" => made[r] = want[r]

\* The i-th event of the script.
Event(r, i) ==
  IF i = 1 THEN Role ELSE IF i = want[r] + 2 THEN DoneMark ELSE Token(i - 1, i - 1 = want[r])

SeenLen(r) == Len(seen[r])
ChanLen(r) == Len(chan[r])

Sent(r) == SeenLen(r) + ChanLen(r)

\* What the client has and what is under way continue each other.
Scripted(r) ==
  /\ \A i \in DOMAIN seen[r] : seen[r][i] = Event(r, i)
  /\ \A i \in DOMAIN chan[r] : chan[r][i] = Event(r, SeenLen(r) + i)

\* How far they reach is where the task is.
Reach(r) ==
  /\ Sent(r) <= want[r] + 2
  /\ conn[r] # "open" => chan[r] = <<>>
  /\ kind[r] = "whole" \/ worker[r] = "none" => Sent(r) = 0
  /\ kind[r] = "stream" =>
       /\ conn[r] = "open" /\ worker[r] \in {"queued", "run"} => Sent(r) = made[r] + 1
       /\ conn[r] = "open" /\ worker[r] = "stop" => Sent(r) = want[r] + 1
       /\ conn[r] = "open" /\ worker[r] = "done" => Sent(r) = want[r] + 2
       /\ conn[r] = "answered" => Sent(r) = want[r] + 2

RequestInv(r) == HandlerFits(r) /\ MadeFits(r) /\ Scripted(r) /\ Reach(r)

\* Finished whole answers past their turn to be counted, and those past the save.
Counted == {r \in Requests : kind[r] = "whole" /\ worker[r] = "done" /\ handler[r] \notin {"await", "count"}}
Kept    == {r \in Requests : kind[r] = "whole" /\ (conn[r] = "answered" \/ handler[r] = "reply")}

\* The counters in memory and on disk lie between the two, up to failed saves;
\* the one who holds the mutex is counted in memory only.
Remembered ==
  /\ convos <= Cardinality(Counted)
  /\ file.parses => file.n <= Cardinality(Counted)
  /\ UseMemory => Cardinality(Kept) + (IF lock = Free THEN 0 ELSE 1) <= convos + fails
  /\ UseMemory /\ file.parses => Cardinality(Kept) <= file.n + fails

IInv ==
  /\ TypeOK
  /\ \A r \in Requests : RequestInv(r)
  /\ Remembered

-----------------------------------------------------------------------------
(* Frames *)

\* Nothing of request q changes.
Same(q) ==
  /\ conn'[q] = conn[q] /\ kind'[q] = kind[q] /\ want'[q] = want[q]
  /\ handler'[q] = handler[q] /\ worker'[q] = worker[q] /\ made'[q] = made[q]
  /\ chan'[q] = chan[q] /\ seen'[q] = seen[q]

\* A request whose state, and whose hold on the mutex, stay as they are.
LEMMA SameFits ==
  ASSUME NEW q \in Requests, RequestInv(q), Same(q), lock' = q <=> lock = q,
         server' = "down" => server = "down" \/ handler[q] = "none"
  PROVE  RequestInv(q)'
<1>1. HandlerFits(q)' /\ MadeFits(q)'
  BY DEF RequestInv, HandlerFits, MadeFits, Same
<1>2. Scripted(q)' /\ Reach(q)'
  <2>1. Sent(q)' = Sent(q) /\ SeenLen(q)' = SeenLen(q) /\ \A i : Event(q, i)' = Event(q, i)
    BY DEF Same, Sent, SeenLen, ChanLen, Event
  <2> QED
    BY <2>1 DEF RequestInv, Scripted, Reach, Same
<1> QED
  BY <1>1, <1>2 DEF RequestInv

\* Sets of requests have cardinalities, ordered as the sets are.
LEMMA RequestSets ==
  ASSUME NEW S \in SUBSET Requests, NEW T \in SUBSET Requests
  PROVE  /\ IsFiniteSet(S) /\ Cardinality(S) \in Nat
         /\ S \subseteq T => Cardinality(S) <= Cardinality(T)
BY ChatServeAssumption, FS_Subset, FS_CardinalityType

\* What the memory's numbers are.
LEMMA MemoryTypes ==
  ASSUME TypeOK
  PROVE  /\ convos \in Nat /\ file.n \in Nat /\ file.parses \in BOOLEAN
         /\ fails \in Nat /\ fails <= MaxFails /\ MaxFails \in Nat
         /\ Cardinality(Kept) \in Nat /\ Cardinality(Counted) \in Nat
<1>1. Kept \in SUBSET Requests /\ Counted \in SUBSET Requests
  BY DEF Kept, Counted
<1>2. Cardinality(Kept) \in Nat /\ Cardinality(Counted) \in Nat
  BY <1>1, RequestSets
<1> QED
  BY <1>2, ChatServeAssumption DEF TypeOK

\* What is remembered stays right while more is counted and less was kept.
LEMMA MemoryKept ==
  ASSUME TypeOK, Remembered, UNCHANGED <<convos, file, fails>>, lock' \in {lock, Free},
         Counted \subseteq Counted', Kept' \subseteq Kept
  PROVE  Remembered'
<1>1. /\ Counted \in SUBSET Requests /\ Counted' \in SUBSET Requests
      /\ Kept \in SUBSET Requests /\ Kept' \in SUBSET Requests
  BY DEF Counted, Kept
<1>2. /\ Cardinality(Counted) \in Nat /\ Cardinality(Counted') \in Nat
      /\ Cardinality(Kept) \in Nat /\ Cardinality(Kept') \in Nat
      /\ Cardinality(Counted) <= Cardinality(Counted') /\ Cardinality(Kept') <= Cardinality(Kept)
  BY <1>1, RequestSets
<1>3. convos \in Nat /\ file.n \in Nat /\ fails \in Nat
  BY ChatServeAssumption DEF TypeOK
<1> DEFINE held(l) == IF l = Free THEN 0 ELSE 1
<1>4. held(lock') <= held(lock) /\ held(lock) \in {0, 1} /\ held(lock') \in {0, 1}
  OBVIOUS
<1>5. /\ convos <= Cardinality(Counted')
      /\ file.parses => file.n <= Cardinality(Counted')
  BY <1>2, <1>3 DEF Remembered
<1>6. UseMemory => Cardinality(Kept') + held(lock') <= convos + fails
  <2>1. UseMemory => Cardinality(Kept) + held(lock) <= convos + fails
    BY DEF Remembered
  <2> HIDE DEF held
  <2> QED
    BY <2>1, <1>2, <1>3, <1>4
<1>7. UseMemory /\ file.parses => Cardinality(Kept') <= file.n + fails
  BY <1>2, <1>3 DEF Remembered
<1> QED
  BY <1>5, <1>6, <1>7 DEF Remembered

\* One request moves and the memory is left alone.
LEMMA OneRequestMoves ==
  ASSUME IInv, NEW r \in Requests, TypeOK',
         UNCHANGED <<server, kind, want, lock, convos, file, fails>>,
         \A q \in Requests \ {r} : Same(q),
         RequestInv(r)', r \in Counted => r \in Counted', r \in Kept' => r \in Kept
  PROVE  IInv'
<1>1. ASSUME NEW q \in Requests \ {r} PROVE RequestInv(q)'
  BY SameFits DEF IInv
<1>2. Counted \subseteq Counted' /\ Kept' \subseteq Kept
  BY DEF Counted, Kept, Same
<1>3. Remembered'
  BY <1>2, MemoryKept DEF IInv
<1> QED
  BY <1>1, <1>3 DEF IInv

-----------------------------------------------------------------------------
(* The initial state *)

\* Nothing has arrived.
LEMMA InitIInv ==
  ASSUME Init
  PROVE  IInv
<1>1. TypeOK
  <2>1. <<>> \in Seq(Events) /\ Len(<<>>) = 0
    OBVIOUS
  <2> QED
    BY <2>1, ChatServeAssumption DEF Init, TypeOK, Conns, Handlers, Workers, MemoryFile
<1>2. ASSUME NEW r \in Requests PROVE RequestInv(r)
  <2>1. /\ conn[r] = "idle" /\ handler[r] = "none" /\ worker[r] = "none" /\ made[r] = 0
        /\ chan[r] = <<>> /\ seen[r] = <<>> /\ want[r] \in Nat /\ server = "up" /\ lock = Free /\ r # Free
    BY ChatServeAssumption DEF Init
  <2>2. HandlerFits(r) /\ MadeFits(r)
    BY <2>1 DEF HandlerFits, MadeFits
  <2>3. Scripted(r) /\ Reach(r)
    BY <2>1 DEF Scripted, Reach, Sent, SeenLen, ChanLen
  <2> QED
    BY <2>2, <2>3 DEF RequestInv
<1>3. Remembered
  <2>1. Counted = {} /\ Kept = {}
    BY DEF Init, Counted, Kept
  <2>2. Cardinality({}) = 0
    BY FS_EmptySet
  <2> QED
    BY <2>1, <2>2 DEF Init, Remembered, MemoryFile
<1> QED
  BY <1>1, <1>2, <1>3 DEF IInv

-----------------------------------------------------------------------------
(* Requests arrive *)

\* A request turned away is never worked on.
LEMMA RefuseRequestIInv ==
  ASSUME IInv, NEW r \in Requests, RefuseRequest(r)
  PROVE  IInv'
<1>1. /\ conn[r] = "idle" /\ conn' = [conn EXCEPT ![r] = "refused"]
      /\ UNCHANGED <<server, kind, want, handler, worker, made, chan, seen, lock, convos, file, fails, restarts>>
      /\ TypeOK /\ RequestInv(r)
  BY DEF RefuseRequest, IInv, memory
<1>2. TypeOK' /\ conn'[r] = "refused" /\ \A q \in Requests \ {r} : Same(q)
  BY <1>1 DEF TypeOK, Conns, Same
<1>3. HandlerFits(r)' /\ MadeFits(r)'
  BY <1>1, <1>2 DEF RequestInv, HandlerFits, MadeFits
<1>4. Scripted(r)' /\ Reach(r)'
  BY <1>1, <1>2 DEF RequestInv, HandlerFits, Scripted, Reach, Event, Sent, SeenLen, ChanLen
<1>5. (r \in Counted => r \in Counted') /\ (r \in Kept' => r \in Kept)
  BY <1>1, <1>2 DEF Counted, Kept
<1> QED
  BY <1>1, <1>2, <1>3, <1>4, <1>5, OneRequestMoves DEF RequestInv

\* A request that is let in gets a handler.
LEMMA ArriveIInv ==
  ASSUME IInv, NEW r \in Requests, Arrive(r)
  PROVE  IInv'
<1>1. /\ server = "up" /\ conn[r] = "idle" /\ conn' = [conn EXCEPT ![r] = "open"]
      /\ handler' = [handler EXCEPT ![r] = "start"]
      /\ UNCHANGED <<server, kind, want, worker, made, chan, seen, lock, convos, file, fails, restarts>>
      /\ TypeOK /\ RequestInv(r)
  BY DEF Arrive, IInv, memory
<1>2. TypeOK' /\ conn'[r] = "open" /\ handler'[r] = "start" /\ \A q \in Requests \ {r} : Same(q)
  BY <1>1 DEF TypeOK, Conns, Handlers, Same
<1>3. HandlerFits(r)' /\ MadeFits(r)'
  BY <1>1, <1>2 DEF RequestInv, HandlerFits, MadeFits
<1>4. Scripted(r)' /\ Reach(r)'
  BY <1>1, <1>2 DEF RequestInv, HandlerFits, Scripted, Reach, Event, Sent, SeenLen, ChanLen
<1>5. (r \in Counted => r \in Counted') /\ (r \in Kept' => r \in Kept)
  BY <1>1, <1>2 DEF Counted, Kept, RequestInv, HandlerFits
<1> QED
  BY <1>1, <1>2, <1>3, <1>4, <1>5, OneRequestMoves DEF RequestInv

\* The events of the script have their type.
LEMMA EventTypes ==
  /\ Role \in Events /\ DoneMark \in Events
  /\ \A i \in 0 .. MaxTokens : \A f \in BOOLEAN : Token(i, f) \in Events
BY ChatServeAssumption DEF Role, DoneMark, Token, Events

\* A handler hands over to a blocking task; a stream begins with its role.
LEMMA StartHandlerIInv ==
  ASSUME IInv, NEW r \in Requests, StartHandler(r)
  PROVE  IInv'
<1>1. /\ handler[r] = "start" /\ worker' = [worker EXCEPT ![r] = "queued"]
      /\ UNCHANGED <<server, conn, kind, want, made, seen, lock, convos, file, fails, restarts>>
      /\ TypeOK /\ RequestInv(r)
  BY DEF StartHandler, IInv, memory, connection
<1>2. /\ conn[r] = "open" /\ worker[r] = "none" /\ Sent(r) = 0 /\ lock # r /\ server # "down"
      /\ kind[r] \in {"whole", "stream"} /\ made[r] = 0 /\ want[r] \in Nat
      /\ seen[r] \in Seq(Events) /\ chan[r] \in Seq(Events)
  BY <1>1, ChatServeAssumption DEF RequestInv, HandlerFits, Scripted, Reach, MadeFits, TypeOK, Kinds
<1>3. seen[r] = <<>> /\ chan[r] = <<>>
  <2>1. SeenLen(r) \in Nat /\ ChanLen(r) \in Nat
    BY <1>2 DEF SeenLen, ChanLen
  <2>2. SeenLen(r) = 0 /\ ChanLen(r) = 0
    BY <2>1, <1>2 DEF Sent
  <2> QED
    BY <2>2, <1>2, EmptySeq DEF SeenLen, ChanLen
<1>4. CASE kind[r] = "stream"
  <2>1. /\ chan' = [chan EXCEPT ![r] = <<Role>>] /\ handler' = [handler EXCEPT ![r] = "none"]
    BY <1>4 DEF StartHandler
  <2>2. <<Role>> \in Seq(Events) /\ Len(<<Role>>) = 1 /\ <<Role>>[1] = Role /\ DOMAIN <<Role>> = {1}
    BY EventTypes
  <2>3. /\ TypeOK' /\ handler'[r] = "none" /\ chan'[r] = <<Role>> /\ worker'[r] = "queued"
        /\ \A q \in Requests \ {r} : Same(q)
    BY <1>1, <2>1, <2>2, ChatServeAssumption DEF TypeOK, Handlers, Workers, Same
  <2>4. HandlerFits(r)' /\ MadeFits(r)'
    BY <1>1, <1>2, <2>3 DEF RequestInv, HandlerFits, MadeFits
  <2>5. Scripted(r)' /\ Reach(r)'
    <3>1. Sent(r)' = 1 /\ seen'[r] = <<>> /\ SeenLen(r)' = 0 /\ DOMAIN seen'[r] = {}
      BY <1>1, <1>3, <2>2, <2>3 DEF Sent, SeenLen, ChanLen
    <3>2. Event(r, 0 + 1)' = Role
      BY DEF Event
    <3> QED
      BY <1>1, <1>2, <1>4, <2>2, <2>3, <3>1, <3>2 DEF Scripted, Reach
  <2>6. (r \in Counted => r \in Counted') /\ (r \in Kept' => r \in Kept)
    BY <1>1, <1>4, <2>3 DEF Counted, Kept
  <2> QED
    BY <1>1, <2>3, <2>4, <2>5, <2>6, OneRequestMoves DEF RequestInv
<1>5. CASE kind[r] # "stream"
  <2>1. handler' = [handler EXCEPT ![r] = "await"] /\ chan' = chan
    BY <1>5 DEF StartHandler
  <2>3. /\ TypeOK' /\ handler'[r] = "await" /\ worker'[r] = "queued" /\ \A q \in Requests \ {r} : Same(q)
    BY <1>1, <2>1 DEF TypeOK, Handlers, Workers, Same
  <2>4. HandlerFits(r)' /\ MadeFits(r)'
    BY <1>1, <1>2, <1>5, <2>3 DEF RequestInv, HandlerFits, MadeFits
  <2>5. Scripted(r)' /\ Reach(r)'
    BY <1>1, <1>2, <1>5, <2>1, <2>3 DEF RequestInv, Scripted, Reach, Event, Sent, SeenLen, ChanLen
  <2>6. (r \in Counted => r \in Counted') /\ (r \in Kept' => r \in Kept)
    BY <1>1, <1>2, <2>3 DEF Counted, Kept
  <2> QED
    BY <1>1, <2>3, <2>4, <2>5, <2>6, <2>1, OneRequestMoves DEF RequestInv
<1> QED
  BY <1>4, <1>5

-----------------------------------------------------------------------------
(* Generating *)

\* Lengths are numbers and the domains of the queues.
LEMMA Lengths ==
  ASSUME TypeOK, NEW r \in Requests
  PROVE  /\ seen[r] \in Seq(Events) /\ chan[r] \in Seq(Events)
         /\ SeenLen(r) \in Nat /\ ChanLen(r) \in Nat /\ Sent(r) \in Nat
         /\ DOMAIN seen[r] = 1 .. SeenLen(r) /\ DOMAIN chan[r] = 1 .. ChanLen(r)
         /\ want[r] \in Nat /\ want[r] <= MaxTokens /\ made[r] \in Nat /\ MaxTokens \in Nat
         /\ kind[r] \in {"whole", "stream"} /\ r # Free
<1>1. seen[r] \in Seq(Events) /\ chan[r] \in Seq(Events)
  BY DEF TypeOK
<1>2. SeenLen(r) \in Nat /\ ChanLen(r) \in Nat
  BY <1>1 DEF SeenLen, ChanLen
<1>3. DOMAIN seen[r] = 1 .. SeenLen(r) /\ DOMAIN chan[r] = 1 .. ChanLen(r)
  BY <1>1 DEF SeenLen, ChanLen
<1>4. want[r] \in 0 .. MaxTokens /\ made[r] \in 0 .. MaxTokens /\ MaxTokens \in Nat
  BY ChatServeAssumption DEF TypeOK
<1> QED
  BY <1>1, <1>2, <1>3, <1>4, ChatServeAssumption DEF Sent, TypeOK, Kinds

\* Between the role and [DONE] the script has tokens.
LEMMA EventIsToken ==
  ASSUME NEW r, NEW m \in Nat, want[r] \in Nat, m < want[r], NEW k, k = m + 2, NEW last \in BOOLEAN,
         last <=> m + 1 = want[r]
  PROVE  Event(r, k) = Token(m + 1, last)
<1>1. k # 1 /\ k # want[r] + 2 /\ k - 1 = m + 1
  OBVIOUS
<1>2. CASE m + 1 = want[r]
  BY <1>1, <1>2 DEF Event, Token
<1>3. CASE m + 1 # want[r]
  BY <1>1, <1>3 DEF Event, Token
<1> QED
  BY <1>2, <1>3

\* Queues that do not change still hold the script as far as they did.
LEMMA QueuesKept ==
  ASSUME NEW r \in Requests, Scripted(r), seen'[r] = seen[r], chan'[r] = chan[r], want'[r] = want[r]
  PROVE  Scripted(r)' /\ Sent(r)' = Sent(r)
<1>1. SeenLen(r)' = SeenLen(r) /\ ChanLen(r)' = ChanLen(r) /\ \A i : Event(r, i)' = Event(r, i)
  BY DEF SeenLen, ChanLen, Event
<1> QED
  BY <1>1 DEF Scripted, Sent

\* A send of the event that comes next.
LEMMA QueueGrows ==
  ASSUME TypeOK, NEW r \in Requests, Scripted(r), NEW e \in Events, e = Event(r, Sent(r) + 1),
         seen'[r] = seen[r], chan'[r] = Append(chan[r], e), want'[r] = want[r]
  PROVE  Scripted(r)' /\ Sent(r)' = Sent(r) + 1
<1>1. SeenLen(r)' = SeenLen(r) /\ \A i : Event(r, i)' = Event(r, i)
  BY DEF SeenLen, Event
<1>2. /\ ChanLen(r)' = ChanLen(r) + 1 /\ DOMAIN chan'[r] = 1 .. ChanLen(r) + 1
      /\ chan'[r][ChanLen(r) + 1] = e /\ \A i \in 1 .. ChanLen(r) : chan'[r][i] = chan[r][i]
  BY Lengths, AppendProperties DEF ChanLen
<1>3. SeenLen(r) \in Nat /\ ChanLen(r) \in Nat /\ Sent(r) = SeenLen(r) + ChanLen(r)
      /\ DOMAIN chan[r] = 1 .. ChanLen(r)
  BY Lengths DEF Sent
<1>4. Sent(r)' = Sent(r) + 1
  BY <1>1, <1>2, <1>3 DEF Sent
<1>5. ASSUME NEW i \in 1 .. ChanLen(r) + 1 PROVE chan'[r][i] = Event(r, SeenLen(r) + i)
  <2>1. CASE i = ChanLen(r) + 1
    BY <2>1, <1>2, <1>3
  <2>2. CASE i \in 1 .. ChanLen(r)
    BY <2>2, <1>2, <1>3 DEF Scripted
  <2> QED
    BY <2>1, <2>2, <1>3
<1> QED
  BY <1>1, <1>2, <1>4, <1>5 DEF Scripted

\* A queued task gets a thread.
LEMMA TakeThreadIInv ==
  ASSUME IInv, NEW r \in Requests, TakeThread(r)
  PROVE  IInv'
<1>1. /\ worker[r] = "queued" /\ worker' = [worker EXCEPT ![r] = "run"]
      /\ UNCHANGED <<server, conn, kind, want, handler, made, chan, seen, lock, convos, file, fails, restarts>>
      /\ TypeOK /\ RequestInv(r)
  BY DEF TakeThread, IInv, memory, connection
<1>2. TypeOK' /\ worker'[r] = "run" /\ \A q \in Requests \ {r} : Same(q)
  BY <1>1 DEF TypeOK, Workers, Same
<1>3. HandlerFits(r)' /\ MadeFits(r)'
  BY <1>1, <1>2 DEF RequestInv, HandlerFits, MadeFits
<1>4. Scripted(r)' /\ Sent(r)' = Sent(r)
  BY <1>1, QueuesKept DEF RequestInv
<1>5. Reach(r)'
  BY <1>1, <1>2, <1>4 DEF RequestInv, Reach
<1>6. (r \in Counted => r \in Counted') /\ (r \in Kept' => r \in Kept)
  BY <1>1, <1>2 DEF Counted, Kept
<1> QED
  BY <1>1, <1>2, <1>3, <1>4, <1>5, <1>6, OneRequestMoves DEF RequestInv

\* A whole answer grows by a token, or has all of them.
LEMMA GenerateWholeIInv ==
  ASSUME IInv, NEW r \in Requests, GenerateWhole(r)
  PROVE  IInv'
<1>1. /\ kind[r] = "whole" /\ worker[r] = "run"
      /\ UNCHANGED <<server, conn, kind, want, handler, chan, seen, lock, convos, file, fails, restarts>>
      /\ TypeOK /\ RequestInv(r)
  BY DEF GenerateWhole, IInv, memory, connection
<1>2. made[r] \in Nat /\ want[r] \in Nat /\ want[r] <= MaxTokens /\ MaxTokens \in Nat /\ made[r] <= want[r]
  BY <1>1, Lengths DEF RequestInv, MadeFits
<1>3. \/ made[r] < want[r] /\ made' = [made EXCEPT ![r] = made[r] + 1] /\ worker' = worker
      \/ made[r] >= want[r] /\ worker' = [worker EXCEPT ![r] = "done"] /\ made' = made
  BY <1>2 DEF GenerateWhole
<1>4. /\ TypeOK' /\ \A q \in Requests \ {r} : Same(q)
      /\ \/ made'[r] <= want[r] /\ worker'[r] = "run"
         \/ made'[r] = want[r] /\ worker'[r] = "done"
  <2>1. CASE made[r] < want[r] /\ made' = [made EXCEPT ![r] = made[r] + 1] /\ worker' = worker
    <3>1. made[r] + 1 \in 0 .. MaxTokens /\ made[r] + 1 <= want[r]
      BY <2>1, <1>2
    <3> QED
      BY <2>1, <3>1, <1>1 DEF TypeOK, Same
  <2>2. CASE made[r] >= want[r] /\ worker' = [worker EXCEPT ![r] = "done"] /\ made' = made
    BY <2>2, <1>1, <1>2 DEF TypeOK, Workers, Same
  <2> QED
    BY <2>1, <2>2, <1>3
<1>5. HandlerFits(r)' /\ MadeFits(r)'
  BY <1>1, <1>2, <1>4 DEF RequestInv, HandlerFits, MadeFits
<1>6. Scripted(r)' /\ Sent(r)' = Sent(r)
  BY <1>1, QueuesKept DEF RequestInv
<1>7. Reach(r)'
  BY <1>1, <1>4, <1>6 DEF RequestInv, Reach
<1>8. (r \in Counted => r \in Counted') /\ (r \in Kept' => r \in Kept)
  BY <1>1, <1>4 DEF Counted, Kept
<1> QED
  BY <1>1, <1>4, <1>5, <1>6, <1>7, <1>8, OneRequestMoves DEF RequestInv

\* A stream's task sends the next token, or stops because the client left or all
\* were sent.
LEMMA GenerateStreamIInv ==
  ASSUME IInv, NEW r \in Requests, GenerateStream(r)
  PROVE  IInv'
<1>1. /\ kind[r] = "stream" /\ worker[r] = "run"
      /\ UNCHANGED <<server, conn, kind, want, handler, seen, lock, convos, file, fails, restarts>>
      /\ TypeOK /\ RequestInv(r)
  BY DEF GenerateStream, IInv, memory, connection
<1>2. /\ made[r] \in Nat /\ want[r] \in Nat /\ want[r] <= MaxTokens /\ MaxTokens \in Nat
      /\ made[r] <= want[r] /\ Sent(r) \in Nat
      /\ conn[r] = "open" => Sent(r) = made[r] + 1
  BY <1>1, Lengths DEF RequestInv, MadeFits, Reach
<1>3. HandlerFits(r) /\ handler[r] = "none"
  BY <1>1 DEF RequestInv, HandlerFits, TypeOK, Handlers
<1>4. CASE made[r] < want[r] /\ conn[r] # "open"
  <2>1. made' = [made EXCEPT ![r] = made[r] + 1] /\ worker' = [worker EXCEPT ![r] = "stop"] /\ chan' = chan
    BY <1>4 DEF GenerateStream, SendFails
  <2>2. made[r] + 1 \in 0 .. MaxTokens /\ made[r] + 1 <= want[r]
    BY <1>2, <1>4
  <2>3. TypeOK' /\ made'[r] = made[r] + 1 /\ worker'[r] = "stop" /\ \A q \in Requests \ {r} : Same(q)
    BY <1>1, <2>1, <2>2 DEF TypeOK, Workers, Same
  <2>4. HandlerFits(r)' /\ MadeFits(r)'
    BY <1>1, <1>3, <2>2, <2>3 DEF RequestInv, HandlerFits, MadeFits
  <2>5. Scripted(r)' /\ Sent(r)' = Sent(r)
    BY <1>1, <2>1, QueuesKept DEF RequestInv
  <2>6. Reach(r)'
    BY <1>1, <1>4, <2>1, <2>3, <2>5 DEF RequestInv, Reach
  <2>7. (r \in Counted => r \in Counted') /\ (r \in Kept' => r \in Kept)
    BY <1>1 DEF Counted, Kept
  <2> QED
    BY <1>1, <2>3, <2>4, <2>5, <2>6, <2>7, OneRequestMoves DEF RequestInv
<1>5. CASE made[r] < want[r] /\ conn[r] = "open"
  <2> DEFINE e == Token(made[r] + 1, LastToken(r))
  <2>1. /\ made' = [made EXCEPT ![r] = made[r] + 1] /\ worker' = worker
        /\ Len(chan[r]) < Cap /\ chan' = [chan EXCEPT ![r] = Append(chan[r], e)]
    BY <1>5 DEF GenerateStream, SendFails, HasRoom
  <2>2. made[r] + 1 \in 0 .. MaxTokens /\ made[r] + 1 <= want[r]
    BY <1>2, <1>5
  <2>3. LastToken(r) = (made[r] + 1 = want[r])
    BY <1>2, <1>5 DEF LastToken
  <2>4. e \in Events /\ e = Event(r, Sent(r) + 1)
    <3>1. e \in Events
      BY <2>2, <2>3, EventTypes
    <3>2. LastToken(r) \in BOOLEAN /\ (LastToken(r) <=> made[r] + 1 = want[r])
      BY <2>3
    <3>3. Event(r, Sent(r) + 1) = Token(made[r] + 1, LastToken(r))
      <4>1. Sent(r) + 1 = made[r] + 2
        BY <1>2, <1>5
      <4> HIDE DEF e
      <4> QED
        BY <4>1, <3>2, <1>2, <1>5, EventIsToken
    <3> QED
      BY <3>1, <3>3
  <2> HIDE DEF e
  <2>5. chan[r] \in Seq(Events) /\ Append(chan[r], e) \in Seq(Events) /\ Len(Append(chan[r], e)) <= Cap
    <3>1. chan[r] \in Seq(Events) /\ Cap \in Nat
      BY <1>1, Lengths, ChatServeAssumption
    <3>2. Append(chan[r], e) \in Seq(Events) /\ Len(Append(chan[r], e)) = ChanLen(r) + 1 /\ ChanLen(r) \in Nat
      BY <3>1, <2>4, AppendProperties DEF ChanLen
    <3>3. ChanLen(r) < Cap
      BY <2>1 DEF ChanLen
    <3> QED
      BY <3>1, <3>2, <3>3
  <2>6. /\ TypeOK' /\ made'[r] = made[r] + 1 /\ chan'[r] = Append(chan[r], e)
        /\ \A q \in Requests \ {r} : Same(q)
    BY <1>1, <2>1, <2>2, <2>5 DEF TypeOK, Same
  <2>7. HandlerFits(r)' /\ MadeFits(r)'
    BY <1>1, <1>3, <2>1, <2>2, <2>6 DEF RequestInv, HandlerFits, MadeFits
  <2>8. Scripted(r)' /\ Sent(r)' = Sent(r) + 1
    BY <1>1, <2>4, <2>6, QueueGrows DEF RequestInv
  <2>9. Reach(r)'
    BY <1>1, <1>2, <1>5, <2>1, <2>2, <2>6, <2>8 DEF Reach
  <2>10. (r \in Counted => r \in Counted') /\ (r \in Kept' => r \in Kept)
    BY <1>1 DEF Counted, Kept
  <2> QED
    BY <1>1, <2>6, <2>7, <2>8, <2>9, <2>10, OneRequestMoves DEF RequestInv
<1>6. CASE ~(made[r] < want[r])
  <2>1. worker' = [worker EXCEPT ![r] = "stop"] /\ made' = made /\ chan' = chan
    BY <1>6 DEF GenerateStream
  <2>2. made[r] = want[r]
    BY <1>2, <1>6
  <2>3. TypeOK' /\ worker'[r] = "stop" /\ \A q \in Requests \ {r} : Same(q)
    BY <1>1, <2>1 DEF TypeOK, Workers, Same
  <2>4. HandlerFits(r)' /\ MadeFits(r)'
    BY <1>1, <1>3, <2>1, <2>3 DEF RequestInv, HandlerFits, MadeFits
  <2>5. Scripted(r)' /\ Sent(r)' = Sent(r)
    BY <1>1, <2>1, QueuesKept DEF RequestInv
  <2>6. Reach(r)'
    BY <1>1, <1>2, <2>1, <2>2, <2>3, <2>5 DEF RequestInv, Reach
  <2>7. (r \in Counted => r \in Counted') /\ (r \in Kept' => r \in Kept)
    BY <1>1 DEF Counted, Kept
  <2> QED
    BY <1>1, <2>1, <2>3, <2>4, <2>5, <2>6, <2>7, OneRequestMoves DEF RequestInv
<1> QED
  BY <1>4, <1>5, <1>6

\* Every stream that still has its client ends with one [DONE].
LEMMA SendDoneIInv ==
  ASSUME IInv, NEW r \in Requests, SendDone(r)
  PROVE  IInv'
<1>1. /\ worker[r] = "stop" /\ worker' = [worker EXCEPT ![r] = "done"]
      /\ UNCHANGED <<server, conn, kind, want, handler, made, seen, lock, convos, file, fails, restarts>>
      /\ TypeOK /\ RequestInv(r)
  BY DEF SendDone, IInv, memory, connection
<1>2. /\ kind[r] = "stream" /\ handler[r] = "none" /\ Sent(r) \in Nat /\ want[r] \in Nat
      /\ conn[r] = "open" => Sent(r) = want[r] + 1
  BY <1>1, Lengths DEF RequestInv, HandlerFits, MadeFits, Reach, TypeOK, Handlers
<1>3. worker'[r] = "done" /\ \A q \in Requests \ {r} : worker'[q] = worker[q]
  BY <1>1 DEF TypeOK
<1>4. HandlerFits(r)' /\ MadeFits(r)'
  BY <1>1, <1>2, <1>3 DEF RequestInv, HandlerFits, MadeFits
<1>5. (r \in Counted => r \in Counted') /\ (r \in Kept' => r \in Kept)
  BY <1>1, <1>2 DEF Counted, Kept
<1>6. CASE conn[r] # "open"
  <2>1. chan' = chan
    BY <1>6 DEF SendDone, SendFails
  <2>2. TypeOK' /\ \A q \in Requests \ {r} : Same(q)
    BY <1>1, <1>3, <2>1 DEF TypeOK, Workers, Same
  <2>3. Scripted(r)' /\ Sent(r)' = Sent(r)
    BY <1>1, <2>1, QueuesKept DEF RequestInv
  <2>4. Reach(r)'
    BY <1>1, <1>2, <1>3, <1>6, <2>1, <2>3 DEF RequestInv, Reach
  <2> QED
    BY <1>1, <1>4, <1>5, <2>2, <2>3, <2>4, OneRequestMoves DEF RequestInv
<1>7. CASE conn[r] = "open"
  <2>1. Len(chan[r]) < Cap /\ chan' = [chan EXCEPT ![r] = Append(chan[r], DoneMark)]
    BY <1>7 DEF SendDone, SendFails, HasRoom
  <2>2. DoneMark \in Events /\ DoneMark = Event(r, Sent(r) + 1)
    BY <1>2, <1>7, EventTypes DEF Event
  <2>3. Append(chan[r], DoneMark) \in Seq(Events) /\ Len(Append(chan[r], DoneMark)) <= Cap
    <3>1. chan[r] \in Seq(Events) /\ Cap \in Nat
      BY <1>1, Lengths, ChatServeAssumption
    <3>2. /\ Append(chan[r], DoneMark) \in Seq(Events) /\ ChanLen(r) \in Nat
          /\ Len(Append(chan[r], DoneMark)) = ChanLen(r) + 1
      BY <3>1, <2>2, AppendProperties DEF ChanLen
    <3>3. ChanLen(r) < Cap
      BY <2>1 DEF ChanLen
    <3> QED
      BY <3>1, <3>2, <3>3
  <2>4. TypeOK' /\ chan'[r] = Append(chan[r], DoneMark) /\ \A q \in Requests \ {r} : Same(q)
    BY <1>1, <1>3, <2>1, <2>3 DEF TypeOK, Workers, Same
  <2>5. Scripted(r)' /\ Sent(r)' = Sent(r) + 1
    BY <1>1, <2>2, <2>4, QueueGrows DEF RequestInv
  <2>6. Reach(r)'
    BY <1>1, <1>2, <1>3, <1>7, <2>5 DEF Reach
  <2> QED
    BY <1>1, <1>4, <1>5, <2>4, <2>5, <2>6, OneRequestMoves DEF RequestInv
<1> QED
  BY <1>6, <1>7

\* A panic leaves what was sent and fails a whole request.
LEMMA WorkerPanicsIInv ==
  ASSUME IInv, NEW r \in Requests, WorkerPanics(r)
  PROVE  IInv'
<1>1. /\ worker[r] = "run" /\ worker' = [worker EXCEPT ![r] = "panicked"]
      /\ handler' = [handler EXCEPT ![r] = "none"]
      /\ conn' = [conn EXCEPT ![r] = IF conn[r] = "open" /\ kind[r] = "whole" THEN "failed" ELSE conn[r]]
      /\ UNCHANGED <<server, kind, want, made, chan, seen, lock, convos, file, fails, restarts>>
      /\ TypeOK /\ RequestInv(r)
  BY DEF WorkerPanics, IInv, memory
<1>2. /\ TypeOK' /\ worker'[r] = "panicked" /\ handler'[r] = "none" /\ \A q \in Requests \ {r} : Same(q)
      /\ conn'[r] = conn[r] \/ (conn'[r] = "failed" /\ kind[r] = "whole")
  BY <1>1 DEF TypeOK, Conns, Handlers, Workers, Same
<1>3. HandlerFits(r)' /\ MadeFits(r)'
  BY <1>1, <1>2 DEF RequestInv, HandlerFits, MadeFits
<1>4. Scripted(r)' /\ Sent(r)' = Sent(r)
  BY <1>1, QueuesKept DEF RequestInv
<1>5. chan'[r] # <<>> => kind[r] = "stream"
  <2>1. ASSUME kind[r] = "whole" PROVE chan[r] = <<>>
    <3>1. Sent(r) = 0 /\ SeenLen(r) \in Nat /\ ChanLen(r) \in Nat /\ chan[r] \in Seq(Events)
      BY <2>1, <1>1, Lengths DEF RequestInv, Reach
    <3>2. ChanLen(r) = 0
      BY <3>1 DEF Sent
    <3> QED
      BY <3>1, <3>2, EmptySeq DEF ChanLen
  <2> QED
    BY <2>1, <1>1, Lengths
<1>6. Reach(r)'
  BY <1>1, <1>2, <1>4, <1>5 DEF RequestInv, Reach
<1>7. (r \in Counted => r \in Counted') /\ (r \in Kept' => r \in Kept)
  BY <1>1, <1>2 DEF Counted, Kept
<1> QED
  BY <1>1, <1>2, <1>3, <1>4, <1>6, <1>7, OneRequestMoves DEF RequestInv

-----------------------------------------------------------------------------
(* Answering *)

\* The handler of a finished generation goes on.
LEMMA ResumeHandlerIInv ==
  ASSUME IInv, NEW r \in Requests, ResumeHandler(r)
  PROVE  IInv'
<1>1. /\ handler[r] = "await" /\ worker[r] = "done"
      /\ handler' = [handler EXCEPT ![r] = IF UseMemory THEN "count" ELSE "reply"]
      /\ UNCHANGED <<server, conn, kind, want, worker, made, chan, seen, lock, convos, file, fails, restarts>>
      /\ TypeOK /\ RequestInv(r)
  BY DEF ResumeHandler, IInv, memory, connection
<1>2. /\ TypeOK' /\ \A q \in Requests \ {r} : Same(q)
      /\ handler'[r] = IF UseMemory THEN "count" ELSE "reply"
  BY <1>1 DEF TypeOK, Handlers, Same
<1>3. HandlerFits(r)' /\ MadeFits(r)'
  BY <1>1, <1>2 DEF RequestInv, HandlerFits, MadeFits
<1>4. Scripted(r)' /\ Sent(r)' = Sent(r)
  BY <1>1, QueuesKept DEF RequestInv
<1>5. Reach(r)'
  BY <1>1, <1>4 DEF RequestInv, Reach
<1>6. CASE UseMemory
  <2>1. (r \in Counted => r \in Counted') /\ (r \in Kept' => r \in Kept)
    BY <1>1, <1>2, <1>6 DEF Counted, Kept
  <2> QED
    BY <2>1, <1>1, <1>2, <1>3, <1>4, <1>5, OneRequestMoves DEF RequestInv
<1>7. CASE ~UseMemory
  <2>1. ASSUME NEW q \in Requests PROVE RequestInv(q)'
    BY <1>1, <1>2, <1>3, <1>4, <1>5, SameFits DEF IInv, RequestInv
  <2>2. Counted \subseteq Counted' /\ Counted \in SUBSET Requests /\ Counted' \in SUBSET Requests
    BY <1>1, <1>2, <1>7 DEF Counted
  <2>3. Cardinality(Counted) \in Nat /\ Cardinality(Counted') \in Nat /\ Cardinality(Counted) <= Cardinality(Counted')
    BY <2>2, RequestSets
  <2>4. Remembered'
    BY <1>1, <1>7, <2>3 DEF IInv, Remembered, TypeOK
  <2> QED
    BY <2>1, <2>4, <1>2 DEF IInv
<1> QED
  BY <1>6, <1>7

\* One more conversation: the counter and the set of the counted grow together.
LEMMA CountIInv ==
  ASSUME IInv, NEW r \in Requests, Count(r)
  PROVE  IInv'
<1>1. /\ handler[r] = "count" /\ lock = Free /\ lock' = r /\ convos' = convos + 1
      /\ handler' = [handler EXCEPT ![r] = "save"]
      /\ UNCHANGED <<server, conn, kind, want, worker, made, chan, seen, file, fails, restarts>>
      /\ TypeOK /\ RequestInv(r) /\ r # Free
  BY ChatServeAssumption DEF Count, IInv, connection, CountConversation
<1>2. /\ TypeOK' /\ handler'[r] = "save" /\ \A q \in Requests \ {r} : Same(q)
  BY <1>1 DEF TypeOK, Handlers, Same
<1>3. HandlerFits(r)' /\ MadeFits(r)'
  BY <1>1, <1>2 DEF RequestInv, HandlerFits, MadeFits
<1>4. Scripted(r)' /\ Sent(r)' = Sent(r)
  BY <1>1, QueuesKept DEF RequestInv
<1>5. Reach(r)'
  BY <1>1, <1>4 DEF RequestInv, Reach
<1>6. ASSUME NEW q \in Requests \ {r} PROVE RequestInv(q)'
  <2>1. q # Free
    BY ChatServeAssumption
  <2> QED
    BY <2>1, <1>1, <1>2, SameFits DEF IInv
<1>7. /\ Counted' = Counted \cup {r} /\ r \notin Counted /\ Counted \in SUBSET Requests
      /\ Kept' = Kept
  BY <1>1, <1>2 DEF Counted, Kept, RequestInv, HandlerFits
<1>8. /\ Cardinality(Counted') = Cardinality(Counted) + 1 /\ Cardinality(Counted) \in Nat
  BY <1>7, RequestSets, FS_AddElement
<1>9. convos \in Nat /\ file.n \in Nat /\ fails \in Nat /\ Cardinality(Kept) \in Nat
  BY <1>1, MemoryTypes
<1>10. Remembered'
  <2>1. UseMemory => Cardinality(Kept) <= convos + fails
    BY <1>1, <1>9 DEF IInv, Remembered
  <2> QED
    BY <2>1, <1>1, <1>7, <1>8, <1>9 DEF IInv, Remembered
<1> QED
  BY <1>2, <1>3, <1>4, <1>5, <1>6, <1>10 DEF IInv, RequestInv

\* The counter reaches the file, or a failure is counted; then the answer may go.
LEMMA SaveIInv ==
  ASSUME IInv, NEW r \in Requests, Save(r)
  PROVE  IInv'
<1>1. /\ handler[r] = "save" /\ lock' = Free
      /\ handler' = [handler EXCEPT ![r] = "reply"]
      /\ \/ file' = [parses |-> TRUE, n |-> convos] /\ fails' = fails
         \/ fails < MaxFails /\ fails' = fails + 1 /\ file' = file
      /\ UNCHANGED <<server, conn, kind, want, worker, made, chan, seen, convos, restarts>>
      /\ TypeOK /\ RequestInv(r) /\ r # Free
  BY ChatServeAssumption DEF Save, IInv, connection, MemoryFile, SavedConvos
<1>2. /\ TypeOK' /\ handler'[r] = "reply" /\ \A q \in Requests \ {r} : Same(q)
      /\ lock = r /\ UseMemory
  <2>1. file' \in [parses : BOOLEAN, n : Nat] /\ fails' \in 0 .. MaxFails
    <3>1. /\ file \in [parses : BOOLEAN, n : Nat] /\ fails \in 0 .. MaxFails
          /\ convos \in Nat /\ MaxFails \in Nat
      BY <1>1, ChatServeAssumption DEF TypeOK
    <3>2. CASE file' = [parses |-> TRUE, n |-> convos] /\ fails' = fails
      BY <3>1, <3>2
    <3>3. CASE fails < MaxFails /\ fails' = fails + 1 /\ file' = file
      BY <3>1, <3>3
    <3> QED
      BY <3>2, <3>3, <1>1
  <2> QED
    BY <2>1, <1>1 DEF TypeOK, Handlers, Same, RequestInv, HandlerFits
<1>3. HandlerFits(r)' /\ MadeFits(r)'
  BY <1>1, <1>2 DEF RequestInv, HandlerFits, MadeFits
<1>4. Scripted(r)' /\ Sent(r)' = Sent(r)
  BY <1>1, QueuesKept DEF RequestInv
<1>5. Reach(r)'
  BY <1>1, <1>4 DEF RequestInv, Reach
<1>6. ASSUME NEW q \in Requests \ {r} PROVE RequestInv(q)'
  <2>1. q # Free /\ q # r
    BY ChatServeAssumption
  <2> QED
    BY <2>1, <1>1, <1>2, SameFits DEF IInv
<1>7. /\ Counted' = Counted /\ Counted \in SUBSET Requests /\ Kept \in SUBSET Requests
      /\ Kept' = Kept \cup {r} /\ r \notin Kept
  BY <1>1, <1>2 DEF Counted, Kept, RequestInv, HandlerFits
<1>8. /\ Cardinality(Kept') = Cardinality(Kept) + 1 /\ Cardinality(Kept) \in Nat
      /\ Cardinality(Counted) \in Nat
  BY <1>7, RequestSets, FS_AddElement
<1>9. convos \in Nat /\ file.n \in Nat /\ fails \in Nat
  BY <1>1, MemoryTypes
<1>10. Remembered'
  <2>1. Cardinality(Kept) + 1 <= convos + fails
    BY <1>1, <1>2 DEF IInv, Remembered
  <2>2. CASE file' = [parses |-> TRUE, n |-> convos] /\ fails' = fails
    BY <2>1, <2>2, <1>1, <1>7, <1>8, <1>9 DEF IInv, Remembered
  <2>3. CASE fails' = fails + 1 /\ file' = file
    BY <2>1, <2>3, <1>1, <1>7, <1>8, <1>9 DEF IInv, Remembered
  <2> QED
    BY <2>2, <2>3, <1>1
<1> QED
  BY <1>2, <1>3, <1>4, <1>5, <1>6, <1>10 DEF IInv, RequestInv

\* The answer goes to the client, if it is still there.
LEMMA ReplyIInv ==
  ASSUME IInv, NEW r \in Requests, Reply(r)
  PROVE  IInv'
<1>1. /\ handler[r] = "reply" /\ handler' = [handler EXCEPT ![r] = "none"]
      /\ conn' = [conn EXCEPT ![r] = IF conn[r] = "open" THEN "answered" ELSE conn[r]]
      /\ UNCHANGED <<server, kind, want, worker, made, chan, seen, lock, convos, file, fails, restarts>>
      /\ TypeOK /\ RequestInv(r)
  BY DEF Reply, IInv, memory
<1>2. /\ TypeOK' /\ handler'[r] = "none" /\ \A q \in Requests \ {r} : Same(q)
      /\ conn'[r] \in {"answered", "gone"} /\ kind[r] = "whole" /\ worker[r] = "done"
  BY <1>1 DEF TypeOK, Conns, Handlers, Same, RequestInv, HandlerFits
<1>3. HandlerFits(r)' /\ MadeFits(r)'
  BY <1>1, <1>2 DEF RequestInv, HandlerFits, MadeFits
<1>4. Scripted(r)' /\ Sent(r)' = Sent(r)
  BY <1>1, QueuesKept DEF RequestInv
<1>5. chan[r] = <<>>
  <2>1. Sent(r) = 0 /\ SeenLen(r) \in Nat /\ ChanLen(r) \in Nat /\ chan[r] \in Seq(Events)
    BY <1>1, <1>2, Lengths DEF RequestInv, Reach
  <2>2. ChanLen(r) = 0
    BY <2>1 DEF Sent
  <2> QED
    BY <2>1, <2>2, EmptySeq DEF ChanLen
<1>6. Reach(r)'
  BY <1>1, <1>2, <1>4, <1>5 DEF RequestInv, Reach
<1>7. (r \in Counted => r \in Counted') /\ (r \in Kept' => r \in Kept)
  BY <1>1, <1>2 DEF Counted, Kept
<1> QED
  BY <1>1, <1>2, <1>3, <1>4, <1>6, <1>7, OneRequestMoves DEF RequestInv

-----------------------------------------------------------------------------
(* Clients *)

\* Reading moves an event from the channel to the client.
LEMMA ReceiveMoves ==
  ASSUME TypeOK, NEW r \in Requests, Scripted(r), chan[r] # <<>>,
         seen' = [seen EXCEPT ![r] = Append(seen[r], Head(chan[r]))],
         chan' = [chan EXCEPT ![r] = Tail(chan[r])], want'[r] = want[r]
  PROVE  /\ seen'[r] \in Seq(Events) /\ chan'[r] \in Seq(Events) /\ Len(chan'[r]) <= Len(chan[r])
         /\ Head(chan[r]) = Event(r, SeenLen(r) + 1) /\ ChanLen(r) > 0
         /\ SeenLen(r)' = SeenLen(r) + 1 /\ Scripted(r)' /\ Sent(r)' = Sent(r)
<1> DEFINE e == Head(chan[r])
<1>1. /\ seen[r] \in Seq(Events) /\ chan[r] \in Seq(Events) /\ seen'[r] = Append(seen[r], e)
      /\ chan'[r] = Tail(chan[r])
  BY Lengths DEF TypeOK
<1>2. /\ e \in Events /\ Tail(chan[r]) \in Seq(Events) /\ chan[r][1] = e
      /\ ChanLen(r)' = ChanLen(r) - 1 /\ ChanLen(r) \in Nat /\ ChanLen(r) > 0
      /\ \A i \in 1 .. ChanLen(r) - 1 : chan'[r][i] = chan[r][i + 1]
      /\ DOMAIN chan'[r] = 1 .. ChanLen(r) - 1
  <2>1. /\ e \in Events /\ Tail(chan[r]) \in Seq(Events) /\ Len(Tail(chan[r])) = Len(chan[r]) - 1
        /\ \A i \in 1 .. Len(Tail(chan[r])) : Tail(chan[r])[i] = chan[r][i + 1]
    BY <1>1, HeadTailProperties
  <2>2. chan[r][1] = e
    BY <1>1
  <2>3. ChanLen(r) \in Nat /\ ChanLen(r) # 0
    BY <1>1, EmptySeq DEF ChanLen
  <2>4. DOMAIN Tail(chan[r]) = 1 .. Len(Tail(chan[r]))
    BY <2>1
  <2>5. ChanLen(r)' = Len(Tail(chan[r]))
    BY <1>1 DEF ChanLen
  <2>6. Len(Tail(chan[r])) = ChanLen(r) - 1
    BY <2>1 DEF ChanLen
  <2>7. ChanLen(r) > 0
    BY <2>3
  <2> QED
    BY <2>1, <2>2, <2>3, <2>4, <2>5, <2>6, <2>7, <1>1
<1> HIDE DEF e
<1>3. /\ Append(seen[r], e) \in Seq(Events)
      /\ SeenLen(r)' = SeenLen(r) + 1 /\ SeenLen(r) \in Nat
      /\ \A i \in 1 .. SeenLen(r) : seen'[r][i] = seen[r][i]
      /\ seen'[r][SeenLen(r) + 1] = e /\ DOMAIN seen'[r] = 1 .. SeenLen(r) + 1
  BY <1>1, <1>2, AppendProperties DEF SeenLen
<1>4. /\ DOMAIN seen[r] = 1 .. SeenLen(r) /\ DOMAIN chan[r] = 1 .. ChanLen(r)
  BY Lengths
<1>5. \A i : Event(r, i)' = Event(r, i)
  BY DEF Event
<1>6. e = Event(r, SeenLen(r) + 1)
  BY <1>2, <1>4 DEF Scripted
<1>7. ASSUME NEW i \in 1 .. SeenLen(r) + 1 PROVE seen'[r][i] = Event(r, i)
  <2>1. CASE i = SeenLen(r) + 1
    BY <2>1, <1>3, <1>6
  <2>2. CASE i \in 1 .. SeenLen(r)
    BY <2>2, <1>3, <1>4 DEF Scripted
  <2> QED
    BY <2>1, <2>2, <1>3
<1>8. ASSUME NEW i \in 1 .. ChanLen(r) - 1 PROVE chan'[r][i] = Event(r, SeenLen(r) + 1 + i)
  <2>1. i + 1 \in DOMAIN chan[r] /\ SeenLen(r) + (i + 1) = SeenLen(r) + 1 + i
    <3>1. SeenLen(r) \in Nat /\ ChanLen(r) \in Nat
      BY <1>2, <1>3
    <3> QED
      BY <3>1, <1>4
  <2> QED
    BY <2>1, <1>2 DEF Scripted
<1>9. Scripted(r)'
  <2>1. \A i \in DOMAIN seen'[r] : seen'[r][i] = Event(r, i)'
    BY <1>3, <1>5, <1>7
  <2>2. \A i \in DOMAIN chan'[r] : chan'[r][i] = Event(r, SeenLen(r) + i)'
    <3>1. DOMAIN chan'[r] = 1 .. ChanLen(r) - 1
      BY <1>2
    <3>2. ASSUME NEW i \in 1 .. ChanLen(r) - 1 PROVE chan'[r][i] = Event(r, SeenLen(r) + i)'
      <4>1. (SeenLen(r) + i)' = SeenLen(r) + 1 + i
        BY <1>2, <1>3
      <4>2. Event(r, SeenLen(r) + i)' = Event(r, SeenLen(r) + 1 + i)
        BY <4>1 DEF Event
      <4> QED
        BY <4>2, <1>8
    <3> QED
      BY <3>1, <3>2
  <2> QED
    BY <2>1, <2>2 DEF Scripted
<1>10. Sent(r)' = Sent(r)
  BY <1>2, <1>3 DEF Sent
<1>11. Len(chan'[r]) <= Len(chan[r])
  BY <1>2 DEF ChanLen
<1> QED
  BY <1>1, <1>2, <1>3, <1>6, <1>9, <1>10, <1>11 DEF e

\* A client reads the next event.
LEMMA ReceiveIInv ==
  ASSUME IInv, NEW r \in Requests, Receive(r)
  PROVE  IInv'
<1>1. /\ conn[r] = "open" /\ chan[r] # <<>>
      /\ seen' = [seen EXCEPT ![r] = Append(seen[r], Head(chan[r]))]
      /\ chan' = [chan EXCEPT ![r] = Tail(chan[r])]
      /\ UNCHANGED <<server, conn, kind, want, handler, worker, made, lock, convos, file, fails, restarts>>
      /\ TypeOK /\ RequestInv(r)
  BY DEF Receive, IInv, memory, connection
<1>2. /\ seen'[r] \in Seq(Events) /\ chan'[r] \in Seq(Events) /\ Len(chan'[r]) <= Len(chan[r])
      /\ Scripted(r)' /\ Sent(r)' = Sent(r)
  BY <1>1, ReceiveMoves DEF RequestInv
<1>3. /\ \A q \in Requests \ {r} : Same(q)
      /\ seen' = [seen EXCEPT ![r] = seen'[r]] /\ chan' = [chan EXCEPT ![r] = chan'[r]]
  BY <1>1 DEF TypeOK, Same
<1>4. Len(chan'[r]) <= Cap
  <2>1. Len(chan[r]) <= Cap /\ chan[r] \in Seq(Events) /\ Cap \in Nat
    BY <1>1, ChatServeAssumption DEF TypeOK
  <2>2. Len(chan[r]) \in Nat /\ Len(chan'[r]) \in Nat
    BY <2>1, <1>2
  <2> DEFINE a == Len(chan[r])
             b == Len(chan'[r])
  <2>3. a \in Nat /\ b \in Nat /\ a <= Cap /\ b <= a /\ Cap \in Nat
    BY <2>1, <2>2, <1>2
  <2> HIDE DEF a, b
  <2>4. b <= Cap
    BY <2>3
  <2> QED
    BY <2>4 DEF b
<1>5. TypeOK'
  <2>1. seen' \in [Requests -> Seq(Events)] /\ chan' \in [Requests -> Seq(Events)]
    BY <1>1, <1>2, <1>3 DEF TypeOK
  <2>2. \A q \in Requests : Len(chan'[q]) <= Cap
    BY <1>1, <1>3, <1>4 DEF TypeOK, Same
  <2> QED
    BY <2>1, <2>2, <1>1 DEF TypeOK
<1>6. HandlerFits(r)' /\ MadeFits(r)'
  BY <1>1 DEF RequestInv, HandlerFits, MadeFits
<1>7. Reach(r)'
  BY <1>1, <1>2 DEF RequestInv, Reach
<1>8. (r \in Counted => r \in Counted') /\ (r \in Kept' => r \in Kept)
  BY <1>1 DEF Counted, Kept
<1> QED
  BY <1>1, <1>2, <1>3, <1>5, <1>6, <1>7, <1>8, OneRequestMoves DEF RequestInv

\* A stream's end: the script was read if the task was done.
LEMMA EndStreamIInv ==
  ASSUME IInv, NEW r \in Requests, EndStream(r)
  PROVE  IInv'
<1>1. /\ conn[r] = "open" /\ kind[r] = "stream" /\ worker[r] \in {"done", "panicked"} /\ chan[r] = <<>>
      /\ conn' = [conn EXCEPT ![r] = IF worker[r] = "done" THEN "answered" ELSE "failed"]
      /\ UNCHANGED <<server, kind, want, handler, worker, made, chan, seen, lock, convos, file, fails, restarts>>
      /\ TypeOK /\ RequestInv(r)
  BY DEF EndStream, StreamOver, IInv, memory
<1>2. /\ TypeOK' /\ \A q \in Requests \ {r} : Same(q)
      /\ conn'[r] \in {"answered", "failed"} /\ (conn'[r] = "answered" => worker[r] = "done")
      /\ handler[r] = "none"
  BY <1>1 DEF TypeOK, Conns, Handlers, Same, RequestInv, HandlerFits
<1>3. HandlerFits(r)' /\ MadeFits(r)'
  BY <1>1, <1>2 DEF RequestInv, HandlerFits, MadeFits
<1>4. Scripted(r)' /\ Sent(r)' = Sent(r)
  BY <1>1, QueuesKept DEF RequestInv
<1>5. Reach(r)'
  BY <1>1, <1>2, <1>4 DEF RequestInv, Reach
<1>6. (r \in Counted => r \in Counted') /\ (r \in Kept' => r \in Kept)
  BY <1>1, <1>2 DEF Counted, Kept
<1> QED
  BY <1>1, <1>2, <1>3, <1>4, <1>5, <1>6, OneRequestMoves DEF RequestInv

\* An emptied channel leaves what was read.
LEMMA ChannelDropped ==
  ASSUME TypeOK, NEW r \in Requests, Scripted(r), Reach(r),
         seen'[r] = seen[r], chan'[r] = <<>>, want'[r] = want[r]
  PROVE  Scripted(r)' /\ Sent(r)' <= Sent(r) /\ (Sent(r) = 0 => Sent(r)' = 0) /\ Sent(r)' <= want[r] + 2
         /\ (chan[r] = <<>> => Sent(r)' = Sent(r))
<1>1. SeenLen(r)' = SeenLen(r) /\ \A i : Event(r, i)' = Event(r, i)
  BY DEF SeenLen, Event
<1>2. ChanLen(r)' = 0 /\ DOMAIN chan'[r] = {} /\ (chan[r] = <<>> => ChanLen(r) = 0)
  BY DEF ChanLen
<1>3. SeenLen(r) \in Nat /\ ChanLen(r) \in Nat /\ want[r] \in Nat
  BY Lengths
<1>4. Sent(r)' = SeenLen(r) /\ Sent(r) = SeenLen(r) + ChanLen(r)
  BY <1>1, <1>2, <1>3 DEF Sent
<1>5. Scripted(r)'
  BY <1>1, <1>2 DEF Scripted
<1> QED
  BY <1>2, <1>3, <1>4, <1>5 DEF Reach

\* A client that leaves takes its channel and a waiting handler with it.
LEMMA DisconnectIInv ==
  ASSUME IInv, NEW r \in Requests, Disconnect(r)
  PROVE  IInv'
<1>1. /\ conn[r] = "open" /\ conn' = [conn EXCEPT ![r] = "gone"]
      /\ handler' = [handler EXCEPT ![r] = IF handler[r] \in {"start", "await"} THEN "none" ELSE handler[r]]
      /\ chan' = [chan EXCEPT ![r] = <<>>]
      /\ UNCHANGED <<server, kind, want, worker, made, seen, lock, convos, file, fails, restarts>>
      /\ TypeOK /\ RequestInv(r)
  BY DEF Disconnect, IInv, memory
<1>2. <<>> \in Seq(Events) /\ Len(<<>>) = 0
  OBVIOUS
<1>3. /\ TypeOK' /\ \A q \in Requests \ {r} : Same(q)
      /\ conn'[r] = "gone" /\ chan'[r] = <<>>
      /\ \/ handler[r] \in {"start", "await"} /\ handler'[r] = "none"
         \/ handler[r] \notin {"start", "await"} /\ handler'[r] = handler[r]
  BY <1>1, <1>2, ChatServeAssumption DEF TypeOK, Conns, Handlers, Same
<1>4. HandlerFits(r)' /\ MadeFits(r)'
  BY <1>1, <1>3 DEF RequestInv, HandlerFits, MadeFits
<1>5. Scripted(r)' /\ (Sent(r) = 0 => Sent(r)' = 0) /\ Sent(r)' <= want[r] + 2
  BY <1>1, <1>3, ChannelDropped DEF RequestInv
<1>6. Reach(r)'
  BY <1>1, <1>3, <1>5 DEF RequestInv, Reach
<1>7. (r \in Counted => r \in Counted') /\ (r \in Kept' => r \in Kept)
  BY <1>1, <1>3 DEF Counted, Kept
<1> QED
  BY <1>1, <1>3, <1>4, <1>5, <1>6, <1>7, OneRequestMoves DEF RequestInv

-----------------------------------------------------------------------------
(* The process *)

\* Ctrl+C stops nothing yet.
LEMMA ShutdownIInv ==
  ASSUME IInv, Shutdown
  PROVE  IInv'
<1>1. /\ server' = "draining"
      /\ UNCHANGED <<conn, kind, want, handler, worker, made, chan, seen, lock, convos, file, fails, restarts>>
      /\ TypeOK /\ Remembered
  BY DEF Shutdown, IInv, memory, connection
<1>2. TypeOK'
  BY <1>1 DEF TypeOK
<1>3. ASSUME NEW q \in Requests PROVE RequestInv(q)'
  <2>1. Same(q)
    BY <1>1 DEF Same
  <2> QED
    BY <2>1, <1>1, SameFits DEF IInv
<1>4. Remembered'
  <2>1. Counted' = Counted /\ Kept' = Kept
    BY <1>1 DEF Counted, Kept
  <2> QED
    BY <2>1, <1>1 DEF Remembered
<1> QED
  BY <1>2, <1>3, <1>4 DEF IInv

\* The runtime ends once nobody is served; a task without a thread is lost.
LEMMA ExitIInv ==
  ASSUME IInv, Exit
  PROVE  IInv'
<1>1. /\ server' = "down" /\ server # "down"
      /\ \A r \in Requests : conn[r] # "open" /\ handler[r] = "none" /\ worker[r] \notin {"run", "stop"}
      /\ worker' = [r \in Requests |-> IF worker[r] = "queued" THEN "lost" ELSE worker[r]]
      /\ UNCHANGED <<conn, kind, want, handler, made, chan, seen, lock, convos, file, fails, restarts>>
      /\ TypeOK /\ Remembered
  BY DEF Exit, IInv, memory, connection
<1>2. TypeOK'
  BY <1>1 DEF TypeOK, Workers
<1>3. ASSUME NEW q \in Requests PROVE RequestInv(q)'
  <2>1. RequestInv(q) /\ worker'[q] = IF worker[q] = "queued" THEN "lost" ELSE worker[q]
    BY <1>1 DEF IInv
  <2>2. HandlerFits(q)' /\ MadeFits(q)'
    BY <2>1, <1>1 DEF RequestInv, HandlerFits, MadeFits
  <2>3. Scripted(q)' /\ Sent(q)' = Sent(q)
    BY <2>1, <1>1, QueuesKept DEF RequestInv
  <2>4. Reach(q)'
    BY <2>1, <2>3, <1>1 DEF RequestInv, Reach
  <2> QED
    BY <2>2, <2>3, <2>4 DEF RequestInv
<1>4. Remembered'
  <2>1. Counted' = Counted /\ Kept' = Kept
    BY <1>1 DEF Counted, Kept
  <2> QED
    BY <2>1, <1>1 DEF Remembered
<1> QED
  BY <1>2, <1>3, <1>4 DEF IInv

\* A kill drops every task; a save under way leaves the file old, new or torn.
LEMMA KillIInv ==
  ASSUME IInv, Kill
  PROVE  IInv'
<1>1. /\ server' = "down"
      /\ conn' = [r \in Requests |-> IF conn[r] = "open" THEN "failed" ELSE conn[r]]
      /\ handler' = [r \in Requests |-> "none"]
      /\ worker' = [r \in Requests |-> IF worker[r] \in {"queued", "run", "stop"} THEN "lost" ELSE worker[r]]
      /\ chan' = [r \in Requests |-> <<>>] /\ lock' = Free
      /\ IF \E r \in Requests : handler[r] = "save"
         THEN file' \in {file, [parses |-> TRUE, n |-> convos], [parses |-> FALSE, n |-> 0]}
         ELSE file' = file
      /\ UNCHANGED <<kind, want, made, seen, convos, restarts, fails>>
      /\ TypeOK /\ Remembered
  BY DEF Kill, IInv, MemoryFile, TornFile, SavedConvos
<1>2. TypeOK'
  <2>1. <<>> \in Seq(Events) /\ Len(<<>>) = 0 /\ Cap \in Nat
    BY ChatServeAssumption
  <2>2. file' \in [parses : BOOLEAN, n : Nat]
    <3>1. file \in [parses : BOOLEAN, n : Nat] /\ convos \in Nat
      BY <1>1 DEF TypeOK
    <3>2. /\ [parses |-> TRUE, n |-> convos] \in [parses : BOOLEAN, n : Nat]
          /\ [parses |-> FALSE, n |-> 0] \in [parses : BOOLEAN, n : Nat]
      BY <3>1
    <3>3. file' \in {file, [parses |-> TRUE, n |-> convos], [parses |-> FALSE, n |-> 0]}
      BY <1>1
    <3> QED
      BY <3>1, <3>2, <3>3
  <2>3. conn' \in [Requests -> Conns] /\ handler' \in [Requests -> Handlers] /\ worker' \in [Requests -> Workers]
    BY <1>1 DEF TypeOK, Conns, Handlers, Workers
  <2>4. chan' \in [Requests -> Seq(Events)] /\ \A r \in Requests : Len(chan'[r]) <= Cap
    BY <2>1, <1>1
  <2> QED
    BY <2>2, <2>3, <2>4, <1>1 DEF TypeOK
<1>3. ASSUME NEW q \in Requests PROVE RequestInv(q)'
  <2>1. /\ RequestInv(q) /\ worker'[q] = (IF worker[q] \in {"queued", "run", "stop"} THEN "lost" ELSE worker[q])
        /\ handler'[q] = "none" /\ conn'[q] = (IF conn[q] = "open" THEN "failed" ELSE conn[q])
        /\ chan'[q] = <<>> /\ q # Free
    BY <1>1, ChatServeAssumption DEF IInv
  <2>2. HandlerFits(q)' /\ MadeFits(q)'
    BY <2>1, <1>1 DEF RequestInv, HandlerFits, MadeFits
  <2>3. /\ Scripted(q)' /\ (Sent(q) = 0 => Sent(q)' = 0) /\ Sent(q)' <= want[q] + 2
        /\ (chan[q] = <<>> => Sent(q)' = Sent(q))
    BY <2>1, <1>1, ChannelDropped DEF RequestInv
  <2>4. Reach(q)'
    BY <2>1, <2>3, <1>1 DEF RequestInv, Reach
  <2> QED
    BY <2>2, <2>3, <2>4 DEF RequestInv
<1>4. Remembered'
  <2>1. Counted \subseteq Counted' /\ Kept' \subseteq Kept
    BY <1>1 DEF Counted, Kept
  <2>2. CASE file' = file
    BY <2>1, <2>2, <1>1, MemoryKept
  <2>3. CASE file' # file
    <3>1. PICK r \in Requests : handler[r] = "save"
      BY <2>3, <1>1
    <3>2. lock = r /\ UseMemory /\ r # Free
      BY <3>1, ChatServeAssumption DEF IInv, RequestInv, HandlerFits
    <3>3. /\ Counted \in SUBSET Requests /\ Counted' \in SUBSET Requests
          /\ Kept \in SUBSET Requests /\ Kept' \in SUBSET Requests
      BY DEF Counted, Kept
    <3>4. /\ Cardinality(Counted) <= Cardinality(Counted') /\ Cardinality(Kept') <= Cardinality(Kept)
          /\ Cardinality(Counted) \in Nat /\ Cardinality(Counted') \in Nat
          /\ Cardinality(Kept) \in Nat /\ Cardinality(Kept') \in Nat
      BY <2>1, <3>3, RequestSets
    <3>5. /\ convos <= Cardinality(Counted) /\ Cardinality(Kept) + 1 <= convos + fails
          /\ convos \in Nat /\ fails \in Nat
      BY <3>2, <1>1, MemoryTypes DEF Remembered
    <3>6. convos <= Cardinality(Counted') /\ Cardinality(Kept') <= convos + fails
      BY <3>4, <3>5
    <3>7. file'.parses => file'.n = convos
      BY <2>3, <3>1, <1>1
    <3> QED
      BY <3>4, <3>5, <3>6, <3>7, <1>1 DEF Remembered
  <2> QED
    BY <2>2, <2>3
<1> QED
  BY <1>2, <1>3, <1>4 DEF IInv

\* The counter of a restarted server is the file's.
LEMMA RestartIInv ==
  ASSUME IInv, Restart
  PROVE  IInv'
<1>1. /\ server = "down" /\ server' = "up" /\ restarts < MaxRestarts /\ restarts' = restarts + 1
      /\ file.parses /\ convos' = file.n
      /\ UNCHANGED <<conn, kind, want, handler, worker, made, chan, seen, lock, file, fails>>
      /\ TypeOK /\ Remembered
  BY DEF Restart, IInv, connection
<1>2. TypeOK'
  <2>1. convos' \in Nat
    BY <1>1, MemoryTypes
  <2>2. restarts' \in 0 .. MaxRestarts
    BY <1>1, ChatServeAssumption DEF TypeOK
  <2> QED
    BY <2>1, <2>2, <1>1 DEF TypeOK
<1>3. ASSUME NEW q \in Requests PROVE RequestInv(q)' /\ lock # q
  <2>1. Same(q) /\ RequestInv(q)
    BY <1>1 DEF Same, IInv
  <2> QED
    BY <2>1, <1>1, SameFits DEF RequestInv, HandlerFits
<1>4. lock = Free
  BY <1>1, <1>3 DEF TypeOK
<1>5. Remembered'
  <2>1. Counted' = Counted /\ Kept' = Kept
    BY <1>1 DEF Counted, Kept
  <2>2. UseMemory => Cardinality(Kept) + 0 <= file.n + fails
    BY <1>1, MemoryTypes DEF Remembered
  <2> QED
    BY <2>1, <2>2, <1>1, <1>4 DEF Remembered
<1> QED
  BY <1>2, <1>3, <1>5 DEF IInv

\* A step that changes nothing.
LEMMA StutterIInv ==
  ASSUME IInv, UNCHANGED vars
  PROVE  IInv'
<1>1. UNCHANGED <<server, conn, kind, want, handler, worker, made, chan, seen, lock, convos, file, restarts, fails>>
  BY DEF vars
<1>2. TypeOK'
  BY <1>1 DEF IInv, TypeOK
<1>3. ASSUME NEW q \in Requests PROVE RequestInv(q)'
  <2>1. Same(q)
    BY <1>1 DEF Same
  <2> QED
    BY <2>1, <1>1, SameFits DEF IInv
<1>4. Remembered'
  <2>1. Counted' = Counted /\ Kept' = Kept
    BY <1>1 DEF Counted, Kept
  <2> QED
    BY <2>1, <1>1 DEF IInv, Remembered
<1> QED
  BY <1>2, <1>3, <1>4 DEF IInv

-----------------------------------------------------------------------------
(* The theorems *)

\* Every step of the server preserves the invariant.
LEMMA NextIInv ==
  ASSUME IInv, [Next]_vars
  PROVE  IInv'
<1>1. ASSUME NEW r \in Requests, RefuseRequest(r) \/ Arrive(r) PROVE IInv'
  BY <1>1, RefuseRequestIInv, ArriveIInv
<1>2. ASSUME NEW r \in Requests, Handle(r) PROVE IInv'
  BY <1>2, StartHandlerIInv, ResumeHandlerIInv, CountIInv, SaveIInv, ReplyIInv DEF Handle
<1>3. ASSUME NEW r \in Requests, Generate(r) PROVE IInv'
  BY <1>3, TakeThreadIInv, GenerateWholeIInv, GenerateStreamIInv, SendDoneIInv DEF Generate
<1>4. ASSUME NEW r \in Requests, WorkerPanics(r) PROVE IInv'
  BY <1>4, WorkerPanicsIInv
<1>5. ASSUME NEW r \in Requests, Read(r) PROVE IInv'
  BY <1>5, ReceiveIInv, EndStreamIInv DEF Read
<1>6. ASSUME NEW r \in Requests, Disconnect(r) PROVE IInv'
  BY <1>6, DisconnectIInv
<1>7. CASE Shutdown \/ Exit \/ Kill \/ Restart
  BY <1>7, ShutdownIInv, ExitIInv, KillIInv, RestartIInv
<1>8. CASE UNCHANGED vars
  BY <1>8, StutterIInv
<1> QED
  BY <1>1, <1>2, <1>3, <1>4, <1>5, <1>6, <1>7, <1>8 DEF Next

\* In every reachable state each request's handler, task, channel and client fit
\* together, and the memory counts what was finished and keeps what was answered.
THEOREM Invariance == Spec => []IInv
<1>1. Init => IInv
  BY InitIInv
<1>2. IInv /\ [Next]_vars => IInv'
  BY NextIInv
<1> QED
  BY <1>1, <1>2, PTL DEF Spec

\* The server's state keeps its types, and the channel its capacity.
THEOREM TypeCorrect == Spec => []TypeOK
<1>1. IInv => TypeOK
  BY DEF IInv
<1> QED
  BY <1>1, Invariance, PTL

\* The script is made of its events.
LEMMA ScriptIsEvents ==
  ASSUME TypeOK, NEW r \in Requests
  PROVE  /\ Script(r) \in Seq(Events) /\ Len(Script(r)) = want[r] + 2
         /\ \A i \in 1 .. want[r] + 2 : Script(r)[i] = Event(r, i)
<1> DEFINE toks == [i \in 1 .. want[r] |-> Token(i, i = want[r])]
           front == <<Role>> \o toks
<1>1. want[r] \in Nat /\ want[r] <= MaxTokens /\ MaxTokens \in Nat
  BY Lengths
<1>2. toks \in Seq(Events) /\ Len(toks) = want[r] /\ \A i \in 1 .. want[r] : toks[i] = Token(i, i = want[r])
  <2>1. ASSUME NEW i \in 1 .. want[r] PROVE Token(i, i = want[r]) \in Events
    <3>1. i \in 0 .. MaxTokens
      BY <1>1
    <3>2. CASE i = want[r]
      BY <3>1, <3>2 DEF Token, Events
    <3>3. CASE i # want[r]
      BY <3>1, <3>3 DEF Token, Events
    <3> QED
      BY <3>2, <3>3
  <2> QED
    BY <2>1, <1>1
<1>3. /\ <<Role>> \in Seq(Events) /\ Len(<<Role>>) = 1 /\ <<Role>>[1] = Role
      /\ <<DoneMark>> \in Seq(Events) /\ Len(<<DoneMark>>) = 1 /\ <<DoneMark>>[1] = DoneMark
  BY EventTypes
<1> HIDE DEF toks
<1>4. /\ front \in Seq(Events) /\ Len(front) = want[r] + 1
      /\ front[1] = Role /\ \A i \in 2 .. want[r] + 1 : front[i] = toks[i - 1]
  BY <1>1, <1>2, <1>3, ConcatProperties
<1> HIDE DEF front
<1>5. /\ front \o <<DoneMark>> \in Seq(Events) /\ Len(front \o <<DoneMark>>) = want[r] + 2
      /\ \A i \in 1 .. want[r] + 1 : (front \o <<DoneMark>>)[i] = front[i]
      /\ (front \o <<DoneMark>>)[want[r] + 2] = DoneMark
  BY <1>1, <1>3, <1>4, ConcatProperties
<1>6. Script(r) = front \o <<DoneMark>>
  BY DEF Script, front, toks
<1>7. ASSUME NEW i \in 1 .. want[r] + 2 PROVE Script(r)[i] = Event(r, i)
  <2>1. CASE i = 1
    BY <2>1, <1>1, <1>4, <1>5, <1>6 DEF Event
  <2>2. CASE i = want[r] + 2
    BY <2>2, <1>1, <1>5, <1>6 DEF Event
  <2>3. CASE i \in 2 .. want[r] + 1
    <3>1. i - 1 \in 1 .. want[r] /\ i # 1 /\ i # want[r] + 2 /\ i \in 1 .. want[r] + 1
      BY <2>3, <1>1
    <3>2. Script(r)[i] = Token(i - 1, i - 1 = want[r])
      BY <3>1, <2>3, <1>2, <1>4, <1>5, <1>6
    <3> QED
      BY <3>1, <3>2 DEF Event
  <2> QED
    BY <2>1, <2>2, <2>3, <1>1
<1> QED
  BY <1>5, <1>6, <1>7

\* The a elements of s and the b elements of t continue each other as u does.
Continue(s, t, u, a, b) ==
  /\ Len(s) = a /\ Len(t) = b
  /\ \A i \in 1 .. a + b : i \in DOMAIN u
  /\ \A i \in 1 .. a : s[i] = u[i]
  /\ \A i \in 1 .. b : t[i] = u[a + i]

Begin(s, t, u, n) == s \o t = SubSeq(u, 1, n)

\* Sequences that continue each other as a third does are a prefix of it.
LEMMA PrefixOf ==
  ASSUME NEW S, NEW s \in Seq(S), NEW t \in Seq(S), NEW u \in Seq(S),
         NEW a \in Nat, NEW b \in Nat, Continue(s, t, u, a, b)
  PROVE  Begin(s, t, u, a + b)
<1> DEFINE q == s \o t
           p == SubSeq(u, 1, a + b)
<1> USE DEF Continue
<1>1. /\ q \in Seq(S) /\ Len(q) = a + b
      /\ \A i \in 1 .. a + b : q[i] = IF i <= a THEN s[i] ELSE t[i - a]
  BY ConcatProperties
<1>2. p \in Seq(S) /\ Len(p) = a + b /\ \A i \in 1 .. a + b : p[i] = u[i]
  <2>1. 1 \in Int /\ a + b \in Int /\ \A i \in 1 .. a + b : u[i] \in S
    OBVIOUS
  <2>2. /\ p \in Seq(S) /\ Len(p) = IF 1 <= a + b THEN a + b - 1 + 1 ELSE 0
        /\ \A i \in 1 .. a + b - 1 + 1 : p[i] = u[1 + i - 1]
    BY <2>1, SubSeqProperties
  <2> HIDE DEF p
  <2> QED
    BY <2>2
<1> HIDE DEF p, q
<1>3. ASSUME NEW i \in 1 .. a + b PROVE q[i] = p[i]
  <2>1. CASE i <= a
    BY <2>1, <1>1, <1>2
  <2>2. CASE ~(i <= a)
    <3>1. i - a \in 1 .. b /\ a + (i - a) = i
      BY <2>2
    <3> QED
      BY <3>1, <2>2, <1>1, <1>2
  <2> QED
    BY <2>1, <2>2
<1>4. q = p
  BY <1>1, <1>2, <1>3, SeqEqual
<1> QED
  BY <1>4 DEF Begin, p, q

\* However generation, reading, panics and disconnects interleave, a client reads
\* a prefix of the script, and all of it if the stream ended well
\* (handlers.rs:156-201, inference.rs:86-105).
THEOREM StreamScriptedAlways == Spec => []StreamScripted
<1>1. ASSUME IInv, NEW r \in Requests
      PROVE  /\ \E n \in 0 .. Len(Script(r)) : seen[r] \o chan[r] = SubSeq(Script(r), 1, n)
             /\ kind[r] = "stream" /\ conn[r] = "answered" => seen[r] = Script(r)
  <2> DEFINE a == SeenLen(r)
             b == ChanLen(r)
             c == want[r] + 2
             u == Script(r)
  <2>1. TypeOK /\ Scripted(r) /\ Reach(r)
    BY <1>1 DEF IInv, RequestInv
  <2>2. u \in Seq(Events) /\ Len(u) = c /\ \A i \in 1 .. c : u[i] = Event(r, i)
    BY <2>1, ScriptIsEvents
  <2>3. /\ seen[r] \in Seq(Events) /\ chan[r] \in Seq(Events)
        /\ a \in Nat /\ b \in Nat /\ c \in Nat /\ a + b <= c
        /\ DOMAIN seen[r] = 1 .. a /\ DOMAIN chan[r] = 1 .. b
    BY <2>1, Lengths DEF Reach, Sent
  <2>4. Len(seen[r]) = a /\ Len(chan[r]) = b
    BY DEF SeenLen, ChanLen
  <2>5. ASSUME kind[r] = "stream", conn[r] = "answered" PROVE a = c
    <3>1. chan[r] = <<>> /\ a + b = c
      BY <2>5, <2>1 DEF Reach, Sent
    <3>2. b = 0
      BY <3>1 DEF ChanLen
    <3> QED
      BY <3>1, <3>2, <2>3
  <2> HIDE DEF a, b, c, u
  <2>6. \A i \in 1 .. a : seen[r][i] = u[i]
    BY <2>1, <2>2, <2>3 DEF Scripted
  <2>7. \A i \in 1 .. b : chan[r][i] = u[a + i]
    <3>1. ASSUME NEW i \in 1 .. b PROVE chan[r][i] = Event(r, a + i) /\ a + i \in 1 .. c
      BY <3>1, <2>1, <2>3 DEF Scripted, a
    <3> QED
      BY <3>1, <2>2
  <2>8. seen[r] \o chan[r] = SubSeq(u, 1, a + b)
    <3>1. \A i \in 1 .. a + b : i \in DOMAIN u
      BY <2>2, <2>3
    <3>2. Continue(seen[r], chan[r], u, a, b)
      BY <2>4, <2>6, <2>7, <3>1 DEF Continue
    <3>3. Begin(seen[r], chan[r], u, a + b)
      BY <2>2, <2>3, <3>2, PrefixOf
    <3> QED
      BY <3>3 DEF Begin
  <2>9. a + b \in 0 .. Len(u)
    BY <2>2, <2>3
  <2>10. ASSUME kind[r] = "stream", conn[r] = "answered" PROVE seen[r] = u
    <3>1. Len(seen[r]) = Len(u) /\ \A i \in 1 .. Len(seen[r]) : seen[r][i] = u[i]
      BY <2>2, <2>4, <2>5, <2>6, <2>10
    <3> QED
      BY <3>1, <2>2, <2>3, SeqEqual
  <2> QED
    BY <2>8, <2>9, <2>10 DEF u
<1>2. IInv => StreamScripted
  BY <1>1 DEF StreamScripted
<1> QED
  BY <1>2, Invariance, PTL

\* A client that holds its answer finds it counted in the memory file, whatever
\* was killed, restarted or could not be saved (handlers.rs:128-138).
THEOREM AnsweredIsRememberedAlways == Spec => []AnsweredIsRemembered
<1>1. ASSUME IInv PROVE AnsweredIsRemembered
  <2>1. AnsweredWhole \in SUBSET Requests /\ Kept \in SUBSET Requests /\ AnsweredWhole \subseteq Kept
    BY DEF AnsweredWhole, Kept
  <2>2. /\ Cardinality(AnsweredWhole) <= Cardinality(Kept)
        /\ Cardinality(AnsweredWhole) \in Nat /\ Cardinality(Kept) \in Nat
    BY <2>1, RequestSets
  <2>3. file.n \in Nat /\ fails \in Nat /\ (UseMemory /\ file.parses => Cardinality(Kept) <= file.n + fails)
    BY <1>1, MemoryTypes DEF IInv, Remembered
  <2> QED
    BY <2>2, <2>3 DEF AnsweredIsRemembered
<1> QED
  BY <1>1, Invariance, PTL

\* No conversation is counted that was not generated, and none twice, whoever
\* disconnects and whenever the server restarts (handlers.rs:129-136).
THEOREM NoPhantomConversationAlways == Spec => []NoPhantomConversation
<1>1. ASSUME IInv PROVE NoPhantomConversation
  <2>1. FinishedWhole \in SUBSET Requests /\ Counted \in SUBSET Requests /\ Counted \subseteq FinishedWhole
    BY DEF FinishedWhole, Counted
  <2>2. /\ Cardinality(Counted) <= Cardinality(FinishedWhole)
        /\ Cardinality(Counted) \in Nat /\ Cardinality(FinishedWhole) \in Nat
    BY <2>1, RequestSets
  <2>3. /\ convos \in Nat /\ file.n \in Nat /\ convos <= Cardinality(Counted)
        /\ file.parses => file.n <= Cardinality(Counted)
    BY <1>1, MemoryTypes DEF IInv, Remembered
  <2> QED
    BY <2>2, <2>3 DEF NoPhantomConversation
<1> QED
  BY <1>1, Invariance, PTL

-----------------------------------------------------------------------------
(* The server implements Completion *)

\* How many of the first n events of a script with w tokens are tokens.
TokensIn(n, w) == IF n = 0 THEN 0 ELSE IF n = w + 2 THEN w ELSE n - 1

\* The tokens a client counts follow from how far it has read.
TokensFollow ==
  \A r \in Requests :
    TokensSeen(r) = IF kind[r] = "stream" THEN TokensIn(SeenLen(r), want[r])
                    ELSE IF conn[r] = "answered" THEN want[r] ELSE 0

\* Between the role and [DONE] a client reads tokens.
LEMMA StreamTokens ==
  ASSUME TypeOK, NEW r \in Requests, Scripted(r), Reach(r), kind[r] = "stream"
  PROVE  TokensSeen(r) = TokensIn(SeenLen(r), want[r])
<1> DEFINE n == SeenLen(r)
           w == want[r]
           contents == {i \in DOMAIN seen[r] : seen[r][i].type = "content"}
           last == IF n = w + 2 THEN w + 1 ELSE n
<1>1. n \in Nat /\ ChanLen(r) \in Nat /\ w \in Nat /\ DOMAIN seen[r] = 1 .. n
  BY Lengths
<1>2. n <= w + 2
  BY <1>1 DEF Reach, Sent
<1>3. ASSUME NEW i \in 1 .. n PROVE seen[r][i].type = "content" <=> i # 1 /\ i # w + 2
  <2>1. seen[r][i] = Event(r, i)
    BY <1>1, <1>3 DEF Scripted
  <2>2. CASE i = 1
    BY <2>1, <2>2 DEF Event, Role
  <2>3. CASE i = w + 2
    BY <2>1, <2>3, <1>1 DEF Event, DoneMark
  <2>4. CASE i # 1 /\ i # w + 2
    <3>1. seen[r][i] = Token(i - 1, i - 1 = w)
      BY <2>1, <2>4 DEF Event
    <3> QED
      BY <3>1, <2>4 DEF Token
  <2> QED
    BY <2>2, <2>3, <2>4
<1> HIDE DEF n, w
<1>4. last \in Nat /\ contents = 2 .. last
  <2>1. \A i : i \in contents <=> i \in 1 .. n /\ i # 1 /\ i # w + 2
    BY <1>1, <1>3
  <2>2. \A i : (i \in 1 .. n /\ i # 1 /\ i # w + 2) <=> i \in 2 .. last
    BY <1>1, <1>2
  <2> QED
    BY <2>1, <2>2, <1>1
<1> HIDE DEF contents, last
<1>5. Cardinality(contents) = IF 2 > last THEN 0 ELSE last - 2 + 1
  BY <1>4, FS_Interval
<1>6. Cardinality(contents) = TokensIn(n, w)
  BY <1>1, <1>2, <1>5 DEF TokensIn, last
<1> QED
  BY <1>6 DEF TokensSeen, contents, n, w

\* The invariant says how far a client has read.
LEMMA Follows ==
  ASSUME IInv
  PROVE  TokensFollow
<1>1. ASSUME NEW r \in Requests, kind[r] = "stream" PROVE TokensSeen(r) = TokensIn(SeenLen(r), want[r])
  BY <1>1, StreamTokens DEF IInv, RequestInv
<1>2. ASSUME NEW r \in Requests, kind[r] # "stream"
      PROVE  TokensSeen(r) = IF conn[r] = "answered" THEN want[r] ELSE 0
  <2>1. kind[r] = "whole" /\ HandlerFits(r) /\ MadeFits(r)
    BY <1>2 DEF IInv, RequestInv, TypeOK, Kinds
  <2>2. conn[r] = "answered" => made[r] = want[r]
    BY <2>1 DEF HandlerFits, MadeFits
  <2> QED
    BY <1>2, <2>2 DEF TokensSeen
<1> QED
  BY <1>1, <1>2 DEF TokensFollow

\* A request of which neither the client's connection nor what it has read
\* changes looks the same to Completion.
LEMMA SeenSame ==
  ASSUME TokensFollow, TokensFollow', NEW q \in Requests,
         conn'[q] = conn[q], kind'[q] = kind[q], want'[q] = want[q], seen'[q] = seen[q]
  PROVE  PhaseSeen(q)' = PhaseSeen(q) /\ TokensSeen(q)' = TokensSeen(q)
<1>1. PhaseSeen(q)' = PhaseSeen(q) /\ SeenLen(q)' = SeenLen(q)
  BY DEF PhaseSeen, SeenLen
<1>2. TokensSeen(q) = IF kind[q] = "stream" THEN TokensIn(SeenLen(q), want[q])
                      ELSE IF conn[q] = "answered" THEN want[q] ELSE 0
  BY DEF TokensFollow
<1>3. TokensSeen(q)' = IF kind'[q] = "stream" THEN TokensIn(SeenLen(q)', want'[q])
                       ELSE IF conn'[q] = "answered" THEN want'[q] ELSE 0
  BY DEF TokensFollow, TokensIn
<1> QED
  BY <1>1, <1>2, <1>3

\* What Completion sees of the requests other than one.
OthersSeenSame(r) ==
  \A q \in Requests \ {r} : PhaseSeen(q)' = PhaseSeen(q) /\ TokensSeen(q)' = TokensSeen(q)

\* A step no client notices.
LEMMA Unnoticed ==
  ASSUME want' = want,
         \A q \in Requests : PhaseSeen(q)' = PhaseSeen(q) /\ TokensSeen(q)' = TokensSeen(q)
  PROVE  UNCHANGED Promise!cvars
BY DEF Promise!cvars

\* A step that one client sees as a step of Completion.
LEMMA OneClientNotices ==
  ASSUME want' = want, NEW r \in Requests, OthersSeenSame(r),
         \/ /\ PhaseSeen(r) = "idle" /\ PhaseSeen(r)' \in {"open", "refused"}
            /\ TokensSeen(r)' = TokensSeen(r)
         \/ /\ PhaseSeen(r) = "open" /\ PhaseSeen(r)' = "open" /\ TokensSeen(r) < want[r]
            /\ TokensSeen(r)' = TokensSeen(r) + 1
         \/ /\ PhaseSeen(r) = "open" /\ PhaseSeen(r)' = "answered" /\ TokensSeen(r) \in {0, want[r]}
            /\ TokensSeen(r)' = want[r]
         \/ /\ PhaseSeen(r) = "open" /\ PhaseSeen(r)' = "lost"
            /\ TokensSeen(r)' = TokensSeen(r)
  PROVE  Promise!CNext
<1> DEFINE phase == [q \in Requests |-> PhaseSeen(q)]
           got == [q \in Requests |-> TokensSeen(q)]
<1>1. /\ phase' = [phase EXCEPT ![r] = PhaseSeen(r)'] /\ got' = [got EXCEPT ![r] = TokensSeen(r)']
      /\ phase[r] = PhaseSeen(r) /\ got[r] = TokensSeen(r)
  BY DEF OthersSeenSame
<1>2. TokensSeen(r)' = TokensSeen(r) => got' = got
  BY <1>1
<1>3. PhaseSeen(r)' = PhaseSeen(r) => phase' = phase
  BY <1>1
<1>4. PhaseSeen(r)' = "lost" => phase' = [q \in Requests |-> IF q \in {r} THEN "lost" ELSE phase[q]]
  BY <1>1
<1> HIDE DEF phase, got
<1>5. CASE PhaseSeen(r) = "idle" /\ TokensSeen(r)' = TokensSeen(r) /\ PhaseSeen(r)' = "open"
  <2>1. Promise!Ask(r)
    BY <1>1, <1>2, <1>5 DEF Promise!Ask, phase, got
  <2> QED
    BY <2>1 DEF Promise!CNext
<1>6. CASE PhaseSeen(r) = "idle" /\ TokensSeen(r)' = TokensSeen(r) /\ PhaseSeen(r)' = "refused"
  <2>1. Promise!Refuse(r)
    BY <1>1, <1>2, <1>6 DEF Promise!Refuse, phase, got
  <2> QED
    BY <2>1 DEF Promise!CNext
<1>7. CASE /\ PhaseSeen(r) = "open" /\ PhaseSeen(r)' = "open" /\ TokensSeen(r) < want[r]
           /\ TokensSeen(r)' = TokensSeen(r) + 1
  <2>1. Promise!Token(r)
    BY <1>1, <1>3, <1>7 DEF Promise!Token, phase, got
  <2> QED
    BY <2>1 DEF Promise!CNext
<1>8. CASE /\ PhaseSeen(r) = "open" /\ PhaseSeen(r)' = "answered" /\ TokensSeen(r) \in {0, want[r]}
           /\ TokensSeen(r)' = want[r]
  <2>1. Promise!Answer(r)
    BY <1>1, <1>8 DEF Promise!Answer, phase, got
  <2> QED
    BY <2>1 DEF Promise!CNext
<1>9. CASE PhaseSeen(r) = "open" /\ PhaseSeen(r)' = "lost" /\ TokensSeen(r)' = TokensSeen(r)
  <2>1. Promise!Lose({r})
    BY <1>1, <1>2, <1>4, <1>9 DEF Promise!Lose, phase, got
  <2> QED
    BY <2>1 DEF Promise!CNext
<1> QED
  BY <1>5, <1>6, <1>7, <1>8, <1>9

\* Handlers and tasks that leave the connections alone are not noticed.
LEMMA QuietUnnoticed ==
  ASSUME TokensFollow, TokensFollow', UNCHANGED <<conn, kind, want, seen>>
  PROVE  UNCHANGED Promise!cvars
BY SeenSame, Unnoticed

\* Where a request is, seen by its client, and what that says of its tokens.
LEMMA ClientSees ==
  ASSUME TypeOK, TokensFollow, TokensFollow', NEW r \in Requests, kind' = kind, want' = want
  PROVE  /\ TokensSeen(r) = IF kind[r] = "stream" THEN TokensIn(SeenLen(r), want[r])
                            ELSE IF conn[r] = "answered" THEN want[r] ELSE 0
         /\ TokensSeen(r)' = IF kind[r] = "stream" THEN TokensIn(SeenLen(r)', want[r])
                             ELSE IF conn'[r] = "answered" THEN want[r] ELSE 0
         /\ SeenLen(r) \in Nat /\ want[r] \in Nat /\ kind[r] \in {"whole", "stream"}
         /\ seen'[r] = seen[r] => SeenLen(r)' = SeenLen(r)
<1>1. SeenLen(r) \in Nat /\ want[r] \in Nat /\ kind[r] \in {"whole", "stream"}
  BY Lengths
<1>2. seen'[r] = seen[r] => SeenLen(r)' = SeenLen(r)
  BY DEF SeenLen
<1>3. TokensSeen(r)' = IF kind[r] = "stream" THEN TokensIn(SeenLen(r)', want[r])
                       ELSE IF conn'[r] = "answered" THEN want[r] ELSE 0
  BY DEF TokensFollow, TokensIn
<1> QED
  BY <1>1, <1>2, <1>3 DEF TokensFollow

\* A connection that changes and is not answered keeps its tokens.
LEMMA ConnectionMoves ==
  ASSUME TypeOK, TokensFollow, TokensFollow', NEW r \in Requests, NEW c \in Conns \ {"answered"},
         conn[r] \in {"idle", "open"}, conn' = [conn EXCEPT ![r] = c],
         UNCHANGED <<kind, want, seen>>,
         conn[r] = "idle" => c \in {"open", "refused"}, conn[r] = "open" => c \in {"gone", "failed"}
  PROVE  Promise!CNext
<1>1. conn'[r] = c /\ \A q \in Requests \ {r} : conn'[q] = conn[q]
  BY DEF TypeOK
<1>2. OthersSeenSame(r)
  BY <1>1, SeenSame DEF OthersSeenSame
<1>3. TokensSeen(r)' = TokensSeen(r)
  BY <1>1, ClientSees
<1>4. /\ conn[r] = "idle" => PhaseSeen(r) = "idle" /\ PhaseSeen(r)' \in {"open", "refused"}
      /\ conn[r] = "open" => PhaseSeen(r) = "open" /\ PhaseSeen(r)' = "lost"
  BY <1>1 DEF PhaseSeen
<1> QED
  BY <1>2, <1>3, <1>4, OneClientNotices

\* An event read is a token, or the role or [DONE] and not noticed.
LEMMA ReceivePromised ==
  ASSUME IInv, TokensFollow, TokensFollow', NEW r \in Requests, Receive(r)
  PROVE  [Promise!CNext]_(Promise!cvars)
<1>1. /\ conn[r] = "open" /\ chan[r] # <<>>
      /\ seen' = [seen EXCEPT ![r] = Append(seen[r], Head(chan[r]))]
      /\ chan' = [chan EXCEPT ![r] = Tail(chan[r])]
      /\ UNCHANGED <<conn, kind, want>> /\ TypeOK /\ Scripted(r) /\ Reach(r)
  BY DEF Receive, IInv, RequestInv, connection
<1>2. SeenLen(r)' = SeenLen(r) + 1 /\ ChanLen(r) > 0
  BY <1>1, ReceiveMoves
<1>3. SeenLen(r) \in Nat /\ ChanLen(r) \in Nat /\ want[r] \in Nat /\ kind[r] \in {"whole", "stream"}
  BY <1>1, Lengths
<1>4. kind[r] = "stream" /\ SeenLen(r) + 1 <= want[r] + 2
  BY <1>1, <1>2, <1>3 DEF Reach, Sent
<1>5. /\ TokensSeen(r) = TokensIn(SeenLen(r), want[r])
      /\ TokensSeen(r)' = TokensIn(SeenLen(r) + 1, want[r])
  BY <1>1, <1>2, <1>4, ClientSees
<1>6. /\ \A q \in Requests \ {r} : seen'[q] = seen[q]
      /\ OthersSeenSame(r) /\ PhaseSeen(r)' = PhaseSeen(r) /\ PhaseSeen(r) = "open"
  BY <1>1, SeenSame DEF TypeOK, OthersSeenSame, PhaseSeen
<1>7. CASE SeenLen(r) \in 1 .. want[r]
  <2>1. TokensSeen(r) < want[r] /\ TokensSeen(r)' = TokensSeen(r) + 1
    BY <1>3, <1>5, <1>7 DEF TokensIn
  <2> QED
    BY <2>1, <1>1, <1>6, OneClientNotices
<1>8. CASE SeenLen(r) \notin 1 .. want[r]
  <2>1. SeenLen(r) = 0 \/ SeenLen(r) = want[r] + 1
    BY <1>3, <1>4, <1>8
  <2>2. TokensSeen(r)' = TokensSeen(r)
    BY <2>1, <1>3, <1>5 DEF TokensIn
  <2> QED
    BY <2>2, <1>1, <1>6, Unnoticed DEF OthersSeenSame
<1> QED
  BY <1>7, <1>8

\* A stream that ends was read to the end, or is lost.
LEMMA EndStreamPromised ==
  ASSUME IInv, TokensFollow, TokensFollow', NEW r \in Requests, EndStream(r)
  PROVE  [Promise!CNext]_(Promise!cvars)
<1>1. /\ conn[r] = "open" /\ kind[r] = "stream" /\ worker[r] \in {"done", "panicked"} /\ chan[r] = <<>>
      /\ conn' = [conn EXCEPT ![r] = IF worker[r] = "done" THEN "answered" ELSE "failed"]
      /\ UNCHANGED <<kind, want, seen>> /\ TypeOK /\ Reach(r)
  BY DEF EndStream, StreamOver, IInv, RequestInv
<1>2. CASE worker[r] = "done"
  <2>1. Sent(r) = want[r] + 2 /\ ChanLen(r) = 0
    BY <1>1, <1>2 DEF Reach, ChanLen
  <2>2. SeenLen(r) = want[r] + 2
    BY <2>1, <1>1, Lengths DEF Sent
  <2>3. TokensSeen(r) = want[r] /\ TokensSeen(r)' = want[r]
    BY <2>2, <1>1, ClientSees DEF TokensIn
  <2>4. conn'[r] = "answered" /\ \A q \in Requests \ {r} : conn'[q] = conn[q]
    BY <1>1, <1>2 DEF TypeOK
  <2>5. OthersSeenSame(r) /\ PhaseSeen(r) = "open" /\ PhaseSeen(r)' = "answered"
    BY <1>1, <2>4, SeenSame DEF OthersSeenSame, PhaseSeen
  <2> QED
    BY <1>1, <2>3, <2>5, OneClientNotices
<1>3. CASE worker[r] # "done"
  BY <1>1, <1>3, ConnectionMoves DEF Conns
<1> QED
  BY <1>2, <1>3

\* An answer that finds its client has all its tokens.
LEMMA ReplyPromised ==
  ASSUME IInv, TokensFollow, TokensFollow', NEW r \in Requests, Reply(r)
  PROVE  [Promise!CNext]_(Promise!cvars)
<1>1. /\ conn' = [conn EXCEPT ![r] = IF conn[r] = "open" THEN "answered" ELSE conn[r]]
      /\ UNCHANGED <<kind, want, seen>> /\ TypeOK /\ kind[r] = "whole"
  BY DEF Reply, IInv, RequestInv, HandlerFits
<1>2. CASE conn[r] = "open"
  <2>1. conn'[r] = "answered" /\ \A q \in Requests \ {r} : conn'[q] = conn[q]
    BY <1>1, <1>2 DEF TypeOK
  <2>2. TokensSeen(r) = 0 /\ TokensSeen(r)' = want[r]
    BY <2>1, <1>1, <1>2, ClientSees
  <2>3. OthersSeenSame(r) /\ PhaseSeen(r) = "open" /\ PhaseSeen(r)' = "answered"
    BY <1>1, <1>2, <2>1, SeenSame DEF OthersSeenSame, PhaseSeen
  <2> QED
    BY <1>1, <2>2, <2>3, OneClientNotices
<1>3. CASE conn[r] # "open"
  <2>1. conn' = conn
    BY <1>1, <1>3 DEF TypeOK
  <2> QED
    BY <2>1, <1>1, QuietUnnoticed
<1> QED
  BY <1>2, <1>3

\* A panic loses a whole request and is not noticed by a stream until it ends.
LEMMA WorkerPanicsPromised ==
  ASSUME IInv, TokensFollow, TokensFollow', NEW r \in Requests, WorkerPanics(r)
  PROVE  [Promise!CNext]_(Promise!cvars)
<1>1. /\ conn' = [conn EXCEPT ![r] = IF conn[r] = "open" /\ kind[r] = "whole" THEN "failed" ELSE conn[r]]
      /\ UNCHANGED <<kind, want, seen>> /\ TypeOK
  BY DEF WorkerPanics, IInv
<1>2. CASE conn[r] = "open" /\ kind[r] = "whole"
  BY <1>1, <1>2, ConnectionMoves DEF Conns
<1>3. CASE ~(conn[r] = "open" /\ kind[r] = "whole")
  <2>1. conn' = conn
    BY <1>1, <1>3 DEF TypeOK
  <2> QED
    BY <2>1, <1>1, QuietUnnoticed
<1> QED
  BY <1>2, <1>3

\* A kill loses every open request at once.
LEMMA KillPromised ==
  ASSUME IInv, TokensFollow, TokensFollow', Kill
  PROVE  [Promise!CNext]_(Promise!cvars)
<1> DEFINE phase == [q \in Requests |-> PhaseSeen(q)]
           got == [q \in Requests |-> TokensSeen(q)]
           S == {r \in Requests : conn[r] = "open"}
<1>1. /\ conn' = [r \in Requests |-> IF conn[r] = "open" THEN "failed" ELSE conn[r]]
      /\ UNCHANGED <<kind, want, seen>> /\ TypeOK
  BY DEF Kill, IInv
<1>2. ASSUME NEW r \in Requests PROVE TokensSeen(r)' = TokensSeen(r)
  <2>1. conn'[r] = "answered" <=> conn[r] = "answered"
    BY <1>1
  <2> QED
    BY <2>1, <1>1, ClientSees
<1>3. ASSUME NEW r \in Requests
      PROVE  /\ PhaseSeen(r)' = IF r \in S THEN "lost" ELSE PhaseSeen(r)
             /\ r \in S => PhaseSeen(r) = "open"
  BY <1>1 DEF PhaseSeen
<1>4. CASE S = {}
  BY <1>1, <1>2, <1>3, <1>4, Unnoticed
<1>5. CASE S # {}
  <2>1. phase' = [r \in Requests |-> IF r \in S THEN "lost" ELSE phase[r]]
    BY <1>3
  <2>2. got' = got
    BY <1>2
  <2>3. \A r \in S : phase[r] = "open"
    BY <1>3
  <2>4. Promise!Lose(S)
    BY <2>1, <2>2, <2>3, <1>1, <1>5 DEF Promise!Lose
  <2> QED
    BY <2>4 DEF Promise!CNext
<1> QED
  BY <1>4, <1>5

\* Every step of the server is a step of Completion or is not noticed.
LEMMA NextPromised ==
  ASSUME IInv, TokensFollow, TokensFollow', [Next]_vars
  PROVE  [Promise!CNext]_(Promise!cvars)
<1>1. TypeOK
  BY DEF IInv
<1>2. ASSUME NEW r \in Requests, RefuseRequest(r) \/ Arrive(r) PROVE Promise!CNext
  <2>1. CASE RefuseRequest(r)
    BY <2>1, <1>1, ConnectionMoves DEF RefuseRequest, Conns
  <2>2. CASE Arrive(r)
    BY <2>2, <1>1, ConnectionMoves DEF Arrive, Conns
  <2> QED
    BY <2>1, <2>2, <1>2
<1>3. ASSUME NEW r \in Requests, Handle(r) PROVE [Promise!CNext]_(Promise!cvars)
  <2>1. CASE StartHandler(r) \/ ResumeHandler(r) \/ Count(r) \/ Save(r)
    <3>1. UNCHANGED <<conn, kind, want, seen>>
      BY <2>1 DEF StartHandler, ResumeHandler, Count, Save, connection
    <3> QED
      BY <3>1, QuietUnnoticed
  <2>2. CASE Reply(r)
    BY <2>2, ReplyPromised
  <2> QED
    BY <2>1, <2>2, <1>3 DEF Handle
<1>4. ASSUME NEW r \in Requests, Generate(r) PROVE UNCHANGED Promise!cvars
  <2>1. UNCHANGED <<conn, kind, want, seen>>
    BY <1>4 DEF Generate, TakeThread, GenerateWhole, GenerateStream, SendDone, connection
  <2> QED
    BY <2>1, QuietUnnoticed
<1>5. ASSUME NEW r \in Requests, WorkerPanics(r) PROVE [Promise!CNext]_(Promise!cvars)
  BY <1>5, WorkerPanicsPromised
<1>6. ASSUME NEW r \in Requests, Read(r) PROVE [Promise!CNext]_(Promise!cvars)
  BY <1>6, ReceivePromised, EndStreamPromised DEF Read
<1>7. ASSUME NEW r \in Requests, Disconnect(r) PROVE Promise!CNext
  BY <1>7, <1>1, ConnectionMoves DEF Disconnect, Conns
<1>8. CASE Shutdown \/ Exit \/ Restart \/ UNCHANGED vars
  <2>1. UNCHANGED <<conn, kind, want, seen>>
    BY <1>8 DEF Shutdown, Exit, Restart, vars, connection
  <2> QED
    BY <2>1, QuietUnnoticed
<1>9. CASE Kill
  BY <1>9, KillPromised
<1> QED
  BY <1>2, <1>3, <1>4, <1>5, <1>6, <1>7, <1>8, <1>9 DEF Next

\* Nothing was asked before the first request arrived.
LEMMA InitPromised ==
  ASSUME Init
  PROVE  Promise!CInit
<1>1. IInv /\ TokensFollow
  BY InitIInv, Follows
<1>2. ASSUME NEW r \in Requests PROVE PhaseSeen(r) = "idle" /\ TokensSeen(r) = 0
  <2>1. conn[r] = "idle" /\ seen[r] = <<>>
    BY DEF Init
  <2>2. SeenLen(r) = 0
    BY <2>1 DEF SeenLen
  <2> QED
    BY <2>1, <2>2, <1>1 DEF PhaseSeen, TokensFollow, TokensIn
<1> QED
  BY <1>2 DEF Init, Promise!CInit

\* Whatever the handlers, threads and channels do, and through panics, kills and
\* restarts, a client sees only what Completion promises: it is refused, answered
\* with as many tokens as it asked for, or lost, and no token comes after the end
\* (handlers.rs:84-205).
THEOREM Refinement == Spec => KeepsPromise
<1>1. Init => Promise!CInit
  BY InitPromised
<1>2. IInv => TokensFollow
  BY Follows
<1>3. IInv /\ TokensFollow /\ TokensFollow' /\ [Next]_vars => [Promise!CNext]_(Promise!cvars)
  BY NextPromised
<1> QED
  BY <1>1, <1>2, <1>3, Invariance, PTL DEF Spec, KeepsPromise, Promise!CSpec

-----------------------------------------------------------------------------
(* The cache: numbers, layers and buckets *)

\* A set of naturals has a least element.
LEMMA Least ==
  ASSUME NEW T, T \subseteq Nat, T # {}
  PROVE  \E n \in T : \A m \in T : n <= m
<1> DEFINE R == OpToRel(<, Nat)
<1>1. IsWellFoundedOn(R, Nat)
  BY NatLessThanWellFounded
<1>2. \A m, n \in Nat : <<m, n>> \in R <=> m < n
  BY DEF OpToRel
<1> HIDE DEF R
<1>3. PICK n \in T : \A m \in T : ~(<<m, n>> \in R)
  BY <1>1, WFMin
<1>4. ASSUME NEW m \in T PROVE n <= m
  <2>1. m \in Nat /\ n \in Nat /\ ~(<<m, n>> \in R)
    BY <1>3, <1>4
  <2> QED
    BY <2>1, <1>2
<1> QED
  BY <1>4

\* A bucket and its neighbours are buckets.
LEMMA NearIsBuckets ==
  ASSUME NEW l, NEW h, NEW v
  PROVE  Near(Bucket(l, h, v)) \subseteq Buckets
<1>1. NBuckets \in Nat \ {0}
  BY KvCacheAssumption
<1>2. Bucket(l, h, v) \in Buckets
  BY <1>1 DEF Bucket, Buckets
<1>3. ASSUME NEW b \in Buckets PROVE Near(b) \subseteq Buckets
  <2>1. b \in Nat /\ b + NBuckets - 1 \in Nat /\ b + 1 \in Nat
    BY <1>1, <1>3 DEF Buckets
  <2>2. /\ (b + NBuckets - 1) % NBuckets \in 0 .. NBuckets - 1
        /\ (b + 1) % NBuckets \in 0 .. NBuckets - 1
    BY <1>1, <2>1
  <2> QED
    BY <2>2, <1>3 DEF Near, Buckets
<1> QED
  BY <1>2, <1>3

\* The layers before the last one.
LEMMA LayerNumbers ==
  /\ NLayers \in Nat \ {0}
  /\ \A l \in Layers : l \in Nat /\ l \in 0 .. NLayers /\ l + 1 \in 0 .. NLayers /\ l + 1 # 0 /\ l + 1 - 1 = l
  /\ NLayers - 1 \in Layers /\ NLayers - 1 + 1 = NLayers /\ 0 \in Layers
BY KvCacheAssumption DEF Layers

-----------------------------------------------------------------------------
(* The passes over the layers *)

\* A function g on 0 .. n whose first value is given and each later one computed
\* from the one before.
PrefillOn(g, n, toks) ==
  g = [l \in 0 .. n |-> IF l = 0 THEN PrefillInput(toks) ELSE PrefillLayer(l - 1, g[l - 1])]

\* The layers of prefill have values.
LEMMA PrefillExists ==
  ASSUME NEW toks, NEW N \in Nat
  PROVE  \E g : PrefillOn(g, N, toks)
<1> DEFINE T == {n \in Nat : ~\E g : PrefillOn(g, n, toks)}
<1>1. ASSUME T # {} PROVE FALSE
  <2>1. PICK n \in T : \A m \in T : n <= m
    BY <1>1, Least
  <2>2. n \in Nat /\ ~\E g : PrefillOn(g, n, toks)
    BY <2>1
  <2>3. CASE n = 0
    <3> DEFINE f == [l \in 0 .. 0 |-> PrefillInput(toks)]
    <3>1. f = [l \in 0 .. 0 |-> IF l = 0 THEN PrefillInput(toks) ELSE PrefillLayer(l - 1, f[l - 1])]
      OBVIOUS
    <3>2. PrefillOn(f, 0, toks)
      BY <3>1 DEF PrefillOn
    <3> QED
      BY <3>2, <2>2, <2>3
  <2>4. CASE n # 0
    <3>1. n - 1 \in Nat /\ n - 1 \notin T
      BY <2>1, <2>2, <2>4
    <3>2. PICK g : PrefillOn(g, n - 1, toks)
      BY <3>1
    <3> DEFINE f == [l \in 0 .. n |-> IF l = n THEN PrefillLayer(n - 1, g[n - 1]) ELSE g[l]]
    <3>3. ASSUME NEW l \in 0 .. n
          PROVE  f[l] = IF l = 0 THEN PrefillInput(toks) ELSE PrefillLayer(l - 1, f[l - 1])
      <4>1. CASE l = n
        <5>1. f[l] = PrefillLayer(n - 1, g[n - 1])
          BY <4>1
        <5>2. f[n - 1] = g[n - 1]
          BY <2>2, <2>4
        <5> QED
          BY <4>1, <5>1, <5>2, <2>4
      <4>2. CASE l = 0
        BY <4>2, <3>2, <2>2, <2>4 DEF PrefillOn
      <4>3. CASE l # n /\ l # 0
        <5>1. l \in 0 .. n - 1 /\ l - 1 \in 0 .. n /\ l - 1 # n
          BY <4>3, <2>2
        <5>2. f[l] = g[l] /\ f[l - 1] = g[l - 1]
          BY <5>1, <4>3
        <5>3. g[l] = PrefillLayer(l - 1, g[l - 1])
          BY <5>1, <4>3, <3>2 DEF PrefillOn
        <5> QED
          BY <5>2, <5>3, <4>3
      <4> QED
        BY <4>1, <4>2, <4>3
    <3>4. f = [l \in 0 .. n |-> IF l = 0 THEN PrefillInput(toks) ELSE PrefillLayer(l - 1, f[l - 1])]
      BY <3>3
    <3>5. PrefillOn(f, n, toks)
      BY <3>4 DEF PrefillOn
    <3> QED
      BY <3>5, <2>2
  <2> QED
    BY <2>3, <2>4
<1> QED
  BY <1>1

\* What prefill computes.
LEMMA PrefillComputes ==
  ASSUME NEW toks
  PROVE  /\ PrefillVectors(toks)[0] = PrefillInput(toks)
         /\ \A l \in Layers : PrefillVectors(toks)[l + 1] = PrefillLayer(l, PrefillVectors(toks)[l])
<1> DEFINE vec == PrefillVectors(toks)
<1>1. PrefillOn(vec, NLayers, toks)
  <2>1. \E g : PrefillOn(g, NLayers, toks)
    BY LayerNumbers, PrefillExists
  <2>2. vec = CHOOSE g : PrefillOn(g, NLayers, toks)
    BY DEF PrefillVectors, PrefillOn
  <2> QED
    BY <2>1, <2>2
<1> HIDE DEF vec
<1>2. \A l \in 0 .. NLayers : vec[l] = IF l = 0 THEN PrefillInput(toks) ELSE PrefillLayer(l - 1, vec[l - 1])
  BY <1>1 DEF PrefillOn
<1>3. vec[0] = PrefillInput(toks)
  BY <1>2, LayerNumbers
<1>4. ASSUME NEW l \in Layers PROVE vec[l + 1] = PrefillLayer(l, vec[l])
  <2> DEFINE m == l + 1
  <2>1. m \in 0 .. NLayers /\ m # 0 /\ m - 1 = l
    BY LayerNumbers
  <2> HIDE DEF m
  <2>2. vec[m] = PrefillLayer(m - 1, vec[m - 1])
    BY <2>1, <1>2, Zenon
  <2> QED
    BY <2>1, <2>2 DEF m
<1> QED
  BY <1>3, <1>4 DEF vec

\* The same for one new position.
ForwardOn(g, n, tok, pos) ==
  g = [l \in 0 .. n |-> IF l = 0 THEN ForwardEmbed(tok, pos) ELSE ForwardLayer(l - 1, g[l - 1], pos)]

\* The layers of forward_one have values.
LEMMA ForwardExists ==
  ASSUME NEW tok, NEW pos, NEW N \in Nat
  PROVE  \E g : ForwardOn(g, N, tok, pos)
<1> DEFINE T == {n \in Nat : ~\E g : ForwardOn(g, n, tok, pos)}
<1>1. ASSUME T # {} PROVE FALSE
  <2>1. PICK n \in T : \A m \in T : n <= m
    BY <1>1, Least
  <2>2. n \in Nat /\ ~\E g : ForwardOn(g, n, tok, pos)
    BY <2>1
  <2>3. CASE n = 0
    <3> DEFINE f == [l \in 0 .. 0 |-> ForwardEmbed(tok, pos)]
    <3>1. f = [l \in 0 .. 0 |-> IF l = 0 THEN ForwardEmbed(tok, pos) ELSE ForwardLayer(l - 1, f[l - 1], pos)]
      OBVIOUS
    <3>2. ForwardOn(f, 0, tok, pos)
      BY <3>1 DEF ForwardOn
    <3> QED
      BY <3>2, <2>2, <2>3
  <2>4. CASE n # 0
    <3>1. n - 1 \in Nat /\ n - 1 \notin T
      BY <2>1, <2>2, <2>4
    <3>2. PICK g : ForwardOn(g, n - 1, tok, pos)
      BY <3>1
    <3> DEFINE f == [l \in 0 .. n |-> IF l = n THEN ForwardLayer(n - 1, g[n - 1], pos) ELSE g[l]]
    <3>3. ASSUME NEW l \in 0 .. n
          PROVE  f[l] = IF l = 0 THEN ForwardEmbed(tok, pos) ELSE ForwardLayer(l - 1, f[l - 1], pos)
      <4>1. CASE l = n
        <5>1. f[l] = ForwardLayer(n - 1, g[n - 1], pos)
          BY <4>1
        <5>2. f[n - 1] = g[n - 1]
          BY <2>2, <2>4
        <5> QED
          BY <4>1, <5>1, <5>2, <2>4
      <4>2. CASE l = 0
        BY <4>2, <3>2, <2>2, <2>4 DEF ForwardOn
      <4>3. CASE l # n /\ l # 0
        <5>1. l \in 0 .. n - 1 /\ l - 1 \in 0 .. n /\ l - 1 # n
          BY <4>3, <2>2
        <5>2. f[l] = g[l] /\ f[l - 1] = g[l - 1]
          BY <5>1, <4>3
        <5>3. g[l] = ForwardLayer(l - 1, g[l - 1], pos)
          BY <5>1, <4>3, <3>2 DEF ForwardOn
        <5> QED
          BY <5>2, <5>3, <4>3
      <4> QED
        BY <4>1, <4>2, <4>3
    <3>4. f = [l \in 0 .. n |-> IF l = 0 THEN ForwardEmbed(tok, pos) ELSE ForwardLayer(l - 1, f[l - 1], pos)]
      BY <3>3
    <3>5. ForwardOn(f, n, tok, pos)
      BY <3>4 DEF ForwardOn
    <3> QED
      BY <3>5, <2>2
  <2> QED
    BY <2>3, <2>4
<1> QED
  BY <1>1

\* What forward_one computes.
LEMMA ForwardComputes ==
  ASSUME NEW tok, NEW pos
  PROVE  /\ ForwardVectors(tok, pos)[0] = ForwardEmbed(tok, pos)
         /\ \A l \in Layers : ForwardVectors(tok, pos)[l + 1] = ForwardLayer(l, ForwardVectors(tok, pos)[l], pos)
<1> DEFINE vec == ForwardVectors(tok, pos)
<1>1. ForwardOn(vec, NLayers, tok, pos)
  <2>1. \E g : ForwardOn(g, NLayers, tok, pos)
    BY LayerNumbers, ForwardExists
  <2>2. vec = CHOOSE g : ForwardOn(g, NLayers, tok, pos)
    BY DEF ForwardVectors, ForwardOn
  <2> QED
    BY <2>1, <2>2
<1> HIDE DEF vec
<1>2. \A l \in 0 .. NLayers : vec[l] = IF l = 0 THEN ForwardEmbed(tok, pos) ELSE ForwardLayer(l - 1, vec[l - 1], pos)
  BY <1>1 DEF ForwardOn
<1>3. vec[0] = ForwardEmbed(tok, pos)
  BY <1>2, LayerNumbers
<1>4. ASSUME NEW l \in Layers PROVE vec[l + 1] = ForwardLayer(l, vec[l], pos)
  <2> DEFINE m == l + 1
  <2>1. m \in 0 .. NLayers /\ m # 0 /\ m - 1 = l
    BY LayerNumbers
  <2> HIDE DEF m
  <2>2. vec[m] = ForwardLayer(m - 1, vec[m - 1], pos)
    BY <2>1, <1>2, Zenon
  <2> QED
    BY <2>1, <2>2 DEF m
<1> QED
  BY <1>3, <1>4 DEF vec

-----------------------------------------------------------------------------
(* The inductive invariant *)

\* Attention over the vectors of a layer, each position scoring what training
\* would score.
DenseLayer(l, vec) ==
  [p \in DOMAIN vec |->
     Mix(l, CachedParts, vec[p], Attended(vec, [h \in Heads |-> DenseKeys(l, h, vec, p)]))]

\* Every layer covers every token, and nothing else.
CoversTokens ==
  \A l \in Layers : cached[l] = [k \in 0 .. Len(tokens) - 1 |-> cached[l][k]]

CacheIInv ==
  /\ tokens \in Seq(Tokens)
  /\ CoversTokens
  /\ BucketsPartition
  /\ CacheIsRecomputable

\* What CacheIsRecomputable recomputes.
LEMMA RecomputedIsDense ==
  \A l : Recomputed(l, CachedParts) = DenseLayer(l, cached[l])
BY DEF Recomputed, DenseLayer

\* The positions filed under some buckets are those whose phase is in one.
LEMMA FiledUnder ==
  ASSUME NEW l, NEW h, NEW vec, NEW B, B \subseteq Buckets, NEW k
  PROVE  k \in InBuckets(Filed(l, h, vec), B) <=> k \in DOMAIN vec /\ Bucket(l, h, vec[k]) \in B
<1>1. \A b \in B : Filed(l, h, vec)[b] = {i \in DOMAIN vec : Bucket(l, h, vec[i]) = b}
  BY DEF Filed
<1>2. k \in InBuckets(Filed(l, h, vec), B) <=> \E b \in B : k \in Filed(l, h, vec)[b]
  BY DEF InBuckets
<1> QED
  BY <1>1, <1>2

-----------------------------------------------------------------------------
(* Prefill *)

\* A key found in the buckets and not in the future is one that training scores.
LEMMA PrefillIsDense ==
  ASSUME NEW l, NEW n \in Nat, NEW vec, DOMAIN vec = 0 .. n - 1
  PROVE  PrefillLayer(l, vec) = DenseLayer(l, vec)
<1>1. ASSUME NEW h, NEW q \in 0 .. n - 1 PROVE PrefillKeys(l, h, vec, q) = DenseKeys(l, h, vec, q)
  <2> DEFINE B == Near(Bucket(l, h, vec[q]))
  <2>1. B \subseteq Buckets
    BY NearIsBuckets
  <2> HIDE DEF B
  <2>2. ASSUME NEW k
        PROVE  k \in InBuckets(Filed(l, h, vec), B) <=> k \in 0 .. n - 1 /\ Bucket(l, h, vec[k]) \in B
    BY <2>1, FiledUnder
  <2>3. \A k : k \in PrefillKeys(l, h, vec, q) <=>
                 \/ k \in InBuckets(Filed(l, h, vec), B) /\ k <= q
                 \/ k \in 0 .. q /\ k + 1 = q
                 \/ k = q
    BY DEF PrefillKeys, B
  <2>4. \A k : k \in DenseKeys(l, h, vec, q) <=>
                 k \in 0 .. q /\ (k = q \/ k + 1 = q \/ Bucket(l, h, vec[k]) \in B)
    BY DEF DenseKeys, B
  <2>5. \A k : k \in 0 .. n - 1 /\ k <= q <=> k \in 0 .. q
    BY <1>1
  <2>6. q \in 0 .. q
    BY <1>1
  <2> QED
    BY <2>2, <2>3, <2>4, <2>5, <2>6
<1>2. ASSUME NEW q \in 0 .. n - 1
      PROVE  [h \in Heads |-> PrefillKeys(l, h, vec, q)] = [h \in Heads |-> DenseKeys(l, h, vec, q)]
  BY <1>1
<1> QED
  BY <1>2 DEF PrefillLayer, DenseLayer

\* A prompt fills the cache.
LEMMA PrefillIInv ==
  ASSUME CacheIInv, NEW toks \in Prompts, Prefill(toks)
  PROVE  CacheIInv'
<1> DEFINE vec == PrefillVectors(toks)
           n == Len(toks)
<1>1. /\ tokens' = toks /\ cached' = [l \in Layers |-> vec[l]]
      /\ positions' = [l \in Layers |-> [h \in Heads |-> Filed(l, h, vec[l])]]
      /\ out' = vec[NLayers][n - 1]
  BY DEF Prefill
<1>2. toks \in Seq(Tokens) /\ n \in Nat /\ n # 0
  <2>1. PICK m \in 1 .. MaxLen : toks \in [1 .. m -> Tokens]
    BY DEF Prompts
  <2>2. m \in Nat /\ m # 0
    BY <2>1, KvCacheAssumption
  <2> QED
    BY <2>1, <2>2
<1>3. /\ vec[0] = PrefillInput(toks)
      /\ \A l \in Layers : vec[l + 1] = PrefillLayer(l, vec[l])
  BY PrefillComputes
<1> HIDE DEF vec, n
<1>4. ASSUME NEW l \in 0 .. NLayers PROVE vec[l] = [k \in 0 .. n - 1 |-> vec[l][k]]
  <2> DEFINE T == {m \in Nat : m \in 0 .. NLayers /\ vec[m] # [k \in 0 .. n - 1 |-> vec[m][k]]}
  <2>1. ASSUME T # {} PROVE FALSE
    <3>1. PICK m \in T : \A i \in T : m <= i
      BY <2>1, Least
    <3>2. m \in Nat /\ m \in 0 .. NLayers /\ vec[m] # [k \in 0 .. n - 1 |-> vec[m][k]]
      BY <3>1
    <3>3. m # 0
      BY <3>2, <1>3 DEF PrefillInput, n
    <3>4. m - 1 \in Layers /\ m - 1 \in 0 .. NLayers /\ m - 1 \notin T /\ m - 1 + 1 = m
      BY <3>1, <3>2, <3>3, LayerNumbers DEF Layers
    <3>5. DOMAIN vec[m - 1] = 0 .. n - 1
      BY <3>4
    <3>6. vec[m] = PrefillLayer(m - 1, vec[m - 1])
      <4> DEFINE i == m - 1
      <4>1. i \in Layers /\ i + 1 = m
        BY <3>4
      <4> HIDE DEF i
      <4>2. vec[i + 1] = PrefillLayer(i, vec[i])
        BY <4>1, <1>3
      <4> QED
        BY <4>1, <4>2 DEF i
    <3> QED
      BY <3>2, <3>5, <3>6 DEF PrefillLayer
  <2>2. l \in Nat
    BY LayerNumbers
  <2>3. l \notin T
    BY <2>1
  <2> QED
    BY <2>2, <2>3
<1>5. CoversTokens'
  BY <1>1, <1>4, LayerNumbers DEF CoversTokens, n
<1>6. BucketsPartition'
  BY <1>1 DEF BucketsPartition, Filed
<1>7. ASSUME NEW l \in Layers PROVE vec[l + 1] = DenseLayer(l, vec[l])
  <2>1. DOMAIN vec[l] = 0 .. n - 1
    BY <1>4, LayerNumbers
  <2> QED
    BY <2>1, <1>2, <1>3, PrefillIsDense
<1>8. CacheIsRecomputable'
  <2>1. \A l \in Layers : Recomputed(l, CachedParts)' = DenseLayer(l, vec[l])
    BY <1>1 DEF Recomputed, DenseLayer
  <2>2. ASSUME NEW l \in Layers, l + 1 \in Layers PROVE cached'[l + 1] = Recomputed(l, CachedParts)'
    BY <1>1, <1>7, <2>1, <2>2
  <2>3. out' = Recomputed(NLayers - 1, CachedParts)'[Len(tokens') - 1]
    <3> DEFINE i == NLayers - 1
    <3>1. i \in Layers /\ i + 1 = NLayers
      BY LayerNumbers
    <3> HIDE DEF i
    <3>2. vec[i + 1] = DenseLayer(i, vec[i]) /\ Recomputed(i, CachedParts)' = DenseLayer(i, vec[i])
      BY <3>1, <1>7, <2>1
    <3>3. out' = Recomputed(i, CachedParts)'[n - 1]
      BY <3>1, <3>2, <1>1
    <3> QED
      BY <3>3, <1>1 DEF i, n
  <2> QED
    BY <2>2, <2>3 DEF CacheIsRecomputable
<1> QED
  BY <1>1, <1>2, <1>5, <1>6, <1>8 DEF CacheIInv

-----------------------------------------------------------------------------
(* One more token *)

\* A position behind the new one scores what it did, and the same vectors.
LEMMA DenseBehind ==
  ASSUME NEW l, NEW pos \in Nat, NEW vec, DOMAIN vec = 0 .. pos - 1, NEW v, NEW p \in 0 .. pos - 1
  PROVE  DenseLayer(l, Appended(vec, v, pos))[p] = DenseLayer(l, vec)[p]
<1> DEFINE all == Appended(vec, v, pos)
           before == [h \in Heads |-> DenseKeys(l, h, vec, p)]
           after == [h \in Heads |-> DenseKeys(l, h, all, p)]
<1>1. DOMAIN all = 0 .. pos /\ p \in 0 .. pos /\ \A k \in 0 .. pos - 1 : all[k] = vec[k]
  BY DEF Appended
<1> HIDE DEF all
<1>2. \A k \in 0 .. p : k \in 0 .. pos - 1 /\ all[k] = vec[k]
  BY <1>1
<1>3. all[p] = vec[p]
  BY <1>1
<1>4. ASSUME NEW h PROVE DenseKeys(l, h, all, p) = DenseKeys(l, h, vec, p)
  BY <1>2, <1>3 DEF DenseKeys
<1>5. after = before
  BY <1>4
<1>6. Attended(all, before) = Attended(vec, before)
  <2>1. \A h \in Heads : before[h] \subseteq 0 .. p
    BY DEF DenseKeys
  <2> HIDE DEF before
  <2>2. \A h \in Heads : [k \in before[h] |-> all[k]] = [k \in before[h] |-> vec[k]]
    BY <1>2, <2>1
  <2> QED
    BY <2>2 DEF Attended
<1>7. DenseLayer(l, all)[p] = Mix(l, CachedParts, all[p], Attended(all, after))
  BY <1>1 DEF DenseLayer
<1>8. DenseLayer(l, vec)[p] = Mix(l, CachedParts, vec[p], Attended(vec, before))
  BY DEF DenseLayer
<1> HIDE DEF before, after
<1> QED
  BY <1>3, <1>5, <1>6, <1>7, <1>8 DEF all

\* The new position scores the keys that training would score.
LEMMA CachedIsDense ==
  ASSUME NEW l \in Layers, NEW h \in Heads, NEW v, NEW pos \in Nat, pos # 0,
         DOMAIN cached[l] = 0 .. pos - 1, positions[l][h] = Filed(l, h, cached[l])
  PROVE  CachedKeys(l, h, v, pos) = DenseKeys(l, h, Appended(cached[l], v, pos), pos)
<1> DEFINE B == Near(Bucket(l, h, v))
           vec == cached[l]
           all == Appended(vec, v, pos)
<1>1. B \subseteq Buckets
  BY NearIsBuckets
<1>2. all[pos] = v /\ \A k \in 0 .. pos - 1 : all[k] = vec[k]
  BY DEF Appended
<1>3. DOMAIN vec = 0 .. pos - 1
  OBVIOUS
<1> HIDE DEF B
<1>4. \A k : k \in CachedKeys(l, h, v, pos) <=>
               k \in InBuckets(Filed(l, h, vec), B) \/ (k \in 0 .. pos /\ k + 1 = pos) \/ k = pos
  <2>1. CachedKeys(l, h, v, pos)
          = InBuckets(positions[l][h], B) \cup {k \in 0 .. pos : k + 1 = pos} \cup {pos}
    BY DEF CachedKeys, B
  <2>2. InBuckets(positions[l][h], B) = InBuckets(Filed(l, h, vec), B)
    OBVIOUS
  <2> HIDE DEF vec
  <2> QED
    BY <2>1, <2>2
<1> HIDE DEF vec, all
<1>5. ASSUME NEW k PROVE k \in InBuckets(Filed(l, h, vec), B) <=> k \in 0 .. pos - 1 /\ Bucket(l, h, vec[k]) \in B
  BY <1>1, <1>3, FiledUnder
<1>6. \A k : k \in DenseKeys(l, h, all, pos) <=>
               k \in 0 .. pos /\ (k = pos \/ k + 1 = pos \/ Bucket(l, h, all[k]) \in B)
  BY <1>2 DEF DenseKeys, B
<1>7. \A k : k \in 0 .. pos <=> k \in 0 .. pos - 1 \/ k = pos
  OBVIOUS
<1>8. CachedKeys(l, h, v, pos) = DenseKeys(l, h, all, pos)
  <2>1. ASSUME NEW k PROVE k \in CachedKeys(l, h, v, pos) <=> k \in DenseKeys(l, h, all, pos)
    <3>1. CASE k \in 0 .. pos - 1
      BY <3>1, <1>2, <1>4, <1>5, <1>6, <1>7
    <3>2. CASE k \notin 0 .. pos - 1
      BY <3>2, <1>4, <1>5, <1>6, <1>7
    <3> QED
      BY <3>1, <3>2
  <2> QED
    BY <2>1
<1> QED
  BY <1>8 DEF all, vec

\* A token added to one layer is a token added to the next.
LEMMA LayerGrows ==
  ASSUME NEW l \in Layers, NEW v, NEW pos \in Nat, pos # 0, BucketsPartition,
         DOMAIN cached[l] = 0 .. pos - 1
  PROVE  DenseLayer(l, Appended(cached[l], v, pos))
           = Appended(DenseLayer(l, cached[l]), ForwardLayer(l, v, pos), pos)
<1> DEFINE vec == cached[l]
           all == Appended(vec, v, pos)
           x == ForwardLayer(l, v, pos)
<1>1. \A h \in Heads : CachedKeys(l, h, v, pos) = DenseKeys(l, h, all, pos)
  BY CachedIsDense DEF BucketsPartition
<1>2. [h \in Heads |-> CachedKeys(l, h, v, pos)] = [h \in Heads |-> DenseKeys(l, h, all, pos)]
  BY <1>1
<1>3. x = Mix(l, CachedParts, v, Attended(all, [h \in Heads |-> DenseKeys(l, h, all, pos)]))
  BY <1>2 DEF ForwardLayer
<1>4. DOMAIN all = 0 .. pos /\ all[pos] = v /\ DOMAIN vec = 0 .. pos - 1
  BY DEF Appended
<1> HIDE DEF x
<1>5. DenseLayer(l, all)[pos] = x
  <2> HIDE DEF all
  <2> QED
    BY <1>3, <1>4 DEF DenseLayer
<1> HIDE DEF vec
<1>6. \A p \in 0 .. pos - 1 : DenseLayer(l, all)[p] = DenseLayer(l, vec)[p]
  BY <1>4, DenseBehind
<1>7. DenseLayer(l, all) = [p \in 0 .. pos |-> DenseLayer(l, all)[p]]
  BY <1>4 DEF DenseLayer
<1> HIDE DEF all
<1>8. DenseLayer(l, all) = Appended(DenseLayer(l, vec), x, pos)
  BY <1>5, <1>6, <1>7 DEF Appended
<1> QED
  BY <1>8 DEF all, vec, x

\* The new position is filed under its bucket.
LEMMA FileGrows ==
  ASSUME NEW l \in Layers, NEW h \in Heads, NEW v, NEW pos \in Nat, BucketsPartition,
         DOMAIN cached[l] = 0 .. pos - 1
  PROVE  FileNew(l, h, v, pos) = Filed(l, h, Appended(cached[l], v, pos))
<1> DEFINE vec == cached[l]
           all == Appended(vec, v, pos)
           b0 == Bucket(l, h, v)
<1>1. /\ DOMAIN all = 0 .. pos /\ all[pos] = v /\ \A k \in 0 .. pos - 1 : all[k] = vec[k]
      /\ DOMAIN vec = 0 .. pos - 1
  BY DEF Appended
<1>2. positions[l][h] = [b \in Buckets |-> {k \in DOMAIN vec : Bucket(l, h, vec[k]) = b}]
  BY DEF BucketsPartition, Filed
<1> HIDE DEF all, vec
<1>3. ASSUME NEW b \in Buckets
      PROVE  {k \in DOMAIN all : Bucket(l, h, all[k]) = b}
               = {k \in DOMAIN vec : Bucket(l, h, vec[k]) = b} \cup (IF b = b0 THEN {pos} ELSE {})
  <2>1. \A k : k \in 0 .. pos <=> k \in 0 .. pos - 1 \/ k = pos
    OBVIOUS
  <2>2. pos \notin 0 .. pos - 1
    OBVIOUS
  <2> QED
    BY <1>1, <2>1, <2>2
<1>4. Filed(l, h, all) = [b \in Buckets |-> {k \in DOMAIN all : Bucket(l, h, all[k]) = b}]
  BY DEF Filed
<1>5. FileNew(l, h, v, pos)
        = [b \in Buckets |-> positions[l][h][b] \cup (IF b = b0 THEN {pos} ELSE {})]
  BY <1>2 DEF FileNew
<1> QED
  BY <1>2, <1>3, <1>4, <1>5 DEF all, vec

\* A generated token leaves a cache that could have been prefilled.
LEMMA ForwardOneIInv ==
  ASSUME CacheIInv, NEW tok \in Tokens, ForwardOne(tok)
  PROVE  CacheIInv'
<1> DEFINE pos == Len(tokens)
           new == ForwardVectors(tok, pos)
<1>1. /\ tokens # <<>> /\ tokens' = Append(tokens, tok)
      /\ cached' = [l \in Layers |-> Appended(cached[l], new[l], pos)]
      /\ positions' = [l \in Layers |-> [h \in Heads |-> FileNew(l, h, new[l], pos)]]
      /\ out' = new[NLayers]
  BY DEF ForwardOne
<1>2. /\ tokens \in Seq(Tokens) /\ pos \in Nat /\ pos # 0
      /\ tokens' \in Seq(Tokens) /\ Len(tokens') = pos + 1
  <2>1. tokens \in Seq(Tokens)
    BY DEF CacheIInv
  <2> QED
    BY <2>1, <1>1, EmptySeq, AppendProperties
<1>3. \A l \in Layers : new[l + 1] = ForwardLayer(l, new[l], pos)
  BY ForwardComputes
<1>4. BucketsPartition /\ CacheIsRecomputable /\ \A l \in Layers : DOMAIN cached[l] = 0 .. pos - 1
  <2>1. ASSUME NEW l \in Layers PROVE DOMAIN cached[l] = 0 .. pos - 1
    BY DEF CacheIInv, CoversTokens
  <2> QED
    BY <2>1 DEF CacheIInv
<1> HIDE DEF pos, new
<1>5. CoversTokens'
  <2>1. Len(tokens') - 1 = pos
    BY <1>2
  <2>2. ASSUME NEW l \in Layers PROVE cached'[l] = [k \in 0 .. pos |-> cached'[l][k]]
    BY <1>1 DEF Appended
  <2> QED
    BY <2>1, <2>2 DEF CoversTokens
<1>6. BucketsPartition'
  <2>1. ASSUME NEW l \in Layers, NEW h \in Heads
        PROVE  positions'[l][h] = Filed(l, h, Appended(cached[l], new[l], pos))
    BY <1>1, <1>2, <1>4, FileGrows
  <2>2. ASSUME NEW l \in Layers, NEW h \in Heads PROVE positions'[l][h] = Filed(l, h, cached'[l])
    BY <2>1, <1>1
  <2> QED
    BY <2>2 DEF BucketsPartition, Filed
<1>7. ASSUME NEW l \in Layers
      PROVE  DenseLayer(l, cached'[l]) = Appended(DenseLayer(l, cached[l]), new[l + 1], pos)
  <2>1. DenseLayer(l, Appended(cached[l], new[l], pos))
          = Appended(DenseLayer(l, cached[l]), ForwardLayer(l, new[l], pos), pos)
    BY <1>2, <1>4, LayerGrows
  <2> QED
    BY <2>1, <1>1, <1>3
<1>8. \A l \in Layers : Recomputed(l, CachedParts)' = DenseLayer(l, cached'[l])
  BY DEF Recomputed, DenseLayer
<1>9. ASSUME NEW l \in Layers, l + 1 \in Layers PROVE cached'[l + 1] = Recomputed(l, CachedParts)'
  <2> DEFINE m == l + 1
  <2>1. m \in Layers /\ cached[m] = DenseLayer(l, cached[l])
    BY <1>1, <1>4, <1>9, RecomputedIsDense DEF CacheIsRecomputable
  <2>2. Recomputed(l, CachedParts)' = Appended(DenseLayer(l, cached[l]), new[m], pos)
    BY <1>7, <1>8
  <2> HIDE DEF m
  <2>3. cached'[m] = Recomputed(l, CachedParts)'
    BY <2>1, <2>2, <1>1
  <2> QED
    BY <2>3 DEF m
<1>10. out' = Recomputed(NLayers - 1, CachedParts)'[Len(tokens') - 1]
  <2> DEFINE i == NLayers - 1
  <2>1. i \in Layers /\ i + 1 = NLayers /\ Len(tokens') - 1 = pos
    BY <1>2, LayerNumbers
  <2> HIDE DEF i
  <2>2. Recomputed(i, CachedParts)' = Appended(DenseLayer(i, cached[i]), new[i + 1], pos)
    BY <2>1, <1>7, <1>8
  <2>3. Recomputed(i, CachedParts)'[pos] = new[NLayers]
    BY <2>1, <2>2, <1>2 DEF Appended
  <2> QED
    BY <2>1, <2>3, <1>1 DEF i
<1>11. CacheIsRecomputable'
  BY <1>9, <1>10 DEF CacheIsRecomputable
<1> QED
  BY <1>2, <1>5, <1>6, <1>11 DEF CacheIInv

-----------------------------------------------------------------------------
(* The theorems *)

\* An empty cache.
LEMMA CacheInitIInv ==
  ASSUME CacheInit
  PROVE  CacheIInv
<1>1. tokens = <<>> /\ tokens \in Seq(Tokens) /\ 0 .. Len(tokens) - 1 = {}
  BY DEF CacheInit
<1>2. CoversTokens
  BY <1>1 DEF CacheInit, Empty, CoversTokens
<1>3. BucketsPartition
  <2>1. ASSUME NEW l \in Layers, NEW h \in Heads PROVE positions[l][h] = Filed(l, h, cached[l])
    BY DEF CacheInit, Empty, Filed
  <2> QED
    BY <2>1 DEF BucketsPartition
<1> QED
  BY <1>1, <1>2, <1>3 DEF CacheIInv, CacheIsRecomputable

\* In every reachable state each layer covers the conversation, its buckets file
\* every position under its phase, and it follows from the layer before.
THEOREM CacheInvariance == CacheSpec => []CacheIInv
<1>1. CacheInit => CacheIInv
  BY CacheInitIInv
<1>2. CacheIInv /\ [CacheNext]_cacheVars => CacheIInv'
  <2> SUFFICES ASSUME CacheIInv, [CacheNext]_cacheVars PROVE CacheIInv'
    OBVIOUS
  <2>1. ASSUME NEW toks \in Prompts, Prefill(toks) PROVE CacheIInv'
    BY <2>1, PrefillIInv
  <2>2. ASSUME NEW tok \in Tokens, ForwardOne(tok) PROVE CacheIInv'
    BY <2>2, ForwardOneIInv
  <2>3. CASE UNCHANGED cacheVars
    BY <2>3 DEF cacheVars, CacheIInv, CoversTokens, BucketsPartition, CacheIsRecomputable, Recomputed, Filed
  <2> QED
    BY <2>1, <2>2, <2>3 DEF CacheNext
<1> QED
  BY <1>1, <1>2, PTL DEF CacheSpec

\* However a conversation is split into a prompt and generated tokens, for any
\* number of layers and whatever they compute, each layer of the cache and the
\* result are what recomputing every position with the attention of
\* common/attn.rs gives (kv_cache.rs:128-182, 280-320).
THEOREM CacheIsRecomputableAlways == CacheSpec => []CacheIsRecomputable
<1>1. CacheIInv => CacheIsRecomputable
  BY DEF CacheIInv
<1> QED
  BY <1>1, CacheInvariance, PTL

\* The buckets of every head partition the conversation by phase
\* (kv_cache.rs:138-141, 322-326).
THEOREM BucketsPartitionAlways == CacheSpec => []BucketsPartition
<1>1. CacheIInv => BucketsPartition
  BY DEF CacheIInv
<1> QED
  BY <1>1, CacheInvariance, PTL
=============================================================================
