----------------------------- MODULE ChatServe ------------------------------
(***************************************************************************)
(* The completion server: the handlers of serve_tier/handlers.rs, the      *)
(* generation loops of serve_tier/inference.rs they run on tokio's         *)
(* blocking threads, the bounded channel between a streaming generation    *)
(* and its client, the wave memory behind a mutex and its file, and        *)
(* graceful shutdown (serve_tier/server.rs).  Clients leave at any time;   *)
(* a generation may panic; the process may be killed and started again.    *)
(*                                                                         *)
(* A token is its index in the answer.  The model, the prompt and the text *)
(* are left out; the wave memory is its conversation counter, the only     *)
(* part of it the server changes.                                          *)
(***************************************************************************)
EXTENDS Integers, Sequences, FiniteSets

CONSTANTS
  Requests,      \* the requests clients may send
  MaxTokens,     \* bound on max_tokens
  Cap,           \* capacity of the stream's channel, 32 in the code
  PoolSize,      \* blocking threads of the runtime
  UseMemory,     \* a memory file was given
  MaxRestarts,   \* bound: times the server is started again
  MaxFails       \* bound: saves of the memory that fail

VARIABLES
  server,    \* "up", "draining" (Ctrl+C was pressed) or "down"
  conn,      \* per request: the connection as its client sees it
  kind,      \* per request: "whole" or "stream"
  want,      \* per request: max_tokens
  handler,   \* per request: the async handler
  worker,    \* per request: the blocking task that generates
  made,      \* per request: tokens generated
  chan,      \* per request: events in the mpsc channel
  seen,      \* per request: events the client has received
  lock,      \* who holds the memory's mutex
  convos,    \* n_convos in memory
  file,      \* the memory file: n_convos, and whether it parses
  restarts, fails

connection == <<conn, kind, want>>
memory     == <<lock, convos, file, fails>>
vars == <<server, conn, kind, want, handler, worker, made, chan, seen,
          lock, convos, file, restarts, fails>>

Free == "free"

ASSUME ChatServeAssumption ==
  /\ IsFiniteSet(Requests)
  /\ Free \notin Requests
  /\ MaxTokens \in Nat
  /\ Cap \in Nat \ {0}
  /\ PoolSize \in Nat \ {0}
  /\ UseMemory \in BOOLEAN
  /\ MaxRestarts \in Nat
  /\ MaxFails \in Nat

Kinds    == {"whole", "stream"}
Conns    == {"idle", "open", "gone", "refused", "failed", "answered"}
Handlers == {"none", "start", "await", "count", "save", "reply"}
Workers  == {"none", "queued", "run", "stop", "done", "panicked", "lost"}

Role       == [type |-> "role", token |-> 0, finish |-> FALSE]
Token(i, f) == [type |-> "content", token |-> i, finish |-> f]
DoneMark   == [type |-> "done", token |-> 0, finish |-> FALSE]

Events     == [type : {"role", "content", "done"}, token : 0 .. MaxTokens, finish : BOOLEAN]

Busy == {r \in Requests : worker[r] \in {"run", "stop"}}

-----------------------------------------------------------------------------
(* Requests arrive and are checked *)

\* The middleware or the handler turns the request away: a wrong key, no
\* messages, or a prompt of zero tokens.
RefuseRequest(r) ==
  /\ server = "up" /\ conn[r] = "idle"
  /\ conn' = [conn EXCEPT ![r] = "refused"]
  /\ UNCHANGED <<server, kind, want, handler, worker, made, chan, seen, memory, restarts>>

Arrive(r) ==
  /\ server = "up" /\ conn[r] = "idle"
  /\ conn' = [conn EXCEPT ![r] = "open"]
  /\ handler' = [handler EXCEPT ![r] = "start"]
  /\ UNCHANGED <<server, kind, want, worker, made, chan, seen, memory, restarts>>

\* handle_streaming / handle_non_streaming up to spawn_blocking.  The offsets
\* are built under the mutex; the role chunk finds an empty channel.
StartHandler(r) ==
  /\ handler[r] = "start"
  /\ UseMemory => lock = Free
  /\ worker' = [worker EXCEPT ![r] = "queued"]
  /\ IF kind[r] = "stream"
     THEN /\ chan' = [chan EXCEPT ![r] = <<Role>>]
          /\ handler' = [handler EXCEPT ![r] = "none"]
     ELSE /\ handler' = [handler EXCEPT ![r] = "await"]
          /\ UNCHANGED chan
  /\ UNCHANGED <<server, connection, made, seen, memory, restarts>>

-----------------------------------------------------------------------------
(* The blocking threads *)

ThreadFree == Cardinality(Busy) < PoolSize

TakeThread(r) ==
  /\ worker[r] = "queued"
  /\ ThreadFree
  /\ worker' = [worker EXCEPT ![r] = "run"]
  /\ UNCHANGED <<server, connection, handler, made, chan, seen, memory, restarts>>

\* Faulty variant: a failed send is ignored.
SendIgnoresDisconnect(r) == FALSE

\* blocking_send: the receiver was dropped with the response body.
SendFails(r) == conn[r] # "open"

HasRoom(r) == Len(chan[r]) < Cap

\* Faulty variant: the last token is one further.
LastTokenLate(r) == made[r] + 1 > want[r]

\* done of the token generated after made[r] others.
LastToken(r) == made[r] + 1 >= want[r]

\* One round of generate: sample a token, forward it.
GenerateWhole(r) ==
  /\ kind[r] = "whole" /\ worker[r] = "run"
  /\ IF made[r] < want[r]
     THEN made' = [made EXCEPT ![r] = @ + 1] /\ UNCHANGED worker
     ELSE worker' = [worker EXCEPT ![r] = "done"] /\ UNCHANGED made
  /\ UNCHANGED <<server, connection, handler, chan, seen, memory, restarts>>

\* One round of generate_streaming: sample, send; a failed send breaks the loop.
GenerateStream(r) ==
  /\ kind[r] = "stream" /\ worker[r] = "run"
  /\ IF made[r] < want[r]
     THEN /\ made' = [made EXCEPT ![r] = @ + 1]
          /\ \/ /\ SendFails(r)
                /\ worker' = [worker EXCEPT ![r] = "stop"]
                /\ UNCHANGED chan
             \/ /\ ~SendFails(r) /\ HasRoom(r)
                /\ chan' = [chan EXCEPT ![r] = Append(@, Token(made[r] + 1, LastToken(r)))]
                /\ UNCHANGED worker
     ELSE worker' = [worker EXCEPT ![r] = "stop"] /\ UNCHANGED <<made, chan>>
  /\ UNCHANGED <<server, connection, handler, seen, memory, restarts>>

\* After the loop, however it ended: "[DONE]".
SendDone(r) ==
  /\ worker[r] = "stop"
  /\ \/ SendFails(r) /\ UNCHANGED chan
     \/ ~SendFails(r) /\ HasRoom(r) /\ chan' = [chan EXCEPT ![r] = Append(@, DoneMark)]
  /\ worker' = [worker EXCEPT ![r] = "done"]
  /\ UNCHANGED <<server, connection, handler, made, seen, memory, restarts>>

\* sample_token panics on a logit that is NaN, or on top_k = 0.  The mutex is
\* not held; the handler's unwrap and the dropped sender end the request.
WorkerPanics(r) ==
  /\ worker[r] = "run" /\ made[r] < want[r]
  /\ worker' = [worker EXCEPT ![r] = "panicked"]
  /\ handler' = [handler EXCEPT ![r] = "none"]
  /\ conn' = [conn EXCEPT ![r] = IF @ = "open" /\ kind[r] = "whole" THEN "failed" ELSE @]
  /\ UNCHANGED <<server, kind, want, made, chan, seen, memory, restarts>>

-----------------------------------------------------------------------------
(* The rest of the non-streaming handler: no await, so it is never cancelled *)

ResumeHandler(r) ==
  /\ handler[r] = "await" /\ worker[r] = "done"
  /\ handler' = [handler EXCEPT ![r] = IF UseMemory THEN "count" ELSE "reply"]
  /\ UNCHANGED <<server, connection, worker, made, chan, seen, memory, restarts>>

\* Faulty variant: the states are merged (which counts) and the counter raised.
CountMergeAndCall(n) == n + 2

CountConversation(n) == n + 1

Count(r) ==
  /\ handler[r] = "count" /\ lock = Free
  /\ lock' = r
  /\ convos' = CountConversation(convos)
  /\ handler' = [handler EXCEPT ![r] = "save"]
  /\ UNCHANGED <<server, connection, worker, made, chan, seen, file, restarts, fails>>

\* Faulty variant: the file gets the counter as it was before this answer.
SaveBeforeCount == convos - 1

SavedConvos == convos

MemoryFile(n) == [parses |-> TRUE, n |-> n]
TornFile      == [parses |-> FALSE, n |-> 0]

\* wave_memory::save: an error is logged and the answer is sent all the same.
Save(r) ==
  /\ handler[r] = "save"
  /\ \/ file' = MemoryFile(SavedConvos) /\ UNCHANGED fails
     \/ fails < MaxFails /\ fails' = fails + 1 /\ UNCHANGED file
  /\ lock' = Free
  /\ handler' = [handler EXCEPT ![r] = "reply"]
  /\ UNCHANGED <<server, connection, worker, made, chan, seen, convos, restarts>>

Reply(r) ==
  /\ handler[r] = "reply"
  /\ handler' = [handler EXCEPT ![r] = "none"]
  /\ conn' = [conn EXCEPT ![r] = IF @ = "open" THEN "answered" ELSE @]
  /\ UNCHANGED <<server, kind, want, worker, made, chan, seen, memory, restarts>>

-----------------------------------------------------------------------------
(* Clients *)

Receive(r) ==
  /\ conn[r] = "open" /\ chan[r] # <<>>
  /\ seen' = [seen EXCEPT ![r] = Append(@, Head(chan[r]))]
  /\ chan' = [chan EXCEPT ![r] = Tail(@)]
  /\ UNCHANGED <<server, connection, handler, worker, made, memory, restarts>>

\* Faulty variant: what the channel still holds is dropped with the sender.
SenderGone(r) == worker[r] \in {"done", "panicked"}

\* The sender is gone and the channel is drained.
StreamOver(r) == worker[r] \in {"done", "panicked"} /\ chan[r] = <<>>

\* The body of the response ends.
EndStream(r) ==
  /\ conn[r] = "open" /\ kind[r] = "stream"
  /\ StreamOver(r)
  /\ conn' = [conn EXCEPT ![r] = IF worker[r] = "done" THEN "answered" ELSE "failed"]
  /\ UNCHANGED <<server, kind, want, handler, worker, made, chan, seen, memory, restarts>>

\* The client leaves: a handler waiting at its await is dropped, a stream's
\* receiver too.  A blocking task is not.
Disconnect(r) ==
  /\ conn[r] = "open"
  /\ conn' = [conn EXCEPT ![r] = "gone"]
  /\ handler' = [handler EXCEPT ![r] = IF @ \in {"start", "await"} THEN "none" ELSE @]
  /\ chan' = [chan EXCEPT ![r] = <<>>]
  /\ UNCHANGED <<server, kind, want, worker, made, seen, memory, restarts>>

-----------------------------------------------------------------------------
(* The server process *)

Shutdown ==
  /\ server = "up"
  /\ server' = "draining"
  /\ UNCHANGED <<connection, handler, worker, made, chan, seen, memory, restarts>>

\* Connections are served to their end, then the runtime waits for the tasks
\* that have a thread and drops those that have none.
Exit ==
  /\ server = "draining"
  /\ \A r \in Requests : conn[r] # "open" /\ handler[r] = "none" /\ worker[r] \notin {"run", "stop"}
  /\ server' = "down"
  /\ worker' = [r \in Requests |-> IF worker[r] = "queued" THEN "lost" ELSE worker[r]]
  /\ UNCHANGED <<connection, handler, made, chan, seen, memory, restarts>>

\* A kill while the file is written leaves the old contents, the new ones, or neither.
Kill ==
  /\ server # "down"
  /\ server' = "down"
  /\ conn' = [r \in Requests |-> IF conn[r] = "open" THEN "failed" ELSE conn[r]]
  /\ handler' = [r \in Requests |-> "none"]
  /\ worker' = [r \in Requests |->
                  IF worker[r] \in {"queued", "run", "stop"} THEN "lost" ELSE worker[r]]
  /\ chan' = [r \in Requests |-> <<>>]
  /\ lock' = Free
  /\ IF \E r \in Requests : handler[r] = "save"
     THEN file' \in {file, MemoryFile(SavedConvos), TornFile}
     ELSE UNCHANGED file
  /\ UNCHANGED <<kind, want, made, seen, convos, restarts, fails>>

\* load_or_create; a file that does not parse is fatal and the server stays down.
Restart ==
  /\ server = "down" /\ restarts < MaxRestarts
  /\ file.parses
  /\ server' = "up"
  /\ convos' = file.n
  /\ restarts' = restarts + 1
  /\ UNCHANGED <<connection, handler, worker, made, chan, seen, lock, file, fails>>

-----------------------------------------------------------------------------

Init ==
  /\ server = "up"
  /\ conn = [r \in Requests |-> "idle"]
  /\ kind \in [Requests -> Kinds] /\ want \in [Requests -> 0 .. MaxTokens]
  /\ handler = [r \in Requests |-> "none"] /\ worker = [r \in Requests |-> "none"]
  /\ made = [r \in Requests |-> 0]
  /\ chan = [r \in Requests |-> <<>>] /\ seen = [r \in Requests |-> <<>>]
  /\ lock = Free /\ convos = 0 /\ file = MemoryFile(0)
  /\ restarts = 0 /\ fails = 0

Handle(r)   == StartHandler(r) \/ ResumeHandler(r) \/ Count(r) \/ Save(r) \/ Reply(r)
Generate(r) == TakeThread(r) \/ GenerateWhole(r) \/ GenerateStream(r) \/ SendDone(r)
Read(r)     == Receive(r) \/ EndStream(r)

Next ==
  \/ \E r \in Requests :
       \/ RefuseRequest(r) \/ Arrive(r)
       \/ Handle(r) \/ Generate(r) \/ WorkerPanics(r)
       \/ Read(r) \/ Disconnect(r)
  \/ Shutdown \/ Exit \/ Kill \/ Restart

Spec == Init /\ [][Next]_vars

\* The runtime schedules its tasks and threads.
RuntimeFairness == WF_vars(Exit) /\ \A r \in Requests : WF_vars(Handle(r)) /\ WF_vars(Generate(r))

\* Clients of a stream may stop reading without leaving.
StalledSpec == Spec /\ RuntimeFairness

\* Clients read what is sent to them, or leave.
FairSpec == StalledSpec /\ \A r \in Requests : WF_vars(Read(r))

-----------------------------------------------------------------------------
(* Properties *)

\* Types of the server's state; the channel never holds more than its capacity
\* (handlers.rs:154).
TypeOK ==
  /\ server \in {"up", "draining", "down"}
  /\ conn \in [Requests -> Conns]
  /\ kind \in [Requests -> Kinds]
  /\ want \in [Requests -> 0 .. MaxTokens]
  /\ handler \in [Requests -> Handlers]
  /\ worker \in [Requests -> Workers]
  /\ made \in [Requests -> 0 .. MaxTokens]
  /\ chan \in [Requests -> Seq(Events)] /\ seen \in [Requests -> Seq(Events)]
  /\ \A r \in Requests : Len(chan[r]) <= Cap
  /\ lock \in Requests \cup {Free}
  /\ convos \in Nat /\ file \in [parses : BOOLEAN, n : Nat]
  /\ restarts \in 0 .. MaxRestarts /\ fails \in 0 .. MaxFails

\* The events of a stream that is served to its end.
Script(r) ==
  <<Role>> \o [i \in 1 .. want[r] |-> Token(i, i = want[r])] \o <<DoneMark>>

\* However generation, reading, panics and disconnects interleave, a client
\* reads a prefix of one script: the role, every token once and in order, the
\* finish reason on the last one and nowhere else, then [DONE] and no more
\* (handlers.rs:156-201, inference.rs:86-105).  A stream that ended well was
\* read to the end.
StreamScripted ==
  \A r \in Requests :
    /\ \E n \in 0 .. Len(Script(r)) : seen[r] \o chan[r] = SubSeq(Script(r), 1, n)
    /\ kind[r] = "stream" /\ conn[r] = "answered" => seen[r] = Script(r)

AnsweredWhole == {r \in Requests : kind[r] = "whole" /\ conn[r] = "answered"}
FinishedWhole == {r \in Requests : kind[r] = "whole" /\ worker[r] = "done"}

\* A client that holds its answer finds it counted in the memory file, through
\* kills and restarts; every failed save can cost one conversation and not
\* more (handlers.rs:128-138).
AnsweredIsRemembered ==
  UseMemory /\ file.parses => Cardinality(AnsweredWhole) <= file.n + fails

\* No conversation is counted that was not generated, and none twice, whoever
\* disconnects and whenever the server restarts (handlers.rs:129-136).
NoPhantomConversation ==
  /\ convos <= Cardinality(FinishedWhole)
  /\ file.parses => file.n <= Cardinality(FinishedWhole)

\* A client that leaves gives its thread back (handlers.rs:199, inference.rs:99-101).
DisconnectFreesThread ==
  \A r \in Requests : conn[r] = "gone" /\ r \in Busy ~> r \notin Busy

\* Every request comes to an end.
EveryRequestEnds ==
  \A r \in Requests : conn[r] = "open" ~> conn[r] # "open"

\* Ctrl+C ends the server once the clients are served (server.rs:107-112).
ShutdownEnds == server = "draining" ~> server = "down"

\* A reader that stalls without leaving does not hold up the others while there
\* is a thread left for them (handlers.rs:98, 182).
WholeRequestEnds ==
  \A r \in Requests : kind[r] = "whole" /\ conn[r] = "open" ~> conn[r] # "open"

\* The server implements the promise of Completion.
TokensSeen(r) ==
  IF kind[r] = "stream" THEN Cardinality({i \in DOMAIN seen[r] : seen[r][i].type = "content"})
  ELSE IF conn[r] = "answered" THEN made[r] ELSE 0

PhaseSeen(r) == IF conn[r] \in {"gone", "failed"} THEN "lost" ELSE conn[r]

Promise == INSTANCE Completion WITH
  phase <- [r \in Requests |-> PhaseSeen(r)],
  asked <- want,
  got   <- [r \in Requests |-> TokensSeen(r)]

\* Every behaviour of the server is one the client was promised.
KeepsPromise == Promise!CSpec
=============================================================================
