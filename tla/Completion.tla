----------------------------- MODULE Completion -----------------------------
(***************************************************************************)
(* What POST /v1/chat/completions promises a client, whatever the server   *)
(* does inside (serve_tier/handlers.rs): a request is refused, answered    *)
(* with exactly the number of tokens it asked for, or lost; tokens arrive  *)
(* one at a time or all at once, and none arrives after the end.           *)
(***************************************************************************)
EXTENDS Naturals

CONSTANTS
  Requests,   \* the requests clients may send
  MaxTokens   \* bound on max_tokens

VARIABLES
  phase,      \* per request: "idle", "open", "refused", "answered" or "lost"
  asked,      \* per request: max_tokens
  got         \* per request: tokens the client has received

cvars == <<phase, asked, got>>

CInit ==
  /\ phase = [r \in Requests |-> "idle"]
  /\ asked \in [Requests -> 0 .. MaxTokens]
  /\ got = [r \in Requests |-> 0]

Ask(r) ==
  /\ phase[r] = "idle"
  /\ phase' = [phase EXCEPT ![r] = "open"]
  /\ UNCHANGED <<asked, got>>

Refuse(r) ==
  /\ phase[r] = "idle"
  /\ phase' = [phase EXCEPT ![r] = "refused"]
  /\ UNCHANGED <<asked, got>>

Token(r) ==
  /\ phase[r] = "open" /\ got[r] < asked[r]
  /\ got' = [got EXCEPT ![r] = @ + 1]
  /\ UNCHANGED <<phase, asked>>

\* The end of a stream, or a whole answer.
Answer(r) ==
  /\ phase[r] = "open" /\ got[r] \in {0, asked[r]}
  /\ phase' = [phase EXCEPT ![r] = "answered"]
  /\ got' = [got EXCEPT ![r] = asked[r]]
  /\ UNCHANGED asked

\* Clients leave, generation fails, the server is killed.
Lose(S) ==
  /\ S # {} /\ \A r \in S : phase[r] = "open"
  /\ phase' = [r \in Requests |-> IF r \in S THEN "lost" ELSE phase[r]]
  /\ UNCHANGED <<asked, got>>

CNext ==
  \/ \E r \in Requests : Ask(r) \/ Refuse(r) \/ Token(r) \/ Answer(r)
  \/ \E S \in SUBSET Requests : Lose(S)

CSpec == CInit /\ [][CNext]_cvars
=============================================================================
