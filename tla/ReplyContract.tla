----------------------------- MODULE ReplyContract -----------------------------
(***************************************************************************)
(* What the server side of easy_http promises about each reply, without    *)
(* saying how: no event loop, no timer, no evhttp_request, no container.   *)
(*                                                                         *)
(* A reply is answered in one piece or streamed.  A streamed reply is the  *)
(* application's chunks, each once, in order, and it is closed only when   *)
(* the last of them was written; only a closed reply may be confirmed to   *)
(* the application; and nothing is written for a reply that is over.       *)
(***************************************************************************)
EXTENDS Naturals, SequencesExt

CONSTANTS Requests, MaxChunks

VARIABLES
    phase,   \* how far the reply is
    plan,    \* the chunks the application will produce
    out      \* the chunks written, by their position in the plan

vars == <<phase, plan, out>>

Init ==
    /\ phase = [r \in Requests |-> "idle"]
    /\ plan = [r \in Requests |-> << >>]
    /\ out = [r \in Requests |-> << >>]

Unsent(r) == {p \in DOMAIN plan[r] : plan[r][p] = "data"} \ Range(out[r])

\* The request is answered in one piece.
Answer(r) ==
    /\ phase[r] = "idle"
    /\ phase' = [phase EXCEPT ![r] = "closed"]
    /\ UNCHANGED <<plan, out>>

\* The application starts a stream.
Open(r, src) ==
    /\ phase[r] = "idle"
    /\ phase' = [phase EXCEPT ![r] = "open"]
    /\ plan' = [plan EXCEPT ![r] = src]
    /\ UNCHANGED out

\* The first chunk that was not written yet is written.
Write(r) ==
    /\ phase[r] = "open"
    /\ \E p \in Unsent(r) :
          /\ \A q \in Unsent(r) : p <= q
          /\ out' = [out EXCEPT ![r] = Append(@, p)]
    /\ UNCHANGED <<phase, plan>>

\* The stream ends, with nothing left to write.
Close(r) ==
    /\ phase[r] = "open"
    /\ Unsent(r) = {}
    /\ phase' = [phase EXCEPT ![r] = "closed"]
    /\ UNCHANGED <<plan, out>>

\* The application can see that the reply was delivered.
Confirm(r) ==
    /\ phase[r] = "closed"
    /\ phase' = [phase EXCEPT ![r] = "confirmed"]
    /\ UNCHANGED <<plan, out>>

\* Some replies are over, unconfirmed: the client left, the server stopped, or the
\* application no longer wants to know.
GiveUp(R) ==
    /\ \A r \in R : phase[r] # "confirmed"
    /\ phase' = [r \in Requests |-> IF r \in R THEN "over" ELSE phase[r]]
    /\ UNCHANGED <<plan, out>>

Next ==
    \/ \E r \in Requests :
          \/ Answer(r) \/ Write(r) \/ Close(r) \/ Confirm(r)
          \/ \E src \in BoundedSeq({"data", "empty"}, MaxChunks) : Open(r, src)
    \/ \E R \in SUBSET Requests : GiveUp(R)

Spec == Init /\ [][Next]_vars
=============================================================================
