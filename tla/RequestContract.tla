---------------------------- MODULE RequestContract ----------------------------
(***************************************************************************)
(* What the client side of easy_http promises about the handlers of its    *)
(* requests, without saying how: no event base, no connection, no Send.    *)
(*                                                                         *)
(* Handlers run one at a time, and only for requests that were sent and    *)
(* are not over.  The handler of the whole response runs at most once; a   *)
(* request is answered exactly when that handler has returned, and no      *)
(* handler is called for a request that was answered, cancelled or given   *)
(* up.  A handler that throws, or a request that fails, ends the service   *)
(* for all requests of the client.                                         *)
(***************************************************************************)
CONSTANTS Requests, NoRequest

VARIABLES
    phase,      \* how far each request is
    handling,   \* the request whose handler runs
    service     \* "open" as long as handlers may be called, then "ended"

vars == <<phase, handling, service>>

Init ==
    /\ phase = [r \in Requests |-> "idle"]
    /\ handling = NoRequest
    /\ service = "open"

Make(r) ==
    /\ phase[r] = "idle"
    /\ phase' = [phase EXCEPT ![r] = "made"]
    /\ UNCHANGED <<handling, service>>

Submit(r) ==
    /\ phase[r] = "made"
    /\ phase' = [phase EXCEPT ![r] = "waiting"]
    /\ UNCHANGED <<handling, service>>

\* The handler is called with a part of the response, or with the whole of it.
Call(r, whole) ==
    /\ service = "open"
    /\ handling = NoRequest
    /\ phase[r] = "waiting"
    /\ handling' = r
    /\ phase' = IF whole THEN [phase EXCEPT ![r] = "answering"] ELSE phase
    /\ UNCHANGED service

\* It returns ...
Return(r) ==
    /\ service = "open"
    /\ handling = r
    /\ handling' = NoRequest
    /\ phase' = [phase EXCEPT ![r] = IF @ = "answering" THEN "answered" ELSE @]
    /\ UNCHANGED service

\* ... or throws: the request may be submitted again, but it is too late for it.
Throw(r) ==
    /\ handling = r
    /\ handling' = NoRequest
    /\ phase' = [phase EXCEPT ![r] = IF @ = "answering" THEN "made" ELSE @]
    /\ service' = "ended"

\* The request fails while it waits.
Fail(r) ==
    /\ service = "open"
    /\ handling = NoRequest
    /\ phase[r] = "waiting"
    /\ phase' = [phase EXCEPT ![r] = "over"]
    /\ service' = "ended"
    /\ UNCHANGED handling

\* The request could not be sent, or is no longer wanted.
GiveUp(r) ==
    /\ phase[r] \in {"made", "waiting"}
    /\ phase' = [phase EXCEPT ![r] = "over"]
    /\ UNCHANGED <<handling, service>>

\* The client is destroyed.
Close ==
    /\ service' = "ended"
    /\ UNCHANGED <<phase, handling>>

Next ==
    \/ \E r \in Requests :
        \/ Make(r) \/ Submit(r) \/ Return(r) \/ Throw(r) \/ Fail(r) \/ GiveUp(r)
        \/ \E whole \in BOOLEAN : Call(r, whole)
    \/ Close

Spec == Init /\ [][Next]_vars
=============================================================================
