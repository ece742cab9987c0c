---------------------------- MODULE ServerLifecycle ----------------------------
(***************************************************************************)
(* Starting and stopping one Server object (src/server.cpp).               *)
(*                                                                         *)
(* Every Start allocates an event base and an evhttp of its own and puts   *)
(* them into e_base_ and e_http_server_, whatever these held before.  Stop *)
(* frees what the two pointers hold, if is_started_ says so.  Start blocks *)
(* in event_base_dispatch until SIGINT or an exception ends it; it may     *)
(* fail at several points, and it may be called again.                     *)
(***************************************************************************)
EXTENDS Naturals

CONSTANTS
    MaxStarts,      \* bound: how often Start is called
    StopsRunning    \* Stop may be called while Start is dispatching

ASSUME LifecycleAssumption == MaxStarts \in Nat /\ StopsRunning \in BOOLEAN

\* What the n-th call of Start allocates is called n; 0 is the null pointer.
Starts == 1..MaxStarts

VARIABLES
    starts,         \* how often Start was called
    dispatching,    \* the last of these is inside event_base_dispatch
    is_started_,
    e_base_, e_http_server_,
    base, http,     \* what Starts have allocated, and what is not freed of it
    listening,      \* the evhttps that hold the port
    outcome,        \* how each Start ended
    alive,          \* the Server is not destroyed
    fault           \* undefined behaviour, or a failed assertion of libevent

vars == <<starts, dispatching, is_started_, e_base_, e_http_server_, base, http,
          listening, outcome, alive, fault>>

TypeOK ==
    /\ starts \in 0..MaxStarts
    /\ dispatching \in BOOLEAN /\ is_started_ \in BOOLEAN /\ alive \in BOOLEAN
    /\ e_base_ \in 0..starts /\ e_http_server_ \in 0..starts
    /\ base \subseteq 1..starts /\ http \subseteq 1..starts /\ listening \subseteq http
    /\ outcome \in [Starts -> {"none", "failed", "returned", "threw"}]
    /\ fault \in {"none", "freedTwice", "freedInUse"}
    /\ dispatching => is_started_ /\ starts # 0

Init ==
    /\ starts = 0
    /\ dispatching = FALSE
    /\ is_started_ = FALSE
    /\ e_base_ = 0
    /\ e_http_server_ = 0
    /\ base = {}
    /\ http = {}
    /\ listening = {}
    /\ outcome = [n \in Starts |-> "none"]
    /\ alive = TRUE
    /\ fault = "none"

\* Definitions whose name ends in _M are wrong on purpose: each is the definition
\* that follows it with one plausible bug, and breaks one property.

-----------------------------------------------------------------------------
(* Server::Start, up to event_base_dispatch.                               *)

CanStart == alive /\ ~dispatching /\ fault = "none" /\ starts < MaxStarts

Fails ==
    /\ starts' = starts + 1
    /\ outcome' = [outcome EXCEPT ![starts'] = "failed"]
    /\ UNCHANGED <<dispatching, is_started_, alive, fault>>

\* signal() fails: nothing was allocated.
StartFailsEarly ==
    /\ CanStart
    /\ Fails
    /\ UNCHANGED <<e_base_, e_http_server_, base, http, listening>>

\* event_base_new_with_config returns null, into e_base_.
BaseFails ==
    /\ CanStart
    /\ Fails
    /\ e_base_' = 0
    /\ UNCHANGED <<e_http_server_, base, http, listening>>

\* evhttp_new returns null, into e_http_server_.
HttpFails ==
    /\ CanStart
    /\ Fails
    /\ e_base_' = starts'
    /\ base' = base \cup {starts'}
    /\ e_http_server_' = 0
    /\ UNCHANGED <<http, listening>>

Allocate ==
    /\ e_base_' = starts'
    /\ e_http_server_' = starts'
    /\ base' = base \cup {starts'}
    /\ http' = http \cup {starts'}

\* The port cannot be bound, for one because an evhttp of this server still holds it.
BindFails ==
    /\ CanStart
    /\ Fails
    /\ Allocate
    /\ UNCHANGED listening

\* The socket listens, but display_listen_sock, evsignal_new or event_add fails.
ListenedInVain ==
    /\ CanStart
    /\ listening = {}
    /\ Fails
    /\ Allocate
    /\ listening' = {starts'}

\* is_started_ is set once dispatch has returned.
StartRuns_M ==
    /\ CanStart
    /\ listening = {}
    /\ starts' = starts + 1
    /\ Allocate
    /\ listening' = {starts'}
    /\ dispatching' = TRUE
    /\ UNCHANGED <<is_started_, outcome, alive, fault>>

StartRuns ==
    /\ CanStart
    /\ listening = {}
    /\ starts' = starts + 1
    /\ Allocate
    /\ listening' = {starts'}
    /\ is_started_' = TRUE
    /\ dispatching' = TRUE
    /\ UNCHANGED <<outcome, alive, fault>>

\* The loop is left by SIGINT (do_term), and Start returns 0; or by an exception.
DispatchEnds(how) ==
    /\ dispatching
    /\ dispatching' = FALSE
    /\ outcome' = [outcome EXCEPT ![starts] = how]
    /\ UNCHANGED <<starts, is_started_, e_base_, e_http_server_, base, http, listening,
                   alive, fault>>

-----------------------------------------------------------------------------
(* Server::Stop.                                                           *)

\* The evhttp is left to the event base.
Release_M ==
    /\ base' = base \ {e_base_}
    /\ UNCHANGED <<http, listening>>

\* evhttp_free, then event_base_free.  The pointers keep their values.
Release ==
    /\ http' = http \ {e_http_server_}
    /\ listening' = listening \ {e_http_server_}
    /\ base' = base \ {e_base_}

\* is_started_ stays set.
Stopped_M == UNCHANGED is_started_

Stopped == is_started_' = FALSE

Freed(pointer, allocated) == pointer # 0 /\ pointer \notin allocated

\* Stop frees the base that Start is dispatching, and the connection of the handler
\* that may have called it.
StopRunning ==
    /\ StopsRunning
    /\ alive /\ dispatching /\ fault = "none"
    /\ fault' = "freedInUse"
    /\ Release
    /\ Stopped
    /\ dispatching' = FALSE
    /\ UNCHANGED <<starts, e_base_, e_http_server_, outcome, alive>>

\* The body of Stop, when no Start is running.
StopBody ==
    /\ fault = "none"
    /\ ~dispatching
    /\ IF is_started_
       THEN /\ Release
            /\ Stopped
            /\ fault' = IF Freed(e_http_server_, http) \/ Freed(e_base_, base)
                        THEN "freedTwice" ELSE fault
       ELSE UNCHANGED <<base, http, listening, is_started_, fault>>
    /\ UNCHANGED <<starts, dispatching, e_base_, e_http_server_, outcome>>

Stop    == alive /\ StopBody /\ UNCHANGED alive
Destroy == alive /\ alive' = FALSE /\ StopBody      \* Server::~Server

Next ==
    \/ StartFailsEarly \/ BaseFails \/ HttpFails \/ BindFails \/ ListenedInVain \/ StartRuns
    \/ \E how \in {"returned", "threw"} : DispatchEnds(how)
    \/ StopRunning \/ Stop \/ Destroy

Spec == Init /\ [][Next]_vars

-----------------------------------------------------------------------------
(* Properties.                                                             *)

\* However Starts succeed, fail half-way, end and are repeated, Stop and ~Server never
\* free twice: while is_started_ is set the two pointers are null or hold something
\* that is still allocated.  And no evhttp outlives the event base it runs on.
FreesOnce ==
    /\ fault # "freedTwice"
    /\ http \subseteq base
    /\ is_started_ => (e_base_ \in base \cup {0} /\ e_http_server_ \in http \cup {0})

\* An application whose Starts all succeed and that calls Stop after each of them
\* leaks nothing: what is left when the server is stopped was allocated by a Start
\* that failed, or by the last one before it.
StopLeavesNothing ==
    ~is_started_ => \A n \in base \cup http :
        outcome[n] = "failed" \/ (n < starts /\ outcome[n + 1] = "failed")

\* server.h says of Stop: "stop http server".  After it, no Start that had returned is
\* still holding the port.
StopReleasesPort ==
    ~is_started_ => \A n \in listening : outcome[n] # "returned"

\* server.h offers Start and Stop without any condition on when to call Stop.
StopIsSafe == fault # "freedInUse"
=============================================================================
