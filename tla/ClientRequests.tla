----------------------------- MODULE ClientRequests -----------------------------
(***************************************************************************)
(* The requests of one Client (src/client.cpp, src/request.cpp and the     *)
(* client half of src/request_base.cpp).                                   *)
(*                                                                         *)
(* All requests share the client's event base.  There is no thread behind  *)
(* it: the base only runs while some Send or Wait is inside                *)
(* event_base_dispatch, and then it serves every request that was sent.    *)
(* Each request has a connection of its own, which libevent frees (it is   *)
(* created with evhttp_connection_free_on_completion) and Send frees too.  *)
(*                                                                         *)
(* A handler is application code that runs inside the dispatch, so it may  *)
(* call back into the client; what it calls are steps between the start    *)
(* and the end of the handler.                                             *)
(***************************************************************************)
EXTENDS Naturals, FiniteSets

CONSTANTS
    Requests,       \* the Request objects the application may create
    Chunked,        \* those created with is_chunked
    NoRequest,      \* no request
    Careful,        \* the application takes the care described under "Care"
    ServerCloses    \* servers may answer "Connection: close"

ASSUME RequestAssumption ==
    /\ NoRequest \notin Requests
    /\ Chunked \subseteq Requests
    /\ Careful \in BOOLEAN
    /\ ServerCloses \in BOOLEAN

VARIABLES
    object,     \* the application's Request, which owns the CallBackContainer
    evreq,      \* its evhttp_request
    conn,       \* its evhttp_connection
    complete,   \* IsComplete: CallBackContainer::is_complete
    outcome,    \* how its Send ended
    loop,       \* the event base
    sender,     \* the request whose Send is inside event_base_dispatch
    handler,    \* the request whose ResponseHandler is running
    batch,      \* the connections whose event is active, not yet processed
    exits,      \* the requests that called event_base_loopexit in this dispatch
    fault       \* undefined behaviour the application has run into

request == <<object, evreq, conn, complete, outcome>>
vars == <<request, loop, sender, handler, batch, exits, fault>>

-----------------------------------------------------------------------------
ObjectStates == {"none", "held", "dropped"}
EvreqStates  == {"none", "new",
                 "queued",    \* on its connection, waiting for the response
                 "done",      \* off its connection, its response being handled
                 "freed",
                 "failed",    \* evhttp_make_request gave up; it points at its connection
                 "lost"}      \* its handler threw; allocated, off its connection
ConnStates   == {"none", "fresh", "open",
                 "idle",      \* kept alive, watched for the peer closing it
                 "reset",     \* disconnected, still allocated
                 "closing",   \* libevent frees it when the callback returns
                 "freed"}
LoopStates   == {"idle", "running",
                 "stuck",     \* left by an exception, still marked as running
                 "destroyed"}

TypeOK ==
    /\ object \in [Requests -> ObjectStates]
    /\ evreq \in [Requests -> EvreqStates]
    /\ conn \in [Requests -> ConnStates]
    /\ complete \in [Requests -> BOOLEAN]
    /\ outcome \in [Requests -> {"none", "returned", "threw"}]
    /\ loop \in LoopStates
    /\ sender \in Requests \cup {NoRequest}
    /\ handler \in Requests \cup {NoRequest}
    /\ batch \subseteq Requests
    /\ exits \subseteq Requests
    /\ fault \in {"none", "double free", "use after free", "queued twice"}

Init ==
    /\ object = [r \in Requests |-> "none"]
    /\ evreq = [r \in Requests |-> "none"]
    /\ conn = [r \in Requests |-> "none"]
    /\ complete = [r \in Requests |-> FALSE]
    /\ outcome = [r \in Requests |-> "none"]
    /\ loop = "idle"
    /\ sender = NoRequest
    /\ handler = NoRequest
    /\ batch = {}
    /\ exits = {}
    /\ fault = "none"

\* Definitions whose name ends in _M are wrong on purpose: each is the definition
\* that follows it with one plausible bug, and breaks one property.

-----------------------------------------------------------------------------
(* The application's calls.  It has the processor outside the loop and in  *)
(* a handler.                                                              *)

AppRuns == fault = "none" /\ (loop # "running" \/ handler # NoRequest)

\* Client::CreateRequest, behind Get, Post, Put, Patch and Delete.
CreateRequest(r) ==
    /\ AppRuns /\ loop # "destroyed"
    /\ object[r] = "none"
    /\ object' = [object EXCEPT ![r] = "held"]
    /\ evreq' = [evreq EXCEPT ![r] = "new"]
    /\ conn' = [conn EXCEPT ![r] = "fresh"]
    /\ UNCHANGED <<complete, outcome, loop, sender, handler, batch, exits, fault>>

\* evhttp_make_request wants a request without a connection: one that was never sent,
\* or one whose handler threw.
CanSend(r) ==
    /\ AppRuns /\ loop # "destroyed"
    /\ object[r] = "held"
    /\ evreq[r] \in {"new", "lost"}

\* evhttp_make_request puts the request on its connection.
Queue(r) ==
    /\ CanSend(r)
    /\ evreq' = [evreq EXCEPT ![r] = "queued"]
    /\ conn' = [conn EXCEPT ![r] = "open"]

SendAsync(r) ==
    /\ Queue(r)
    /\ UNCHANGED <<object, complete, outcome, loop, sender, handler, batch, exits, fault>>

\* evhttp_make_request returns -1, in SendAsync or in Send: "Request failed!".
SendFails(r) ==
    /\ CanSend(r)
    /\ evreq' = [evreq EXCEPT ![r] = "failed"]
    /\ conn' = [conn EXCEPT ![r] = "reset"]
    /\ outcome' = [outcome EXCEPT ![r] = "threw"]
    /\ UNCHANGED <<object, complete, loop, sender, handler, batch, exits, fault>>

\* A base that an exception has left is used again.
Accepts_M == loop \in {"idle", "stuck"}

\* event_base_dispatch refuses to run in a handler, and after an exception left it.
Accepts == loop = "idle"

\* Send, up to the point where the loop runs.
SendBlocks(r) ==
    /\ Queue(r)
    /\ Accepts
    /\ loop' = "running"
    /\ sender' = r
    /\ UNCHANGED <<object, complete, outcome, handler, batch, exits, fault>>

\* Send when it refuses: Send ignores that and frees the connection with the request.
SendRefused(r) ==
    /\ CanSend(r)
    /\ ~Accepts
    /\ evreq' = [evreq EXCEPT ![r] = "freed"]
    /\ conn' = [conn EXCEPT ![r] = "freed"]
    /\ outcome' = [outcome EXCEPT ![r] = "returned"]
    /\ UNCHANGED <<object, complete, loop, sender, handler, batch, exits, fault>>

\* Wait, for a request with a connection.  For any other that is still allocated it
\* returns at once, and so it does when the base refuses: steps that change nothing.
Wait(r) ==
    /\ AppRuns
    /\ object[r] = "held"
    /\ evreq[r] \in {"queued", "failed"}
    /\ Accepts
    /\ loop' = "running"
    /\ UNCHANGED <<request, sender, handler, batch, exits, fault>>

\* Cancel, of a request that is on no connection (its own is left behind) ...
CancelNew(r) ==
    /\ AppRuns
    /\ object[r] = "held"
    /\ evreq[r] \in {"new", "failed", "lost"}
    /\ evreq' = [evreq EXCEPT ![r] = "freed"]
    /\ UNCHANGED <<object, conn, complete, outcome, loop, sender, handler, batch, exits, fault>>

\* ... and of one in flight: libevent frees the request and the connection, and
\* ResponseErrorHandle then throws "RequestBase cancel" to the caller of Cancel.
CancelQueued(r) ==
    /\ AppRuns /\ loop # "destroyed"
    /\ object[r] = "held"
    /\ evreq[r] = "queued"
    /\ Careful => r # sender /\ r # handler
    /\ evreq' = [evreq EXCEPT ![r] = "freed"]
    /\ conn' = [conn EXCEPT ![r] = "freed"]
    /\ batch' = batch \ {r}
    /\ UNCHANGED <<object, complete, outcome, loop, sender, handler, exits, fault>>

Destructor_M(r) == evreq' = [evreq EXCEPT ![r] = "freed"]    \* frees the evhttp_request

\* ~RequestBase does not.
Destructor(r) == UNCHANGED evreq

\* The application destroys its last copy of the Request.
Drop(r) ==
    /\ AppRuns
    /\ object[r] = "held"
    /\ Careful => evreq[r] \notin {"queued", "done"} \/ loop = "destroyed"
    /\ object' = [object EXCEPT ![r] = "dropped"]
    /\ Destructor(r)
    /\ UNCHANGED <<conn, complete, outcome, loop, sender, handler, batch, exits, fault>>

\* ~Client frees the event base, under the connections that still use it, and in a
\* handler under the dispatch that called it.
DestroyClient ==
    /\ AppRuns /\ loop # "destroyed"
    /\ Careful => loop # "running"
    /\ loop' = "destroyed"
    /\ batch' = {} /\ exits' = {}
    /\ UNCHANGED <<request, sender, handler, fault>>

-----------------------------------------------------------------------------
(* Care.  The library leaves it to the application to                      *)
(*   - call nothing of a Request whose evhttp_request libevent has freed,  *)
(*     and in the handler of its response neither Cancel nor Send, as it   *)
(*     is freed when the handler returns (UseFreed);                       *)
(*   - send a Request once, and not again after "Request failed!"          *)
(*     (SendAgain; where the handler threw it may, for what that is worth);*)
(*   - destroy the Client outside of handlers only (DestroyClient), and    *)
(*     then neither use it nor send, cancel or wait for one of its         *)
(*     Requests (UseAfterClient);                                          *)
(*   - keep a Request while it is in flight (Drop), and not cancel the one *)
(*     it is sending or handling (CancelQueued).                           *)
(* No operation asks.  The model goes as far as the first fault.           *)

\* A Request keeps the address of its evhttp_request for good: Cancel, Wait, Send,
\* FullUrl or SetContent after it was freed, and Cancel or Send in its handler.
UseFreed(r) ==
    /\ ~Careful
    /\ AppRuns
    /\ object[r] = "held"
    /\ evreq[r] \in {"done", "freed"}
    /\ fault' = "use after free"
    /\ UNCHANGED <<request, loop, sender, handler, batch, exits>>

\* evhttp_make_request asserts that the request has no connection, and without
\* assertions links it into the queue a second time.
SendAgain(r) ==
    /\ ~Careful
    /\ AppRuns
    /\ object[r] = "held"
    /\ evreq[r] \in {"queued", "failed"}
    /\ fault' = "queued twice"
    /\ UNCHANGED <<request, loop, sender, handler, batch, exits>>

\* CreateRequest on the destroyed Client, Send of any Request it has made, Cancel of
\* one in flight and Wait for one with a connection all use the freed base.
UseAfterClient(r) ==
    /\ ~Careful
    /\ AppRuns /\ loop = "destroyed"
    /\ \/ object[r] = "none"
       \/ object[r] = "held" /\ evreq[r] \in {"new", "queued", "failed", "lost"}
    /\ fault' = "use after free"
    /\ UNCHANGED <<request, loop, sender, handler, batch, exits>>

-----------------------------------------------------------------------------
(* The event loop, inside the event_base_dispatch of a Send or a Wait.     *)

Dispatching == fault = "none" /\ loop = "running" /\ handler = NoRequest

\* The loop polls: something has happened on the connections in S.  It does not poll
\* again once loopexit was called, but processes what it has.
Poll(S) ==
    /\ Dispatching
    /\ batch = {} /\ exits = {}
    /\ S # {}
    /\ \A r \in S : conn[r] \in {"open", "idle"}
    /\ batch' = S
    /\ UNCHANGED <<request, loop, sender, handler, exits, fault>>

\* A callback enters ResponseHandle or ResponseChunkedHandle, which call the handler
\* stored in the container ...
EnterHandler(r) ==
    /\ Dispatching
    /\ r \in batch
    /\ evreq[r] = "queued"
    /\ object[r] = "held"
    /\ batch' = batch \ {r}
    /\ handler' = r
    /\ UNCHANGED <<object, complete, outcome, loop, sender, exits, fault>>

\* ... unless the application has let go of the container.
EnterOrphan(r) ==
    /\ Dispatching
    /\ r \in batch
    /\ evreq[r] = "queued"
    /\ object[r] # "held"
    /\ fault' = "use after free"
    /\ UNCHANGED <<request, loop, sender, handler, batch, exits>>

\* What libevent does with the connection before it calls ResponseHandle: keep it,
\* mark it to be freed, or, if it could not connect, only reset it (ResponseHandle is
\* then called with no response in the request).
AfterResponse == {"idle", "reset"} \cup (IF ServerCloses THEN {"closing"} ELSE {})

Respond(r) ==
    /\ EnterHandler(r)
    /\ evreq' = [evreq EXCEPT ![r] = "done"]
    /\ \E c \in AfterResponse : conn' = [conn EXCEPT ![r] = c]

Chunk(r) ==
    /\ r \in Chunked
    /\ EnterHandler(r)
    /\ UNCHANGED <<evreq, conn>>

\* A part of a response arrives and no callback is due: libevent has nothing whole to
\* show, and starts the timeout of the connection again.
Data(r) ==
    /\ Dispatching
    /\ r \in batch
    /\ evreq[r] = "queued"
    /\ batch' = batch \ {r}
    /\ UNCHANGED <<request, loop, sender, handler, exits, fault>>

\* An exception leaves event_base_dispatch and the Send or the Wait that called it.
\* The base, if there still is one, stays marked as running.
LeaveByException ==
    /\ loop' = IF loop = "destroyed" THEN loop ELSE "stuck"
    /\ sender' = NoRequest
    /\ outcome' = IF sender = NoRequest THEN outcome
                  ELSE [outcome EXCEPT ![sender] = "threw"]
    /\ batch' = {} /\ exits' = {}

NoLoopExit_M(r)     == UNCHANGED exits             \* loopexit is not called
SenderLoopExit_M(r) == exits' = exits \cup {sender}  \* on behalf of the blocked Send

LoopExit(r) == exits' = exits \cup {r}

\* ResponseErrorHandle returns instead of throwing ...
ErrorIsSilent_M(r) == batch' = batch \ {r} /\ UNCHANGED <<complete, outcome, loop, sender, exits>>

\* ... or it calls loopexit instead of throwing ...
ErrorExits_M(r) ==
    batch' = batch \ {r} /\ LoopExit(r) /\ UNCHANGED <<complete, outcome, loop, sender>>

\* ... or it marks the request as complete, and throws.
ErrorCompletes_M(r) == LeaveByException /\ complete' = [complete EXCEPT ![r] = TRUE]

\* ResponseErrorHandle throws, whatever the error is.
ErrorHandle(r) == LeaveByException /\ UNCHANGED complete

\* Timeout, EOF, bad header, buffer error, too long: libevent frees the request and
\* its connection, then calls ResponseErrorHandle.
Fail(r) ==
    /\ Dispatching
    /\ r \in batch
    /\ evreq[r] = "queued"
    /\ evreq' = [evreq EXCEPT ![r] = "freed"]
    /\ conn' = [conn EXCEPT ![r] = "freed"]
    /\ ErrorHandle(r)
    /\ UNCHANGED <<object, handler, fault>>

\* The peer closes a connection that was kept alive; libevent frees it.
PeerCloses(r) ==
    /\ Dispatching
    /\ r \in batch
    /\ conn[r] = "idle"
    /\ conn' = [conn EXCEPT ![r] = "freed"]
    /\ batch' = batch \ {r}
    /\ UNCHANGED <<object, evreq, complete, outcome, loop, sender, handler, exits, fault>>

\* The handler of a whole response returns: ResponseHandle calls loopexit and sets
\* is_complete, libevent frees the request and a connection that is closing.
HandlerFinishes(r) ==
    /\ fault = "none" /\ loop = "running"
    /\ handler = r /\ evreq[r] = "done" /\ object[r] = "held"
    /\ handler' = NoRequest
    /\ LoopExit(r)
    /\ complete' = [complete EXCEPT ![r] = TRUE]
    /\ evreq' = [evreq EXCEPT ![r] = "freed"]
    /\ conn' = [conn EXCEPT ![r] = IF @ = "closing" THEN "freed" ELSE @]
    /\ UNCHANGED <<object, outcome, loop, sender, batch, fault>>

AfterChunk_M(r) == LoopExit(r)      \* ResponseChunkedHandle calls loopexit too

AfterChunk(r) == UNCHANGED exits

\* The handler of a chunk returns.
ChunkFinishes(r) ==
    /\ fault = "none" /\ loop = "running"
    /\ handler = r /\ evreq[r] # "done" /\ object[r] = "held"
    /\ handler' = NoRequest
    /\ AfterChunk(r)
    /\ UNCHANGED <<request, loop, sender, batch, fault>>

\* The handler destroyed the container or the client it was called from, and returns.
HandlerOrphaned(r) ==
    /\ fault = "none"
    /\ handler = r
    /\ object[r] # "held" \/ loop = "destroyed"
    /\ fault' = "use after free"
    /\ UNCHANGED <<request, loop, sender, handler, batch, exits>>

\* The handler throws: neither ResponseHandle nor libevent gets to its next line.
HandlerThrows(r) ==
    /\ fault = "none"
    /\ handler = r
    /\ handler' = NoRequest
    /\ evreq' = [evreq EXCEPT ![r] = IF @ = "done" THEN "lost" ELSE @]
    /\ conn' = [conn EXCEPT ![r] = IF @ = "closing" THEN "reset" ELSE @]
    /\ LeaveByException
    /\ UNCHANGED <<object, complete, fault>>

\* loopexit was called and what was active has been processed: event_base_dispatch
\* returns, to a Wait ...
WaitReturns ==
    /\ Dispatching
    /\ batch = {} /\ exits # {}
    /\ sender = NoRequest
    /\ loop' = "idle"
    /\ exits' = {}
    /\ UNCHANGED <<request, sender, handler, batch, fault>>

\* The request stays behind.
FreeConnection_M(r) == conn' = [conn EXCEPT ![r] = "freed"] /\ UNCHANGED <<evreq, fault>>

\* evhttp_connection_free, with the request if it is still there.  Had libevent freed
\* the connection, this is the second time.
FreeConnection(r) ==
    /\ fault' = IF conn[r] = "freed" THEN "double free" ELSE fault
    /\ conn' = [conn EXCEPT ![r] = "freed"]
    /\ evreq' = [evreq EXCEPT ![r] = IF @ = "queued" THEN "freed" ELSE @]

\* ... or to a Send.
SendReturns(r) ==
    /\ Dispatching
    /\ batch = {} /\ exits # {}
    /\ sender = r
    /\ loop' = "idle"
    /\ exits' = {}
    /\ sender' = NoRequest
    /\ outcome' = [outcome EXCEPT ![r] = "returned"]
    /\ FreeConnection(r)
    /\ UNCHANGED <<object, complete, handler, batch>>

-----------------------------------------------------------------------------
AppStep(r) ==
    \/ CreateRequest(r) \/ SendAsync(r) \/ SendFails(r) \/ SendBlocks(r) \/ SendRefused(r)
    \/ Wait(r) \/ CancelNew(r) \/ CancelQueued(r) \/ Drop(r)
    \/ UseFreed(r) \/ SendAgain(r) \/ UseAfterClient(r)

EventStep(r) ==
    Respond(r) \/ Chunk(r) \/ Data(r) \/ EnterOrphan(r) \/ Fail(r) \/ PeerCloses(r)

HandlerEnds(r) ==
    HandlerFinishes(r) \/ ChunkFinishes(r) \/ HandlerOrphaned(r) \/ HandlerThrows(r)

DispatchReturns == WaitReturns \/ \E r \in Requests : SendReturns(r)

Next ==
    \/ \E r \in Requests : AppStep(r) \/ EventStep(r) \/ HandlerEnds(r)
    \/ \E S \in SUBSET Requests : Poll(S)
    \/ DispatchReturns
    \/ DestroyClient

Spec == Init /\ [][Next]_vars

\* The loop processes what is active and returns when told to, handlers end, and a
\* request in flight gets an event in the end, its timeout if nothing else.  The timeout
\* is one of inactivity, so that event need not be the last.
Fairness ==
    /\ WF_vars(DispatchReturns)
    /\ \A r \in Requests :
        /\ WF_vars(EventStep(r))
        /\ WF_vars(HandlerEnds(r))
        /\ SF_vars(\E S \in SUBSET Requests : r \in S /\ evreq[r] = "queued" /\ Poll(S))

FairSpec == Spec /\ Fairness

-----------------------------------------------------------------------------
(* Properties.                                                             *)

\* Who owns what, across the application, the loop and the handlers: a request in
\* flight has its open connection, one off its connection is in its handler, a
\* connection due to be freed waits for the handler, an active event belongs to a
\* connection that still exists, and nothing of this runs unless a call is inside
\* event_base_dispatch, or in a handler that has destroyed the client.
Ownership ==
    /\ \A r \in Requests :
        /\ evreq[r] = "queued" <=> conn[r] = "open"
        /\ evreq[r] = "done" => handler = r
        /\ conn[r] = "closing" => evreq[r] = "done"
    /\ \A r \in batch : conn[r] \in {"open", "idle"}
    /\ batch # {} \/ exits # {} => loop = "running"
    /\ sender # NoRequest \/ handler # NoRequest =>
          loop = "running" \/ (loop = "destroyed" /\ handler # NoRequest)

\* A blocked Send is never waiting for nothing: its request is in flight, or in its
\* handler, or has asked the loop to exit.
SenderIsServed ==
    sender # NoRequest =>
        \/ evreq[sender] \in {"queued", "done"}
        \/ sender \in exits
        \/ fault # "none"

\* The loop is only told to exit by a request whose handler has returned and whose
\* caller can see so.
ExitMeansComplete ==
    /\ \A r \in exits : complete[r]
    /\ \A r \in Requests : complete[r] => evreq[r] = "freed"

\* A Send that returns leaves nothing behind: neither its request nor its connection.
SendLeavesNothing ==
    \A r \in Requests : outcome[r] = "returned" => evreq[r] = "freed" /\ conn[r] = "freed"

\* An application that takes the care described above, with servers that keep their
\* connections alive, never makes the library free a connection twice, touch freed
\* memory or queue a request twice: cancels, errors, nested Sends and exceptions in
\* any order included.
NoFault == fault = "none"

\* A Send returns without its response for two reasons only: another request has
\* completed in its dispatch, or the base did not run for it.
UndeliveredHasCause ==
    [][\A r \in Requests :
          outcome[r] = "none" /\ outcome'[r] = "returned" /\ ~complete[r] =>
              exits \ {r} # {} \/ loop = "stuck" \/ handler # NoRequest]_vars

\* After an exception has left the loop, no handler of this client is called again and
\* no request completes.
StuckForGood ==
    [][loop = "stuck" => loop' \in {"stuck", "destroyed"} /\ handler' = NoRequest
                         /\ complete' = complete]_vars

\* A Send of a careful application ends, by returning or by an exception, whatever
\* handlers run in between and whatever becomes of other requests, unless its own
\* server goes on sending parts of the response for ever.
SendEnds ==
    \A r \in Requests :
        \/ sender = r ~> sender # r \/ fault # "none"
        \/ []<><<Chunk(r) \/ Data(r)>>_vars

-----------------------------------------------------------------------------
(* The client keeps the contract of RequestContract.                       *)

RequestPhase(r) ==
    CASE evreq[r] = "none"   -> "idle"
      [] evreq[r] \in {"new", "lost"} -> "made"
      [] evreq[r] = "queued" -> "waiting"
      [] evreq[r] = "done"   -> "answering"
      [] evreq[r] = "freed" /\ complete[r] -> "answered"
      [] OTHER               -> "over"

Service == IF loop \in {"stuck", "destroyed"} THEN "ended" ELSE "open"

Contract == INSTANCE RequestContract WITH
    phase    <- [r \in Requests |-> RequestPhase(r)],
    handling <- handler,
    service  <- Service

\* Whatever the application, the servers and the other requests do, up to the first
\* fault: one handler at a time, none for a request that is over, none at all after an
\* exception has left the loop, and IsComplete exactly when the handler of the whole
\* response has returned.
ContractSpec == Contract!Spec

-----------------------------------------------------------------------------
(* What the documentation says.                                            *)

\* README.md's client example: Send returns, and the response was handled, or it throws
\* and the program prints "request failed".
SendDelivers == \A r \in Requests : outcome[r] = "returned" => complete[r]

\* Send and libevent do not both free the connection of the request.
NoDoubleFree == fault # "double free"
=============================================================================
