------------------------------ MODULE ServerReply ------------------------------
(***************************************************************************)
(* The life of a request inside a running Server: the libevent callback    *)
(* Server::RequestHandler (src/server.cpp), RequestBase::Reply and the     *)
(* chunk timer (src/request_base.cpp), and the shutdown of the event loop. *)
(*                                                                         *)
(* Everything the server does happens in callbacks of one event loop, each *)
(* of which runs to its end, so a callback is one action.  Three things    *)
(* with three different owners have to agree for the reply to work: the    *)
(* evhttp_request, owned by libevent; the timer and chunk_req_state that   *)
(* drive a chunked reply, which free themselves; and the CallBackContainer *)
(* the reply's completion is written to, owned by the application's copies *)
(* of the Request and the Response.                                        *)
(***************************************************************************)
EXTENDS Naturals, SequencesExt

CONSTANTS
    Requests,   \* the requests that clients may send
    MaxChunks   \* bound: how often a chunk callback returns true

ASSUME MaxChunksAssumption == MaxChunks \in Nat

VARIABLES
    loop,       \* event_base_dispatch, called by Server::Start
    evreq,      \* the evhttp_request: on its connection, cut off from it, ...
    userdone,   \* libevent's flag: the whole reply has been handed over
    timer,      \* chunk_req_state::timer, and the state it belongs to
    source,     \* what the chunk callback will produce, call by call
    pos,        \* how many of these it has produced
    stream,     \* the chunks written to the connection, by their number
    container,  \* the CallBackContainer registered for the request
    complete    \* its is_complete

reply == <<evreq, userdone, timer, source, pos, stream>>
vars  == <<loop, reply, container, complete>>

-----------------------------------------------------------------------------
(* The chunk callback fills its string or leaves it empty; either way it   *)
(* may return true, which asks for another call.                           *)
Kinds   == {"data", "empty"}
Sources == BoundedSeq(Kinds, MaxChunks)

LoopStates == {"running",   \* inside event_base_dispatch
               "returned",  \* SIGINT broke the loop and Start returned 0
               "thrown",    \* an exception left event_base_dispatch and Start
               "crashed",   \* the process died of a write to freed memory
               "stopped"}   \* Stop freed the evhttp and the event base

TypeOK ==
    /\ loop \in LoopStates
    /\ evreq \in [Requests -> {"none", "attached", "detached", "freed"}]
    /\ userdone \in [Requests -> BOOLEAN]
    /\ timer \in [Requests -> {"none", "armed", "idle", "freed"}]
    /\ source \in [Requests -> Seq(Kinds)]
    /\ pos \in [Requests -> Nat] /\ \A r \in Requests : pos[r] <= Len(source[r])
    /\ stream \in [Requests -> Seq(Nat)]
    /\ container \in [Requests -> {"none", "alive", "freed"}]
    /\ complete \in [Requests -> BOOLEAN]

Init ==
    /\ loop = "running"
    /\ evreq = [r \in Requests |-> "none"]
    /\ userdone = [r \in Requests |-> FALSE]
    /\ timer = [r \in Requests |-> "none"]
    /\ source = [r \in Requests |-> << >>]
    /\ pos = [r \in Requests |-> 0]
    /\ stream = [r \in Requests |-> << >>]
    /\ container = [r \in Requests |-> "none"]
    /\ complete = [r \in Requests |-> FALSE]

Live(r)    == evreq[r] \in {"attached", "detached"}
Chunked(r) == timer[r] # "none"

\* Definitions whose name ends in _M are wrong on purpose: each is the definition
\* that follows it with one plausible bug, and breaks one property.

-----------------------------------------------------------------------------
(* Server::RequestHandler.                                                 *)

\* The RequestBase constructor makes the container and gives libevent its raw
\* address.  The Request and the Response are locals of the callback, so the
\* container is gone when the callback returns unless the application kept a copy.
Register(r, keep) ==
    /\ loop = "running"
    /\ evreq[r] = "none"
    /\ evreq' = [evreq EXCEPT ![r] = "attached"]
    /\ container' = [container EXCEPT ![r] = IF keep THEN "alive" ELSE "freed"]
    /\ UNCHANGED <<loop, complete, pos, stream>>

\* evhttp_send_reply: the whole reply goes to libevent in one piece.
SendReply(r) ==
    /\ userdone' = [userdone EXCEPT ![r] = TRUE]
    /\ UNCHANGED <<timer, source>>

\* The chunked branch of Reply: the headers go out and the timer is armed.
SendReplyStart(r, src) ==
    /\ timer' = [timer EXCEPT ![r] = "armed"]
    /\ source' = [source EXCEPT ![r] = src]
    /\ UNCHANGED userdone

\* A matching handler returned a plain Response, or it threw a std::exception
\* and the catch clause answers 500: one evhttp_send_reply either way.
HandlerReplies(r, keep) == Register(r, keep) /\ SendReply(r)

\* Nothing matched: Response(request, 404), which no application code has seen.
NoRoute(r) == Register(r, FALSE) /\ SendReply(r)

\* The handler returned a Response with a chunk callback.
HandlerStreams(r, keep, src) == Register(r, keep) /\ SendReplyStart(r, src)

\* The handler threw something that is not a std::exception: it passes the catch
\* clause and libevent and leaves Start, and no reply was made.
HandlerEscapes(r, keep) ==
    /\ loop = "running"
    /\ evreq[r] = "none"
    /\ loop' = "thrown"
    /\ evreq' = [evreq EXCEPT ![r] = "attached"]
    /\ container' = [container EXCEPT ![r] = IF keep THEN "alive" ELSE "freed"]
    /\ UNCHANGED <<userdone, timer, source, pos, stream, complete>>

-----------------------------------------------------------------------------
(* http_chunked_trickle_cb: get_chunk is called first, then the connection *)
(* is looked at.                                                           *)

Pull_M(r) == pos' = [pos EXCEPT ![r] = @ + 2]   \* get_chunk called twice

Pull(r) == pos' = [pos EXCEPT ![r] = @ + 1]

\* The request without a connection is not freed.
ReplyEnd_M(r) ==
    /\ timer' = [timer EXCEPT ![r] = "freed"]
    /\ userdone' = [userdone EXCEPT ![r] = evreq[r] = "attached"]
    /\ UNCHANGED evreq

\* evhttp_send_reply_end, then event_free(timer) and free(state).  A request
\* that has lost its connection is freed on the spot.
ReplyEnd(r) ==
    /\ timer' = [timer EXCEPT ![r] = "freed"]
    /\ IF evreq[r] = "attached"
       THEN userdone' = [userdone EXCEPT ![r] = TRUE] /\ UNCHANGED evreq
       ELSE evreq' = [evreq EXCEPT ![r] = "freed"] /\ UNCHANGED userdone

\* The string of the previous call is sent.
SendReplyChunk_M(r) ==
    stream' = [stream EXCEPT ![r] = Append(@, pos[r])]

\* evhttp_send_reply_chunk writes nothing for an empty chunk.
SendReplyChunk(r) ==
    stream' = IF source[r][pos[r] + 1] = "data"
              THEN [stream EXCEPT ![r] = Append(@, pos[r] + 1)]
              ELSE stream

\* The callback has a chunk and the client is there: send it and re-arm.
TickSends(r) ==
    /\ evreq[r] = "attached"
    /\ pos[r] < Len(source[r])
    /\ Pull(r)
    /\ SendReplyChunk(r)
    /\ UNCHANGED <<evreq, userdone, timer>>

\* The callback has a chunk but the client is gone: the chunk is lost.
TickLoses(r) ==
    /\ evreq[r] # "attached"
    /\ pos[r] < Len(source[r])
    /\ Pull(r)
    /\ ReplyEnd(r)
    /\ UNCHANGED stream

\* An empty chunk is taken for the end of the stream.
TickEnds_M(r) ==
    /\ pos[r] < Len(source[r]) => source[r][pos[r] + 1] = "empty"
    /\ ReplyEnd(r)
    /\ UNCHANGED <<pos, stream>>

\* The callback returns false; what it may have put in its string is not sent.
TickEnds(r) ==
    /\ pos[r] = Len(source[r])
    /\ ReplyEnd(r)
    /\ UNCHANGED <<pos, stream>>

Tick(r) ==
    /\ loop = "running"
    /\ timer[r] = "armed"
    /\ TickSends(r) \/ TickLoses(r) \/ TickEnds(r)
    /\ UNCHANGED <<loop, source, container, complete>>

\* get_chunk throws, as an empty function does with bad_function_call; nothing catches
\* it, and the fired timer is not re-armed.
TickEscapes(r) ==
    /\ loop = "running"
    /\ timer[r] = "armed"
    /\ loop' = "thrown"
    /\ timer' = [timer EXCEPT ![r] = "idle"]
    /\ UNCHANGED <<evreq, userdone, source, pos, stream, container, complete>>

-----------------------------------------------------------------------------
(* libevent and the peer.                                                  *)

\* Any write that drains the connection counts as the end of the reply.
SendDone_M(r) ==
    /\ loop = "running"
    /\ evreq[r] = "attached"
    /\ evreq' = [evreq EXCEPT ![r] = "freed"]
    /\ complete' = [complete EXCEPT ![r] = container[r] = "alive"]
    /\ UNCHANGED <<loop, userdone, timer, source, pos, stream, container>>

\* evhttp_send_done: the reply is written out; libevent calls OnReplyComplete,
\* which writes is_complete through the raw pointer, and frees the request.  If
\* the container is gone this is a write to freed memory: it goes unnoticed or
\* it brings the process down.
SendDone(r) ==
    /\ loop = "running"
    /\ evreq[r] = "attached" /\ userdone[r]
    /\ evreq' = [evreq EXCEPT ![r] = "freed"]
    /\ \/ /\ container[r] = "alive"
          /\ complete' = [complete EXCEPT ![r] = TRUE]
          /\ UNCHANGED loop
       \/ /\ container[r] = "freed"
          /\ loop' \in {"running", "crashed"}
          /\ UNCHANGED complete
    /\ UNCHANGED <<userdone, timer, source, pos, stream, container>>

\* The request is freed whether or not its reply is still being produced.
Disconnect_M(r) ==
    /\ loop = "running"
    /\ evreq[r] = "attached"
    /\ evreq' = [evreq EXCEPT ![r] = "freed"]
    /\ UNCHANGED <<loop, userdone, timer, source, pos, stream, container, complete>>

\* The connection fails.  A request whose reply is still being produced is cut
\* off from it and left to the timer; any other is freed, unannounced.
Disconnect(r) ==
    /\ loop = "running"
    /\ evreq[r] = "attached"
    /\ evreq' = [evreq EXCEPT ![r] = IF userdone[r] THEN "freed" ELSE "detached"]
    /\ UNCHANGED <<loop, userdone, timer, source, pos, stream, container, complete>>

\* The application destroys its last copy of the Request and the Response.
DropCopy(r) ==
    /\ loop # "crashed"
    /\ container[r] = "alive"
    /\ container' = [container EXCEPT ![r] = "freed"]
    /\ UNCHANGED <<loop, reply, complete>>

-----------------------------------------------------------------------------
(* Shutdown.                                                               *)

\* do_term: SIGINT breaks the loop between two callbacks, and Start returns.
Interrupt ==
    /\ loop = "running"
    /\ loop' = "returned"
    /\ UNCHANGED <<reply, container, complete>>

\* evhttp_free closes every connection and frees the requests on them.
FreeServer ==
    evreq' = [r \in Requests |-> IF evreq[r] = "attached" THEN "freed" ELSE evreq[r]]

FreeBase_M == UNCHANGED timer   \* the event base is kept

\* event_base_free forgets the pending timers, without freeing them.
FreeBase ==
    timer' = [r \in Requests |-> IF timer[r] = "armed" THEN "idle" ELSE timer[r]]

\* Server::Stop, also called by ~Server.  It is modelled where it is defined:
\* after dispatch has been left (called from inside, it frees the running base).
Stop ==
    /\ loop \in {"returned", "thrown"}
    /\ loop' = "stopped"
    /\ FreeServer
    /\ FreeBase
    /\ UNCHANGED <<userdone, source, pos, stream, container, complete>>

-----------------------------------------------------------------------------
Handle(r) ==
    \/ NoRoute(r)
    \/ \E keep \in BOOLEAN :
          \/ HandlerReplies(r, keep)
          \/ HandlerEscapes(r, keep)
          \/ \E src \in Sources : HandlerStreams(r, keep, src)

Next ==
    \/ \E r \in Requests :
          Handle(r) \/ Tick(r) \/ TickEscapes(r) \/ SendDone(r) \/ Disconnect(r) \/ DropCopy(r)
    \/ Interrupt
    \/ Stop

Spec == Init /\ [][Next]_vars

\* The loop fires an armed timer, and a reply handed over is written out or its
\* connection fails: libevent gives a server connection a 50 s write timeout.
Fairness ==
    \A r \in Requests :
        /\ WF_vars(Tick(r))
        /\ WF_vars(userdone[r] /\ (SendDone(r) \/ Disconnect(r)))

FairSpec == Spec /\ Fairness

-----------------------------------------------------------------------------
(* Properties.                                                             *)

\* The chunks among the first n of the source that carry data.
DataIn(r, n) == {p \in 1..n : p \in DOMAIN source[r] /\ source[r][p] = "data"}

\* An armed timer holds a raw pointer to an evhttp_request; the request is still
\* there and not yet handed over, in every order of ticks, disconnects and shutdown.
\* And while the loop runs no streamed reply is forgotten: if it is not handed
\* over, its timer is armed.
TimerGuardsReply ==
    \A r \in Requests :
        /\ timer[r] = "armed" => Live(r) /\ ~userdone[r]
        /\ loop = "running" /\ Live(r) /\ ~userdone[r] => timer[r] = "armed"

Ordered(s) == \A i, j \in DOMAIN s : i < j => s[i] < s[j]

Faithful(r) ==
    /\ Ordered(stream[r])
    /\ Range(stream[r]) \subseteq DataIn(r, pos[r])
    /\ DataIn(r, pos[r]) \ Range(stream[r]) \subseteq
          IF evreq[r] = "freed" /\ ~userdone[r] THEN {pos[r]} ELSE {}

\* What is on the wire is what the chunk callback produced: each chunk at most
\* once and in order, and none of those produced so far is missing, except the one
\* pulled by the very tick that then found the client gone.
StreamFaithful == \A r \in Requests : Faithful(r)

\* The terminating chunk is a promise to the client and is_complete one to the
\* application: both are made only when the whole stream was written.
EndMeansWhole ==
    \A r \in Requests :
        /\ userdone[r] /\ Chunked(r) =>
              Range(stream[r]) = DataIn(r, Len(source[r]))
        /\ complete[r] => userdone[r] /\ evreq[r] = "freed"

\* A step never touches a reply that was handed over or released: nothing is
\* appended to it, its callback is not called, its timer is not armed again.
ReplyEndsOnce ==
    [][\A r \in Requests :
          userdone[r] \/ evreq[r] = "freed" =>
              UNCHANGED <<stream[r], pos[r], timer[r], userdone[r]>>]_vars

\* Every request that reached the handler is released (replied to, or given up with
\* its client), unless the server is shut down or taken down first.
EveryRequestReleased ==
    \A r \in Requests : evreq[r] # "none" ~> evreq[r] = "freed" \/ loop # "running"

\* The reply of a handler that returns a local Response, as the one of README.md
\* does, can report its completion: the container it writes to is still there.
CompletionTargetAlive ==
    \A r \in Requests :
        loop = "running" /\ evreq[r] = "attached" /\ userdone[r] => container[r] # "freed"

-----------------------------------------------------------------------------
(* The server keeps the contract of ReplyContract.                         *)

ReplyPhase(r) ==
    CASE evreq[r] = "none"                   -> "idle"
      [] evreq[r] = "attached" /\ userdone[r] -> "closed"
      [] evreq[r] = "attached" /\ ~userdone[r] /\ timer[r] = "armed" -> "open"
      [] evreq[r] = "freed" /\ complete[r]    -> "confirmed"
      [] OTHER                                -> "over"

Contract == INSTANCE ReplyContract WITH
    phase <- [r \in Requests |-> ReplyPhase(r)],
    plan  <- source,
    out   <- stream

\* Whatever the loop, the peers and the application do, each reply goes through the
\* phases of the contract.
ContractSpec == Contract!Spec
=============================================================================
