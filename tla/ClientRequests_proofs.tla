------------------------- MODULE ClientRequests_proofs -------------------------
(***************************************************************************)
(* Proofs about ClientRequests, for any set of requests: who owns what,    *)
(* what a blocked Send waits for, what it leaves behind, and for which     *)
(* applications and servers the client is free of memory errors.           *)
(***************************************************************************)
EXTENDS ClientRequests, TLAPS

(* The inductive invariant adds to the properties what they say nothing    *)
(* about: a careful application still has the Request of every request in  *)
(* flight and the Client of every handler, and the Send that is told to    *)
(* return owns a connection that no active event can free.                 *)

LifeCycle ==
    /\ \A r \in Requests :
        /\ object[r] = "none" => evreq[r] = "none" /\ conn[r] = "none" /\ outcome[r] = "none"
        /\ evreq[r] = "new" => conn[r] = "fresh" /\ outcome[r] = "none"
        /\ evreq[r] = "done" => conn[r] \in {"idle", "reset", "closing"}
        /\ evreq[r] = "lost" => loop \in {"stuck", "destroyed"}
    /\ sender # NoRequest => evreq[sender] \in {"queued", "done", "freed"}

HandlerOwnsRequest ==
    handler # NoRequest => handler \notin batch

KeepsRequests ==
    Careful => \A r \in Requests :
                  evreq[r] \in {"queued", "done"} => object[r] = "held" \/ loop = "destroyed"

KeepsClient ==
    Careful /\ handler # NoRequest => loop = "running"

HandlesItsOwn ==
    Careful /\ handler # NoRequest => evreq[handler] \in {"queued", "done"}

SenderOwnsConnection ==
    Careful /\ sender # NoRequest /\ fault = "none" =>
        \/ evreq[sender] \in {"queued", "done"}
        \/ /\ sender \in exits \ batch
           /\ ServerCloses \/ conn[sender] \in {"idle", "reset"}

NoClosing == ~ServerCloses => \A r \in Requests : conn[r] # "closing"

CarefulIsSafe == Careful /\ ~ServerCloses => fault = "none"

IInv ==
    /\ TypeOK
    /\ Ownership
    /\ ExitMeansComplete
    /\ SendLeavesNothing
    /\ LifeCycle
    /\ HandlerOwnsRequest
    /\ KeepsRequests
    /\ KeepsClient
    /\ HandlesItsOwn
    /\ SenderOwnsConnection
    /\ NoClosing
    /\ CarefulIsSafe

LEMMA InitIInv == Init => IInv
  BY RequestAssumption DEF Init, IInv, TypeOK, ObjectStates, EvreqStates, ConnStates, LoopStates,
     Ownership, ExitMeansComplete, SendLeavesNothing, LifeCycle, HandlerOwnsRequest,
     KeepsRequests, KeepsClient, HandlesItsOwn, SenderOwnsConnection, NoClosing,
     CarefulIsSafe

LEMMA CreateRequestPreservesIInv ==
  ASSUME IInv, NEW r \in Requests, CreateRequest(r)
  PROVE  IInv'
<1> USE RequestAssumption DEF IInv, CreateRequest, AppRuns
<1>1. TypeOK'
  BY DEF TypeOK, EvreqStates, ConnStates, ObjectStates, LoopStates
<1>2. Ownership'
  BY DEF TypeOK, Ownership, LifeCycle
<1>3. ExitMeansComplete' /\ SendLeavesNothing'
  BY DEF TypeOK, Ownership, ExitMeansComplete, SendLeavesNothing, LifeCycle
<1>4. LifeCycle' /\ HandlerOwnsRequest' /\ KeepsRequests' /\ KeepsClient' /\ HandlesItsOwn'
  BY DEF TypeOK, Ownership, LifeCycle, HandlerOwnsRequest, KeepsRequests, KeepsClient,
     HandlesItsOwn
<1>5. SenderOwnsConnection'
  BY DEF TypeOK, Ownership, ExitMeansComplete, LifeCycle, HandlerOwnsRequest, HandlesItsOwn,
     NoClosing, SenderOwnsConnection
<1>6. NoClosing' /\ CarefulIsSafe'
  BY DEF TypeOK, Ownership, NoClosing, CarefulIsSafe, SenderOwnsConnection,
     KeepsRequests, KeepsClient, HandlesItsOwn
<1>7. QED
  BY <1>1, <1>2, <1>3, <1>4, <1>5, <1>6

LEMMA SendAsyncPreservesIInv ==
  ASSUME IInv, NEW r \in Requests, SendAsync(r)
  PROVE  IInv'
<1> USE RequestAssumption DEF IInv, SendAsync, CanSend, AppRuns, Queue
<1>1. TypeOK'
  BY DEF TypeOK, EvreqStates, ConnStates, ObjectStates, LoopStates
<1>2. Ownership'
  BY DEF TypeOK, Ownership, LifeCycle
<1>3. ExitMeansComplete' /\ SendLeavesNothing'
  BY DEF TypeOK, Ownership, ExitMeansComplete, SendLeavesNothing, LifeCycle
<1>4. LifeCycle' /\ HandlerOwnsRequest' /\ KeepsRequests' /\ KeepsClient' /\ HandlesItsOwn'
  BY DEF TypeOK, Ownership, LifeCycle, HandlerOwnsRequest, KeepsRequests, KeepsClient,
     HandlesItsOwn
<1>5. SenderOwnsConnection'
  BY DEF TypeOK, Ownership, ExitMeansComplete, LifeCycle, HandlerOwnsRequest, HandlesItsOwn,
     NoClosing, SenderOwnsConnection
<1>6. NoClosing' /\ CarefulIsSafe'
  BY DEF TypeOK, Ownership, NoClosing, CarefulIsSafe, SenderOwnsConnection,
     KeepsRequests, KeepsClient, HandlesItsOwn
<1>7. QED
  BY <1>1, <1>2, <1>3, <1>4, <1>5, <1>6

LEMMA SendFailsPreservesIInv ==
  ASSUME IInv, NEW r \in Requests, SendFails(r)
  PROVE  IInv'
<1> USE RequestAssumption DEF IInv, SendFails, CanSend, AppRuns
<1>1. TypeOK'
  BY DEF TypeOK, EvreqStates, ConnStates, ObjectStates, LoopStates
<1>2. Ownership'
  BY DEF TypeOK, Ownership, LifeCycle
<1>3. ExitMeansComplete' /\ SendLeavesNothing'
  BY DEF TypeOK, Ownership, ExitMeansComplete, SendLeavesNothing, LifeCycle
<1>4. LifeCycle' /\ HandlerOwnsRequest' /\ KeepsRequests' /\ KeepsClient' /\ HandlesItsOwn'
  BY DEF TypeOK, Ownership, LifeCycle, HandlerOwnsRequest, KeepsRequests, KeepsClient,
     HandlesItsOwn
<1>5. SenderOwnsConnection'
  BY DEF TypeOK, Ownership, ExitMeansComplete, LifeCycle, HandlerOwnsRequest, HandlesItsOwn,
     NoClosing, SenderOwnsConnection
<1>6. NoClosing' /\ CarefulIsSafe'
  BY DEF TypeOK, Ownership, NoClosing, CarefulIsSafe, SenderOwnsConnection,
     KeepsRequests, KeepsClient, HandlesItsOwn
<1>7. QED
  BY <1>1, <1>2, <1>3, <1>4, <1>5, <1>6

LEMMA SendBlocksPreservesIInv ==
  ASSUME IInv, NEW r \in Requests, SendBlocks(r)
  PROVE  IInv'
<1> USE RequestAssumption DEF IInv, SendBlocks, CanSend, AppRuns, Queue, Accepts
<1>1. TypeOK'
  BY DEF TypeOK, EvreqStates, ConnStates, ObjectStates, LoopStates
<1>2. Ownership'
  BY DEF TypeOK, Ownership, LifeCycle
<1>3. ExitMeansComplete' /\ SendLeavesNothing'
  BY DEF TypeOK, Ownership, ExitMeansComplete, SendLeavesNothing, LifeCycle
<1>4. LifeCycle' /\ HandlerOwnsRequest' /\ KeepsRequests' /\ KeepsClient' /\ HandlesItsOwn'
  BY DEF TypeOK, Ownership, LifeCycle, HandlerOwnsRequest, KeepsRequests, KeepsClient,
     HandlesItsOwn
<1>5. SenderOwnsConnection'
  BY DEF TypeOK, Ownership, ExitMeansComplete, LifeCycle, HandlerOwnsRequest, HandlesItsOwn,
     NoClosing, SenderOwnsConnection
<1>6. NoClosing' /\ CarefulIsSafe'
  BY DEF TypeOK, Ownership, NoClosing, CarefulIsSafe, SenderOwnsConnection,
     KeepsRequests, KeepsClient, HandlesItsOwn
<1>7. QED
  BY <1>1, <1>2, <1>3, <1>4, <1>5, <1>6

LEMMA SendRefusedPreservesIInv ==
  ASSUME IInv, NEW r \in Requests, SendRefused(r)
  PROVE  IInv'
<1> USE RequestAssumption DEF IInv, SendRefused, CanSend, AppRuns, Accepts
<1>1. TypeOK'
  BY DEF TypeOK, EvreqStates, ConnStates, ObjectStates, LoopStates
<1>2. Ownership'
  BY DEF TypeOK, Ownership, LifeCycle
<1>3. ExitMeansComplete' /\ SendLeavesNothing'
  BY DEF TypeOK, Ownership, ExitMeansComplete, SendLeavesNothing, LifeCycle
<1>4. LifeCycle' /\ HandlerOwnsRequest' /\ KeepsRequests' /\ KeepsClient' /\ HandlesItsOwn'
  BY DEF TypeOK, Ownership, LifeCycle, HandlerOwnsRequest, KeepsRequests, KeepsClient,
     HandlesItsOwn
<1>5. SenderOwnsConnection'
  BY DEF TypeOK, Ownership, ExitMeansComplete, LifeCycle, HandlerOwnsRequest, HandlesItsOwn,
     NoClosing, SenderOwnsConnection
<1>6. NoClosing' /\ CarefulIsSafe'
  BY DEF TypeOK, Ownership, NoClosing, CarefulIsSafe, SenderOwnsConnection,
     KeepsRequests, KeepsClient, HandlesItsOwn
<1>7. QED
  BY <1>1, <1>2, <1>3, <1>4, <1>5, <1>6

LEMMA WaitPreservesIInv ==
  ASSUME IInv, NEW r \in Requests, Wait(r)
  PROVE  IInv'
<1> USE RequestAssumption DEF IInv, Wait, AppRuns, request, Accepts
<1>1. TypeOK'
  BY DEF TypeOK, EvreqStates, ConnStates, ObjectStates, LoopStates
<1>2. Ownership'
  BY DEF TypeOK, Ownership, LifeCycle
<1>3. ExitMeansComplete' /\ SendLeavesNothing'
  BY DEF TypeOK, Ownership, ExitMeansComplete, SendLeavesNothing, LifeCycle
<1>4. LifeCycle' /\ HandlerOwnsRequest' /\ KeepsRequests' /\ KeepsClient' /\ HandlesItsOwn'
  BY DEF TypeOK, Ownership, LifeCycle, HandlerOwnsRequest, KeepsRequests, KeepsClient,
     HandlesItsOwn
<1>5. SenderOwnsConnection'
  BY DEF TypeOK, Ownership, ExitMeansComplete, LifeCycle, HandlerOwnsRequest, HandlesItsOwn,
     NoClosing, SenderOwnsConnection
<1>6. NoClosing' /\ CarefulIsSafe'
  BY DEF TypeOK, Ownership, NoClosing, CarefulIsSafe, SenderOwnsConnection,
     KeepsRequests, KeepsClient, HandlesItsOwn
<1>7. QED
  BY <1>1, <1>2, <1>3, <1>4, <1>5, <1>6

LEMMA CancelNewPreservesIInv ==
  ASSUME IInv, NEW r \in Requests, CancelNew(r)
  PROVE  IInv'
<1> USE RequestAssumption DEF IInv, CancelNew, CanSend, AppRuns
<1>1. TypeOK'
  BY DEF TypeOK, EvreqStates, ConnStates, ObjectStates, LoopStates
<1>2. Ownership'
  BY DEF TypeOK, Ownership, LifeCycle
<1>3. ExitMeansComplete' /\ SendLeavesNothing'
  BY DEF TypeOK, Ownership, ExitMeansComplete, SendLeavesNothing, LifeCycle
<1>4. LifeCycle' /\ HandlerOwnsRequest' /\ KeepsRequests' /\ KeepsClient' /\ HandlesItsOwn'
  BY DEF TypeOK, Ownership, LifeCycle, HandlerOwnsRequest, KeepsRequests, KeepsClient,
     HandlesItsOwn
<1>5. SenderOwnsConnection'
  BY DEF TypeOK, Ownership, ExitMeansComplete, LifeCycle, HandlerOwnsRequest, HandlesItsOwn,
     NoClosing, SenderOwnsConnection
<1>6. NoClosing' /\ CarefulIsSafe'
  BY DEF TypeOK, Ownership, NoClosing, CarefulIsSafe, SenderOwnsConnection,
     KeepsRequests, KeepsClient, HandlesItsOwn
<1>7. QED
  BY <1>1, <1>2, <1>3, <1>4, <1>5, <1>6

LEMMA CancelQueuedPreservesIInv ==
  ASSUME IInv, NEW r \in Requests, CancelQueued(r)
  PROVE  IInv'
<1> USE RequestAssumption DEF IInv, CancelQueued, AppRuns
<1>1. TypeOK'
  BY DEF TypeOK, EvreqStates, ConnStates, ObjectStates, LoopStates
<1>2. Ownership'
  BY DEF TypeOK, Ownership, LifeCycle
<1>3. ExitMeansComplete' /\ SendLeavesNothing'
  BY DEF TypeOK, Ownership, ExitMeansComplete, SendLeavesNothing, LifeCycle
<1>4. LifeCycle' /\ HandlerOwnsRequest' /\ KeepsRequests' /\ KeepsClient' /\ HandlesItsOwn'
  BY DEF TypeOK, Ownership, LifeCycle, HandlerOwnsRequest, KeepsRequests, KeepsClient,
     HandlesItsOwn
<1>5. SenderOwnsConnection'
  BY DEF TypeOK, Ownership, ExitMeansComplete, LifeCycle, HandlerOwnsRequest, HandlesItsOwn,
     NoClosing, SenderOwnsConnection
<1>6. NoClosing' /\ CarefulIsSafe'
  BY DEF TypeOK, Ownership, NoClosing, CarefulIsSafe, SenderOwnsConnection,
     KeepsRequests, KeepsClient, HandlesItsOwn
<1>7. QED
  BY <1>1, <1>2, <1>3, <1>4, <1>5, <1>6

LEMMA DropPreservesIInv ==
  ASSUME IInv, NEW r \in Requests, Drop(r)
  PROVE  IInv'
<1> USE RequestAssumption DEF IInv, Drop, AppRuns, Destructor
<1>1. TypeOK'
  BY DEF TypeOK, EvreqStates, ConnStates, ObjectStates, LoopStates
<1>2. Ownership'
  BY DEF TypeOK, Ownership, LifeCycle
<1>3. ExitMeansComplete' /\ SendLeavesNothing'
  BY DEF TypeOK, Ownership, ExitMeansComplete, SendLeavesNothing, LifeCycle
<1>4. LifeCycle' /\ HandlerOwnsRequest' /\ KeepsRequests' /\ KeepsClient' /\ HandlesItsOwn'
  BY DEF TypeOK, Ownership, LifeCycle, HandlerOwnsRequest, KeepsRequests, KeepsClient,
     HandlesItsOwn
<1>5. SenderOwnsConnection'
  BY DEF TypeOK, Ownership, ExitMeansComplete, LifeCycle, HandlerOwnsRequest, HandlesItsOwn,
     NoClosing, SenderOwnsConnection
<1>6. NoClosing' /\ CarefulIsSafe'
  BY DEF TypeOK, Ownership, NoClosing, CarefulIsSafe, SenderOwnsConnection,
     KeepsRequests, KeepsClient, HandlesItsOwn
<1>7. QED
  BY <1>1, <1>2, <1>3, <1>4, <1>5, <1>6

LEMMA UseFreedPreservesIInv ==
  ASSUME IInv, NEW r \in Requests, UseFreed(r)
  PROVE  IInv'
<1> USE RequestAssumption DEF IInv, UseFreed, AppRuns, request
<1>1. TypeOK'
  BY DEF TypeOK, EvreqStates, ConnStates, ObjectStates, LoopStates
<1>2. Ownership'
  BY DEF TypeOK, Ownership, LifeCycle
<1>3. ExitMeansComplete' /\ SendLeavesNothing'
  BY DEF TypeOK, Ownership, ExitMeansComplete, SendLeavesNothing, LifeCycle
<1>4. LifeCycle' /\ HandlerOwnsRequest' /\ KeepsRequests' /\ KeepsClient' /\ HandlesItsOwn'
  BY DEF TypeOK, Ownership, LifeCycle, HandlerOwnsRequest, KeepsRequests, KeepsClient,
     HandlesItsOwn
<1>5. SenderOwnsConnection'
  BY DEF TypeOK, Ownership, ExitMeansComplete, LifeCycle, HandlerOwnsRequest, HandlesItsOwn,
     NoClosing, SenderOwnsConnection
<1>6. NoClosing' /\ CarefulIsSafe'
  BY DEF TypeOK, Ownership, NoClosing, CarefulIsSafe, SenderOwnsConnection,
     KeepsRequests, KeepsClient, HandlesItsOwn
<1>7. QED
  BY <1>1, <1>2, <1>3, <1>4, <1>5, <1>6

LEMMA SendAgainPreservesIInv ==
  ASSUME IInv, NEW r \in Requests, SendAgain(r)
  PROVE  IInv'
<1> USE RequestAssumption DEF IInv, SendAgain, AppRuns, request
<1>1. TypeOK'
  BY DEF TypeOK, EvreqStates, ConnStates, ObjectStates, LoopStates
<1>2. Ownership'
  BY DEF TypeOK, Ownership, LifeCycle
<1>3. ExitMeansComplete' /\ SendLeavesNothing'
  BY DEF TypeOK, Ownership, ExitMeansComplete, SendLeavesNothing, LifeCycle
<1>4. LifeCycle' /\ HandlerOwnsRequest' /\ KeepsRequests' /\ KeepsClient' /\ HandlesItsOwn'
  BY DEF TypeOK, Ownership, LifeCycle, HandlerOwnsRequest, KeepsRequests, KeepsClient,
     HandlesItsOwn
<1>5. SenderOwnsConnection'
  BY DEF TypeOK, Ownership, ExitMeansComplete, LifeCycle, HandlerOwnsRequest, HandlesItsOwn,
     NoClosing, SenderOwnsConnection
<1>6. NoClosing' /\ CarefulIsSafe'
  BY DEF TypeOK, Ownership, NoClosing, CarefulIsSafe, SenderOwnsConnection,
     KeepsRequests, KeepsClient, HandlesItsOwn
<1>7. QED
  BY <1>1, <1>2, <1>3, <1>4, <1>5, <1>6

LEMMA UseAfterClientPreservesIInv ==
  ASSUME IInv, NEW r \in Requests, UseAfterClient(r)
  PROVE  IInv'
<1> USE RequestAssumption DEF IInv, UseAfterClient, AppRuns, request
<1>1. TypeOK'
  BY DEF TypeOK, EvreqStates, ConnStates, ObjectStates, LoopStates
<1>2. Ownership'
  BY DEF TypeOK, Ownership, LifeCycle
<1>3. ExitMeansComplete' /\ SendLeavesNothing'
  BY DEF TypeOK, Ownership, ExitMeansComplete, SendLeavesNothing, LifeCycle
<1>4. LifeCycle' /\ HandlerOwnsRequest' /\ KeepsRequests' /\ KeepsClient' /\ HandlesItsOwn'
  BY DEF TypeOK, Ownership, LifeCycle, HandlerOwnsRequest, KeepsRequests, KeepsClient,
     HandlesItsOwn
<1>5. SenderOwnsConnection'
  BY DEF TypeOK, Ownership, ExitMeansComplete, LifeCycle, HandlerOwnsRequest, HandlesItsOwn,
     NoClosing, SenderOwnsConnection
<1>6. NoClosing' /\ CarefulIsSafe'
  BY DEF TypeOK, Ownership, NoClosing, CarefulIsSafe, SenderOwnsConnection,
     KeepsRequests, KeepsClient, HandlesItsOwn
<1>7. QED
  BY <1>1, <1>2, <1>3, <1>4, <1>5, <1>6

LEMMA DestroyClientPreservesIInv ==
  ASSUME IInv, DestroyClient
  PROVE  IInv'
<1> USE RequestAssumption DEF IInv, DestroyClient, AppRuns, request
<1>1. TypeOK'
  BY DEF TypeOK, EvreqStates, ConnStates, ObjectStates, LoopStates
<1>2. Ownership'
  BY DEF TypeOK, Ownership, LifeCycle
<1>3. ExitMeansComplete' /\ SendLeavesNothing'
  BY DEF TypeOK, Ownership, ExitMeansComplete, SendLeavesNothing, LifeCycle
<1>4. LifeCycle' /\ HandlerOwnsRequest' /\ KeepsRequests' /\ KeepsClient' /\ HandlesItsOwn'
  BY DEF TypeOK, Ownership, LifeCycle, HandlerOwnsRequest, KeepsRequests, KeepsClient,
     HandlesItsOwn
<1>5. SenderOwnsConnection'
  BY DEF TypeOK, Ownership, ExitMeansComplete, LifeCycle, HandlerOwnsRequest, HandlesItsOwn,
     NoClosing, SenderOwnsConnection
<1>6. NoClosing' /\ CarefulIsSafe'
  BY DEF TypeOK, Ownership, NoClosing, CarefulIsSafe, SenderOwnsConnection,
     KeepsRequests, KeepsClient, HandlesItsOwn
<1>7. QED
  BY <1>1, <1>2, <1>3, <1>4, <1>5, <1>6

LEMMA PollPreservesIInv ==
  ASSUME IInv, NEW S \in SUBSET Requests, Poll(S)
  PROVE  IInv'
<1> USE RequestAssumption DEF IInv, Poll, Dispatching, request
<1>1. TypeOK'
  BY DEF TypeOK, EvreqStates, ConnStates, ObjectStates, LoopStates
<1>2. Ownership'
  BY DEF TypeOK, Ownership, LifeCycle
<1>3. ExitMeansComplete' /\ SendLeavesNothing'
  BY DEF TypeOK, Ownership, ExitMeansComplete, SendLeavesNothing, LifeCycle
<1>4. LifeCycle' /\ HandlerOwnsRequest' /\ KeepsRequests' /\ KeepsClient' /\ HandlesItsOwn'
  BY DEF TypeOK, Ownership, LifeCycle, HandlerOwnsRequest, KeepsRequests, KeepsClient,
     HandlesItsOwn
<1>5. SenderOwnsConnection'
  BY DEF TypeOK, Ownership, ExitMeansComplete, LifeCycle, HandlerOwnsRequest, HandlesItsOwn,
     NoClosing, SenderOwnsConnection
<1>6. NoClosing' /\ CarefulIsSafe'
  BY DEF TypeOK, Ownership, NoClosing, CarefulIsSafe, SenderOwnsConnection,
     KeepsRequests, KeepsClient, HandlesItsOwn
<1>7. QED
  BY <1>1, <1>2, <1>3, <1>4, <1>5, <1>6

LEMMA RespondPreservesIInv ==
  ASSUME IInv, NEW r \in Requests, Respond(r)
  PROVE  IInv'
<1> USE RequestAssumption DEF IInv, Respond, EnterHandler, Dispatching, AfterResponse
<1>1. TypeOK'
  BY DEF TypeOK, EvreqStates, ConnStates, ObjectStates, LoopStates
<1>2. Ownership'
  BY DEF TypeOK, Ownership, LifeCycle
<1>3. ExitMeansComplete' /\ SendLeavesNothing'
  BY DEF TypeOK, Ownership, ExitMeansComplete, SendLeavesNothing, LifeCycle
<1>4. LifeCycle' /\ HandlerOwnsRequest' /\ KeepsRequests' /\ KeepsClient' /\ HandlesItsOwn'
  BY DEF TypeOK, Ownership, LifeCycle, HandlerOwnsRequest, KeepsRequests, KeepsClient,
     HandlesItsOwn
<1>5. SenderOwnsConnection'
  BY DEF TypeOK, Ownership, ExitMeansComplete, LifeCycle, HandlerOwnsRequest, HandlesItsOwn,
     NoClosing, SenderOwnsConnection
<1>6. NoClosing' /\ CarefulIsSafe'
  BY DEF TypeOK, Ownership, NoClosing, CarefulIsSafe, SenderOwnsConnection,
     KeepsRequests, KeepsClient, HandlesItsOwn
<1>7. QED
  BY <1>1, <1>2, <1>3, <1>4, <1>5, <1>6

LEMMA ChunkPreservesIInv ==
  ASSUME IInv, NEW r \in Requests, Chunk(r)
  PROVE  IInv'
<1> USE RequestAssumption DEF IInv, Chunk, EnterHandler, Dispatching
<1>1. TypeOK'
  BY DEF TypeOK, EvreqStates, ConnStates, ObjectStates, LoopStates
<1>2. Ownership'
  BY DEF TypeOK, Ownership, LifeCycle
<1>3. ExitMeansComplete' /\ SendLeavesNothing'
  BY DEF TypeOK, Ownership, ExitMeansComplete, SendLeavesNothing, LifeCycle
<1>4. LifeCycle' /\ HandlerOwnsRequest' /\ KeepsRequests' /\ KeepsClient' /\ HandlesItsOwn'
  BY DEF TypeOK, Ownership, LifeCycle, HandlerOwnsRequest, KeepsRequests, KeepsClient,
     HandlesItsOwn
<1>5. SenderOwnsConnection'
  BY DEF TypeOK, Ownership, ExitMeansComplete, LifeCycle, HandlerOwnsRequest, HandlesItsOwn,
     NoClosing, SenderOwnsConnection
<1>6. NoClosing' /\ CarefulIsSafe'
  BY DEF TypeOK, Ownership, NoClosing, CarefulIsSafe, SenderOwnsConnection,
     KeepsRequests, KeepsClient, HandlesItsOwn
<1>7. QED
  BY <1>1, <1>2, <1>3, <1>4, <1>5, <1>6

LEMMA EnterOrphanPreservesIInv ==
  ASSUME IInv, NEW r \in Requests, EnterOrphan(r)
  PROVE  IInv'
<1> USE RequestAssumption DEF IInv, EnterOrphan, Dispatching, request
<1>1. TypeOK'
  BY DEF TypeOK, EvreqStates, ConnStates, ObjectStates, LoopStates
<1>2. Ownership'
  BY DEF TypeOK, Ownership, LifeCycle
<1>3. ExitMeansComplete' /\ SendLeavesNothing'
  BY DEF TypeOK, Ownership, ExitMeansComplete, SendLeavesNothing, LifeCycle
<1>4. LifeCycle' /\ HandlerOwnsRequest' /\ KeepsRequests' /\ KeepsClient' /\ HandlesItsOwn'
  BY DEF TypeOK, Ownership, LifeCycle, HandlerOwnsRequest, KeepsRequests, KeepsClient,
     HandlesItsOwn
<1>5. SenderOwnsConnection'
  BY DEF TypeOK, Ownership, ExitMeansComplete, LifeCycle, HandlerOwnsRequest, HandlesItsOwn,
     NoClosing, SenderOwnsConnection
<1>6. NoClosing' /\ CarefulIsSafe'
  BY DEF TypeOK, Ownership, NoClosing, CarefulIsSafe, SenderOwnsConnection,
     KeepsRequests, KeepsClient, HandlesItsOwn
<1>7. QED
  BY <1>1, <1>2, <1>3, <1>4, <1>5, <1>6

LEMMA FailPreservesIInv ==
  ASSUME IInv, NEW r \in Requests, Fail(r)
  PROVE  IInv'
<1> USE RequestAssumption DEF IInv, Fail, LeaveByException, Dispatching, ErrorHandle
<1>1. TypeOK'
  BY DEF TypeOK, EvreqStates, ConnStates, ObjectStates, LoopStates
<1>2. Ownership'
  BY DEF TypeOK, Ownership, LifeCycle
<1>3. ExitMeansComplete' /\ SendLeavesNothing'
  BY DEF TypeOK, Ownership, ExitMeansComplete, SendLeavesNothing, LifeCycle
<1>4. LifeCycle' /\ HandlerOwnsRequest' /\ KeepsRequests' /\ KeepsClient' /\ HandlesItsOwn'
  BY DEF TypeOK, Ownership, LifeCycle, HandlerOwnsRequest, KeepsRequests, KeepsClient,
     HandlesItsOwn
<1>5. SenderOwnsConnection'
  BY DEF TypeOK, Ownership, ExitMeansComplete, LifeCycle, HandlerOwnsRequest, HandlesItsOwn,
     NoClosing, SenderOwnsConnection
<1>6. NoClosing' /\ CarefulIsSafe'
  BY DEF TypeOK, Ownership, NoClosing, CarefulIsSafe, SenderOwnsConnection,
     KeepsRequests, KeepsClient, HandlesItsOwn
<1>7. QED
  BY <1>1, <1>2, <1>3, <1>4, <1>5, <1>6

LEMMA DataPreservesIInv ==
  ASSUME IInv, NEW r \in Requests, Data(r)
  PROVE  IInv'
<1> USE RequestAssumption DEF IInv, Data, Dispatching, request
<1>1. TypeOK'
  BY DEF TypeOK, EvreqStates, ConnStates, ObjectStates, LoopStates
<1>2. Ownership'
  BY DEF TypeOK, Ownership, LifeCycle
<1>3. ExitMeansComplete' /\ SendLeavesNothing'
  BY DEF TypeOK, Ownership, ExitMeansComplete, SendLeavesNothing, LifeCycle
<1>4. LifeCycle' /\ HandlerOwnsRequest' /\ KeepsRequests' /\ KeepsClient' /\ HandlesItsOwn'
  BY DEF TypeOK, Ownership, LifeCycle, HandlerOwnsRequest, KeepsRequests, KeepsClient,
     HandlesItsOwn
<1>5. SenderOwnsConnection'
  BY DEF TypeOK, Ownership, ExitMeansComplete, LifeCycle, HandlerOwnsRequest, HandlesItsOwn,
     NoClosing, SenderOwnsConnection
<1>6. NoClosing' /\ CarefulIsSafe'
  BY DEF TypeOK, Ownership, NoClosing, CarefulIsSafe, SenderOwnsConnection,
     KeepsRequests, KeepsClient, HandlesItsOwn
<1>7. QED
  BY <1>1, <1>2, <1>3, <1>4, <1>5, <1>6

LEMMA PeerClosesPreservesIInv ==
  ASSUME IInv, NEW r \in Requests, PeerCloses(r)
  PROVE  IInv'
<1> USE RequestAssumption DEF IInv, PeerCloses, Dispatching
<1>1. TypeOK'
  BY DEF TypeOK, EvreqStates, ConnStates, ObjectStates, LoopStates
<1>2. Ownership'
  BY DEF TypeOK, Ownership, LifeCycle
<1>3. ExitMeansComplete' /\ SendLeavesNothing'
  BY DEF TypeOK, Ownership, ExitMeansComplete, SendLeavesNothing, LifeCycle
<1>4. LifeCycle' /\ HandlerOwnsRequest' /\ KeepsRequests' /\ KeepsClient' /\ HandlesItsOwn'
  BY DEF TypeOK, Ownership, LifeCycle, HandlerOwnsRequest, KeepsRequests, KeepsClient,
     HandlesItsOwn
<1>5. SenderOwnsConnection'
  BY DEF TypeOK, Ownership, ExitMeansComplete, LifeCycle, HandlerOwnsRequest, HandlesItsOwn,
     NoClosing, SenderOwnsConnection
<1>6. NoClosing' /\ CarefulIsSafe'
  BY DEF TypeOK, Ownership, NoClosing, CarefulIsSafe, SenderOwnsConnection,
     KeepsRequests, KeepsClient, HandlesItsOwn
<1>7. QED
  BY <1>1, <1>2, <1>3, <1>4, <1>5, <1>6

LEMMA HandlerFinishesPreservesIInv ==
  ASSUME IInv, NEW r \in Requests, HandlerFinishes(r)
  PROVE  IInv'
<1> USE RequestAssumption DEF IInv, HandlerFinishes, LoopExit
<1>1. TypeOK'
  BY DEF TypeOK, EvreqStates, ConnStates, ObjectStates, LoopStates
<1>2. Ownership'
  BY DEF TypeOK, Ownership, LifeCycle
<1>3. ExitMeansComplete' /\ SendLeavesNothing'
  BY DEF TypeOK, Ownership, ExitMeansComplete, SendLeavesNothing, LifeCycle
<1>4. LifeCycle' /\ HandlerOwnsRequest' /\ KeepsRequests' /\ KeepsClient' /\ HandlesItsOwn'
  BY DEF TypeOK, Ownership, LifeCycle, HandlerOwnsRequest, KeepsRequests, KeepsClient,
     HandlesItsOwn
<1>5. SenderOwnsConnection'
  BY DEF TypeOK, Ownership, ExitMeansComplete, LifeCycle, HandlerOwnsRequest, HandlesItsOwn,
     NoClosing, SenderOwnsConnection
<1>6. NoClosing' /\ CarefulIsSafe'
  BY DEF TypeOK, Ownership, NoClosing, CarefulIsSafe, SenderOwnsConnection,
     KeepsRequests, KeepsClient, HandlesItsOwn
<1>7. QED
  BY <1>1, <1>2, <1>3, <1>4, <1>5, <1>6

LEMMA ChunkFinishesPreservesIInv ==
  ASSUME IInv, NEW r \in Requests, ChunkFinishes(r)
  PROVE  IInv'
<1> USE RequestAssumption DEF IInv, ChunkFinishes, request, AfterChunk
<1>1. TypeOK'
  BY DEF TypeOK, EvreqStates, ConnStates, ObjectStates, LoopStates
<1>2. Ownership'
  BY DEF TypeOK, Ownership, LifeCycle
<1>3. ExitMeansComplete' /\ SendLeavesNothing'
  BY DEF TypeOK, Ownership, ExitMeansComplete, SendLeavesNothing, LifeCycle
<1>4. LifeCycle' /\ HandlerOwnsRequest' /\ KeepsRequests' /\ KeepsClient' /\ HandlesItsOwn'
  BY DEF TypeOK, Ownership, LifeCycle, HandlerOwnsRequest, KeepsRequests, KeepsClient,
     HandlesItsOwn
<1>5. SenderOwnsConnection'
  BY DEF TypeOK, Ownership, ExitMeansComplete, LifeCycle, HandlerOwnsRequest, HandlesItsOwn,
     NoClosing, SenderOwnsConnection
<1>6. NoClosing' /\ CarefulIsSafe'
  BY DEF TypeOK, Ownership, NoClosing, CarefulIsSafe, SenderOwnsConnection,
     KeepsRequests, KeepsClient, HandlesItsOwn
<1>7. QED
  BY <1>1, <1>2, <1>3, <1>4, <1>5, <1>6

LEMMA HandlerOrphanedPreservesIInv ==
  ASSUME IInv, NEW r \in Requests, HandlerOrphaned(r)
  PROVE  IInv'
<1> USE RequestAssumption DEF IInv, HandlerOrphaned, request
<1>1. TypeOK'
  BY DEF TypeOK, EvreqStates, ConnStates, ObjectStates, LoopStates
<1>2. Ownership'
  BY DEF TypeOK, Ownership, LifeCycle
<1>3. ExitMeansComplete' /\ SendLeavesNothing'
  BY DEF TypeOK, Ownership, ExitMeansComplete, SendLeavesNothing, LifeCycle
<1>4. LifeCycle' /\ HandlerOwnsRequest' /\ KeepsRequests' /\ KeepsClient' /\ HandlesItsOwn'
  BY DEF TypeOK, Ownership, LifeCycle, HandlerOwnsRequest, KeepsRequests, KeepsClient,
     HandlesItsOwn
<1>5. SenderOwnsConnection'
  BY DEF TypeOK, Ownership, ExitMeansComplete, LifeCycle, HandlerOwnsRequest, HandlesItsOwn,
     NoClosing, SenderOwnsConnection
<1>6. NoClosing' /\ CarefulIsSafe'
  BY DEF TypeOK, Ownership, NoClosing, CarefulIsSafe, SenderOwnsConnection,
     KeepsRequests, KeepsClient, HandlesItsOwn
<1>7. QED
  BY <1>1, <1>2, <1>3, <1>4, <1>5, <1>6

LEMMA HandlerThrowsPreservesIInv ==
  ASSUME IInv, NEW r \in Requests, HandlerThrows(r)
  PROVE  IInv'
<1> USE RequestAssumption DEF IInv, HandlerThrows, LeaveByException
<1>1. TypeOK'
  BY DEF TypeOK, EvreqStates, ConnStates, ObjectStates, LoopStates
<1>2. Ownership'
  BY DEF TypeOK, Ownership, LifeCycle
<1>3. ExitMeansComplete' /\ SendLeavesNothing'
  BY DEF TypeOK, Ownership, ExitMeansComplete, SendLeavesNothing, LifeCycle
<1>4. LifeCycle' /\ HandlerOwnsRequest' /\ KeepsRequests' /\ KeepsClient' /\ HandlesItsOwn'
  BY DEF TypeOK, Ownership, LifeCycle, HandlerOwnsRequest, KeepsRequests, KeepsClient,
     HandlesItsOwn
<1>5. SenderOwnsConnection'
  BY DEF TypeOK, Ownership, ExitMeansComplete, LifeCycle, HandlerOwnsRequest, HandlesItsOwn,
     NoClosing, SenderOwnsConnection
<1>6. NoClosing' /\ CarefulIsSafe'
  BY DEF TypeOK, Ownership, NoClosing, CarefulIsSafe, SenderOwnsConnection,
     KeepsRequests, KeepsClient, HandlesItsOwn
<1>7. QED
  BY <1>1, <1>2, <1>3, <1>4, <1>5, <1>6

LEMMA WaitReturnsPreservesIInv ==
  ASSUME IInv, WaitReturns
  PROVE  IInv'
<1> USE RequestAssumption DEF IInv, WaitReturns, Dispatching, request
<1>1. TypeOK'
  BY DEF TypeOK, EvreqStates, ConnStates, ObjectStates, LoopStates
<1>2. Ownership'
  BY DEF TypeOK, Ownership, LifeCycle
<1>3. ExitMeansComplete' /\ SendLeavesNothing'
  BY DEF TypeOK, Ownership, ExitMeansComplete, SendLeavesNothing, LifeCycle
<1>4. LifeCycle' /\ HandlerOwnsRequest' /\ KeepsRequests' /\ KeepsClient' /\ HandlesItsOwn'
  BY DEF TypeOK, Ownership, LifeCycle, HandlerOwnsRequest, KeepsRequests, KeepsClient,
     HandlesItsOwn
<1>5. SenderOwnsConnection'
  BY DEF TypeOK, Ownership, ExitMeansComplete, LifeCycle, HandlerOwnsRequest, HandlesItsOwn,
     NoClosing, SenderOwnsConnection
<1>6. NoClosing' /\ CarefulIsSafe'
  BY DEF TypeOK, Ownership, NoClosing, CarefulIsSafe, SenderOwnsConnection,
     KeepsRequests, KeepsClient, HandlesItsOwn
<1>7. QED
  BY <1>1, <1>2, <1>3, <1>4, <1>5, <1>6

LEMMA SendReturnsPreservesIInv ==
  ASSUME IInv, NEW r \in Requests, SendReturns(r)
  PROVE  IInv'
<1> USE RequestAssumption DEF IInv, SendReturns, Dispatching, FreeConnection
<1>1. TypeOK'
  BY DEF TypeOK, EvreqStates, ConnStates, ObjectStates, LoopStates
<1>2. Ownership'
  BY DEF TypeOK, Ownership, LifeCycle
<1>3. ExitMeansComplete' /\ SendLeavesNothing'
  <2>1. evreq[r] \in {"queued", "freed"}
    BY DEF TypeOK, Ownership, LifeCycle
  <2>2. evreq'[r] = "freed" /\ conn'[r] = "freed"
    BY <2>1 DEF TypeOK
  <2>3. \A q \in Requests \ {r} :
          evreq'[q] = evreq[q] /\ conn'[q] = conn[q] /\ outcome'[q] = outcome[q]
    BY DEF TypeOK
  <2>4. QED
    BY <2>2, <2>3 DEF ExitMeansComplete, SendLeavesNothing
<1>4. LifeCycle' /\ HandlerOwnsRequest' /\ KeepsRequests' /\ KeepsClient' /\ HandlesItsOwn'
  BY DEF TypeOK, Ownership, LifeCycle, HandlerOwnsRequest, KeepsRequests, KeepsClient,
     HandlesItsOwn
<1>5. SenderOwnsConnection'
  BY DEF TypeOK, Ownership, ExitMeansComplete, LifeCycle, HandlerOwnsRequest, HandlesItsOwn,
     NoClosing, SenderOwnsConnection
<1>6. NoClosing' /\ CarefulIsSafe'
  BY DEF TypeOK, Ownership, NoClosing, CarefulIsSafe, SenderOwnsConnection,
     KeepsRequests, KeepsClient, HandlesItsOwn
<1>7. QED
  BY <1>1, <1>2, <1>3, <1>4, <1>5, <1>6

LEMMA StutterPreservesIInv ==
  ASSUME IInv, UNCHANGED vars
  PROVE  IInv'
  BY DEF IInv, vars, request, TypeOK, Ownership, ExitMeansComplete, SendLeavesNothing, LifeCycle,
     HandlerOwnsRequest, KeepsRequests, KeepsClient, HandlesItsOwn, SenderOwnsConnection, NoClosing,
     CarefulIsSafe

LEMMA NextPreservesIInv == IInv /\ [Next]_vars => IInv'
<1> SUFFICES ASSUME IInv, [Next]_vars PROVE IInv'
  OBVIOUS
<1>1. ASSUME NEW r \in Requests, AppStep(r) PROVE IInv'
  BY <1>1, CreateRequestPreservesIInv, SendAsyncPreservesIInv, SendFailsPreservesIInv,
     SendBlocksPreservesIInv, SendRefusedPreservesIInv, WaitPreservesIInv,
     CancelNewPreservesIInv, CancelQueuedPreservesIInv, DropPreservesIInv,
     UseFreedPreservesIInv, SendAgainPreservesIInv, UseAfterClientPreservesIInv DEF AppStep
<1>2. ASSUME NEW r \in Requests, EventStep(r) PROVE IInv'
  BY <1>2, RespondPreservesIInv, ChunkPreservesIInv, DataPreservesIInv,
     EnterOrphanPreservesIInv, FailPreservesIInv, PeerClosesPreservesIInv DEF EventStep
<1>3. ASSUME NEW r \in Requests, HandlerEnds(r) PROVE IInv'
  BY <1>3, HandlerFinishesPreservesIInv, ChunkFinishesPreservesIInv,
     HandlerOrphanedPreservesIInv, HandlerThrowsPreservesIInv DEF HandlerEnds
<1>4. ASSUME NEW S \in SUBSET Requests, Poll(S) PROVE IInv'
  BY <1>4, PollPreservesIInv
<1>5. CASE DispatchReturns
  BY <1>5, WaitReturnsPreservesIInv, SendReturnsPreservesIInv DEF DispatchReturns
<1>6. CASE DestroyClient
  BY <1>6, DestroyClientPreservesIInv
<1>7. CASE UNCHANGED vars
  BY <1>7, StutterPreservesIInv
<1>8. QED
  BY <1>1, <1>2, <1>3, <1>4, <1>5, <1>6, <1>7 DEF Next

-----------------------------------------------------------------------------
\* Every reachable state satisfies the inductive invariant.
THEOREM Invariance == Spec => []IInv
  BY InitIInv, NextPreservesIInv, PTL DEF Spec

\* The variables keep their types.
THEOREM TypeCorrect == Spec => []TypeOK
<1>1. IInv => TypeOK
  BY DEF IInv
<1>2. QED
  BY <1>1, Invariance, PTL

\* Requests, connections, handlers and active events belong together as the code assumes,
\* for every application, careful or not.
THEOREM OwnershipHolds == Spec => []Ownership
<1>1. IInv => Ownership
  BY DEF IInv
<1>2. QED
  BY <1>1, Invariance, PTL

\* Only completed requests end a dispatch.
THEOREM ExitsComplete == Spec => []ExitMeansComplete
<1>1. IInv => ExitMeansComplete
  BY DEF IInv
<1>2. QED
  BY <1>1, Invariance, PTL

\* A Send that returns has released its request and its connection.
THEOREM SendsLeaveNothing == Spec => []SendLeavesNothing
<1>1. IInv => SendLeavesNothing
  BY DEF IInv
<1>2. QED
  BY <1>1, Invariance, PTL

\* A careful application's Send never blocks for a request that is gone.
THEOREM SendersServed == Careful /\ Spec => []SenderIsServed
<1>1. Careful /\ IInv => SenderIsServed
  BY DEF IInv, TypeOK, SenderOwnsConnection, SenderIsServed
<1>2. QED
  <2>1. CASE Careful
    <3>1. IInv => SenderIsServed
      BY <1>1, <2>1
    <3>2. QED
      BY <3>1, Invariance, PTL
  <2>2. CASE ~Careful
    BY <2>2
  <2>3. QED
    BY <2>1, <2>2

\* A careful application and servers that keep connections alive: no memory error.
THEOREM CarefulClientsSafe == Careful /\ ~ServerCloses /\ Spec => []NoFault
<1>1. Careful /\ ~ServerCloses /\ IInv => NoFault
  BY DEF IInv, CarefulIsSafe, NoFault
<1>2. CASE Careful /\ ~ServerCloses
  <2>1. IInv => NoFault
    BY <1>1, <1>2
  <2>2. QED
    BY <2>1, Invariance, PTL
<1>3. CASE ~(Careful /\ ~ServerCloses)
  BY <1>3
<1>4. QED
  BY <1>2, <1>3

\* A Send returns without its response only if another request ended its dispatch or the
\* base did not run for it.
THEOREM UndeliveredHasACause == Spec => UndeliveredHasCause
<1> DEFINE Cause(r) == outcome[r] = "none" /\ outcome'[r] = "returned" /\ ~complete[r] =>
                          exits \ {r} # {} \/ loop = "stuck" \/ handler # NoRequest
<1>1. ASSUME IInv, [Next]_vars, NEW r \in Requests PROVE Cause(r)
  <2> USE <1>1 DEF IInv, TypeOK
  <2>1. ASSUME NEW q \in Requests, AppStep(q) PROVE Cause(r)
    <3>1. CASE SendRefused(q)
      BY <3>1 DEF SendRefused, CanSend, AppRuns, Accepts, LoopStates
    <3>2. CASE ~SendRefused(q)
      BY <2>1, <3>2 DEF AppStep, CreateRequest, SendAsync, SendFails, SendBlocks, Wait, CancelNew,
         CancelQueued, Drop, UseFreed, SendAgain, UseAfterClient, request, Queue, Accepts, Destructor
    <3>3. QED
      BY <3>1, <3>2
  <2>2. ASSUME NEW q \in Requests, EventStep(q) \/ HandlerEnds(q) PROVE Cause(r)
    BY <2>2 DEF EventStep, Respond, Chunk, EnterHandler, Data, EnterOrphan, Fail, PeerCloses,
       HandlerEnds, HandlerFinishes, ChunkFinishes, HandlerOrphaned, HandlerThrows,
       LeaveByException, request, ErrorHandle, AfterChunk
  <2>3. ASSUME NEW q \in Requests, SendReturns(q) PROVE Cause(r)
    BY <2>3 DEF SendReturns, ExitMeansComplete, FreeConnection
  <2>4. ASSUME WaitReturns \/ DestroyClient \/ (\E S \in SUBSET Requests : Poll(S))
        PROVE  Cause(r)
    BY <2>4 DEF WaitReturns, DestroyClient, Poll, request
  <2>5. CASE UNCHANGED vars
    BY <2>5 DEF vars, request
  <2>6. QED
    BY <2>1, <2>2, <2>3, <2>4, <2>5 DEF Next, DispatchReturns
<1>2. IInv /\ [Next]_vars => [\A r \in Requests : Cause(r)]_vars
  BY <1>1
<1>3. QED
  BY <1>2, Invariance, PTL DEF Spec, UndeliveredHasCause

\* One exception out of the loop is the end of the client: nothing is dispatched again.
THEOREM StuckIsForGood == Spec => StuckForGood
<1> DEFINE Stuck == loop = "stuck" => loop' \in {"stuck", "destroyed"} /\ handler' = NoRequest
                                      /\ complete' = complete
<1>1. ASSUME IInv, [Next]_vars PROVE Stuck
  <2> SUFFICES ASSUME loop = "stuck"
               PROVE  loop' \in {"stuck", "destroyed"} /\ handler' = NoRequest
                      /\ complete' = complete
    OBVIOUS
  <2>1. handler = NoRequest
    BY <1>1 DEF IInv, Ownership
  <2>2. ASSUME NEW r \in Requests, AppStep(r) PROVE UNCHANGED <<loop, handler, complete>>
    BY <2>2 DEF AppStep, CreateRequest, SendAsync, SendFails, SendBlocks, SendRefused, Wait,
       CancelNew, CancelQueued, Drop, UseFreed, SendAgain, UseAfterClient, request, Queue, Accepts, Destructor
  <2>3. ~Dispatching
    BY DEF Dispatching
  <2>4. \A r \in Requests : ~EventStep(r)
    BY <2>3 DEF EventStep, Respond, Chunk, EnterHandler, Data, EnterOrphan, Fail, PeerCloses
  <2>5. \A r \in Requests : ~HandlerEnds(r)
    BY <2>1, RequestAssumption
       DEF HandlerEnds, HandlerFinishes, ChunkFinishes, HandlerOrphaned, HandlerThrows, AfterChunk
  <2>6. ~DispatchReturns /\ \A S \in SUBSET Requests : ~Poll(S)
    BY <2>3 DEF DispatchReturns, WaitReturns, SendReturns, Poll, FreeConnection
  <2>7. CASE DestroyClient
    BY <2>1, <2>7 DEF DestroyClient, request
  <2>8. CASE UNCHANGED vars
    BY <2>1, <2>8 DEF vars, request
  <2>9. QED
    BY <1>1, <2>1, <2>2, <2>4, <2>5, <2>6, <2>7, <2>8 DEF Next
<1>2. IInv /\ [Next]_vars => [Stuck]_vars
  BY <1>1
<1>3. QED
  BY <1>2, Invariance, PTL DEF Spec, StuckForGood

-----------------------------------------------------------------------------
(* The refinement: every step of the client is a step of the contract, or  *)
(* changes nothing of it.                                                  *)

Phases == [r \in Requests |-> RequestPhase(r)]

\* A step that touches one request changes one phase.
LEMMA PhaseOfOne ==
  ASSUME IInv, NEW r \in Requests,
         \A q \in Requests \ {r} : evreq'[q] = evreq[q] /\ complete'[q] = complete[q]
  PROVE  Phases' = [Phases EXCEPT ![r] = RequestPhase(r)']
  BY DEF IInv, TypeOK, Phases, RequestPhase

\* The application makes, sends and gives requests up.
LEMMA CallsKeepContract ==
  ASSUME IInv, NEW r \in Requests, AppStep(r)
  PROVE  Contract!Next \/ UNCHANGED <<Phases, handler, Service>>
<1> USE DEF IInv, TypeOK
<1>1. CASE CreateRequest(r)
  <2>1. Phases[r] = "idle" /\ RequestPhase(r)' = "made" /\ UNCHANGED <<handler, Service>>
    BY <1>1 DEF CreateRequest, LifeCycle, Phases, RequestPhase, Service
  <2>2. Phases' = [Phases EXCEPT ![r] = RequestPhase(r)']
    BY <1>1, PhaseOfOne DEF CreateRequest
  <2>3. Contract!Make(r)
    BY <2>1, <2>2 DEF Contract!Make, Phases
  <2>4. QED
    BY <2>3 DEF Contract!Next
<1>2. CASE SendAsync(r) \/ SendBlocks(r)
  <2>1. Phases[r] = "made" /\ RequestPhase(r)' = "waiting" /\ UNCHANGED <<handler, Service>>
    BY <1>2 DEF SendAsync, SendBlocks, CanSend, Phases, RequestPhase, Queue, Accepts, Service
  <2>2. Phases' = [Phases EXCEPT ![r] = RequestPhase(r)']
    BY <1>2, PhaseOfOne DEF SendAsync, SendBlocks, Queue, Accepts
  <2>3. Contract!Submit(r)
    BY <2>1, <2>2 DEF Contract!Submit, Phases
  <2>4. QED
    BY <2>3 DEF Contract!Next
<1>3. CASE SendFails(r) \/ SendRefused(r) \/ CancelNew(r) \/ CancelQueued(r)
  <2>1. UNCHANGED <<handler, complete, Service>>
    BY <1>3 DEF SendFails, SendRefused, CancelNew, CancelQueued, CanSend, Accepts, Service
  <2>2. evreq[r] \in {"new", "lost", "queued", "failed"} /\ evreq'[r] \in {"failed", "freed"}
    BY <1>3 DEF SendFails, SendRefused, CancelNew, CancelQueued, CanSend, Accepts
  <2>3. Phases[r] \in {"made", "waiting", "over"} /\ RequestPhase(r)' = "over"
    BY <2>1, <2>2 DEF ExitMeansComplete, Phases, RequestPhase
  <2>4. Phases' = [Phases EXCEPT ![r] = RequestPhase(r)']
    BY <1>3, PhaseOfOne DEF SendFails, SendRefused, CancelNew, CancelQueued, Accepts
  <2>5. CASE Phases[r] = "over"
    BY <2>1, <2>3, <2>4, <2>5 DEF Phases
  <2>6. CASE Phases[r] # "over"
    <3>1. Contract!GiveUp(r)
      BY <2>1, <2>3, <2>4, <2>6 DEF Contract!GiveUp, Phases
    <3>2. QED
      BY <3>1 DEF Contract!Next
  <2>7. QED
    BY <2>5, <2>6
<1>4. CASE Wait(r) \/ Drop(r) \/ UseFreed(r) \/ SendAgain(r) \/ UseAfterClient(r)
  BY <1>4 DEF Wait, Drop, UseFreed, SendAgain, UseAfterClient, request, Phases, RequestPhase,
     Accepts, Destructor, Service
<1>5. QED
  BY <1>1, <1>2, <1>3, <1>4 DEF AppStep

\* The loop calls handlers and gives failed requests up.
LEMMA EventsKeepContract ==
  ASSUME IInv, NEW r \in Requests, EventStep(r)
  PROVE  Contract!Next \/ UNCHANGED <<Phases, handler, Service>>
<1> USE DEF IInv, TypeOK
<1>1. CASE Respond(r)
  <2>1. Phases[r] = "waiting" /\ RequestPhase(r)' = "answering"
    BY <1>1 DEF Respond, EnterHandler, Phases, RequestPhase
  <2>2. Phases' = [Phases EXCEPT ![r] = RequestPhase(r)']
    BY <1>1, PhaseOfOne DEF Respond, EnterHandler
  <2>3. handler = NoRequest /\ handler' = r /\ Service = "open" /\ UNCHANGED Service
    BY <1>1 DEF Respond, EnterHandler, Dispatching, Service
  <2>4. Contract!Call(r, TRUE)
    BY <2>1, <2>2, <2>3 DEF Contract!Call, Phases
  <2>5. QED
    BY <2>4 DEF Contract!Next
<1>2. CASE Chunk(r)
  <2>1. Phases[r] = "waiting" /\ UNCHANGED Phases
    BY <1>2 DEF Chunk, EnterHandler, Phases, RequestPhase
  <2>2. handler = NoRequest /\ handler' = r /\ Service = "open" /\ UNCHANGED Service
    BY <1>2 DEF Chunk, EnterHandler, Dispatching, Service
  <2>3. Contract!Call(r, FALSE)
    BY <2>1, <2>2 DEF Contract!Call, Phases
  <2>4. QED
    BY <2>3 DEF Contract!Next
<1>3. CASE Fail(r)
  <2>1. evreq[r] = "queued" /\ evreq'[r] = "freed" /\ UNCHANGED <<handler, complete>>
    BY <1>3 DEF Fail, ErrorHandle, LeaveByException
  <2>2. Phases[r] = "waiting" /\ RequestPhase(r)' = "over"
    BY <2>1 DEF ExitMeansComplete, Phases, RequestPhase
  <2>3. Phases' = [Phases EXCEPT ![r] = RequestPhase(r)']
    BY <1>3, PhaseOfOne DEF Fail, ErrorHandle, LeaveByException
  <2>4. handler = NoRequest /\ Service = "open" /\ Service' = "ended"
    BY <1>3 DEF Fail, ErrorHandle, LeaveByException, Dispatching, Service
  <2>5. Contract!Fail(r)
    BY <2>1, <2>2, <2>3, <2>4 DEF Contract!Fail, Phases
  <2>6. QED
    BY <2>5 DEF Contract!Next
<1>4. CASE Data(r) \/ EnterOrphan(r) \/ PeerCloses(r)
  BY <1>4 DEF Data, EnterOrphan, PeerCloses, request, Phases, RequestPhase, Service
<1>5. QED
  BY <1>1, <1>2, <1>3, <1>4 DEF EventStep

\* Handlers end.
LEMMA HandlersKeepContract ==
  ASSUME IInv, NEW r \in Requests, HandlerEnds(r)
  PROVE  Contract!Next \/ UNCHANGED <<Phases, handler, Service>>
<1> USE DEF IInv, TypeOK
<1>1. CASE HandlerFinishes(r)
  <2>1. Phases[r] = "answering" /\ RequestPhase(r)' = "answered"
    BY <1>1 DEF HandlerFinishes, Phases, RequestPhase
  <2>2. Phases' = [Phases EXCEPT ![r] = RequestPhase(r)']
    BY <1>1, PhaseOfOne DEF HandlerFinishes
  <2>3. Service = "open" /\ UNCHANGED Service
    BY <1>1 DEF HandlerFinishes, Service
  <2>4. Contract!Return(r)
    BY <1>1, <2>1, <2>2, <2>3 DEF HandlerFinishes, Contract!Return, Phases
  <2>5. QED
    BY <2>4 DEF Contract!Next
<1>2. CASE ChunkFinishes(r)
  <2>1. Phases[r] # "answering" /\ UNCHANGED Phases
    BY <1>2 DEF ChunkFinishes, request, Phases, RequestPhase, AfterChunk
  <2>2. Service = "open" /\ UNCHANGED Service
    BY <1>2 DEF ChunkFinishes, Service, AfterChunk
  <2>3. Contract!Return(r)
    BY <1>2, <2>1, <2>2 DEF ChunkFinishes, Contract!Return, Phases, AfterChunk
  <2>4. QED
    BY <2>3 DEF Contract!Next
<1>3. CASE HandlerThrows(r)
  <2>1. RequestPhase(r)' = IF Phases[r] = "answering" THEN "made" ELSE Phases[r]
    BY <1>3 DEF HandlerThrows, ExitMeansComplete, Phases, RequestPhase
  <2>2. Phases' = [Phases EXCEPT ![r] = RequestPhase(r)']
    BY <1>3, PhaseOfOne DEF HandlerThrows
  <2>3. Service' = "ended"
    BY <1>3 DEF HandlerThrows, LeaveByException, Service
  <2>4. Contract!Throw(r)
    BY <1>3, <2>1, <2>2, <2>3 DEF HandlerThrows, Contract!Throw, Phases
  <2>5. QED
    BY <2>4 DEF Contract!Next
<1>4. CASE HandlerOrphaned(r)
  BY <1>4 DEF HandlerOrphaned, request, Phases, RequestPhase, Service
<1>5. QED
  BY <1>1, <1>2, <1>3, <1>4 DEF HandlerEnds

\* A Send that returns gives up its request if it is still waiting.
LEMMA SendReturnsKeepsContract ==
  ASSUME IInv, NEW r \in Requests, SendReturns(r)
  PROVE  Contract!Next \/ UNCHANGED <<Phases, handler, Service>>
<1> USE DEF IInv, TypeOK
<1>1. Phases' = [Phases EXCEPT ![r] = RequestPhase(r)']
  BY PhaseOfOne DEF SendReturns, FreeConnection
<1>2. UNCHANGED <<handler, Service>>
  BY DEF SendReturns, Dispatching, FreeConnection, Service
<1>3. CASE evreq[r] = "queued"
  <2>1. Phases[r] = "waiting" /\ RequestPhase(r)' = "over"
    BY <1>3 DEF SendReturns, ExitMeansComplete, Phases, RequestPhase, FreeConnection
  <2>2. Contract!GiveUp(r)
    BY <1>1, <1>2, <2>1 DEF Contract!GiveUp, Phases
  <2>3. QED
    BY <2>2 DEF Contract!Next
<1>4. CASE evreq[r] # "queued"
  BY <1>2, <1>4 DEF SendReturns, Phases, RequestPhase, FreeConnection
<1>5. QED
  BY <1>3, <1>4

\* For every application, careful or not, handlers are called as RequestContract says.
THEOREM ClientKeepsContract == Spec => ContractSpec
<1>1. Init => Contract!Init
  BY DEF Init, Contract!Init, RequestPhase, Service
<1>2. IInv /\ [Next]_vars => [Contract!Next]_(Contract!vars)
  <2> SUFFICES ASSUME IInv, [Next]_vars
               PROVE  Contract!Next \/ UNCHANGED <<Phases, handler, Service>>
    BY DEF Contract!vars, Phases
  <2>1. ASSUME NEW r \in Requests, AppStep(r) \/ EventStep(r) \/ HandlerEnds(r)
        PROVE  Contract!Next \/ UNCHANGED <<Phases, handler, Service>>
    BY <2>1, CallsKeepContract, EventsKeepContract, HandlersKeepContract
  <2>2. ASSUME NEW r \in Requests, SendReturns(r)
        PROVE  Contract!Next \/ UNCHANGED <<Phases, handler, Service>>
    BY <2>2, SendReturnsKeepsContract
  <2>3. ASSUME WaitReturns \/ (\E S \in SUBSET Requests : Poll(S))
        PROVE  UNCHANGED <<Phases, handler, Service>>
    BY <2>3 DEF WaitReturns, Poll, Dispatching, request, Phases, RequestPhase, Service
  <2>4. CASE DestroyClient
    <3>1. UNCHANGED <<Phases, handler>> /\ Service' = "ended"
      BY <2>4 DEF DestroyClient, request, Phases, RequestPhase, Service
    <3>2. Contract!Close
      BY <3>1 DEF Contract!Close, Phases
    <3>3. QED
      BY <3>2 DEF Contract!Next
  <2>5. CASE UNCHANGED vars
    BY <2>5 DEF vars, request, Phases, RequestPhase, Service
  <2>6. QED
    BY <2>1, <2>2, <2>3, <2>4, <2>5 DEF Next, DispatchReturns
<1>3. QED
  BY <1>1, <1>2, Invariance, PTL DEF Spec, ContractSpec, Contract!Spec
=============================================================================
