-------------------------- MODULE ServerReply_proofs --------------------------
(***************************************************************************)
(* Proofs about ServerReply, for any set of requests and any MaxChunks:    *)
(* its type invariant and safety invariants, its action property, and that *)
(* it implements ReplyContract.                                            *)
(***************************************************************************)
EXTENDS ServerReply, SequenceTheorems, TLAPS

\* What a chunk callback may produce is a sequence of kinds.
LEMMA SourcesAreSeqs == Sources \subseteq Seq(Kinds)
<1>1. \A src \in Sources : \E n \in 0 .. MaxChunks : src \in [1 .. n -> Kinds]
  BY DEF Sources, BoundedSeq, SeqOf
<1>2. 0 .. MaxChunks \subseteq Nat
  BY MaxChunksAssumption
<1>3. QED
  BY <1>1, <1>2, SeqDef

(* How the request, the timer and the flags of one reply hang together.    *)
LifeCycle ==
    \A r \in Requests :
        /\ evreq[r] = "none" => timer[r] = "none" /\ ~userdone[r]
        /\ timer[r] = "none" => source[r] = << >> /\ stream[r] = << >> /\ pos[r] = 0
        /\ evreq[r] = "detached" => ~userdone[r]
        /\ complete[r] => userdone[r] /\ evreq[r] = "freed"
        /\ userdone[r] => pos[r] = Len(source[r])

\* The inductive invariant.
IInv == TypeOK /\ LifeCycle /\ TimerGuardsReply /\ StreamFaithful

LEMMA InitIInv == Init => IInv
<1> SUFFICES ASSUME Init PROVE IInv
  OBVIOUS
<1>1. TypeOK
  BY DEF Init, TypeOK, LoopStates
<1>2. LifeCycle
  BY DEF Init, LifeCycle
<1>3. TimerGuardsReply
  BY DEF Init, TimerGuardsReply, Live
<1>4. StreamFaithful
  BY DEF Init, StreamFaithful, Faithful, Ordered, DataIn, Range
<1>5. QED
  BY <1>1, <1>2, <1>3, <1>4 DEF IInv

(* A step that leaves the sources and what was pulled and written as they  *)
(* are, and abandons no reply, keeps the stream faithful.                  *)
LEMMA StreamUntouched ==
  ASSUME StreamFaithful,
         UNCHANGED <<source, pos, stream>>,
         \A r \in Requests :
            evreq[r] = "freed" /\ ~userdone[r] => evreq'[r] = "freed" /\ ~userdone'[r]
  PROVE  StreamFaithful'
  BY DEF StreamFaithful, Faithful, Ordered, DataIn

LEMMA RepliesPreserveIInv ==
  ASSUME IInv, NEW r \in Requests, NEW keep \in BOOLEAN,
         HandlerReplies(r, keep) \/ HandlerEscapes(r, keep)
  PROVE  IInv'
<1> USE DEF IInv
<1>1. TypeOK'
  BY DEF TypeOK, HandlerReplies, HandlerEscapes, Register, SendReply, LoopStates
<1>2. LifeCycle'
  BY DEF TypeOK, LifeCycle, HandlerReplies, HandlerEscapes, Register, SendReply
<1>3. TimerGuardsReply'
  BY DEF TypeOK, LifeCycle, TimerGuardsReply, Live, HandlerReplies, HandlerEscapes, Register, SendReply
<1>4. StreamFaithful'
  BY StreamUntouched DEF TypeOK, HandlerReplies, HandlerEscapes, Register, SendReply
<1>5. QED
  BY <1>1, <1>2, <1>3, <1>4

LEMMA StreamsPreservesIInv ==
  ASSUME IInv, NEW r \in Requests, NEW keep \in BOOLEAN, NEW src \in Sources,
         HandlerStreams(r, keep, src)
  PROVE  IInv'
<1> USE DEF IInv
<1>0. src \in Seq(Kinds) /\ source[r] = << >> /\ stream[r] = << >> /\ pos[r] = 0 /\ ~userdone[r]
  BY SourcesAreSeqs DEF LifeCycle, HandlerStreams, Register
<1>1. TypeOK'
  BY <1>0 DEF TypeOK, HandlerStreams, Register, SendReplyStart, LoopStates
<1>2. LifeCycle'
  BY <1>0 DEF TypeOK, LifeCycle, HandlerStreams, Register, SendReplyStart
<1>3. TimerGuardsReply'
  BY <1>0 DEF TypeOK, TimerGuardsReply, Live, HandlerStreams, Register, SendReplyStart
<1>4. StreamFaithful'
  BY <1>0 DEF TypeOK, StreamFaithful, Faithful, Ordered, DataIn, Range, HandlerStreams, Register, SendReplyStart
<1>5. QED
  BY <1>1, <1>2, <1>3, <1>4

(* A number larger than all those in an ordered sequence can be appended.  *)
LEMMA AppendLarger ==
  ASSUME NEW s \in Seq(Nat), NEW e \in Nat, Ordered(s), \A n \in Range(s) : n < e
  PROVE  Range(Append(s, e)) = Range(s) \cup {e} /\ Ordered(Append(s, e))
<1>1. /\ DOMAIN s = 1 .. Len(s) /\ Len(s) \in Nat
      /\ DOMAIN Append(s, e) = 1 .. Len(s) + 1
      /\ \A i \in 1 .. Len(s) : Append(s, e)[i] = s[i] /\ s[i] \in Nat
      /\ Append(s, e)[Len(s) + 1] = e
  OBVIOUS
<1>2. DOMAIN Append(s, e) = DOMAIN s \cup {Len(s) + 1}
  BY <1>1
<1>3. Range(Append(s, e)) = Range(s) \cup {e}
  BY <1>1, <1>2 DEF Range
<1>4. \A i \in 1 .. Len(s) : s[i] < e
  BY <1>1 DEF Range
<1>5. Ordered(Append(s, e))
  BY <1>1, <1>4 DEF Ordered
<1>6. QED
  BY <1>3, <1>5

(* A tick that sends: the new chunk is beyond all those written, and the   *)
(* invariant says that of those pulled before it none is missing.          *)
LEMMA TickSendsPreservesIInv ==
  ASSUME IInv, NEW r \in Requests, Tick(r), TickSends(r)
  PROVE  IInv'
<1> USE DEF IInv
<1>1. TypeOK'
  BY DEF TypeOK, Tick, TickSends, Pull, SendReplyChunk
<1>2. LifeCycle'
  BY DEF TypeOK, LifeCycle, TimerGuardsReply, Tick, TickSends, Pull, SendReplyChunk
<1>3. TimerGuardsReply'
  BY DEF TypeOK, TimerGuardsReply, Live, Tick, TickSends
<1>4. StreamFaithful'
  <2>1. /\ source' = source /\ evreq' = evreq /\ userdone' = userdone
        /\ pos' = [pos EXCEPT ![r] = @ + 1]
        /\ evreq[r] = "attached"
        /\ \A q \in Requests \ {r} : stream'[q] = stream[q]
        /\ stream'[r] = IF source[r][pos[r] + 1] = "data"
                          THEN Append(stream[r], pos[r] + 1) ELSE stream[r]
    BY DEF Tick, TickSends, Pull, SendReplyChunk, TypeOK
  <2>2. /\ stream[r] \in Seq(Nat) /\ pos[r] \in Nat /\ pos'[r] = pos[r] + 1
        /\ pos[r] + 1 \in DOMAIN source[r]
    BY <2>1 DEF TypeOK, TickSends
  <2>3. Range(stream[r]) = DataIn(r, pos[r]) /\ Ordered(stream[r])
    BY <2>1 DEF StreamFaithful, Faithful
  <2>4. DataIn(r, pos[r] + 1) = DataIn(r, pos[r]) \cup
           (IF source[r][pos[r] + 1] = "data" THEN {pos[r] + 1} ELSE {})
    BY <2>2 DEF DataIn
  <2>5. /\ Range(stream'[r]) = DataIn(r, pos[r] + 1)
        /\ Ordered(stream'[r])
    <3>1. CASE source[r][pos[r] + 1] = "data"
      <4>1. \A n \in Range(stream[r]) : n < pos[r] + 1
        BY <2>2, <2>3 DEF DataIn
      <4>2. pos[r] + 1 \in Nat
        BY <2>2
      <4>3. /\ Range(Append(stream[r], pos[r] + 1)) = Range(stream[r]) \cup {pos[r] + 1}
            /\ Ordered(Append(stream[r], pos[r] + 1))
        BY <4>1, <4>2, <2>2, <2>3, AppendLarger
      <4>4. QED
        BY <3>1, <4>3, <2>1, <2>3, <2>4
    <3>2. CASE source[r][pos[r] + 1] # "data"
      BY <3>2, <2>1, <2>3, <2>4
    <3>3. QED
      BY <3>1, <3>2
  <2>6. \A n \in Nat, q \in Requests : DataIn(q, n)' = DataIn(q, n)
    BY <2>1 DEF DataIn
  <2> SUFFICES ASSUME NEW q \in Requests PROVE Faithful(q)'
    BY DEF StreamFaithful
  <2>7. CASE q = r
    BY <2>7, <2>2, <2>5, <2>1 DEF Faithful, DataIn
  <2>8. CASE q # r
    <3>1. pos'[q] = pos[q] /\ stream'[q] = stream[q]
      BY <2>8, <2>1 DEF TypeOK
    <3>2. QED
      BY <3>1, <2>1 DEF StreamFaithful, Faithful, DataIn
  <2>9. QED
    BY <2>7, <2>8
<1>5. QED
  BY <1>1, <1>2, <1>3, <1>4

(* A tick that ends the reply, with a lost chunk or with none.             *)
LEMMA TickLosesPreservesIInv ==
  ASSUME IInv, NEW r \in Requests, Tick(r), TickLoses(r)
  PROVE  IInv'
<1> USE DEF IInv
<1>0. evreq[r] = "detached" /\ ~userdone[r]
  BY DEF TypeOK, LifeCycle, TimerGuardsReply, Live, Tick, TickLoses
<1>1. TypeOK'
  <2>1. /\ pos' = [pos EXCEPT ![r] = @ + 1] /\ pos[r] + 1 <= Len(source[r])
        /\ evreq' = [evreq EXCEPT ![r] = "freed"] /\ timer' = [timer EXCEPT ![r] = "freed"]
        /\ UNCHANGED <<loop, userdone, source, stream, container, complete>>
    BY <1>0 DEF Tick, TickLoses, Pull, ReplyEnd, TypeOK
  <2>2. QED
    BY <2>1 DEF TypeOK
<1>2. LifeCycle'
  <2>1. timer[r] = "armed" /\ timer'[r] = "freed"
    BY DEF TypeOK, Tick, TickLoses, ReplyEnd
  <2>2. QED
    BY <1>0, <2>1 DEF TypeOK, LifeCycle, Tick, TickLoses, Pull, ReplyEnd
<1>3. TimerGuardsReply'
  BY <1>0 DEF TypeOK, TimerGuardsReply, Live, Tick, TickLoses, Pull, ReplyEnd
<1>4. StreamFaithful'
  <2>1. /\ source' = source /\ stream' = stream /\ userdone' = userdone
        /\ pos' = [pos EXCEPT ![r] = @ + 1]
        /\ evreq' = [evreq EXCEPT ![r] = "freed"]
    BY <1>0 DEF Tick, TickLoses, Pull, ReplyEnd
  <2>2. Range(stream[r]) = DataIn(r, pos[r]) /\ Ordered(stream[r])
    BY <1>0 DEF StreamFaithful, Faithful
  <2>3. /\ DataIn(r, pos[r]) \subseteq DataIn(r, pos[r] + 1)
        /\ DataIn(r, pos[r] + 1) \ DataIn(r, pos[r]) \subseteq {pos[r] + 1}
    BY DEF DataIn, TypeOK
  <2> SUFFICES ASSUME NEW q \in Requests PROVE Faithful(q)'
    BY DEF StreamFaithful
  <2>4. CASE q = r
    <3>1. pos'[q] = pos[r] + 1 /\ evreq'[q] = "freed" /\ ~userdone'[q]
      BY <2>1, <2>4, <1>0 DEF TypeOK
    <3>2. QED
      BY <2>1, <2>2, <2>3, <2>4, <3>1 DEF Faithful, DataIn
  <2>5. CASE q # r
    <3>1. pos'[q] = pos[q] /\ evreq'[q] = evreq[q]
      BY <2>1, <2>5 DEF TypeOK
    <3>2. QED
      BY <2>1, <3>1 DEF StreamFaithful, Faithful, DataIn
  <2>6. QED
    BY <2>4, <2>5
<1>5. QED
  BY <1>1, <1>2, <1>3, <1>4

LEMMA TickEndsPreservesIInv ==
  ASSUME IInv, NEW r \in Requests, Tick(r), TickEnds(r)
  PROVE  IInv'
<1> USE DEF IInv
<1>0. Live(r) /\ ~userdone[r]
  BY DEF TimerGuardsReply, Tick
<1>1. TypeOK'
  BY DEF TypeOK, Tick, TickEnds, ReplyEnd
<1>2. LifeCycle'
  BY <1>0 DEF TypeOK, LifeCycle, Live, Tick, TickEnds, ReplyEnd
<1>3. TimerGuardsReply'
  BY <1>0 DEF TypeOK, TimerGuardsReply, Live, Tick, TickEnds, ReplyEnd
<1>4. StreamFaithful'
  <2>1. DataIn(r, pos[r]) \subseteq Range(stream[r])
    BY <1>0 DEF StreamFaithful, Faithful, Live
  <2>2. /\ source' = source /\ pos' = pos /\ stream' = stream
        /\ \A q \in Requests \ {r} : evreq'[q] = evreq[q] /\ userdone'[q] = userdone[q]
    BY DEF Tick, TickEnds, ReplyEnd, TypeOK
  <2> SUFFICES ASSUME NEW q \in Requests PROVE Faithful(q)'
    BY DEF StreamFaithful
  <2>3. CASE q = r
    BY <2>1, <2>2, <2>3 DEF StreamFaithful, Faithful, DataIn
  <2>4. CASE q # r
    BY <2>2, <2>4 DEF StreamFaithful, Faithful, DataIn
  <2>5. QED
    BY <2>3, <2>4
<1>5. QED
  BY <1>1, <1>2, <1>3, <1>4

(* Everything else moves the request, the loop or the container.           *)
LEMMA TickEscapesPreservesIInv ==
  ASSUME IInv, NEW r \in Requests, TickEscapes(r)
  PROVE  IInv'
<1> USE DEF IInv
<1>1. TypeOK'
  BY DEF TypeOK, TickEscapes, LoopStates
<1>2. LifeCycle'
  BY DEF TypeOK, LifeCycle, TimerGuardsReply, Live, TickEscapes
<1>3. TimerGuardsReply'
  BY DEF TypeOK, TimerGuardsReply, Live, TickEscapes
<1>4. StreamFaithful'
  BY StreamUntouched DEF TickEscapes
<1>5. QED
  BY <1>1, <1>2, <1>3, <1>4

LEMMA SendDonePreservesIInv ==
  ASSUME IInv, NEW r \in Requests, SendDone(r)
  PROVE  IInv'
<1> USE DEF IInv
<1>1. TypeOK'
  BY DEF TypeOK, SendDone, LoopStates
<1>2. LifeCycle'
  BY DEF TypeOK, LifeCycle, SendDone
<1>3. TimerGuardsReply'
  BY DEF TypeOK, TimerGuardsReply, Live, SendDone
<1>4. StreamFaithful'
  BY StreamUntouched DEF SendDone, TypeOK
<1>5. QED
  BY <1>1, <1>2, <1>3, <1>4

LEMMA DisconnectPreservesIInv ==
  ASSUME IInv, NEW r \in Requests, Disconnect(r)
  PROVE  IInv'
<1> USE DEF IInv
<1>1. TypeOK'
  BY DEF TypeOK, Disconnect
<1>2. LifeCycle'
  BY DEF TypeOK, LifeCycle, Disconnect
<1>3. TimerGuardsReply'
  BY DEF TypeOK, TimerGuardsReply, Live, Disconnect
<1>4. StreamFaithful'
  <2>1. \A q \in Requests \ {r} : evreq'[q] = evreq[q]
    BY DEF Disconnect, TypeOK
  <2>2. evreq[r] = "attached" /\ evreq'[r] = (IF userdone[r] THEN "freed" ELSE "detached")
    BY DEF Disconnect, TypeOK
  <2> SUFFICES ASSUME NEW q \in Requests PROVE Faithful(q)'
    BY DEF StreamFaithful
  <2>3. CASE q = r
    BY <2>2, <2>3 DEF Disconnect, StreamFaithful, Faithful, Ordered, DataIn
  <2>4. CASE q # r
    BY <2>1, <2>4 DEF Disconnect, StreamFaithful, Faithful, Ordered, DataIn
  <2>5. QED
    BY <2>3, <2>4
<1>5. QED
  BY <1>1, <1>2, <1>3, <1>4

LEMMA DropCopyPreservesIInv ==
  ASSUME IInv, NEW r \in Requests, DropCopy(r)
  PROVE  IInv'
<1> USE DEF IInv
<1>1. TypeOK'
  BY DEF TypeOK, DropCopy, reply
<1>2. LifeCycle' /\ TimerGuardsReply'
  BY DEF LifeCycle, TimerGuardsReply, Live, DropCopy, reply
<1>3. StreamFaithful'
  BY StreamUntouched DEF DropCopy, reply
<1>4. QED
  BY <1>1, <1>2, <1>3

LEMMA ShutdownPreservesIInv ==
  ASSUME IInv, Interrupt \/ Stop
  PROVE  IInv'
<1> USE DEF IInv
<1>1. TypeOK'
  BY DEF TypeOK, Interrupt, Stop, FreeServer, FreeBase, reply, LoopStates
<1>2. LifeCycle'
  BY DEF TypeOK, LifeCycle, Interrupt, Stop, FreeServer, FreeBase, reply
<1>3. TimerGuardsReply'
  BY DEF TypeOK, TimerGuardsReply, Live, Interrupt, Stop, FreeServer, FreeBase, reply
<1>4. StreamFaithful'
  <2>1. /\ UNCHANGED <<userdone, source, pos, stream>>
        /\ \A q \in Requests :
              evreq'[q] = evreq[q] \/ (evreq[q] = "attached" /\ evreq'[q] = "freed")
    BY DEF Interrupt, Stop, FreeServer, reply
  <2>2. \A q \in Requests : Faithful(q)'
    BY <2>1 DEF StreamFaithful, Faithful, Ordered, DataIn
  <2>3. QED
    BY <2>2 DEF StreamFaithful
<1>5. QED
  BY <1>1, <1>2, <1>3, <1>4

LEMMA NextPreservesIInv == IInv /\ [Next]_vars => IInv'
<1> SUFFICES ASSUME IInv, [Next]_vars PROVE IInv'
  OBVIOUS
<1>1. ASSUME NEW r \in Requests, Handle(r) PROVE IInv'
  <2>1. CASE NoRoute(r)
    BY <2>1, RepliesPreserveIInv DEF NoRoute, HandlerReplies
  <2>2. ASSUME NEW keep \in BOOLEAN, HandlerReplies(r, keep) \/ HandlerEscapes(r, keep)
        PROVE  IInv'
    BY <2>2, RepliesPreserveIInv
  <2>3. ASSUME NEW keep \in BOOLEAN, NEW src \in Sources, HandlerStreams(r, keep, src)
        PROVE  IInv'
    BY <2>3, StreamsPreservesIInv
  <2>4. QED
    BY <1>1, <2>1, <2>2, <2>3 DEF Handle
<1>2. ASSUME NEW r \in Requests, Tick(r) PROVE IInv'
  <2>1. TickSends(r) \/ TickLoses(r) \/ TickEnds(r)
    BY <1>2 DEF Tick
  <2>2. QED
    BY <1>2, <2>1, TickSendsPreservesIInv, TickLosesPreservesIInv, TickEndsPreservesIInv
<1>3. ASSUME NEW r \in Requests,
             TickEscapes(r) \/ SendDone(r) \/ Disconnect(r) \/ DropCopy(r)
      PROVE  IInv'
  BY <1>3, TickEscapesPreservesIInv, SendDonePreservesIInv, DisconnectPreservesIInv,
     DropCopyPreservesIInv
<1>4. CASE Interrupt \/ Stop
  BY <1>4, ShutdownPreservesIInv
<1>5. CASE UNCHANGED vars
  <2>1. UNCHANGED <<loop, evreq, userdone, timer, source, pos, stream, container, complete>>
    BY <1>5 DEF vars, reply
  <2>2. StreamFaithful'
    BY <2>1, StreamUntouched DEF IInv
  <2>3. QED
    BY <2>1, <2>2 DEF IInv, TypeOK, LifeCycle, TimerGuardsReply, Live
<1>6. QED
  BY <1>1, <1>2, <1>3, <1>4, <1>5 DEF Next

-----------------------------------------------------------------------------
\* Every reachable state satisfies the inductive invariant.
THEOREM Invariance == Spec => []IInv
  BY InitIInv, NextPreservesIInv, PTL DEF Spec

\* The variables keep their types, and no chunk callback is called past its end.
THEOREM TypeCorrect == Spec => []TypeOK
<1>1. IInv => TypeOK
  BY DEF IInv
<1>2. QED
  BY <1>1, Invariance, PTL

\* An armed chunk timer always has its evhttp_request, and in a running loop a
\* streamed reply always has its armed timer.
THEOREM TimersSafe == Spec => []TimerGuardsReply
<1>1. IInv => TimerGuardsReply
  BY DEF IInv
<1>2. QED
  BY <1>1, Invariance, PTL

\* The chunks on the wire are the ones the application produced, in order.
THEOREM StreamsFaithful == Spec => []StreamFaithful
<1>1. IInv => StreamFaithful
  BY DEF IInv
<1>2. QED
  BY <1>1, Invariance, PTL

\* A reply is terminated, and reported complete, only when it is whole.
THEOREM EndsAreWhole == Spec => []EndMeansWhole
<1>1. IInv => EndMeansWhole
  BY DEF IInv, LifeCycle, EndMeansWhole, StreamFaithful, Faithful
<1>2. QED
  BY <1>1, Invariance, PTL

-----------------------------------------------------------------------------
\* No step touches a reply that was handed over or released, apart from a timer
\* armed for it, and by the invariant there is none.
THEOREM RepliesEndOnce == Spec => ReplyEndsOnce
<1> DEFINE Untouched(r) == UNCHANGED <<stream[r], pos[r], timer[r], userdone[r]>>
<1>1. ASSUME IInv, [Next]_vars, NEW r \in Requests, userdone[r] \/ evreq[r] = "freed"
      PROVE  Untouched(r)
  <2>1. evreq[r] # "none" /\ timer[r] # "armed"
    BY <1>1 DEF IInv, LifeCycle, TimerGuardsReply, Live
  <2>2. ASSUME NEW q \in Requests, Handle(q) PROVE Untouched(r)
    <3>1. evreq[q] = "none" /\ q # r
      BY <2>1, <2>2 DEF Handle, NoRoute, HandlerReplies, HandlerEscapes, HandlerStreams, Register
    <3>2. QED
      BY <1>1, <2>2, <3>1 DEF IInv, TypeOK, Handle, NoRoute, HandlerReplies, HandlerEscapes,
         HandlerStreams, Register, SendReply, SendReplyStart
  <2>3. ASSUME NEW q \in Requests, Tick(q) \/ TickEscapes(q) PROVE Untouched(r)
    <3>1. q # r
      BY <2>1, <2>3 DEF Tick, TickEscapes
    <3>2. QED
      BY <1>1, <2>3, <3>1 DEF IInv, TypeOK, Tick, TickEscapes, TickSends, TickLoses, TickEnds,
         Pull, SendReplyChunk, ReplyEnd
  <2>4. ASSUME NEW q \in Requests, SendDone(q) \/ Disconnect(q) \/ DropCopy(q)
        PROVE  Untouched(r)
    BY <2>4 DEF SendDone, Disconnect, DropCopy, reply
  <2>5. CASE Interrupt \/ Stop
    BY <1>1, <2>1, <2>5 DEF Interrupt, Stop, FreeBase, reply, IInv, TypeOK
  <2>6. CASE UNCHANGED vars
    BY <2>6 DEF vars, reply
  <2>7. QED
    BY <1>1, <2>2, <2>3, <2>4, <2>5, <2>6 DEF Next
<1>2. IInv /\ [Next]_vars =>
        [\A r \in Requests : userdone[r] \/ evreq[r] = "freed" => Untouched(r)]_vars
  BY <1>1
<1>3. QED
  BY <1>2, Invariance, PTL DEF Spec, ReplyEndsOnce

-----------------------------------------------------------------------------
(* The contract.  Phase is the function the refinement mapping substitutes *)
(* for the contract's variable phase.                                      *)

Phase == [r \in Requests |-> ReplyPhase(r)]

Phases == {"idle", "open", "closed", "confirmed", "over"}

LEMMA PhaseType == Phase \in [Requests -> Phases]
  BY DEF Phase, ReplyPhase, Phases

\* A step of the other replies' phases being as they were, the contract sees the
\* phase of this one change.
LEMMA PhaseOfOne ==
  ASSUME NEW r \in Requests,
         \A q \in Requests \ {r} : ReplyPhase(q)' = ReplyPhase(q)
  PROVE  Phase' = [Phase EXCEPT ![r] = ReplyPhase(r)']
  BY DEF Phase

LEMMA GivesUpOne ==
  ASSUME NEW r \in Requests,
         ReplyPhase(r) # "confirmed",
         ReplyPhase(r)' = "over",
         \A q \in Requests \ {r} : ReplyPhase(q)' = ReplyPhase(q),
         UNCHANGED <<source, stream>>
  PROVE  Contract!Next
<1>1. Contract!GiveUp({r})
  BY DEF Contract!GiveUp
<1>2. QED
  BY <1>1 DEF Contract!Next

\* The library operators the contract uses are the ones ServerReply uses.
LEMMA SameLibrary ==
  /\ \A s : Contract!Range(s) = Range(s)
  /\ Contract!BoundedSeq(Kinds, MaxChunks) = Sources
  BY DEF Range, Contract!Range, Sources, BoundedSeq, SeqOf, Contract!BoundedSeq, Contract!SeqOf

\* What is left to write, for a stream from which nothing pulled is missing.
LEMMA UnsentChunks ==
  ASSUME TypeOK, NEW r \in Requests, Range(stream[r]) = DataIn(r, pos[r])
  PROVE  Contract!Unsent(r) =
            {p \in 1 .. Len(source[r]) : source[r][p] = "data" /\ pos[r] < p}
<1>1. DOMAIN source[r] = 1 .. Len(source[r]) /\ pos[r] \in Nat /\ Len(source[r]) \in Nat
  BY DEF TypeOK
<1>2. Contract!Range(stream[r]) = {p \in 1 .. pos[r] : p \in 1 .. Len(source[r]) /\ source[r][p] = "data"}
  BY <1>1, SameLibrary DEF DataIn
<1>3. QED
  BY <1>1, <1>2 DEF Contract!Unsent

LEMMA HandlersKeepContract ==
  ASSUME IInv, NEW r \in Requests, Handle(r)
  PROVE  Contract!Next
<1> USE DEF IInv
<1>0. ReplyPhase(r) = "idle"
  BY DEF LifeCycle, ReplyPhase, Handle, NoRoute, HandlerReplies, HandlerEscapes,
         HandlerStreams, Register
<1>1. ASSUME NEW keep \in BOOLEAN, HandlerReplies(r, keep) PROVE Contract!Next
  <2>1. /\ ReplyPhase(r)' = "closed"
        /\ \A q \in Requests \ {r} : ReplyPhase(q)' = ReplyPhase(q)
        /\ UNCHANGED <<source, stream>>
    BY <1>1 DEF TypeOK, LifeCycle, ReplyPhase, HandlerReplies, Register, SendReply
  <2>2. Contract!Answer(r)
    BY <1>0, <2>1, PhaseOfOne DEF Contract!Answer, Phase
  <2>3. QED
    BY <2>2 DEF Contract!Next
<1>2. CASE NoRoute(r)
  BY <1>1, <1>2 DEF NoRoute, HandlerReplies
<1>3. ASSUME NEW keep \in BOOLEAN, NEW src \in Sources, HandlerStreams(r, keep, src)
      PROVE  Contract!Next
  <2>1. /\ ReplyPhase(r)' = "open"
        /\ \A q \in Requests \ {r} : ReplyPhase(q)' = ReplyPhase(q)
        /\ source' = [source EXCEPT ![r] = src] /\ stream' = stream
    BY <1>3 DEF TypeOK, LifeCycle, ReplyPhase, HandlerStreams, Register, SendReplyStart
  <2>2. Contract!Open(r, src)
    BY <1>0, <2>1, PhaseOfOne DEF Contract!Open, Phase
  <2>3. QED
    BY <2>2, SameLibrary DEF Contract!Next, Kinds
<1>4. ASSUME NEW keep \in BOOLEAN, HandlerEscapes(r, keep) PROVE Contract!Next
  <2>1. /\ ReplyPhase(r)' = "over"
        /\ \A q \in Requests \ {r} : ReplyPhase(q)' = ReplyPhase(q)
        /\ UNCHANGED <<source, stream>>
    BY <1>4 DEF TypeOK, LifeCycle, ReplyPhase, HandlerEscapes
  <2>2. QED
    BY <1>0, <2>1, GivesUpOne
<1>5. QED
  BY <1>1, <1>2, <1>3, <1>4 DEF Handle

LEMMA TicksKeepContract ==
  ASSUME IInv, NEW r \in Requests, Tick(r)
  PROVE  Contract!Next \/ UNCHANGED <<Phase, source, stream>>
<1> USE DEF IInv
<1>0. /\ timer[r] = "armed" /\ Live(r) /\ ~userdone[r] /\ ~complete[r]
      /\ source' = source /\ complete' = complete
  BY DEF Tick, TimerGuardsReply, LifeCycle
<1>1. CASE TickSends(r)
  <2>1. Phase' = Phase /\ evreq[r] = "attached" /\ ReplyPhase(r) = "open"
    BY <1>0, <1>1 DEF Phase, ReplyPhase, TickSends
  <2>2. /\ pos[r] + 1 \in DOMAIN source[r] /\ pos[r] \in Nat
        /\ DOMAIN source[r] = 1 .. Len(source[r])
    BY <1>1 DEF TypeOK, TickSends
  <2>3. Range(stream[r]) = DataIn(r, pos[r])
    BY <1>0, <2>1 DEF StreamFaithful, Faithful
  <2>4. CASE source[r][pos[r] + 1] = "data"
    <3>1. stream' = [stream EXCEPT ![r] = Append(@, pos[r] + 1)]
      BY <1>1, <2>4 DEF TickSends, SendReplyChunk
    <3>2. pos[r] + 1 \in Contract!Unsent(r)
      BY <2>2, <2>3, <2>4, UnsentChunks
    <3>3. \A q \in Contract!Unsent(r) : pos[r] + 1 <= q
      BY <2>2, <2>3, UnsentChunks
    <3>4. Contract!Write(r)
      BY <1>0, <2>1, <3>1, <3>2, <3>3 DEF Contract!Write, Phase
    <3>5. QED
      BY <3>4 DEF Contract!Next
  <2>5. CASE source[r][pos[r] + 1] # "data"
    BY <1>0, <1>1, <2>1, <2>5 DEF TickSends, SendReplyChunk
  <2>6. QED
    BY <2>4, <2>5
<1>2. CASE TickLoses(r)
  <2>1. /\ stream' = stream /\ userdone' = userdone
        /\ evreq' = [evreq EXCEPT ![r] = "freed"] /\ timer' = [timer EXCEPT ![r] = "freed"]
        /\ evreq[r] = "detached"
    BY <1>0, <1>2 DEF TickLoses, ReplyEnd, Live
  <2>2. Phase' = Phase
    BY <1>0, <2>1 DEF Phase, ReplyPhase, TypeOK
  <2>3. QED
    BY <1>0, <2>1, <2>2
<1>3. CASE TickEnds(r)
  <2>1. CASE evreq[r] = "attached"
    <3>1. /\ ReplyPhase(r) = "open" /\ ReplyPhase(r)' = "closed"
          /\ \A q \in Requests \ {r} : ReplyPhase(q)' = ReplyPhase(q)
          /\ stream' = stream
      BY <1>0, <1>3, <2>1 DEF TypeOK, ReplyPhase, TickEnds, ReplyEnd
    <3>2. Contract!Unsent(r) = {}
      <4>1. Range(stream[r]) = DataIn(r, pos[r]) /\ pos[r] = Len(source[r])
        BY <1>0, <1>3, <2>1 DEF TickEnds, StreamFaithful, Faithful
      <4>2. QED
        BY <4>1, UnsentChunks DEF TypeOK
    <3>3. Contract!Close(r)
      BY <1>0, <3>1, <3>2, PhaseOfOne DEF Contract!Close, Phase
    <3>4. QED
      BY <3>3 DEF Contract!Next
  <2>2. CASE evreq[r] = "detached"
    <3>1. /\ stream' = stream /\ userdone' = userdone
          /\ evreq' = [evreq EXCEPT ![r] = "freed"] /\ timer' = [timer EXCEPT ![r] = "freed"]
      BY <1>3, <2>2 DEF TickEnds, ReplyEnd
    <3>2. Phase' = Phase
      BY <1>0, <2>2, <3>1 DEF Phase, ReplyPhase, TypeOK
    <3>3. QED
      BY <1>0, <3>1, <3>2
  <2>3. QED
    BY <1>0, <2>1, <2>2 DEF Live
<1>4. QED
  BY <1>1, <1>2, <1>3 DEF Tick

LEMMA EndsKeepContract ==
  ASSUME IInv, NEW r \in Requests, TickEscapes(r) \/ SendDone(r) \/ Disconnect(r)
  PROVE  Contract!Next
<1> USE DEF IInv
<1>0. UNCHANGED <<source, stream>> /\ ReplyPhase(r) # "confirmed"
  BY DEF TypeOK, LifeCycle, TimerGuardsReply, Live, ReplyPhase, TickEscapes, SendDone, Disconnect
<1>1. \A q \in Requests \ {r} : ReplyPhase(q)' = ReplyPhase(q)
  BY DEF TypeOK, ReplyPhase, TickEscapes, SendDone, Disconnect
<1>2. CASE SendDone(r) /\ container[r] = "alive"
  <2>1. /\ evreq[r] = "attached" /\ userdone[r]
        /\ ~complete[r] /\ complete'[r] /\ evreq'[r] = "freed"
    BY <1>2 DEF TypeOK, LifeCycle, SendDone
  <2>2. ReplyPhase(r) = "closed" /\ ReplyPhase(r)' = "confirmed"
    BY <2>1 DEF ReplyPhase
  <2>3. Contract!Confirm(r)
    BY <1>0, <1>1, <2>2, PhaseOfOne DEF Contract!Confirm, Phase
  <2>4. QED
    BY <2>3 DEF Contract!Next
<1>3. CASE TickEscapes(r) \/ Disconnect(r) \/ (SendDone(r) /\ container[r] # "alive")
  <2>1. ReplyPhase(r)' = "over"
    BY <1>0, <1>3 DEF TypeOK, LifeCycle, TimerGuardsReply, Live, ReplyPhase, TickEscapes,
       SendDone, Disconnect
  <2>2. QED
    BY <1>0, <1>1, <2>1, GivesUpOne
<1>4. QED
  BY <1>2, <1>3

LEMMA StopKeepsContract ==
  ASSUME IInv, Stop
  PROVE  Contract!Next
<1> DEFINE R == {r \in Requests : evreq[r] = "attached"}
<1>1. \A r \in R : ReplyPhase(r) # "confirmed" /\ ReplyPhase(r)' = "over"
  BY DEF IInv, TypeOK, LifeCycle, ReplyPhase, Stop, FreeServer
<1>2. \A r \in Requests \ R : ReplyPhase(r)' = ReplyPhase(r)
  BY DEF IInv, TypeOK, ReplyPhase, Stop, FreeServer
<1>3. Contract!GiveUp(R)
  BY <1>1, <1>2 DEF Contract!GiveUp, Stop
<1>4. QED
  BY <1>3 DEF Contract!Next

\* The server implements the contract: its initial state is one of the contract and
\* each of its steps is a step of the contract or leaves the contract's state alone.
THEOREM ServerKeepsContract == Spec => ContractSpec
<1>1. Init => Contract!Init
  BY DEF Init, Contract!Init, ReplyPhase
<1>2. IInv /\ [Next]_vars => [Contract!Next]_(Contract!vars)
  <2> SUFFICES ASSUME IInv, [Next]_vars
               PROVE  Contract!Next \/ UNCHANGED <<Phase, source, stream>>
    BY DEF Contract!vars, Phase
  <2>1. ASSUME NEW r \in Requests, DropCopy(r) PROVE UNCHANGED <<Phase, source, stream>>
    BY <2>1 DEF DropCopy, reply, Phase, ReplyPhase
  <2>2. CASE Interrupt
    BY <2>2 DEF Interrupt, reply, Phase, ReplyPhase
  <2>3. CASE UNCHANGED vars
    BY <2>3 DEF vars, reply, Phase, ReplyPhase
  <2>4. QED
    BY <2>1, <2>2, <2>3, HandlersKeepContract, TicksKeepContract, EndsKeepContract,
       StopKeepsContract DEF Next
<1>3. QED
  BY <1>1, <1>2, Invariance, PTL DEF Spec, ContractSpec, Contract!Spec
=============================================================================
