-------------------------- MODULE SessionIOProofs --------------------------
(***************************************************************************)
(* What holds of a connection's bytes for every ring size, packet size,    *)
(* kernel buffer and stream of frames.                                     *)
(***************************************************************************)
EXTENDS SessionIO, TLAPS

USE SessionIOAssumption

-----------------------------------------------------------------------------
(* The types, the ring and the receive buffer: one inductive invariant.    *)

IOInv == TypeOK /\ RingInv /\ RecvInv

LEMMA IOInit == Init => IOInv
<1> SUFFICES ASSUME Init PROVE IOInv
    OBVIOUS
<1>1. TypeOK
    <2>1. ends \in [0 .. FrameCount -> Nat]
        BY DEF Init
    <2>2. wire \in Seq(Nat)
        BY DEF Init
    <2>3. /\ rd \in Nat /\ wr \in 0 .. MaxAppend /\ cached \in 0 .. MaxQueue
          /\ sendWork \in 0 .. MaxQueue /\ outEvents \in 0 .. MaxQueue
          /\ sendTo \in 0 .. MaxAppend /\ inKernel \in 0 .. SockCap
          /\ recvWork \in 0 .. MaxQueue /\ content \in Nat /\ received \in Nat
          /\ delivered \in 0 .. FrameCount /\ peerSent \in Nat
        BY DEF Init
    <2>4. /\ full \in BOOLEAN /\ sawFull \in BOOLEAN /\ peerClosed \in BOOLEAN
          /\ closing \in BOOLEAN /\ frames \in [1 .. FrameCount -> FrameLengths]
          /\ sendAt \in {"idle", "load", "send", "mod"}
          /\ armed \subseteq {"in", "out"} /\ lastFired \subseteq {"in", "out"}
          /\ recvAt \in {"idle", "load", "mod"}
        BY Zenon DEF Init
    <2> QED
        BY <2>1, <2>2, <2>3, <2>4, Zenon DEF TypeOK
<1>2. RingInv
    BY DEF Init, RingInv
<1>3. RecvInv
    <2>1. FrameCount \in 0 .. FrameCount /\ ends[FrameCount] \in Nat
        BY DEF Init
    <2> QED
        BY <2>1 DEF Init, RecvInv
<1> QED
    BY <1>1, <1>2, <1>3 DEF IOInv

\* recv() always has room in the buffer.
LEMMA RecvHasRoom ==
    ASSUME IOInv, ~closing
    PROVE  /\ RecvCount \in Nat
           /\ received + RecvCount <= peerSent
           /\ peerSent > received => RecvCount > 0
<1>1. received \in Nat /\ peerSent \in Nat /\ content \in Nat /\ MaxFrame \in Nat
    BY DEF IOInv, TypeOK
<1>2. received <= peerSent /\ content < MaxFrame
    BY DEF IOInv, RecvInv
<1> QED
    BY <1>1, <1>2 DEF RecvCount, RecvBufSize

LEMMA LeftBehind ==
    ASSUME NEW c \in Nat, NEW r \in Nat, NEW n \in Nat, NEW d \in Nat, NEW e \in Nat,
           c = r - e, d - e <= c + n, NEW c1, c1 = c + n - (d - e), NEW r1, r1 = r + n
    PROVE  c1 \in Nat /\ c1 = r1 - d
OBVIOUS

\* What is handed on leaves exactly the bytes behind it in the buffer.
LEMMA HandKeeps ==
    ASSUME IOInv, ~closing, NEW done \in delivered .. FrameCount, Hand(done, RecvCount)
    PROVE  /\ content' \in Nat /\ received' \in Nat /\ delivered' = done
           /\ delivered' \in 0 .. FrameCount
           /\ content' = received' - ends[delivered'] /\ received' <= peerSent
<1>1. /\ content \in Nat /\ received \in Nat /\ delivered \in 0 .. FrameCount
      /\ FrameCount \in Nat /\ ends \in [0 .. FrameCount -> Nat]
    BY DEF IOInv, TypeOK
<1>2. done \in 0 .. FrameCount /\ ends[done] \in Nat /\ ends[delivered] \in Nat
    BY <1>1
<1>3. content = received - ends[delivered]
    BY DEF IOInv, RecvInv
<1>4. RecvCount \in Nat /\ received + RecvCount <= peerSent
    BY RecvHasRoom
<1>5. /\ delivered' = done /\ received' = received + RecvCount
      /\ content' = content + RecvCount - (ends[done] - ends[delivered])
      /\ ends[done] - ends[delivered] <= content + RecvCount
    BY DEF Hand
<1> HIDE SessionIOAssumption
<1>6. delivered' \in 0 .. FrameCount /\ ends[delivered'] = ends[done] /\ received' <= peerSent
    BY <1>2, <1>4, <1>5
<1>7. received' \in Nat
    BY <1>1, <1>4, <1>5
<1>8. content' \in Nat /\ content' = received' - ends[done]
    <2>1. PICK d \in Nat, e \in Nat : d = ends[done] /\ e = ends[delivered]
        BY <1>2
    <2>2. content = received - e
        BY <1>3, <2>1
    <2>3. content' = content + RecvCount - (d - e) /\ d - e <= content + RecvCount
        BY <1>5, <2>1
    <2>4. content' \in Nat /\ content' = received' - d
        <3>1. content \in Nat /\ received \in Nat /\ RecvCount \in Nat /\ d - e <= content + RecvCount
            BY <1>1, <1>4, <2>3
        <3>2. received' = received + RecvCount
            BY <1>5
        <3> QED
            BY <2>2, <2>3, <3>1, <3>2, LeftBehind
    <2> QED
        BY <2>1, <2>4
<1> QED
    BY <1>5, <1>6, <1>7, <1>8

\* ... which is less than a frame, when no complete one is left.
LEMMA LessThanAFrame ==
    ASSUME IOInv, ~closing, NEW done \in delivered .. FrameCount, Hand(done, RecvCount),
           HasHeader(done, content') => Legal(done + 1) /\ content' < frames[done + 1]
    PROVE  content' < MaxFrame
<1>1. /\ content' \in Nat /\ received' \in Nat /\ received' <= peerSent
      /\ delivered' = done /\ content' = received' - ends[delivered']
      /\ done \in 0 .. FrameCount
    BY HandKeeps
<1>2. peerSent <= ends[FrameCount] /\ ends[FrameCount] \in Nat /\ peerSent \in Nat
    BY DEF IOInv, TypeOK, RecvInv
<1>3. CASE done = FrameCount
    BY <1>1, <1>2, <1>3
<1>4. CASE HasHeader(done, content')
    <2>1. frames[done + 1] \in 2 .. MaxFrame /\ content' < frames[done + 1]
        BY <1>4 DEF Legal, HeaderLength
    <2> QED
        BY <1>1, <2>1
<1>5. CASE done # FrameCount /\ ~HasHeader(done, content')
    BY <1>1, <1>5 DEF HasHeader, HeaderLength
<1> QED
    BY <1>3, <1>4, <1>5

LEMMA ShortIsShort ==
    ASSUME IOInv, RecvShort
    PROVE  content' = content + RecvCount /\ content' \in 0 .. 1
<1>1. content \in Nat /\ delivered \in 0 .. FrameCount /\ ends[delivered] \in Nat
    BY DEF IOInv, TypeOK
<1>2. RecvCount \in Nat
    BY RecvHasRoom DEF RecvShort
<1>3. /\ content' = content + RecvCount - (ends[delivered] - ends[delivered])
      /\ content + RecvCount < 2
    BY DEF RecvShort, Hand, HeaderLength
<1> QED
    BY <1>1, <1>2, <1>3

LEMMA IOStep == IOInv /\ [Next]_vars => IOInv'
<1> SUFFICES ASSUME IOInv, [Next]_vars PROVE IOInv'
    OBVIOUS
<1> USE DEF IOInv, TypeOK, RingInv, RecvInv, ringVars, sendVars, epollVars, recvVars, peerVars
<1> DEFINE Received(done) == /\ content' \in Nat /\ received' \in Nat /\ delivered' = done
                            /\ delivered' \in 0 .. FrameCount
                            /\ content' = received' - ends[delivered']
                            /\ received' <= peerSent
<1>1. CASE UNCHANGED vars
    BY <1>1 DEF vars
<1>2. CASE Peer
    <2>1. CASE PeerCloses
        BY <2>1 DEF PeerCloses
    <2>2. ASSUME NEW k \in 1 .. ends[FrameCount], PeerSends(k)
          PROVE IOInv'
        BY <2>2 DEF PeerSends
    <2> QED
        BY <1>2, <2>1, <2>2 DEF Peer
<1>3. CASE PeerReadsSome
    BY <1>3 DEF PeerReadsSome, PeerReads
<1>4. CASE Closed
    BY <1>4 DEF Closed
<1>5. CASE MainThread
    <2>1. CASE Flush
        <3>1. PICK n \in 0 .. cached :
                /\ sendWork + n <= MaxQueue
                /\ sendWork' = sendWork + n
                /\ cached' = cached - n
            BY <2>1 DEF Flush
        <3>2. sendWork' \in 0 .. MaxQueue /\ cached' \in 0 .. MaxQueue
            BY <3>1
        <3> QED
            BY <2>1, <3>2 DEF Flush
    <2>2. ASSUME NEW k \in 1 .. MaxPacket, SendPacket(k)
          PROVE IOInv'
        BY <2>2 DEF SendPacket
    <2>3. ASSUME NEW k \in 1 .. MaxPacket, SendPacketUncached(k)
          PROVE IOInv'
        BY <2>3 DEF SendPacketUncached
    <2>4. ASSUME NEW k \in 1 .. MaxPacket, SendPacketKicks(k)
          PROVE IOInv'
        BY <2>4 DEF SendPacketKicks
    <2> QED
        BY <1>5, <2>1, <2>2, <2>3, <2>4 DEF MainThread
<1>6. CASE EpollWait
    <2>1. armed' = {} /\ lastFired' \subseteq armed
        BY <1>6 DEF EpollWait
    <2>2. recvWork' \in 0 .. MaxQueue /\ outEvents' \in 0 .. MaxQueue
        BY <1>6 DEF EpollWait
    <2> QED
        BY <1>6, <2>1, <2>2 DEF EpollWait
<1>7. CASE RecvThread
    <2>1. CASE Skip
        BY <2>1 DEF Skip, TakeRecvWork
    <2>2. CASE RecvNothing
        BY <2>2 DEF RecvNothing, TakeRecvWork
    <2>3. CASE RecvEnd
        BY <2>3 DEF RecvEnd, TakeRecvWork
    <2>4. CASE RecvFrames
        <3>1. PICK done \in delivered .. FrameCount :
                /\ Hand(done, RecvCount)
                /\ HasHeader(done, content') => Legal(done + 1) /\ content' < frames[done + 1]
            BY <2>4 DEF RecvFrames
        <3>2. ~closing /\ ~closing'
            BY <2>4 DEF RecvFrames
        <3>3. Received(done) /\ content' < MaxFrame
            BY <3>1, <3>2, HandKeeps, LessThanAFrame DEF Received
        <3>8. recvWork' \in 0 .. MaxQueue /\ recvAt' \in {"idle", "load"} /\ closing' \in BOOLEAN
            <4>1. TakeRecvWork
                BY <2>4 DEF RecvFrames
            <4>2. recvAt' \in {recvAt, "load"} /\ closing' \in {closing, TRUE}
                BY <2>4 DEF RecvFrames
            <4>3. recvWork' \in 0 .. MaxQueue
                BY <4>1 DEF TakeRecvWork
            <4>4. recvAt' \in {"idle", "load"}
                BY <4>1, <4>2 DEF TakeRecvWork
            <4>5. closing' \in BOOLEAN
                BY <4>2
            <4> QED
                BY <4>3, <4>4, <4>5
        <3>9. UNCHANGED <<rd, wr, cached, full, sendWork, outEvents, sendAt, sendTo, wire,
                          inKernel, armed, lastFired, sawFull, frames, ends, peerSent,
                          peerClosed>>
            BY <2>4 DEF RecvFrames
        <3> QED
            BY <3>3, <3>8, <3>9 DEF Received
    <2>5. CASE RecvFails
        <3>1. PICK done \in delivered .. FrameCount : Hand(done, RecvCount)
            BY <2>5 DEF RecvFails
        <3>7. closing'
            BY <2>5 DEF RecvFails
        <3>2. Received(done)
            BY <2>5, <3>1, HandKeeps DEF RecvFails, Received
        <3>8. recvWork' \in 0 .. MaxQueue /\ recvAt' \in {"idle", "load"} /\ closing' \in BOOLEAN
            <4>1. TakeRecvWork
                BY <2>5 DEF RecvFails
            <4>2. recvAt' \in {recvAt, "load"} /\ closing' \in {closing, TRUE}
                BY <2>5 DEF RecvFails
            <4>3. recvWork' \in 0 .. MaxQueue
                BY <4>1 DEF TakeRecvWork
            <4>4. recvAt' \in {"idle", "load"}
                BY <4>1, <4>2 DEF TakeRecvWork
            <4>5. closing' \in BOOLEAN
                BY <4>2
            <4> QED
                BY <4>3, <4>4, <4>5
        <3>9. UNCHANGED <<rd, wr, cached, full, sendWork, outEvents, sendAt, sendTo, wire,
                          inKernel, armed, lastFired, sawFull, frames, ends, peerSent,
                          peerClosed>>
            BY <2>5 DEF RecvFails
        <3> QED
            BY <3>2, <3>8, <3>9, <3>7 DEF Received
    <2>6. CASE RecvShort
        <3>1. ~closing /\ Hand(delivered, RecvCount) /\ delivered \in delivered .. FrameCount
            BY <2>6 DEF RecvShort
        <3>2. Received(delivered)
            BY <3>1, HandKeeps DEF Received
        <3>3. content' < MaxFrame
            BY <2>6, <3>1, ShortIsShort
        <3>8. recvWork' \in 0 .. MaxQueue /\ recvAt' \in {"idle", "load"} /\ closing' \in BOOLEAN
            <4>1. TakeRecvWork
                BY <2>6 DEF RecvShort
            <4>2. recvAt' \in {recvAt, "load"} /\ closing' \in {closing, TRUE}
                BY <2>6 DEF RecvShort
            <4>3. recvWork' \in 0 .. MaxQueue
                BY <4>1 DEF TakeRecvWork
            <4>4. recvAt' \in {"idle", "load"}
                BY <4>1, <4>2 DEF TakeRecvWork
            <4>5. closing' \in BOOLEAN
                BY <4>2
            <4> QED
                BY <4>3, <4>4, <4>5
        <3>9. UNCHANGED <<rd, wr, cached, full, sendWork, outEvents, sendAt, sendTo, wire,
                          inKernel, armed, lastFired, sawFull, frames, ends, peerSent,
                          peerClosed>>
            BY <2>6 DEF RecvShort
        <3> QED
            BY <3>2, <3>3, <3>8, <3>9 DEF Received
    <2>7. CASE GetSendBufIsFull
        BY <2>7 DEF GetSendBufIsFull
    <2>8. CASE AddToEpollWaitThread
        BY <2>8 DEF AddToEpollWaitThread
    <2> QED
        BY <1>7, <2>1, <2>2, <2>3, <2>4, <2>5, <2>6, <2>7, <2>8 DEF RecvThread
<1>8. CASE SendThread
    <2>1. CASE TakeOutEvent
        <3>1. full' \in BOOLEAN /\ sendAt' \in {"idle", "load"}
            BY <2>1 DEF TakeOutEvent
        <3>2. outEvents' \in 0 .. MaxQueue
            BY <2>1 DEF TakeOutEvent
        <3>3. sendAt' = "send" => FALSE
            BY <2>1 DEF TakeOutEvent
        <3>4. UNCHANGED <<ringVars, sendWork, sendTo, wire, inKernel, epollVars, recvVars, peerVars,
                          closing>>
            BY <2>1 DEF TakeOutEvent
        <3> QED
            BY <3>1, <3>2, <3>3, <3>4
    <2>2. CASE TakeSendWork
        <3>1. sendWork' \in 0 .. MaxQueue
            BY <2>2 DEF TakeSendWork
        <3>2. sendAt' \in {"idle", "load"}
            BY <2>2 DEF TakeSendWork
        <3>3. UNCHANGED <<ringVars, full, outEvents, sendTo, wire, inKernel, epollVars, recvVars,
                          peerVars, closing>>
            BY <2>2 DEF TakeSendWork
        <3> QED
            BY <3>1, <3>2, <3>3
    <2>3. CASE LoadIndexes
        <3>1. UNCHANGED <<ringVars, full, sendWork, outEvents, wire, inKernel, epollVars, recvVars,
                          peerVars, closing>>
            BY <2>3 DEF LoadIndexes
        <3>2. CASE rd = wr
            <4>1. sendAt' = "idle" /\ sendTo' = sendTo
                BY <2>3, <3>2 DEF LoadIndexes
            <4> QED
                BY <3>1, <4>1
        <3>3. CASE rd # wr
            <4>1. sendAt' = "send" /\ sendTo' = wr /\ rd < wr
                BY <2>3, <3>3 DEF LoadIndexes
            <4> QED
                BY <3>1, <4>1
        <3> QED
            BY <3>2, <3>3
    <2>4. CASE SendSegment
        BY <2>4 DEF SendSegment, Segment, PutOnWire, Taken, Room
    <2>5. CASE SendBufFull
        BY <2>5 DEF SendBufFull
    <2>6. CASE ArmForOutput
        BY <2>6 DEF ArmForOutput
    <2> QED
        BY <1>8, <2>1, <2>2, <2>3, <2>4, <2>5, <2>6 DEF SendThread
<1> QED
    BY <1>1, <1>2, <1>3, <1>4, <1>5, <1>6, <1>7, <1>8 DEF Next
LEMMA IOAlways == Spec => []IOInv
    BY IOInit, IOStep, PTL DEF Spec

\* The type invariant holds of every connection.
THEOREM TypeCorrect == Spec => []TypeOK
<1>1. IOInv => TypeOK
    BY DEF IOInv
<1> QED
    BY <1>1, IOAlways, PTL

\* The send ring never overflows and the send thread stays inside what was appended.
THEOREM RingIsSafe == Spec => []RingInv
<1>1. IOInv => RingInv
    BY DEF IOInv
<1> QED
    BY <1>1, IOAlways, PTL

\* The receive buffer holds exactly the incomplete frame and always has room.
THEOREM BufferIsSafe == Spec => []RecvInv
<1>1. IOInv => RecvInv
    BY DEF IOInv
<1> QED
    BY <1>1, IOAlways, PTL

-----------------------------------------------------------------------------
(* The bytes on the wire.                                                  *)

\* Only SendSegment touches the wire or the read index.
LEMMA OthersKeepTheWire ==
    ASSUME [Next]_vars, ~SendSegment
    PROVE  wire' = wire /\ rd' = rd
    BY DEF Next, vars, ringVars, sendVars, epollVars, recvVars, peerVars,
           Peer, PeerCloses, PeerSends, PeerReadsSome, PeerReads, Closed,
           MainThread, Flush, SendPacket, SendPacketUncached, SendPacketKicks, EpollWait,
           RecvThread, Skip, RecvNothing, RecvEnd, RecvFrames, RecvFails, RecvShort,
           GetSendBufIsFull, AddToEpollWaitThread,
           SendThread, TakeOutEvent, TakeSendWork, LoadIndexes, SendBufFull, ArmForOutput

\* What SendSegment does to both.
LEMMA SegmentOnWire ==
    ASSUME IOInv, SendSegment
    PROVE  \E end \in Nat, k \in Nat :
                /\ rd' = end /\ rd + k <= end /\ k > 0
                /\ wire' = wire \o [i \in 1 .. k |-> rd + i]
                /\ ~PartialSends => rd + k = end
<1>1. /\ rd \in Nat /\ inKernel \in 0 .. SockCap /\ sendTo \in 0 .. MaxAppend
      /\ SockCap \in Nat /\ MaxAppend \in Nat
    BY DEF IOInv, TypeOK
<1>2. PICK end \in rd + 1 .. sendTo : PutOnWire(Taken(end - rd)) /\ rd' = end
    BY DEF SendSegment
<1> DEFINE k == Taken(end - rd)
<1>3. k > 0 /\ wire' = wire \o [i \in 1 .. k |-> rd + i]
    BY <1>2 DEF PutOnWire
<1>4. end \in Nat /\ k \in Nat /\ rd + k <= end /\ (~PartialSends => rd + k = end)
    BY <1>1, <1>2, <1>3 DEF Taken, Room
<1> QED
    BY <1>2, <1>3, <1>4

\* The bytes on the wire are older than the read index and in order.
OrderInv == InOrder /\ \A i \in 1 .. Len(wire) : wire[i] <= rd

LEMMA OrderStep == IOInv /\ OrderInv /\ [Next]_vars => OrderInv'
<1> SUFFICES ASSUME IOInv, OrderInv, [Next]_vars PROVE OrderInv'
    OBVIOUS
<1>1. CASE ~SendSegment
    BY <1>1, OthersKeepTheWire DEF OrderInv, InOrder
<1>2. CASE SendSegment
    <2>1. PICK end \in Nat, k \in Nat :
                /\ rd' = end /\ rd + k <= end /\ k > 0
                /\ wire' = wire \o [i \in 1 .. k |-> rd + i]
        BY <1>2, SegmentOnWire
    <2>2. wire \in Seq(Nat) /\ rd \in Nat /\ Len(wire) \in Nat
        BY DEF IOInv, TypeOK
    <2> DEFINE more == [i \in 1 .. k |-> rd + i]
    <2>3. more \in Seq(Nat) /\ Len(more) = k
        BY <2>1, <2>2
    <2>4. Len(wire') = Len(wire) + k
        BY <2>1, <2>2, <2>3
    <2>5. \A i \in 1 .. Len(wire') :
            wire'[i] = IF i <= Len(wire) THEN wire[i] ELSE rd + (i - Len(wire))
        BY <2>1, <2>2, <2>3, <2>4
    <2>6. \A i \in 1 .. Len(wire) : wire[i] \in Nat /\ wire[i] <= rd
        BY <2>2 DEF OrderInv
    <2>7. \A i, j \in 1 .. Len(wire) : i < j => wire[i] < wire[j]
        BY DEF OrderInv, InOrder
    <2>8. InOrder'
        BY <2>1, <2>2, <2>4, <2>5, <2>6, <2>7 DEF InOrder
    <2>9. \A i \in 1 .. Len(wire') : wire'[i] <= rd'
        BY <2>1, <2>2, <2>4, <2>5, <2>6
    <2> QED
        BY <2>8, <2>9 DEF OrderInv
<1> QED
    BY <1>1, <1>2

\* The peer gets no byte twice and none out of order, even when send() takes less than
\* it is given.
THEOREM BytesStayInOrder == Spec => []InOrder
<1>1. Init => OrderInv
    BY DEF Init, OrderInv, InOrder
<1>2. OrderInv => InOrder
    BY DEF OrderInv
<1> QED
    BY <1>1, <1>2, IOAlways, OrderStep, PTL DEF Spec

LEMMA IntactStep == ~PartialSends /\ IOInv /\ StreamIntact /\ [Next]_vars => StreamIntact'
<1> SUFFICES ASSUME ~PartialSends, IOInv, StreamIntact, [Next]_vars PROVE StreamIntact'
    OBVIOUS
<1>1. CASE ~SendSegment
    BY <1>1, OthersKeepTheWire DEF StreamIntact
<1>2. CASE SendSegment
    <2>1. PICK end \in Nat, k \in Nat :
                /\ rd' = end /\ rd + k = end
                /\ wire' = wire \o [i \in 1 .. k |-> rd + i]
        BY <1>2, SegmentOnWire
    <2>2. wire \in Seq(Nat) /\ rd \in Nat /\ wire = [i \in 1 .. rd |-> i] /\ Len(wire) = rd
        BY DEF IOInv, TypeOK, StreamIntact
    <2> DEFINE more == [i \in 1 .. k |-> rd + i]
    <2>3. more \in Seq(Nat) /\ Len(more) = k
        BY <2>1, <2>2
    <2>4. wire \o more = [i \in 1 .. rd + k |-> IF i <= rd THEN wire[i] ELSE more[i - rd]]
        BY <2>2, <2>3
    <2>5. wire \o more = [i \in 1 .. rd + k |-> i]
        BY <2>1, <2>2, <2>4
    <2> QED
        BY <2>1, <2>5 DEF StreamIntact
<1> QED
    BY <1>1, <1>2

\* As long as send() takes everything or nothing, the peer gets every byte that left
\* the ring.
THEOREM NothingIsLost == ~PartialSends => (Spec => []StreamIntact)
<1> SUFFICES ASSUME ~PartialSends PROVE Spec => []StreamIntact
    OBVIOUS
<1>1. Init => StreamIntact
    BY DEF Init, StreamIntact
<1>2. IOInv /\ StreamIntact /\ [Next]_vars => StreamIntact'
    BY IntactStep
<1> QED
    BY <1>1, <1>2, IOAlways, PTL DEF Spec

-----------------------------------------------------------------------------
(* Listening.                                                              *)

LEMMA DeafStep == IOInv /\ DeafReasons /\ [Next]_vars => DeafReasons'
<1> SUFFICES ASSUME IOInv, DeafReasons, [Next]_vars PROVE DeafReasons'
    OBVIOUS
<1> USE DEF DeafReasons, Deaf, ringVars, sendVars, epollVars, recvVars, peerVars
<1>1. CASE UNCHANGED vars
    BY <1>1 DEF vars
<1>2. CASE Peer
    BY <1>2 DEF Peer, PeerCloses, PeerSends
<1>3. CASE PeerReadsSome
    BY <1>3 DEF PeerReadsSome, PeerReads
<1>4. CASE Closed
    BY <1>4 DEF Closed
<1>5. CASE MainThread
    BY <1>5 DEF MainThread, Flush, SendPacket, SendPacketUncached, SendPacketKicks
<1>6. CASE EpollWait
    <2>1. armed \subseteq {"in", "out"} /\ lastFired' \subseteq armed /\ lastFired' # {}
        BY <1>6 DEF EpollWait, IOInv, TypeOK
    <2>2. CASE "in" \in lastFired' /\ ~closing
        <3>1. recvWork \in Nat /\ recvWork' = recvWork + 1
            BY <1>6, <2>2 DEF EpollWait, IOInv, TypeOK
        <3> QED
            BY <3>1
    <2>3. CASE "in" \notin lastFired'
        BY <2>1, <2>3
    <2>4. CASE closing
        BY <1>6, <2>4 DEF EpollWait
    <2> QED
        BY <2>2, <2>3, <2>4
<1>7. CASE RecvThread
    <2>1. CASE Skip \/ RecvEnd \/ RecvFails
        BY <2>1 DEF Skip, RecvEnd, RecvFails
    <2>2. CASE RecvNothing \/ RecvFrames \/ GetSendBufIsFull
        BY <2>2 DEF RecvNothing, RecvFrames, GetSendBufIsFull
    <2>3. CASE RecvShort
        <3>1. content' = content + RecvCount /\ content' \in 0 .. 1
            BY <2>3, ShortIsShort
        <3>2. content \in Nat /\ RecvCount \in Nat /\ RecvCount > 0
            BY <2>3, RecvHasRoom DEF RecvShort, IOInv, TypeOK
        <3> QED
            BY <3>1, <3>2
    <2>4. CASE AddToEpollWaitThread
        BY <2>4 DEF AddToEpollWaitThread
    <2> QED
        BY <1>7, <2>1, <2>2, <2>3, <2>4 DEF RecvThread
<1>8. CASE SendThread
    BY <1>8 DEF SendThread, TakeOutEvent, TakeSendWork, LoadIndexes, SendSegment, SendBufFull,
        ArmForOutput
<1> QED
    BY <1>1, <1>2, <1>3, <1>4, <1>5, <1>6, <1>7, <1>8 DEF Next

\* A connection stops listening for two reasons only: a lone first byte, or an EPOLLOUT
\* that came alone.
THEOREM OnlyTwoWaysToGoDeaf == Spec => []DeafReasons
<1>1. Init => DeafReasons
    BY DEF Init, DeafReasons, Deaf
<1> QED
    BY <1>1, IOAlways, DeafStep, PTL DEF Spec

-----------------------------------------------------------------------------
(* Waiting for room.                                                       *)

\* What the receive thread read of the flag still covers it when it calls epoll_ctl.
RaceInv == recvAt = "mod" /\ full => sawFull

LEMMA RaceStep == ~RearmRace /\ IOInv /\ RaceInv /\ [Next]_vars => RaceInv'
<1> SUFFICES ASSUME ~RearmRace, IOInv, RaceInv, [Next]_vars PROVE RaceInv'
    OBVIOUS
<1>1. CASE GetSendBufIsFull
    BY <1>1 DEF GetSendBufIsFull, RaceInv
<1>2. CASE TakeOutEvent
    BY <1>2 DEF TakeOutEvent, RaceInv, recvVars
<1>3. CASE SendBufFull
    BY <1>3 DEF SendBufFull, RaceInv, recvVars
<1>4. CASE ~GetSendBufIsFull /\ ~TakeOutEvent /\ ~SendBufFull
    <2>1. full' = full /\ sawFull' = sawFull /\ (recvAt' = "mod" => recvAt = "mod")
        BY <1>4 DEF Next, vars, ringVars, sendVars, epollVars, recvVars, peerVars,
           Peer, PeerCloses, PeerSends, PeerReadsSome, PeerReads, Closed,
           MainThread, Flush, SendPacket, SendPacketUncached, SendPacketKicks, EpollWait,
           RecvThread, Skip, RecvNothing, RecvEnd, RecvFrames, RecvFails, RecvShort,
           AddToEpollWaitThread,
           SendThread, TakeSendWork, LoadIndexes, SendSegment, ArmForOutput
    <2> QED
        BY <2>1 DEF RaceInv
<1> QED
    BY <1>1, <1>2, <1>3, <1>4

LEMMA FullStep ==
    IOInv /\ RaceInv /\ FullMeansOutArmed /\ [Next]_vars => FullMeansOutArmed'
<1> SUFFICES ASSUME IOInv, RaceInv, FullMeansOutArmed, [Next]_vars
             PROVE FullMeansOutArmed'
    OBVIOUS
<1> USE DEF FullMeansOutArmed, ringVars, sendVars, epollVars, recvVars, peerVars
<1>1. CASE UNCHANGED vars
    BY <1>1 DEF vars
<1>2. CASE Peer
    BY <1>2 DEF Peer, PeerCloses, PeerSends
<1>3. CASE PeerReadsSome
    BY <1>3 DEF PeerReadsSome, PeerReads
<1>4. CASE Closed
    BY <1>4 DEF Closed
<1>5. CASE MainThread
    BY <1>5 DEF MainThread, Flush, SendPacket, SendPacketUncached, SendPacketKicks
<1>6. CASE EpollWait
    <2>1. recvWork \in Nat /\ outEvents \in Nat /\ armed \subseteq {"in", "out"}
        BY DEF IOInv, TypeOK
    <2>2. CASE closing
        BY <1>6, <2>2 DEF EpollWait
    <2>3. CASE "out" \in lastFired' /\ ~closing
        <3>1. outEvents' > 0
            BY <1>6, <2>1, <2>3 DEF EpollWait
        <3> QED
            BY <3>1
    <2>4. CASE "in" \in lastFired' /\ ~closing
        <3>1. recvWork' > 0
            BY <1>6, <2>1, <2>4 DEF EpollWait
        <3> QED
            BY <3>1
    <2>5. "in" \in lastFired' \/ "out" \in lastFired'
        BY <1>6, <2>1 DEF EpollWait
    <2> QED
        BY <2>2, <2>3, <2>4, <2>5
<1>7. CASE RecvThread
    <2>1. CASE Skip \/ RecvEnd \/ RecvFails
        BY <2>1 DEF Skip, RecvEnd, RecvFails
    <2>2. CASE RecvNothing \/ RecvFrames
        BY <2>2 DEF RecvNothing, RecvFrames
    <2>3. CASE RecvShort
        <3>1. content' = content + RecvCount /\ content' \in 0 .. 1
            BY <2>3, ShortIsShort
        <3>2. content \in Nat /\ RecvCount \in Nat /\ RecvCount > 0
            BY <2>3, RecvHasRoom DEF RecvShort, IOInv, TypeOK
        <3>3. content' = 1
            BY <3>1, <3>2
        <3> QED
            BY <3>3
    <2>4. CASE GetSendBufIsFull
        BY <2>4 DEF GetSendBufIsFull
    <2>5. CASE AddToEpollWaitThread
        BY <2>5 DEF AddToEpollWaitThread, RaceInv
    <2> QED
        BY <1>7, <2>1, <2>2, <2>3, <2>4, <2>5 DEF RecvThread
<1>8. CASE SendThread
    <2>1. CASE TakeOutEvent
        BY <2>1 DEF TakeOutEvent
    <2>2. CASE TakeSendWork \/ LoadIndexes \/ SendSegment
        BY <2>2 DEF TakeSendWork, LoadIndexes, SendSegment
    <2>3. CASE SendBufFull
        BY <2>3 DEF SendBufFull
    <2>4. CASE ArmForOutput
        BY <2>4 DEF ArmForOutput
    <2> QED
        BY <1>8, <2>1, <2>2, <2>3, <2>4 DEF SendThread
<1> QED
    BY <1>1, <1>2, <1>3, <1>4, <1>5, <1>6, <1>7, <1>8 DEF Next

\* Unless the ring runs full between GetSendBufIsFull and epoll_ctl, a full kernel
\* buffer leaves a connection without somebody who waits for room only when RecvData
\* was left with a lone byte.
THEOREM FullBuffersAreWatched == ~RearmRace => (Spec => []FullMeansOutArmed)
<1> SUFFICES ASSUME ~RearmRace PROVE Spec => []FullMeansOutArmed
    OBVIOUS
<1>1. Init => FullMeansOutArmed /\ RaceInv
    BY DEF Init, FullMeansOutArmed, RaceInv
<1>2. IOInv /\ RaceInv /\ FullMeansOutArmed /\ [Next]_vars => FullMeansOutArmed' /\ RaceInv'
    BY FullStep, RaceStep
<1> QED
    BY <1>1, <1>2, IOAlways, PTL DEF Spec
=============================================================================
