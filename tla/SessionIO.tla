----------------------------- MODULE SessionIO -----------------------------
(***************************************************************************)
(* The bytes of one live connection: LSession (src/NetWork/LSession.cpp)   *)
(* between the epoll, the receive, the send and the main thread.           *)
(*                                                                         *)
(* The socket is registered with EPOLLONESHOT: an event disarms it until a *)
(* thread registers it again.  The receive thread does so after it has     *)
(* read (AddToEpollWaitThread), the send thread after the kernel refused   *)
(* to take more (SendDataInFixCircleSendBuf).  The main thread fills the   *)
(* send ring and hands the send thread a work item per packet.             *)
(*                                                                         *)
(* Bytes are counted: byte n of the send ring is in slot n % RingSize, so  *)
(* the ring's two indexes are the totals rd and wr.  What CircleBuf shows  *)
(* of the ring is used here, not repeated; so is SessionLife's closing,    *)
(* which is one action here.                                               *)
(***************************************************************************)
EXTENDS Integers, Sequences

CONSTANTS
    RingSize,       \* slots of m_FixLenCircleBufForSendData
    SockCap,        \* bytes the kernel's send buffer holds
    MaxAppend,      \* bound: bytes the main thread sends
    MaxPacket,      \* bound: the longest packet it sends
    FrameCount,     \* bound: frames the peer sends
    FrameLengths,   \* the lengths their headers give
    MaxFrame,       \* MAX_PACKET_SIZE
    MaxQueue,       \* bound: work items of one kind waiting for one thread
    PartialSends,   \* TRUE: send() may take a part of what it is given
    SplitHeader,    \* TRUE: the first byte of a frame may arrive alone
    RearmRace,      \* TRUE: the send ring may run full between GetSendBufIsFull and
                    \* epoll_ctl in AddToEpollWaitThread
    BusyCache       \* TRUE: other connections may fill the main thread's send cache

ASSUME SessionIOAssumption ==
    /\ RingSize \in Nat \ {0} /\ SockCap \in Nat \ {0}
    /\ MaxAppend \in Nat /\ MaxPacket \in Nat
    /\ FrameCount \in Nat /\ FrameLengths \subseteq Nat
    /\ MaxFrame \in Nat /\ MaxFrame >= 2 /\ MaxQueue \in Nat
    /\ {PartialSends, SplitHeader, RearmRace, BusyCache} \subseteq BOOLEAN

VARIABLES
    rd, wr,         \* the ring's indexes, counted from the first byte on
    full,           \* m_nSendBufIsFull
    cached,         \* work items in m_parrLocalSendPacketPoolCache
    sendWork,       \* work items in m_SendCircleBuf
    outEvents,      \* events in m_SendEpollOutCircleBuf
    sendAt,         \* where the send thread is
    sendTo,         \* nWriteIndex, as it loaded it
    wire,           \* the bytes send() took, by number
    inKernel,       \* how many of them the peer has not read
    armed,          \* the events the socket is registered for
    lastFired,      \* the last event epoll_wait returned
    recvWork,       \* work items in the receive thread's ring
    recvAt,         \* where the receive thread is
    sawFull,        \* what GetSendBufIsFull answered it
    content,        \* m_unCurrentContentLen
    received,       \* bytes recv() returned
    delivered,      \* frames handed to the main thread
    frames,         \* the lengths in the peer's headers
    ends,           \* where each frame ends in the peer's byte stream
    peerSent,       \* bytes the peer has sent
    peerClosed,
    closing         \* m_nCloseWorkSendedToCloseThread, or the session is gone

ringVars == <<rd, wr, cached>>
sendVars == <<sendWork, outEvents, sendAt, sendTo, wire>>
epollVars == <<armed, lastFired>>
recvVars == <<recvWork, recvAt, sawFull, content, received, delivered>>
peerVars == <<frames, ends, peerSent, peerClosed>>
vars == <<ringVars, full, sendVars, inKernel, epollVars, recvVars, peerVars, closing>>

HeaderLength == 2           \* sizeof(unsigned short)
RecvBufSize == MaxFrame + 4 \* sizeof(m_szRecvedContent)

-----------------------------------------------------------------------------
(* The peer's byte stream.                                                 *)

Legal(n) == frames[n] \in HeaderLength .. MaxFrame

\* Of a frame with an illegal length only the header counts.
FrameSize(n) == IF Legal(n) THEN frames[n] ELSE HeaderLength

\* bytes: a total; the last one is the first of a header
LoneByte(bytes) == \E n \in 0 .. FrameCount - 1 : bytes = ends[n] + 1

Ready == {e \in {"in", "out"} :
            \/ e = "in" /\ (peerSent > received \/ peerClosed)
            \/ e = "out" /\ inKernel < SockCap}

Init ==
    /\ rd = 0 /\ wr = 0 /\ full = FALSE /\ cached = 0
    /\ sendWork = 0 /\ outEvents = 0 /\ sendAt = "idle" /\ sendTo = 0
    /\ wire = <<>> /\ inKernel = 0
    /\ armed = {"in"} /\ lastFired = {}
    /\ recvWork = 0 /\ recvAt = "idle" /\ sawFull = FALSE
    /\ content = 0 /\ received = 0 /\ delivered = 0
    /\ frames \in [1 .. FrameCount -> FrameLengths]
    /\ ends \in [0 .. FrameCount -> 0 .. FrameCount * MaxFrame]
    /\ ends[0] = 0 /\ \A n \in 1 .. FrameCount : ends[n] = ends[n - 1] + FrameSize(n)
    /\ peerSent = 0 /\ peerClosed = FALSE /\ closing = FALSE

PeerSends(k) ==
    /\ ~peerClosed
    /\ peerSent + k <= ends[FrameCount]
    /\ SplitHeader \/ ~LoneByte(peerSent + k)
    /\ peerSent' = peerSent + k
    /\ UNCHANGED <<ringVars, full, sendVars, inKernel, epollVars, recvVars, frames,
                   ends, peerClosed, closing>>

PeerReads(k) ==
    /\ k <= inKernel
    /\ inKernel' = inKernel - k
    /\ UNCHANGED <<ringVars, full, sendVars, epollVars, recvVars, peerVars, closing>>

PeerCloses ==
    /\ ~peerClosed
    /\ peerClosed' = TRUE
    /\ UNCHANGED <<ringVars, full, sendVars, inKernel, epollVars, recvVars, frames,
                   ends, peerSent, closing>>

\* Some thread has the session closed, for a reason that does not matter here.
Closed ==
    /\ ~closing
    /\ closing' = TRUE
    /\ UNCHANGED <<ringVars, full, sendVars, inKernel, epollVars, recvVars, peerVars>>

-----------------------------------------------------------------------------
(* The main thread: SendPacket and FlushSendPacketToSend.                  *)

\* A packet of k bytes goes into the ring as a whole, and a work item is cached.
SendPacket(k) ==
    /\ ~closing
    /\ wr + k <= MaxAppend
    /\ cached < MaxQueue
    /\ wr + k - rd < RingSize
    /\ wr' = wr + k
    /\ cached' = cached + 1
    /\ UNCHANGED <<rd, full, sendVars, inKernel, epollVars, recvVars, peerVars, closing>>

\* ... but the cache has no room: the packet stays in the ring without a work item.
SendPacketUncached(k) ==
    /\ BusyCache
    /\ ~closing
    /\ wr + k <= MaxAppend
    /\ wr + k - rd < RingSize
    /\ wr' = wr + k
    /\ UNCHANGED <<rd, cached, full, sendVars, inKernel, epollVars, recvVars, peerVars,
                   closing>>

\* The ring has no room for the packet: KickOutSession.
SendPacketKicks(k) ==
    /\ ~closing
    /\ wr + k <= MaxAppend
    /\ wr + k - rd >= RingSize
    /\ closing' = TRUE
    /\ UNCHANGED <<ringVars, full, sendVars, inKernel, epollVars, recvVars, peerVars>>

\* The whole cache moves, or, when the send thread's ring has no room, a part of it.
Flush ==
    /\ cached > 0
    /\ \E n \in 0 .. cached :
        /\ n = cached \/ sendWork + cached > MaxQueue
        /\ sendWork + n <= MaxQueue
        /\ sendWork' = sendWork + n
        /\ cached' = cached - n
    /\ UNCHANGED <<rd, wr, full, outEvents, sendAt, sendTo, wire, inKernel, epollVars,
                   recvVars, peerVars, closing>>

-----------------------------------------------------------------------------
(* The epoll thread.                                                       *)

EpollWait ==
    LET fired == armed \cap Ready IN
    /\ fired # {}
    /\ "in" \in fired => recvWork < MaxQueue
    /\ "out" \in fired => outEvents < MaxQueue
    /\ armed' = {}
    /\ lastFired' = fired
    /\ recvWork' = IF "in" \in fired /\ ~closing THEN recvWork + 1 ELSE recvWork
    /\ outEvents' = IF "out" \in fired /\ ~closing THEN outEvents + 1 ELSE outEvents
    /\ UNCHANGED <<ringVars, full, sendWork, sendAt, sendTo, wire, inKernel, recvAt,
                   sawFull, content, received, delivered, peerVars, closing>>

-----------------------------------------------------------------------------
(* The receive thread: RecvData and AddToEpollWaitThread.                  *)

TakeRecvWork ==
    /\ recvAt = "idle"
    /\ recvWork > 0
    /\ recvWork' = recvWork - 1

Skip ==
    /\ TakeRecvWork
    /\ closing
    /\ UNCHANGED <<ringVars, full, sendVars, inKernel, epollVars, recvAt, sawFull, content,
                   received, delivered, peerVars, closing>>

\* EAGAIN
RecvNothing ==
    /\ TakeRecvWork
    /\ ~closing
    /\ peerSent = received /\ ~peerClosed
    /\ recvAt' = "load"
    /\ UNCHANGED <<ringVars, full, sendVars, inKernel, epollVars, sawFull, content, received,
                   delivered, peerVars, closing>>

\* recv() returns 0
RecvEnd ==
    /\ TakeRecvWork
    /\ ~closing
    /\ peerSent = received /\ peerClosed
    /\ closing' = TRUE
    /\ UNCHANGED <<ringVars, full, sendVars, inKernel, epollVars, recvAt, sawFull, content,
                   received, delivered, peerVars>>

\* What recv() returns, the buffer's room permitting
RecvCount ==
    IF peerSent - received <= RecvBufSize - content THEN peerSent - received
    ELSE RecvBufSize - content

\* The frames that are complete, or as many of them as there are packets for, leave
\* the buffer.  done: the last one; k: the bytes recv() returned.
Hand(done, k) ==
    /\ done \in delivered .. FrameCount
    /\ ends[done] - ends[delivered] <= content + k
    /\ \A n \in delivered + 1 .. done : Legal(n)
    /\ delivered' = done
    /\ content' = content + k - (ends[done] - ends[delivered])
    /\ received' = received + k

\* The header behind frame done is there and gives a length
HasHeader(done, rest) == done < FrameCount /\ rest >= HeaderLength

\* Mutant of RecvFrames: the socket is registered only after a frame was handed on.
RecvFramesIdle ==
    /\ TakeRecvWork
    /\ ~closing /\ peerSent > received
    /\ content + RecvCount >= HeaderLength
    /\ \E done \in delivered .. FrameCount :
        /\ Hand(done, RecvCount)
        /\ HasHeader(done, content') => Legal(done + 1) /\ content' < frames[done + 1]
    /\ recvAt' = IF delivered' = delivered THEN "idle" ELSE "load"
    /\ UNCHANGED <<ringVars, full, sendVars, inKernel, epollVars, sawFull, peerVars, closing>>

\* Every complete frame is handed on; the next one is not complete.
RecvFrames ==
    /\ TakeRecvWork
    /\ ~closing /\ peerSent > received
    /\ content + RecvCount >= HeaderLength
    /\ \E done \in delivered .. FrameCount :
        /\ Hand(done, RecvCount)
        /\ HasHeader(done, content') => Legal(done + 1) /\ content' < frames[done + 1]
    /\ recvAt' = "load"
    /\ UNCHANGED <<ringVars, full, sendVars, inKernel, epollVars, sawFull, peerVars, closing>>

\* An illegal length, or no free packet, or no room for it: the close thread is asked
\* to close the session.
RecvFails ==
    /\ TakeRecvWork
    /\ ~closing /\ peerSent > received
    /\ content + RecvCount >= HeaderLength
    /\ \E done \in delivered .. FrameCount :
        /\ Hand(done, RecvCount)
        /\ HasHeader(done, content')
        /\ Legal(done + 1) => content' >= frames[done + 1]
    /\ closing' = TRUE
    /\ UNCHANGED <<ringVars, full, sendVars, inKernel, epollVars, recvAt, sawFull, peerVars>>

\* Fewer than two bytes: RecvData returns and registers nothing.
RecvShort ==
    /\ TakeRecvWork
    /\ ~closing /\ peerSent > received
    /\ content + RecvCount < HeaderLength
    /\ Hand(delivered, RecvCount)
    /\ UNCHANGED <<ringVars, full, sendVars, inKernel, epollVars, recvAt, sawFull, peerVars,
                   closing>>

GetSendBufIsFull ==
    /\ recvAt = "load"
    /\ recvAt' = "mod"
    /\ sawFull' = full
    /\ UNCHANGED <<ringVars, full, sendVars, inKernel, epollVars, recvWork, content, received,
                   delivered, peerVars, closing>>

\* Mutant of AddToEpollWaitThread: EPOLLOUT is never registered.
AddToEpollWaitThreadInOnly ==
    /\ recvAt = "mod"
    /\ recvAt' = "idle"
    /\ armed' = {"in"}
    /\ UNCHANGED <<ringVars, full, sendVars, inKernel, lastFired, recvWork, sawFull, content,
                   received, delivered, peerVars, closing>>

AddToEpollWaitThread ==
    /\ recvAt = "mod"
    /\ recvAt' = "idle"
    /\ armed' = IF sawFull THEN {"in", "out"} ELSE {"in"}
    /\ UNCHANGED <<ringVars, full, sendVars, inKernel, lastFired, recvWork, sawFull, content,
                   received, delivered, peerVars, closing>>

-----------------------------------------------------------------------------
(* The send thread: SendDataInFixCircleSendBuf.                            *)

TakeOutEvent ==
    /\ sendAt = "idle"
    /\ outEvents > 0
    /\ outEvents' = outEvents - 1
    /\ IF closing THEN UNCHANGED <<full, sendAt>> ELSE full' = FALSE /\ sendAt' = "load"
    /\ UNCHANGED <<ringVars, sendWork, sendTo, wire, inKernel, epollVars, recvVars, peerVars,
                   closing>>

TakeSendWork ==
    /\ sendAt = "idle"
    /\ sendWork > 0
    /\ sendWork' = sendWork - 1
    /\ sendAt' = IF closing THEN "idle" ELSE "load"
    /\ UNCHANGED <<ringVars, full, outEvents, sendTo, wire, inKernel, epollVars, recvVars,
                   peerVars, closing>>

LoadIndexes ==
    /\ sendAt = "load"
    /\ IF rd = wr THEN sendAt' = "idle" /\ UNCHANGED sendTo
       ELSE sendAt' = "send" /\ sendTo' = wr
    /\ UNCHANGED <<ringVars, full, sendWork, outEvents, wire, inKernel, epollVars, recvVars,
                   peerVars, closing>>

\* One send() goes from rd to the end of the buffer or to the loaded write index.
Segment(end) ==
    /\ end \in rd + 1 .. sendTo
    /\ end = sendTo \/ end % RingSize = 0
    /\ \A n \in rd + 1 .. end - 1 : n % RingSize # 0

Room == SockCap - inKernel

\* send() takes n bytes: what there is room for, or all or nothing.
Taken(n) ==
    IF Room >= n THEN n
    ELSE IF PartialSends THEN Room ELSE 0

\* The first k of the bytes from rd on are on their way.
PutOnWire(k) ==
    /\ k > 0
    /\ wire' = wire \o [i \in 1 .. k |-> rd + i]
    /\ inKernel' = inKernel + k

\* Mutant of SendSegment: the read index is set to the write index as it is now.
SendSegmentToNow ==
    /\ sendAt = "send"
    /\ \E end \in rd + 1 .. sendTo :
        /\ Segment(end)
        /\ PutOnWire(Taken(end - rd))
        /\ rd' = IF end = sendTo THEN wr ELSE end
        /\ sendAt' = IF end = sendTo THEN "idle" ELSE "send"
    /\ UNCHANGED <<wr, cached, full, sendWork, outEvents, sendTo, epollVars, recvVars,
                   peerVars, closing>>

\* Any positive answer counts as the whole segment.
SendSegment ==
    /\ sendAt = "send"
    /\ \E end \in rd + 1 .. sendTo :
        /\ Segment(end)
        /\ PutOnWire(Taken(end - rd))
        /\ rd' = end
        /\ sendAt' = IF end = sendTo THEN "idle" ELSE "send"
    /\ UNCHANGED <<wr, cached, full, sendWork, outEvents, sendTo, epollVars, recvVars,
                   peerVars, closing>>

\* EAGAIN
SendBufFull ==
    /\ sendAt = "send"
    /\ \E end \in rd + 1 .. sendTo : Segment(end) /\ Taken(end - rd) = 0
    /\ RearmRace \/ recvAt # "mod"
    /\ full' = TRUE
    /\ sendAt' = "mod"
    /\ UNCHANGED <<ringVars, sendWork, outEvents, sendTo, wire, inKernel, epollVars, recvVars,
                   peerVars, closing>>

\* Mutant of ArmForOutput: the socket is not registered again.
ArmNothing ==
    /\ sendAt = "mod"
    /\ sendAt' = "idle"
    /\ UNCHANGED <<ringVars, full, sendWork, outEvents, sendTo, wire, inKernel, epollVars,
                   recvVars, peerVars, closing>>

ArmForOutput ==
    /\ sendAt = "mod"
    /\ sendAt' = "idle"
    /\ armed' = {"in", "out"}
    /\ UNCHANGED <<ringVars, full, sendWork, outEvents, sendTo, wire, inKernel, lastFired,
                   recvVars, peerVars, closing>>

-----------------------------------------------------------------------------
Peer == PeerCloses \/ (\E k \in 1 .. ends[FrameCount] : PeerSends(k))
PeerReadsSome == \E k \in 1 .. SockCap : PeerReads(k)

MainThread ==
    \/ Flush
    \/ \E k \in 1 .. MaxPacket : SendPacket(k) \/ SendPacketUncached(k) \/ SendPacketKicks(k)

RecvThread == \/ Skip \/ RecvNothing \/ RecvEnd \/ RecvFrames \/ RecvFails \/ RecvShort
              \/ GetSendBufIsFull \/ AddToEpollWaitThread

SendThread == \/ TakeOutEvent \/ TakeSendWork \/ LoadIndexes
              \/ SendSegment \/ SendBufFull \/ ArmForOutput

Next == Peer \/ PeerReadsSome \/ Closed \/ MainThread \/ EpollWait \/ RecvThread \/ SendThread

Spec == Init /\ [][Next]_vars

\* The threads are loops that never block on each other; the main thread flushes once
\* per turn; a peer that stays connected reads what it is sent.
FairSpec ==
    /\ Spec
    /\ WF_vars(PeerReadsSome) /\ WF_vars(Flush) /\ WF_vars(EpollWait)
    /\ WF_vars(RecvThread) /\ WF_vars(SendThread)
    /\ SF_vars(TakeSendWork) /\ SF_vars(TakeOutEvent)

-----------------------------------------------------------------------------
TypeOK ==
    /\ rd \in Nat /\ wr \in 0 .. MaxAppend /\ full \in BOOLEAN /\ cached \in 0 .. MaxQueue
    /\ sendWork \in 0 .. MaxQueue /\ outEvents \in 0 .. MaxQueue
    /\ sendAt \in {"idle", "load", "send", "mod"} /\ sendTo \in 0 .. MaxAppend
    /\ wire \in Seq(Nat) /\ inKernel \in 0 .. SockCap
    /\ armed \subseteq {"in", "out"} /\ lastFired \subseteq {"in", "out"}
    /\ recvWork \in 0 .. MaxQueue /\ recvAt \in {"idle", "load", "mod"}
    /\ sawFull \in BOOLEAN
    /\ content \in Nat /\ received \in Nat /\ delivered \in 0 .. FrameCount
    /\ frames \in [1 .. FrameCount -> FrameLengths] /\ ends \in [0 .. FrameCount -> Nat]
    /\ peerSent \in Nat /\ peerClosed \in BOOLEAN /\ closing \in BOOLEAN

\* The peer never gets a byte twice or before an older one, whatever the interleaving
\* of the appending main thread and the draining send thread (SetReadIndex takes no lock).
InOrder == \A i, j \in 1 .. Len(wire) : i < j => wire[i] < wire[j]

\* LSession.cpp:1209: what was passed to send() was sent completely, so the peer gets
\* every byte that left the ring.
StreamIntact == wire = [i \in 1 .. rd |-> i]

\* The ring never holds more than it can, and the send thread never works beyond what
\* the main thread has put there.
RingInv ==
    /\ rd <= wr /\ wr - rd < RingSize
    /\ sendAt = "send" => rd < sendTo /\ sendTo <= wr

\* What RecvData keeps in its buffer is the part of the next frame that has arrived,
\* and recv() always finds room behind it: an empty buffer would close the session
\* (LSocket.cpp:131).
RecvInv ==
    /\ content = received - ends[delivered]
    /\ received <= peerSent /\ peerSent <= ends[FrameCount]
    /\ ~closing => content < MaxFrame

\* Nothing will register the socket for input unless it gets more work.
Deaf ==
    /\ ~closing /\ "in" \notin armed
    /\ recvWork = 0 /\ recvAt = "idle" /\ sendAt # "mod"

\* There are two ways only in which a connection stops listening: RecvData left a
\* lone byte in its buffer, or the last event was EPOLLOUT alone, which disarms
\* EPOLLIN and makes the send thread, not the receive thread, work.
DeafReasons == Deaf => content = 1 \/ lastFired = {"out"}

\* LSession.h:158: while the send buffer is marked full, EPOLLOUT is registered or about
\* to be, or the event is on its way, unless RecvData left a lone byte in its buffer.
FullMeansOutArmed ==
    full /\ ~closing =>
        \/ "out" \in armed \/ outEvents > 0 \/ sendAt = "mod" \/ content = 1
        \/ recvWork > 0 \/ recvAt = "load" \/ (recvAt = "mod" /\ sawFull)

\* What the main thread has put into the ring leaves it through send(), unless the session
\* is closed, although the kernel may refuse it and only epoll tells when to try again.
AppendedIsSent == \A n \in 1 .. MaxAppend : wr >= n ~> (rd >= n \/ closing)

\* Every frame the peer sends completely is handed to the main thread, unless the
\* session is closed or the last event was EPOLLOUT alone, which disarmed EPOLLIN.
SentIsDelivered ==
    \A n \in 1 .. FrameCount :
        peerSent >= ends[n] ~> (delivered >= n \/ closing \/ (Deaf /\ lastFired = {"out"}))
=============================================================================
