----------------------------- MODULE Connector -----------------------------
(***************************************************************************)
(* LConnector: the thread with which a server keeps one connection to      *)
(* another (src/NetWork/LConnector.cpp), and the main thread that uses it  *)
(* (LConnectToMasterServer, the ThreadDoing of the gate server).           *)
(*                                                                         *)
(*   main -> sendQueue -> SendData -> kernel                               *)
(*   main <- recvQueue <- ParseRecvedData <- m_szBufForRecv <- kernel      *)
(*                                                                         *)
(* The two threads share two queues and two pools and nothing else.  The   *)
(* peer's frames are cut in two halves, the first of which holds the       *)
(* length, so that a connection may be lost within one.  Half n of a frame *)
(* that is read where a length is expected is a length all the same.       *)
(***************************************************************************)
EXTENDS Integers, Sequences, FiniteSets

CONSTANTS
    Packets,        \* of m_SendPacketPoolManager
    SendCap,        \* what m_SendPacketQueue holds
    RecvPool,       \* packets of m_RecvPacketPoolManager
    RecvCap,        \* what m_RecvedPacketQueue holds
    TextCap,        \* messages a packet's buffer holds
    MaxFds,         \* descriptors the process may open for this connector
    MaxSend,        \* bound: messages of the main thread
    MaxPeer,        \* bound: frames the peer sends
    MaxBreaks,      \* bound: connections lost
    MaxFails        \* bound: connects refused

ASSUME ConnectorAssumption ==
    /\ IsFiniteSet(Packets)
    /\ SendCap \in Nat /\ RecvPool \in Nat /\ RecvCap \in Nat /\ TextCap \in Nat \ {0}
    /\ MaxFds \in Nat /\ MaxSend \in Nat /\ MaxPeer \in Nat /\ MaxBreaks \in Nat
    /\ MaxFails \in Nat

VARIABLES
    at,             \* the connector's thread: "loop", "parse" or "dead"
    link,           \* the connection: 0, or its number
    links,          \* connections there have been
    broken,         \* the peer is gone, the thread has not noticed
    sendable,       \* m_bSendable
    leaked,         \* descriptors nobody closes
    net,            \* halves on their way from the peer
    buf,            \* m_szBufForRecv
    parsed,         \* nParsedDataLen of ParseRecvedData
    recvQueue,      \* m_RecvedPacketQueue
    recvFree,       \* packets in the pool for receiving
    recvLost,       \* packets the full queue refused
    sendQueue,      \* m_SendPacketQueue
    sendFree,       \* the pool for sending
    text,           \* what has been written into each packet for sending
    about,          \* the message each of them was taken from the pool for
    refused,        \* packets the full queue refused
    out,            \* frames given to the kernel
    heard,          \* the last half of the packet the main thread took before
    main,           \* the main thread: "runs", or "crashed" with a null pointer
    said,           \* messages the main thread has put into the queue
    peerSent, breaks, fails, \* counts for the bounds
    tainted         \* a connection was lost with bytes left in buf

linkVars == <<link, links, broken, leaked, breaks, fails, tainted>>
recvVars == <<net, buf, parsed, peerSent>>
recvPackets == <<recvQueue, recvFree, recvLost>>
sendVars == <<sendQueue, sendFree, text, about, refused, said>>
vars == <<at, linkVars, sendable, recvVars, recvPackets, sendVars, out, heard, main>>

\* A half of frame n of connection k; the first packet of a connection has no bytes.
Half(k, n, h) == [k |-> k, n |-> n, h |-> h]
Announcement(k) == <<Half(k, 0, 1)>>
Frame(k, n) == <<Half(k, n, 1), Half(k, n, 2)>>
IsAnnouncement(f) == Head(f).n = 0

Init ==
    /\ at = "loop" /\ link = 0 /\ links = 0 /\ broken = FALSE /\ sendable = TRUE /\ leaked = 0
    /\ net = <<>> /\ buf = <<>> /\ parsed = 0
    /\ recvQueue = <<>> /\ recvFree = RecvPool /\ recvLost = 0
    /\ sendQueue = <<>> /\ refused = {} /\ text = [p \in Packets |-> <<>>]
    /\ about = [p \in Packets |-> 0] /\ said = 0 /\ out = <<>>
    /\ sendFree \in {s \in [1 .. Cardinality(Packets) -> Packets] :
                        \A i, j \in DOMAIN s : s[i] = s[j] => i = j}
    /\ heard = Half(0, 0, 1) /\ main = "runs" /\ peerSent = 0
    /\ breaks = 0 /\ fails = 0 /\ tainted = FALSE
-----------------------------------------------------------------------------
(* The connection.                                                         *)

RoomToReceive == Len(recvQueue) < RecvCap

\* AddOneRecvedPacket; the result is not looked at, or the packet is deleted.
Receive(f) ==
    IF RoomToReceive
    THEN recvQueue' = Append(recvQueue, f) /\ recvLost' = recvLost
    ELSE recvQueue' = recvQueue /\ recvLost' = recvLost + 1

\* ReConnect, its period over: the main thread is told if there is a packet for it.  The
\* bytes of the connection that was lost stay in m_szBufForRecv.
ReConnect ==
    /\ at = "loop" /\ link = 0 /\ leaked < MaxFds
    /\ link' = links + 1 /\ links' = links + 1 /\ broken' = FALSE
    /\ IF recvFree = 0 THEN UNCHANGED recvPackets
       ELSE recvFree' = recvFree - 1 /\ Receive(Announcement(links + 1))
    /\ UNCHANGED <<at, leaked, breaks, fails, tainted, sendable, recvVars, sendVars, out,
                   heard, main>>

\* What a refused connect leaves open: the socket it was tried with.
LeftOpen == 1

ReConnectFails ==
    /\ at = "loop" /\ link = 0 /\ leaked < MaxFds /\ fails < MaxFails
    /\ fails' = fails + 1 /\ leaked' = leaked + LeftOpen
    /\ UNCHANGED <<at, link, links, broken, breaks, tainted, sendable, recvVars, recvPackets,
                   sendVars, out, heard, main>>

\* m_bIsConnected becomes false and the socket is closed.
Disconnect ==
    /\ link' = 0 /\ broken' = FALSE /\ net' = <<>>
    /\ tainted' = (tainted \/ buf # <<>>)
    /\ UNCHANGED <<links, leaked, breaks, fails>>

\* The peer or the network.
LinkBreaks ==
    /\ link # 0 /\ ~broken /\ breaks < MaxBreaks
    /\ broken' = TRUE /\ breaks' = breaks + 1
    /\ \E n \in 0 .. Len(net) : net' = SubSeq(net, 1, n)
    /\ UNCHANGED <<at, link, links, leaked, fails, tainted, sendable, buf, parsed, peerSent,
                   recvPackets, sendVars, out, heard, main>>

PeerSends ==
    /\ link # 0 /\ ~broken /\ peerSent < MaxPeer
    /\ peerSent' = peerSent + 1
    /\ net' = net \o Frame(link, peerSent + 1)
    /\ UNCHANGED <<at, linkVars, sendable, buf, parsed, recvPackets, sendVars, out, heard, main>>
-----------------------------------------------------------------------------
(* CheckForSocketEvent and SendData.                                       *)

\* select fails: the thread ends.
SelectFails ==
    /\ at = "loop" /\ link # 0 /\ breaks < MaxBreaks
    /\ at' = "dead" /\ breaks' = breaks + 1
    /\ UNCHANGED <<link, links, broken, leaked, fails, tainted, sendable, recvVars, recvPackets,
                   sendVars, out, heard, main>>

OnRecv ==
    /\ at = "loop" /\ link # 0 /\ net # <<>>
    /\ \E n \in 1 .. Len(net) :
        /\ buf' = buf \o SubSeq(net, 1, n)
        /\ net' = SubSeq(net, n + 1, Len(net))
    /\ parsed' = 0 /\ at' = "parse"
    /\ UNCHANGED <<linkVars, sendable, peerSent, recvPackets, sendVars, out, heard, main>>

\* recv returns 0 or an error.
OnRecvEnds ==
    /\ at = "loop" /\ link # 0 /\ broken /\ net = <<>>
    /\ Disconnect
    /\ UNCHANGED <<at, sendable, buf, parsed, peerSent, recvPackets, sendVars, out, heard, main>>

Unparsed == SubSeq(buf, parsed + 1, Len(buf))

\* The lengths, in halves, that may stand at the head of what is not parsed; 3 is one
\* that is longer than all there is.
Lengths == IF Unparsed = <<>> THEN {} ELSE IF Head(Unparsed).h = 1 THEN {2} ELSE {1, 2, 3}

\* One turn of the loop of ParseRecvedData.
ParseFrame ==
    /\ at = "parse" /\ recvFree > 0
    /\ \E n \in Lengths :
        /\ n <= Len(Unparsed)
        /\ Receive(SubSeq(Unparsed, 1, n))
        /\ parsed' = parsed + n
    /\ recvFree' = recvFree - 1
    /\ UNCHANGED <<at, linkVars, sendable, net, buf, peerSent, sendVars, out, heard, main>>

\* What stays in m_szBufForRecv once all frames in it are received.
LeftWithFrames == buf
LeftBehindFrames == Unparsed

\* It returns -1: there is no packet, or the first length is wrong.  m_szBufForRecv
\* keeps every byte, those of frames that were received as well.
ParseFails ==
    /\ at = "parse"
    /\ \/ recvFree = 0 /\ \E n \in Lengths : n <= Len(Unparsed)
       \/ parsed = 0 /\ 3 \in Lengths
    /\ Disconnect
    /\ at' = "loop" /\ parsed' = 0
    /\ UNCHANGED <<buf, sendable, peerSent, recvPackets, sendVars, out, heard, main>>

ParseEnds ==
    /\ at = "parse"
    /\ Unparsed = <<>> \/ \E n \in Lengths : n > Len(Unparsed)
    /\ buf' = LeftBehindFrames /\ parsed' = 0 /\ at' = "loop"
    /\ UNCHANGED <<linkVars, sendable, net, peerSent, recvPackets, sendVars, out, heard, main>>

\* The descriptor is in m_wrset.
WritableIsWatchedWrongly == sendable
WritableIsWatched == ~sendable

OnSend ==
    /\ at = "loop" /\ link # 0 /\ WritableIsWatched
    /\ sendable' = TRUE
    /\ UNCHANGED <<at, linkVars, recvVars, recvPackets, sendVars, out, heard, main>>

\* FreeSendPacket: the packet goes back to the pool as it is.
TextOfFreed(p) == text[p]

\* DeleteOneItemAtHead
StillQueued == sendQueue
BehindHead == Tail(sendQueue)

\* SendData, one packet: looked up, sent, and deleted when send took anything of it.
SendData ==
    /\ at = "loop" /\ link # 0 /\ sendable /\ sendQueue # <<>>
    /\ LET p == Head(sendQueue) IN
       \E whole \in BOOLEAN :
        /\ out' = Append(out, [about |-> about[p], text |-> text[p], whole |-> whole])
        /\ text' = [text EXCEPT ![p] = TextOfFreed(p)]
        /\ sendFree' = Append(sendFree, p)
    /\ sendQueue' = BehindHead
    /\ UNCHANGED <<at, linkVars, sendable, recvVars, recvPackets, about, refused, said, heard, main>>

\* EAGAIN
SendDataBlocks ==
    /\ at = "loop" /\ link # 0 /\ sendable /\ sendQueue # <<>> /\ fails < MaxFails
    /\ sendable' = FALSE /\ fails' = fails + 1
    /\ UNCHANGED <<at, link, links, broken, leaked, breaks, tainted, recvVars, recvPackets,
                   sendVars, out, heard, main>>

\* LookUpOneItem has left the packet where it was.
TakenOut == Tail(sendQueue)
LookedUp == sendQueue

SendDataFails ==
    /\ at = "loop" /\ link # 0 /\ broken /\ sendable /\ sendQueue # <<>>
    /\ Disconnect
    /\ sendQueue' = LookedUp
    /\ UNCHANGED <<at, sendable, buf, parsed, peerSent, recvPackets, sendFree, text, about, refused,
                   said, out, heard, main>>
-----------------------------------------------------------------------------
(* The main thread.                                                        *)

\* AddX, a full buffer takes no more.
Written(p, n) == IF Len(text[p]) < TextCap THEN Append(text[p], n) ELSE text[p]

\* GetOneSendPacketPool, SetPacketID and AddX, and AddOneSendPacket: what was written
\* into the packet before is still there.
Say ==
    LET p == Head(sendFree)
        n == said + 1
        queued == Len(sendQueue) < SendCap
    IN /\ sendFree' = Tail(sendFree)
       /\ text' = [text EXCEPT ![p] = Written(p, n)]
       /\ about' = [about EXCEPT ![p] = IF queued THEN n ELSE 0]
       /\ sendQueue' = IF queued THEN Append(sendQueue, p) ELSE sendQueue
       /\ refused' = IF queued THEN refused ELSE refused \cup {p}
       /\ said' = IF queued THEN n ELSE said

\* FreePacket
Freed(f) == recvFree + 1

\* ProcessPacket: Packet_SS_Start_Req answers the announcement of a connection, if there
\* is a packet for it; then FreePacket.
MainTake ==
    /\ main = "runs" /\ recvQueue # <<>>
    /\ recvQueue' = Tail(recvQueue) /\ recvFree' = Freed(Head(recvQueue))
    /\ IF IsAnnouncement(Head(recvQueue)) /\ sendFree # <<>> /\ said < MaxSend
       THEN Say ELSE UNCHANGED sendVars
    /\ LET f == Head(recvQueue) IN heard' = f[Len(f)]
    /\ UNCHANGED <<at, linkVars, sendable, recvVars, recvLost, out, main>>

\* The count of clients that ThreadDoing sends, connected or not.
MainCounts ==
    /\ main = "runs" /\ said < MaxSend
    /\ IF sendFree = <<>> THEN main' = "crashed" /\ UNCHANGED sendVars
       ELSE Say /\ UNCHANGED main
    /\ UNCHANGED <<at, linkVars, sendable, recvVars, recvPackets, out, heard>>
-----------------------------------------------------------------------------
ConnectorThread ==
    \/ OnRecv \/ OnRecvEnds \/ ParseFrame \/ ParseFails \/ ParseEnds
    \/ OnSend \/ SendData \/ SendDataFails

Next ==
    \/ ConnectorThread \/ ReConnect \/ ReConnectFails \/ LinkBreaks \/ PeerSends \/ SelectFails
    \/ SendDataBlocks \/ MainTake \/ MainCounts

\* The threads run on, and the peer is there again after MaxFails refusals.
Fairness == WF_vars(ConnectorThread) /\ WF_vars(ReConnect) /\ WF_vars(MainTake)
            /\ WF_vars(SendData) /\ WF_vars(OnRecvEnds) /\ WF_vars(OnSend)

Spec == Init /\ [][Next]_vars
FairSpec == Spec /\ Fairness
-----------------------------------------------------------------------------
Halves == [k : Nat, n : 0 .. MaxPeer, h : {1, 2}]

TypeOK ==
    /\ at \in {"loop", "parse", "dead"} /\ link \in 0 .. links /\ links \in Nat
    /\ broken \in BOOLEAN /\ sendable \in BOOLEAN /\ tainted \in BOOLEAN
    /\ leaked \in 0 .. MaxFds
    /\ net \in Seq(Halves) /\ buf \in Seq(Halves) /\ parsed \in 0 .. Len(buf)
    /\ recvQueue \in Seq(Seq(Halves)) /\ Len(recvQueue) <= RecvCap
    /\ recvFree \in 0 .. RecvPool /\ recvLost \in 0 .. RecvPool
    /\ sendQueue \in Seq(Packets) /\ Len(sendQueue) <= SendCap
    /\ sendFree \in Seq(Packets) /\ refused \subseteq Packets
    /\ text \in [Packets -> Seq(1 .. MaxSend)] /\ about \in [Packets -> 0 .. MaxSend]
    /\ \A p \in Packets : Len(text[p]) <= TextCap
    /\ out \in Seq([about : 1 .. MaxSend, text : Seq(1 .. MaxSend), whole : BOOLEAN])
    /\ heard \in Halves /\ main \in {"runs", "crashed"} /\ said \in 0 .. MaxSend
    /\ peerSent \in 0 .. MaxPeer /\ breaks \in 0 .. MaxBreaks /\ fails \in 0 .. MaxFails

Members(s) == {s[i] : i \in DOMAIN s}

(* The kernel is given the messages the queue took one after another, each    *)
(* once, over all connections, and those that wait are the ones behind them:  *)
(* a send that failed or blocked is tried again with the same packet.         *)
SentInOrder ==
    /\ \A i \in DOMAIN out : out[i].about = i
    /\ \A i \in DOMAIN sendQueue : about[sendQueue[i]] = Len(out) + i
    /\ said = Len(out) + Len(sendQueue)

(* A packet for sending is in the pool, in the queue or forgotten by the main *)
(* thread, once: the connector frees no packet twice and none the main thread *)
(* still writes.  The pool for receiving shrinks by one with every packet a   *)
(* full queue refuses, and by nothing else.                                   *)
PacketsKept ==
    LET all == sendFree \o sendQueue IN
    /\ \A i, j \in DOMAIN all : all[i] = all[j] => i = j
    /\ Members(all) \cap refused = {} /\ Members(all) \cup refused = Packets
    /\ recvFree + Len(recvQueue) + recvLost = RecvPool

(* As long as no connection was lost with bytes in the buffer, every packet   *)
(* the main thread is given is an announcement or a whole frame, and behind   *)
(* all it was given before: no byte is received twice, none is left out of a  *)
(* frame, and an announcement that was not left out comes before the frames   *)
(* of its connection.                                                         *)
Behind(h, g) == h.k < g.k \/ (h.k = g.k /\ h.n < g.n)

FramesWhole ==
    ~tainted => \A i \in DOMAIN recvQueue :
        LET f == recvQueue[i] IN
        /\ IsAnnouncement(f) \/ f = Frame(Head(f).k, Head(f).n)
        /\ \A j \in 1 .. i - 1 : Behind(Head(recvQueue[j]), Head(f))
        /\ Behind(heard, Head(f))

(* A queued message is given to the kernel, whatever connections are lost,    *)
(* unless the thread ends or no descriptor is left to connect with.           *)
QueuedIsSent ==
    \A n \in 1 .. MaxSend : said >= n ~> Len(out) >= n \/ at = "dead" \/ leaked = MaxFds
=============================================================================
