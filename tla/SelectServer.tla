---------------------------- MODULE SelectServer ----------------------------
(***************************************************************************)
(* LSelectServer (src/NetWork/LSelectServer.cpp): one thread that accepts, *)
(* reads, sends and closes every connection, the main thread that uses it  *)
(* (src/MultiClientUseSelectModel/SelectServerMainLogicThread.cpp), and    *)
(* the threads that connect for it (src/NetWork/LConnectorWorkManager.cpp).*)
(*                                                                         *)
(*   main <- recvQueue <- parse <- buf <- net <- peer                      *)
(*   main -> mainRing -> sendRing -> send() -> kernel -> peer              *)
(*   net thread -> closes -> net thread                                    *)
(*   works -> a thread per connect -> results -> net thread                *)
(*                                                                         *)
(* A frame is one item of net and buf: what has come of the next one stays *)
(* with the peer.  A session is named by its id; of its object only what   *)
(* Reset leaves in it matters, the flag m_bReconnect.                      *)
(***************************************************************************)
EXTENDS Integers, Sequences, FiniteSets

CONSTANTS
    PoolSize,       \* session objects: MAXSESSIONCOUNT
    Packets,        \* of m_SendPacketPoolManager
    RecvPool,       \* packets of m_RecvPacketPoolManager
    RecvCap,        \* what m_FixLenCircleBufForRecvedPacket holds
    BufCap,         \* frames m_pszRecvBuf holds
    CloseCap,       \* what m_FixLenCircleBufForCloseSession holds
    MainCap,        \* what m_FixLenCircleBufForSendPacketForMainLogic holds
    SendCap,        \* what m_FixLenCircleBufForSendPacket holds
    QueueCap,       \* what a session's m_FixLenCircleBufForSendQueue holds
    WorkCap,        \* what the rings of connect works and of their results hold
    Turn,           \* items the thread takes from a ring per turn: 200, 200 and 2000
    KernelCap,      \* packets a socket takes before send() blocks
    MaxFrames,      \* bound: frames the peers send
    MaxLosses,      \* bound: peers that go
    MaxArrivals,    \* bound: connections made to us
    MaxAsks,        \* bound: connections asked of us
    MaxMessages     \* bound: messages of the main thread

ASSUME SelectServerAssumption ==
    /\ IsFiniteSet(Packets) /\ PoolSize \in Nat /\ RecvPool \in Nat /\ BufCap \in Nat \ {0}
    /\ Turn \in Nat \ {0} /\ KernelCap \in Nat \ {0}
    /\ {RecvCap, CloseCap, MainCap, SendCap, QueueCap, WorkCap} \subseteq Nat
    /\ {MaxFrames, MaxLosses, MaxArrivals, MaxAsks, MaxMessages} \subseteq Nat

VARIABLES
    at,             \* what the net thread is doing
    done,           \* items it has taken in this part of its turn
    readable, writable, \* what select() found
    current, parsed,\* the session SessionRecv is called for, frames delivered by ParsePacket
    hand,           \* the packet SessionSend is called with
    live,           \* m_mapSessionManager
    lastId,         \* m_unCurrentSessionID
    pool,           \* m_queueSessionPool: the m_bReconnect of each object
    reconnect,      \* m_bReconnect of the live ones
    sendable,       \* m_bSendable
    sendQ,          \* m_FixLenCircleBufForSendQueue
    buf,            \* m_pszRecvBuf, m_unRemainDataLen
    net, kernel,    \* what a socket holds for us to read, and for its peer
    lost,           \* the peer is gone
    backlog,        \* connections nobody has accepted
    recvQueue, recvFree,
    closes,
    mainRing, sendRing, refs,
    sendFree,       \* how many times a packet is in the pool
    stray,          \* references of packets that were dropped
    works, trying, results,
    connected,      \* m_mapSessionConnected of the main thread
    filling,        \* the entries it is about to make for a new packet
    out,            \* history: the last message each socket took
    got,            \* history: what the main thread took, per session
    late,           \* history: sessions whose close was refused or put off
    unheard,        \* history: sessions of which the receive queue refused something
    resumed,        \* history: a session marked for closing was made sendable again
    sent, frames, losses, arrivals, asks, messages  \* counts for the bounds

turnVars == <<at, done, readable, writable, current, parsed, hand>>
poolVars == <<live, lastId, pool, reconnect>>
sessionVars == <<sendable, sendQ, buf>>
boundVars == <<sent, frames, losses, arrivals>>
socketVars == <<net, kernel, lost, backlog, boundVars, out>>
heardVars == <<recvQueue, recvFree, unheard>>
closeVars == <<closes, late>>
packetVars == <<mainRing, sendRing, refs, sendFree, stray>>
connectVars == <<works, trying, results, asks>>
mainVars == <<connected, filling, got, messages>>
vars == <<turnVars, poolVars, sessionVars, socketVars, heardVars, closeVars, packetVars,
          connectVars, mainVars, resumed>>

Sids == 1 .. MaxArrivals + MaxAsks
There == TRUE           \* the destination of a connect: a server,
Nowhere == FALSE        \* or what szIP and port 0 happen to say (LSelectServer.cpp:722)

\* What a received packet is: the constants 0xFFFFFFFF and NULL, or a frame.
Up == -1
Gone == -2
Bad == 0                \* a frame with an illegal length
Told(s, what) == [s |-> s, what |-> what]

Init ==
    /\ at = "close" /\ done = 0 /\ readable = {} /\ writable = {} /\ current = 0 /\ parsed = 0
    /\ hand = <<>>
    /\ live = {} /\ lastId = 0 /\ pool = [i \in 1 .. PoolSize |-> FALSE]
    /\ reconnect = [s \in Sids |-> FALSE] /\ sendable = [s \in Sids |-> TRUE]
    /\ sendQ = [s \in Sids |-> <<>>] /\ buf = [s \in Sids |-> <<>>]
    /\ net = [s \in Sids |-> <<>>] /\ kernel = [s \in Sids |-> 0] /\ lost = {}
    /\ backlog = 0 /\ sent = [s \in Sids |-> 0] /\ frames = 0 /\ losses = 0 /\ arrivals = 0
    /\ recvQueue = <<>> /\ recvFree = RecvPool /\ unheard = {}
    /\ closes = <<>> /\ late = {}
    /\ mainRing = <<>> /\ sendRing = <<>> /\ stray = [p \in Packets |-> 0]
    /\ refs = [p \in Packets |-> 0] /\ sendFree = [p \in Packets |-> 1]
    /\ works = <<>> /\ trying = [d \in BOOLEAN |-> 0] /\ results = 0 /\ asks = 0
    /\ out = [s \in Sids |-> 0] /\ connected = {} /\ filling = {}
    /\ got = [s \in Sids |-> <<>>] /\ messages = 0
    /\ resumed = FALSE
-----------------------------------------------------------------------------
(* What the parts share.                                                   *)

\* AddOneCloseSessionWork; nobody looks at its answer.
AddOneCloseSessionWork(s) ==
    IF Len(closes) < CloseCap
    THEN closes' = Append(closes, s) /\ UNCHANGED late
    ELSE late' = late \cup {s} /\ UNCHANGED closes

\* AddOneRecvedPacket with no packet: its answer is not looked at either.
Announce(s, what) ==
    IF Len(recvQueue) < RecvCap
    THEN recvQueue' = Append(recvQueue, Told(s, what)) /\ UNCHANGED unheard
    ELSE unheard' = unheard \cup {s} /\ UNCHANGED recvQueue

\* LConnectorWorkManager::AddConnectWork.
AddConnectWork(d) == works' = IF Len(works) < WorkCap THEN Append(works, d) ELSE works

\* DecrementRefCountAndResultIsTrue, and `into` is the packet FreeOneSendPacket gets then.
Release(p, into) ==
    /\ refs' = [refs EXCEPT ![p] = @ - 1]
    /\ sendFree' = IF refs[p] = 1 THEN [sendFree EXCEPT ![into] = @ + 1] ELSE sendFree

CountOf(p, entries) == Cardinality({i \in DOMAIN entries : entries[i].p = p})

\* ReleaseAllPacketInSendQueue.
ReleaseAll(q) ==
    /\ refs' = [p \in Packets |-> refs[p] - CountOf(p, q)]
    /\ sendFree' = [p \in Packets |->
                       sendFree[p] + IF refs[p] > 0 /\ refs'[p] <= 0 THEN 1 ELSE 0]

\* AllocSession, SetSocket, AddSession.
OpenSession(flag) ==
    /\ live' = live \cup {lastId + 1} /\ lastId' = lastId + 1 /\ pool' = Tail(pool)
    /\ reconnect' = [reconnect EXCEPT ![lastId + 1] = flag]
    /\ Announce(lastId + 1, Up)
-----------------------------------------------------------------------------
(* The first part of a turn closes what is to be closed.                   *)

\* Without RemoveSession.
CloseSessionKept(s) ==
    /\ Announce(s, Gone)
    /\ sendQ' = [sendQ EXCEPT ![s] = <<>>] /\ ReleaseAll(sendQ[s])
    /\ net' = [net EXCEPT ![s] = <<>>] /\ kernel' = [kernel EXCEPT ![s] = 0] /\ lost' = lost \ {s}
    /\ UNCHANGED <<poolVars, sendable, buf, works>>

\* RemoveSession and FreeSession: the object keeps its m_bReconnect.
CloseSession(s) ==
    /\ live' = live \ {s} /\ pool' = Append(pool, reconnect[s]) /\ UNCHANGED <<lastId, reconnect>>
    /\ sendable' = [sendable EXCEPT ![s] = TRUE] /\ buf' = [buf EXCEPT ![s] = <<>>]
    /\ sendQ' = [sendQ EXCEPT ![s] = <<>>] /\ ReleaseAll(sendQ[s])
    /\ net' = [net EXCEPT ![s] = <<>>] /\ kernel' = [kernel EXCEPT ![s] = 0] /\ lost' = lost \ {s}
    /\ Announce(s, Gone)
    /\ IF reconnect[s] THEN AddConnectWork(Nowhere) ELSE UNCHANGED works

CloseOne ==
    /\ at = "close" /\ closes # <<>> /\ done < Turn
    /\ closes' = Tail(closes) /\ done' = done + 1
    /\ IF Head(closes) \in live THEN CloseSession(Head(closes))
       ELSE UNCHANGED <<poolVars, sessionVars, net, kernel, lost, recvQueue, unheard, refs,
                        sendFree, works>>
    /\ UNCHANGED <<at, readable, writable, current, parsed, hand, backlog, boundVars, out,
                   recvFree, late, mainRing, sendRing, stray, trying, results, asks, mainVars,
                   resumed>>

CloseEnds ==
    /\ at = "close" /\ (closes = <<>> \/ done = Turn)
    /\ at' = "connected" /\ done' = 0
    /\ late' = late \cup {closes[i] : i \in DOMAIN closes}
    /\ UNCHANGED <<readable, writable, current, parsed, hand, poolVars, sessionVars, socketVars,
                   heardVars, closes, packetVars, connectVars, mainVars, resumed>>
-----------------------------------------------------------------------------
(* The second takes the sockets that have been connected.                  *)

\* The socket becomes a session, or is closed and tried again.
ConnectedOne ==
    /\ at = "connected" /\ results > 0 /\ done < Turn
    /\ results' = results - 1 /\ done' = done + 1
    /\ IF pool = <<>>
       THEN AddConnectWork(There) /\ UNCHANGED <<poolVars, recvQueue, unheard>>
       ELSE OpenSession(TRUE) /\ UNCHANGED works
    /\ UNCHANGED <<at, readable, writable, current, parsed, hand, sessionVars, socketVars,
                   recvFree, closeVars, packetVars, trying, asks, mainVars, resumed>>
-----------------------------------------------------------------------------
(* The third, CheckForSocketEvent: accept one connection, then read.       *)

Readable(s) == net[s] # <<>> \/ s \in lost
Writable(s) == ~sendable[s] /\ (kernel[s] < KernelCap \/ s \in lost)

Select ==
    /\ at = "connected" /\ (results = 0 \/ done = Turn)
    /\ at' = "work" /\ done' = 0
    /\ readable' = {s \in live : Readable(s)}
    /\ writable' = {s \in live : Writable(s)}
    /\ IF backlog = 0 THEN UNCHANGED <<poolVars, recvQueue, unheard, backlog>>
       ELSE /\ backlog' = backlog - 1
            /\ IF pool = <<>> THEN UNCHANGED <<poolVars, recvQueue, unheard>>
               ELSE OpenSession(Head(pool))
    /\ UNCHANGED <<current, parsed, hand, sessionVars, net, kernel, lost, boundVars, out,
                   recvFree, closeVars, packetVars, connectVars, mainVars, resumed>>

\* SessionRecv returns less than 0: the session is to be closed, and is passed over.
RecvFails(s) ==
    /\ sendable' = [sendable EXCEPT ![s] = FALSE]
    /\ AddOneCloseSessionWork(s)
    /\ readable' = readable \ {s} /\ writable' = writable \ {s}

FitsBuffer(s) ==
    IF Len(net[s]) <= BufCap - Len(buf[s]) THEN Len(net[s]) ELSE BufCap - Len(buf[s])

\* Recv, for which a full buffer is an error as well (LSocket.cpp:131).
SessionRecv(s) ==
    /\ at = "work" /\ s \in readable
    /\ IF FitsBuffer(s) = 0
       THEN RecvFails(s) /\ UNCHANGED <<at, current, parsed, net, buf>>
       ELSE /\ buf' = [buf EXCEPT ![s] = @ \o SubSeq(net[s], 1, FitsBuffer(s))]
            /\ net' = [net EXCEPT ![s] = SubSeq(@, FitsBuffer(s) + 1, Len(@))]
            /\ at' = "parse" /\ current' = s /\ parsed' = 0
            /\ UNCHANGED <<sendable, closeVars, readable, writable>>
    /\ UNCHANGED <<done, hand, poolVars, sendQ, kernel, lost, backlog, boundVars, out,
                   heardVars, packetVars, connectVars, mainVars, resumed>>

\* ParsePacket, one frame: it is an error if there is no packet, or no room in the queue.
ParsePacket ==
    /\ at = "parse" /\ parsed < Len(buf[current])
    /\ LET frame == buf[current][parsed + 1]
           taken == frame # Bad /\ recvFree > 0
       IN /\ recvFree' = IF taken THEN recvFree - 1 ELSE recvFree
          /\ IF taken /\ Len(recvQueue) < RecvCap
             THEN /\ recvQueue' = Append(recvQueue, Told(current, frame)) /\ parsed' = parsed + 1
                  /\ UNCHANGED <<at, current, sendable, closeVars, readable, writable, unheard>>
             ELSE /\ at' = "work" /\ current' = 0 /\ parsed' = 0 /\ RecvFails(current)
                  /\ unheard' = IF frame = Bad THEN unheard ELSE unheard \cup {current}
                  /\ UNCHANGED recvQueue
    /\ UNCHANGED <<done, hand, poolVars, sendQ, buf, socketVars, packetVars, connectVars,
                   mainVars, resumed>>

\* The bytes of the frames stay in the buffer.
ParseEndsKept ==
    /\ at = "parse" /\ parsed = Len(buf[current])
    /\ at' = "work" /\ current' = 0 /\ parsed' = 0 /\ readable' = readable \ {current}
    /\ UNCHANGED <<done, writable, hand, poolVars, sessionVars, socketVars, heardVars,
                   closeVars, packetVars, connectVars, mainVars, resumed>>

\* Only now are the bytes of the frames taken from the buffer.
ParseEnds ==
    /\ at = "parse" /\ parsed = Len(buf[current])
    /\ at' = "work" /\ current' = 0 /\ parsed' = 0 /\ readable' = readable \ {current}
    /\ buf' = [buf EXCEPT ![current] = <<>>]
    /\ UNCHANGED <<done, writable, hand, poolVars, sendable, sendQ, socketVars, heardVars,
                   closeVars, packetVars, connectVars, mainVars, resumed>>

\* Only a session that was to be closed, and is not, is ever looked at for this.
BecomesSendable(s) ==
    /\ at = "work" /\ s \in writable \ readable
    /\ writable' = writable \ {s} /\ sendable' = [sendable EXCEPT ![s] = TRUE]
    /\ resumed' = TRUE
    /\ UNCHANGED <<at, done, readable, current, parsed, hand, poolVars, sendQ, buf, socketVars,
                   heardVars, closeVars, packetVars, connectVars, mainVars>>
-----------------------------------------------------------------------------
(* The last, SendData.                                                     *)

\* SessionSend's answer is less than 0.
GiveUp(s) == sendable' = [sendable EXCEPT ![s] = FALSE] /\ AddOneCloseSessionWork(s)

EventsDone == at = "work" /\ readable = {} /\ writable = {}

\* Packets are not to overtake those in the session's queue.
MustQueue(s) == ~sendable[s] \/ sendQ[s] # <<>>

\* GetOneSendPacket, and what SessionSend does before it calls send().
SendOne ==
    /\ EventsDone /\ sendRing # <<>> /\ done < Turn
    /\ sendRing' = Tail(sendRing) /\ done' = done + 1
    /\ LET e == Head(sendRing)
           s == e.s
           queues == MustQueue(s)
           room == Len(sendQ[s]) < QueueCap
       IN /\ sendQ' = IF s \in live /\ queues /\ room THEN [sendQ EXCEPT ![s] = Append(@, e)]
                      ELSE sendQ
          /\ stray' = IF s \in live THEN stray ELSE [stray EXCEPT ![e.p] = @ + 1]
          /\ IF s \in live /\ queues /\ ~room THEN Release(e.p, e.p) /\ GiveUp(s)
             ELSE UNCHANGED <<refs, sendFree, sendable, closeVars>>
          /\ IF s \in live /\ sendable[s] /\ (queues => room)
             THEN at' = (IF queues THEN "flush" ELSE "direct") /\ hand' = e
             ELSE UNCHANGED <<at, hand>>
    /\ UNCHANGED <<readable, writable, current, parsed, poolVars, buf, socketVars, heardVars,
                   mainRing, connectVars, mainVars, resumed>>

\* The sockets block: send() waits for room, and fails only when the connection has.
KernelTakes(s, e) ==
    /\ kernel[s] < KernelCap /\ kernel' = [kernel EXCEPT ![s] = @ + 1]
    /\ out' = [out EXCEPT ![s] = e.n]

SendDirect ==
    /\ at = "direct" /\ at' = "work" /\ hand' = <<>>
    /\ Release(hand.p, hand.p)
    /\ \/ KernelTakes(hand.s, hand) /\ UNCHANGED <<sendable, closeVars>>
       \/ hand.s \in lost /\ GiveUp(hand.s) /\ UNCHANGED <<kernel, out>>
    /\ UNCHANGED <<done, readable, writable, current, parsed, poolVars, sendQ, buf, net, lost,
                   backlog, boundVars, heardVars, mainRing, sendRing, stray, connectVars,
                   mainVars, resumed>>

\* The packet SessionSend was called with, though others wait before it.
NextOutOfCaller(s) == hand

NextOut(s) == Head(sendQ[s])

\* The packet that goes to the pool is the one SessionSend was called with, not the
\* one that was sent (LSelectServer.cpp:232).
Flush ==
    /\ at = "flush" /\ sendQ[hand.s] # <<>>
    /\ \/ /\ KernelTakes(hand.s, NextOut(hand.s))
          /\ Release(Head(sendQ[hand.s]).p, hand.p)
          /\ sendQ' = [sendQ EXCEPT ![hand.s] = Tail(@)]
          /\ UNCHANGED <<at, hand, sendable, closeVars>>
       \/ /\ hand.s \in lost /\ GiveUp(hand.s)
          /\ at' = "work" /\ hand' = <<>>
          /\ UNCHANGED <<kernel, out, refs, sendFree, sendQ>>
    /\ UNCHANGED <<done, readable, writable, current, parsed, poolVars, buf, net, lost, backlog,
                   boundVars, heardVars, mainRing, sendRing, stray, connectVars, mainVars,
                   resumed>>

FlushEnds ==
    /\ at = "flush" /\ sendQ[hand.s] = <<>>
    /\ at' = "work" /\ hand' = <<>>
    /\ UNCHANGED <<done, readable, writable, current, parsed, poolVars, sessionVars, socketVars,
                   heardVars, closeVars, packetVars, connectVars, mainVars, resumed>>

SendEnds ==
    /\ EventsDone /\ (sendRing = <<>> \/ done = Turn)
    /\ at' = "close" /\ done' = 0
    /\ UNCHANGED <<readable, writable, current, parsed, hand, poolVars, sessionVars, socketVars,
                   heardVars, closeVars, packetVars, connectVars, mainVars, resumed>>
-----------------------------------------------------------------------------
(* The main thread.                                                        *)

\* GetOneRecvedPacket, OnAddSession, OnSessionDisconnect, FreeOneRecvedPacket.
MainTakes ==
    /\ filling = {} /\ recvQueue # <<>> /\ recvQueue' = Tail(recvQueue)
    /\ LET s == Head(recvQueue).s
           what == Head(recvQueue).what
       IN /\ got' = [got EXCEPT ![s] = Append(@, what)]
          /\ connected' = IF what = Up THEN connected \cup {s}
                          ELSE IF what = Gone THEN connected \ {s} ELSE connected
          /\ recvFree' = IF what \in {Up, Gone} THEN recvFree ELSE recvFree + 1
    /\ UNCHANGED <<turnVars, poolVars, sessionVars, socketVars, unheard, closeVars, packetVars,
                   connectVars, filling, messages, resumed>>

\* AllocOneSendPacket: the packet is filled, and is to go to one session or to all.
MainFills(p, S) ==
    /\ filling = {} /\ messages < MaxMessages /\ messages' = messages + 1
    /\ S = connected \/ Cardinality(S) = 1
    /\ sendFree[p] > 0 /\ sendFree' = [sendFree EXCEPT ![p] = @ - 1]
    /\ filling' = {[s |-> s, p |-> p, n |-> messages + 1] : s \in S}
    /\ UNCHANGED <<turnVars, poolVars, sessionVars, socketVars, heardVars, closeVars, mainRing,
                   sendRing, refs, stray, connectVars, connected, got, resumed>>

\* With no ring of its own.
AddToSendRing(e) == sendRing' = Append(sendRing, e) /\ UNCHANGED mainRing

\* Which of the two rings AddOneSendPacket puts an entry into.
AddToMainRing(e) == mainRing' = Append(mainRing, e) /\ UNCHANGED sendRing

\* AddOneSendPacket, called in the order of the map: an entry the ring has no room for
\* keeps its reference.
AddOneSendPacket(e) ==
    /\ e \in filling /\ \A f \in filling : e.s <= f.s
    /\ filling' = filling \ {e}
    /\ refs' = [refs EXCEPT ![e.p] = @ + 1]
    /\ IF Len(mainRing) < MainCap THEN AddToMainRing(e) /\ UNCHANGED stray
       ELSE stray' = [stray EXCEPT ![e.p] = @ + 1] /\ UNCHANGED <<mainRing, sendRing>>
    /\ UNCHANGED <<turnVars, poolVars, sessionVars, socketVars, heardVars, closeVars, sendFree,
                   connectVars, connected, got, messages, resumed>>

\* PostAllSendPacket: everything, or, where the ring wraps round, the part before its end.
MainPosts ==
    /\ filling = {}
    /\ \E n \in 1 .. Len(mainRing) :
        /\ Len(sendRing) + n <= SendCap
        /\ sendRing' = sendRing \o SubSeq(mainRing, 1, n)
        /\ mainRing' = SubSeq(mainRing, n + 1, Len(mainRing))
    /\ UNCHANGED <<turnVars, poolVars, sessionVars, socketVars, heardVars, closeVars, refs,
                   sendFree, stray, connectVars, mainVars, resumed>>
-----------------------------------------------------------------------------
(* The threads that connect, and the peers.                                *)

\* AddOneConnectWork with bMultiConnect.
AddOneConnectWork ==
    /\ asks < MaxAsks /\ asks' = asks + 1
    /\ AddConnectWork(There)
    /\ UNCHANGED <<turnVars, poolVars, sessionVars, socketVars, heardVars, closeVars,
                   packetVars, trying, results, mainVars, resumed>>

\* LConnectorWorkManager::ThreadDoing starts a thread.
StartConnect ==
    /\ works # <<>> /\ works' = Tail(works)
    /\ trying' = [trying EXCEPT ![Head(works)] = @ + 1]
    /\ UNCHANGED <<turnVars, poolVars, sessionVars, socketVars, heardVars, closeVars,
                   packetVars, results, asks, mainVars, resumed>>

\* LConnectorWorkThread::ThreadDoing and CompleteConnectWork: nobody answers at port 0.
CompleteConnectWork(d, success) ==
    /\ trying[d] > 0 /\ trying' = [trying EXCEPT ![d] = @ - 1]
    /\ success => d = There
    /\ IF success
       THEN results' = (IF results < WorkCap THEN results + 1 ELSE results) /\ UNCHANGED works
       ELSE AddConnectWork(d) /\ UNCHANGED results
    /\ UNCHANGED <<turnVars, poolVars, sessionVars, socketVars, heardVars, closeVars,
                   packetVars, asks, mainVars, resumed>>

PeerConnects ==
    /\ arrivals < MaxArrivals /\ arrivals' = arrivals + 1 /\ backlog' = backlog + 1
    /\ UNCHANGED <<turnVars, poolVars, sessionVars, net, kernel, lost, sent, frames, losses,
                   out, heardVars, closeVars, packetVars, connectVars, mainVars, resumed>>

PeerSends(s) ==
    /\ s \in live \ lost /\ frames < MaxFrames /\ frames' = frames + 1
    /\ sent' = [sent EXCEPT ![s] = @ + 1]
    /\ \E frame \in {Bad, sent[s] + 1} : net' = [net EXCEPT ![s] = Append(@, frame)]
    /\ UNCHANGED <<turnVars, poolVars, sessionVars, kernel, lost, backlog, losses, arrivals,
                   out, heardVars, closeVars, packetVars, connectVars, mainVars, resumed>>

PeerReads(s) ==
    /\ s \in live \ lost /\ kernel[s] > 0 /\ kernel' = [kernel EXCEPT ![s] = @ - 1]
    /\ UNCHANGED <<turnVars, poolVars, sessionVars, net, lost, backlog, boundVars, out,
                   heardVars, closeVars, packetVars, connectVars, mainVars, resumed>>

\* The peer closes the connection, or it breaks with frames under way.
PeerGoes(s) ==
    /\ s \in live \ lost /\ losses < MaxLosses /\ losses' = losses + 1 /\ lost' = lost \cup {s}
    /\ \E n \in 0 .. Len(net[s]) : net' = [net EXCEPT ![s] = SubSeq(@, 1, n)]
    /\ UNCHANGED <<turnVars, poolVars, sessionVars, kernel, backlog, sent, frames, arrivals,
                   out, heardVars, closeVars, packetVars, connectVars, mainVars, resumed>>
-----------------------------------------------------------------------------
NetThread ==
    \/ CloseOne \/ CloseEnds \/ ConnectedOne \/ Select \/ ParsePacket \/ ParseEnds
    \/ SendOne \/ SendDirect \/ Flush \/ FlushEnds \/ SendEnds
    \/ \E s \in Sids : SessionRecv(s) \/ BecomesSendable(s)

MainThread ==
    \/ MainTakes \/ MainPosts
    \/ \E p \in Packets, S \in (SUBSET connected) \ {{}} : MainFills(p, S)
    \/ \E e \in filling : AddOneSendPacket(e)

ConnectThreads ==
    \/ AddOneConnectWork \/ StartConnect
    \/ \E d, success \in BOOLEAN : CompleteConnectWork(d, success)

Peers == PeerConnects \/ \E s \in Sids : PeerSends(s) \/ PeerReads(s) \/ PeerGoes(s)

Next == NetThread \/ MainThread \/ ConnectThreads \/ Peers

Spec == Init /\ [][Next]_vars
-----------------------------------------------------------------------------
(* What must hold.                                                         *)

Entries == [s : Sids, p : Packets, n : 1 .. MaxMessages]

TypeOK ==
    /\ at \in {"close", "connected", "work", "parse", "direct", "flush"}
    /\ done \in 0 .. Turn /\ readable \subseteq live /\ writable \subseteq live
    /\ at = "parse" => current \in live /\ parsed \in 0 .. Len(buf[current])
    /\ IF at \in {"direct", "flush"} THEN hand \in Entries /\ hand.s \in live ELSE hand = <<>>
    /\ live \subseteq 1 .. lastId /\ lastId \in 0 .. MaxArrivals + MaxAsks
    /\ pool \in Seq(BOOLEAN) /\ Len(pool) + Cardinality(live) = PoolSize
    /\ reconnect \in [Sids -> BOOLEAN] /\ sendable \in [Sids -> BOOLEAN]
    /\ \A s \in Sids :
        /\ Len(sendQ[s]) <= QueueCap /\ Len(buf[s]) <= BufCap /\ kernel[s] \in 0 .. KernelCap
        /\ s \notin live =>
            sendable[s] /\ sendQ[s] = <<>> /\ buf[s] = <<>> /\ net[s] = <<>> /\ kernel[s] = 0
    /\ lost \subseteq live /\ backlog \in 0 .. MaxArrivals
    /\ Len(recvQueue) <= RecvCap /\ recvFree \in 0 .. RecvPool
    /\ Len(closes) <= CloseCap /\ Len(mainRing) <= MainCap /\ Len(sendRing) <= SendCap
    /\ Len(works) <= WorkCap /\ results \in 0 .. WorkCap

\* What waits for the main thread of a session, how much it has heard of the session
\* before it comes to place i, and how much it will have heard in the end
WaitingOf(s) == {i \in DOMAIN recvQueue : recvQueue[i].s = s}
HeardBefore(s, i) == Len(got[s]) + Cardinality({j \in WaitingOf(s) : j < i})
HeardCount(s) == Len(got[s]) + Cardinality(WaitingOf(s))

\* What may be heard of a session when n things have been heard of it
InPlace(n, what) == IF n = 0 THEN what = Up ELSE what \in {n, Gone}

\* A session is announced, then its frames come in the order the peer sent them, each
\* once, then the end is announced and nothing follows; unless the receive queue had no
\* room, or the session was read again after its close was requested.
HeardInOrder ==
    \A s \in Sids \ (late \cup unheard) :
        /\ \A i \in DOMAIN got[s] : InPlace(i - 1, got[s][i])
        /\ \A i \in WaitingOf(s) : InPlace(HeardBefore(s, i), recvQueue[i].what)
        /\ \A i \in DOMAIN got[s] : got[s][i] = Gone =>
                s \notin live /\ i = Len(got[s]) /\ WaitingOf(s) = {}
        /\ \A i \in WaitingOf(s) : recvQueue[i].what = Gone =>
                s \notin live /\ \A j \in WaitingOf(s) : j <= i
        /\ s <= lastId => HeardCount(s) > 0

\* To the main thread this server is a SessionView whose sessions end with their end, as
\* long as it is sure of them.
Ended(s) == got[s] # <<>> /\ got[s][Len(got[s])] = Gone
View == INSTANCE SessionView WITH
    Sessions <- Sids, StopsAtEnd <- TRUE, MayLose <- TRUE,
    heard <- [s \in Sids |-> IF s \in late \cup unheard THEN "lost"
                             ELSE IF got[s] = <<>> THEN "none"
                             ELSE IF Ended(s) THEN "gone" ELSE "up"],
    given <- [s \in Sids |-> IF s \in late \cup unheard THEN <<>>
                             ELSE SubSeq(got[s], 2, IF Ended(s) THEN Len(got[s]) - 1
                                                    ELSE Len(got[s]))]
ViewSpec == View!Spec

\* Whoever waits with a packet: the two rings, the thread and the queues of the sessions.
QueuedFor(p) == UNION {{s} \X {i \in DOMAIN sendQ[s] : sendQ[s][i].p = p} : s \in Sids}
HeldBy(p) ==
    CountOf(p, mainRing) + CountOf(p, sendRing) + Cardinality(QueuedFor(p))
    + (IF at = "direct" /\ hand.p = p THEN 1 ELSE 0)

\* The count of a packet is the number of those who will still give it back, and of those
\* who never will; it is in the pool exactly once, and only when that number is 0.  So
\* nobody sends a packet the main thread is filling anew.
ReferencesCounted ==
    ~resumed => \A p \in Packets :
        /\ refs[p] = HeldBy(p) + stray[p]
        /\ sendFree[p] = IF refs[p] = 0 /\ p \notin {e.p : e \in filling} THEN 1 ELSE 0

\* What the main thread sends to a session leaves in the order it was sent and once,
\* whether it goes straight to the socket or waits in the session's queue.
SentInOrder == [][\A s \in Sids : kernel'[s] > kernel[s] => out'[s] > out[s]]_vars
=============================================================================
