------------------------------ MODULE Dispatch ------------------------------
(***************************************************************************)
(* From epoll_wait to the main thread: the caches and rings through which  *)
(* the events of many connections become packets in one queue              *)
(* (src/NetWork/LEpollThread.cpp, LRecvThread.cpp, LAcceptThread.cpp,      *)
(* LCloseSocketThread.cpp, LPacketPoolManager.h, LNetWorkServices.cpp).    *)
(*                                                                         *)
(*  epoll_wait -> cache -> ring -> RecvData -> local -> queue -> main      *)
(*                    accept thread: acceptLocal -> queue                  *)
(*                    close thread:  closeLocal  -> queue                  *)
(*                                                                         *)
(* One thread of each kind.  Every ring refuses a batch that does not fit, *)
(* and every thread has its own way of dealing with the refusal.  Frames   *)
(* are numbered, SessionIO cuts them out of the bytes; a session that is   *)
(* to be closed is one in asked, SessionLife shows how it is closed.       *)
(***************************************************************************)
EXTENDS Integers, Sequences, FiniteSets

CONSTANTS
    Conns,          \* connections, each with one session
    None,
    CacheMax,       \* m_unRecvThreadWorkItemCount = m_unSendThreadWorkItemCount
    RingCaps,       \* what m_FixLenBuf may hold
    OutCap,         \* what m_SendEpollOutCircleBuf holds
    LocalCap,       \* what a thread's local ring of packets holds
    QueueCaps,      \* what m_RecvedPacketQueue may hold
    CommitEvery,    \* work items after which LRecvThread commits
    LocalPool,      \* packets in the receive thread's pool, which holds no more
    GlobalPool,     \* packets in the global pool at the start
    GlobalMax,      \* what the global pool holds
    MaxFrames,      \* bound: frames a client sends
    MaxStalls       \* bound: times the kernel takes no more of what is sent

ASSUME DispatchAssumption ==
    /\ None \notin Conns /\ IsFiniteSet(Conns)
    /\ CacheMax \in Nat \ {0} /\ CommitEvery \in Nat \ {0}
    /\ RingCaps \subseteq Nat /\ QueueCaps \subseteq Nat /\ OutCap \in Nat
    /\ LocalCap \in Nat \ {0} /\ LocalPool \in Nat /\ GlobalPool \in Nat
    /\ GlobalMax \in Nat /\ GlobalMax >= GlobalPool + LocalPool
    /\ MaxFrames \in Nat /\ MaxStalls \in Nat

VARIABLES
    life,           \* "new", "refused", "announced", "open" or "closed"
    asked,          \* sessions with m_nCloseWorkSendedToCloseThread
    sent,           \* frames the client has sent
    armed,          \* the events the socket is registered for
    full,           \* sessions with m_nSendBufIsFull
    stalls,         \* count for the bound
    epollAt,        \* the epoll thread: "wait" or "loop"
    batch,          \* the events epoll_wait returned that are not yet handled
    sum, outSum,    \* nLocalAllSum and nLocalSendAllSum
    cache,          \* m_parrLocalWorkItemDesc: sessions to receive from
    outCache,       \* m_parrLocalSendWorkItemDesc: sessions to send to
    dropped,        \* sessions whose event was thrown away
    deaf,           \* sessions whose last event was EPOLLOUT alone
    ring,           \* m_FixLenBuf of the receive thread
    outRing,        \* m_SendEpollOutCircleBuf of the send thread
    recvAt,         \* the receive thread: "take", "frame" or "rearm"
    at,             \* its session
    todo,           \* complete frames in the session's buffer
    handed,         \* frames handed on, of each connection
    processed,      \* nPacketProcess
    local,          \* m_FixBufRecvedPacket
    acceptLocal,    \* m_AccpetedSessionPacket
    closeLocal,     \* m_FixBufToCommitSessionDisconnect
    queue,          \* m_RecvedPacketQueue
    free, shared,   \* packets in the receive thread's pool and in the global pool
    deleted,        \* packets that were deleted
    heard,          \* what the main thread was told: "none", "up" or "gone"
    got,            \* the last frame of each connection it was given
    ringCap, queueCap

sessionVars == <<life, asked, armed, full, stalls, deaf>>
epollVars == <<epollAt, batch, sum, outSum, cache, outCache, dropped>>
recvVars == <<recvAt, at, todo, handed, processed, local, free, deleted>>
mainVars == <<heard, got>>
capVars == <<ringCap, queueCap>>
vars == <<sessionVars, sent, epollVars, ring, outRing, recvVars, acceptLocal, closeLocal,
          queue, shared, mainVars, capVars>>

\* Packets by what they say: the connection is there, or lost, or frame n of it
Up == 0
Down == -1
Packet(c, n) == [c |-> c, n |-> n]

\* How many packets of a local ring CommitPackets may move: all, or, when they do not
\* fit, as many as lie behind one another in memory.
Movable(packets) ==
    {n \in 0 .. Len(packets) :
        /\ Len(queue) + n <= queueCap
        /\ n = Len(packets) \/ Len(queue) + Len(packets) > queueCap}

First(s, n) == SubSeq(s, 1, n)

\* Mutant of Rest: what was moved stays as well.
RestAndMoved(s, n) == s

\* Mutant of Rest: what could not be moved is forgotten.
RestForgotten(s, n) == <<>>
Rest(s, n) == SubSeq(s, n + 1, Len(s))

\* A packet is put into a local ring, and left out when that is full.
Announced(packets, packet) ==
    IF Len(packets) < LocalCap THEN Append(packets, packet) ELSE packets

\* What FindSession and GetCloseWorkSendedToCloseThread let through
Usable(c) == life[c] = "open" /\ c \notin asked

Init ==
    /\ life = [c \in Conns |-> "new"] /\ asked = {} /\ sent = [c \in Conns |-> 0]
    /\ armed = [c \in Conns |-> {}] /\ full = {} /\ stalls = 0
    /\ epollAt = "wait" /\ batch = <<>> /\ sum = 0 /\ outSum = 0
    /\ cache = <<>> /\ outCache = <<>> /\ dropped = {} /\ deaf = {} /\ ring = <<>> /\ outRing = <<>>
    /\ recvAt = "take" /\ at = None /\ todo = 0 /\ handed = [c \in Conns |-> 0]
    /\ processed = 0 /\ local = <<>> /\ acceptLocal = <<>> /\ closeLocal = <<>> /\ queue = <<>>
    /\ free = LocalPool /\ shared = GlobalPool /\ deleted = 0
    /\ heard = [c \in Conns |-> "none"] /\ got = [c \in Conns |-> 0]
    /\ ringCap \in RingCaps /\ queueCap \in QueueCaps

\* The client; a connection may carry data before it is accepted.
ClientSends(c) ==
    /\ life[c] \notin {"refused", "closed"} /\ sent[c] < MaxFrames
    /\ sent' = [sent EXCEPT ![c] = @ + 1]
    /\ UNCHANGED <<sessionVars, epollVars, ring, outRing, recvVars, acceptLocal, closeLocal,
                   queue, shared, mainVars, capVars>>
-----------------------------------------------------------------------------
(* The accept thread.                                                      *)

\* Mutant of AfterAnnouncing: the accept thread goes on with a session it could not announce.
AfterAnnouncingAny(committed) == "announced"
AfterAnnouncing(committed) == IF committed THEN "announced" ELSE "refused"

\* The main thread is told first.  If that fails the session goes back to the pool,
\* but its packet stays in the local ring.
AcceptAnnounce(c) ==
    /\ life[c] = "new" /\ \A d \in Conns : life[d] # "announced"
    /\ LET packets == Announced(acceptLocal, Packet(c, Up))
       IN \E n \in IF packets = acceptLocal THEN {0} ELSE Movable(packets) :
            /\ queue' = queue \o First(packets, n)
            /\ acceptLocal' = Rest(packets, n)
            /\ life' = [life EXCEPT ![c] = AfterAnnouncing(n = Len(packets))]
    /\ UNCHANGED <<asked, sent, armed, full, stalls, deaf, epollVars, ring, outRing, recvVars,
                   closeLocal, shared, mainVars, capVars>>

\* BindEpollThread and PostEpollReadEvent
AcceptPost(c) ==
    /\ life[c] = "announced"
    /\ life' = [life EXCEPT ![c] = "open"]
    /\ armed' = [armed EXCEPT ![c] = {"in"}]
    /\ UNCHANGED <<asked, sent, full, stalls, deaf, epollVars, ring, outRing, recvVars, acceptLocal,
                   closeLocal, queue, shared, mainVars, capVars>>

\* epoll_ctl failed: the disconnect is announced here, and again by the close thread.
AcceptPostFails(c) ==
    /\ life[c] = "announced"
    /\ life' = [life EXCEPT ![c] = "open"] /\ asked' = asked \cup {c}
    /\ LET packets == Announced(acceptLocal, Packet(c, Down))
       IN \E n \in Movable(packets) :
            /\ queue' = queue \o First(packets, n)
            /\ acceptLocal' = Rest(packets, n)
    /\ UNCHANGED <<armed, sent, full, stalls, deaf, epollVars, ring, outRing, recvVars, closeLocal,
                   shared, mainVars, capVars>>
-----------------------------------------------------------------------------
(* The epoll thread.                                                       *)

\* Registered events that may be reported; the kernel may or may not take data.
Ready(c) == {E \in SUBSET armed[c] : E # {} /\ ("in" \in E <=> "in" \in armed[c]
                                                /\ sent[c] > handed[c] + IF at = c THEN todo ELSE 0)}

\* EPOLLONESHOT: a socket that was reported is registered for nothing.
EpollWait ==
    /\ epollAt = "wait"
    /\ \E k \in 1 .. Cardinality(Conns) :
        \E cs \in [1 .. k -> {c \in Conns : life[c] = "open" /\ Ready(c) # {}}] :
            /\ \A i, j \in 1 .. k : cs[i] = cs[j] => i = j
            /\ batch' \in {b \in [1 .. k -> [c : Conns, E : SUBSET {"in", "out"}]] :
                              \A i \in 1 .. k : b[i].c = cs[i] /\ b[i].E \in Ready(cs[i])}
            /\ armed' = [c \in Conns |-> IF \E i \in 1 .. k : cs[i] = c THEN {} ELSE armed[c]]
            /\ deaf' = deaf \cup {cs[i] : i \in {j \in 1 .. k : batch'[j].E = {"out"}}}
    /\ epollAt' = "loop" /\ sum' = 0 /\ outSum' = 0
    /\ UNCHANGED <<life, asked, sent, full, stalls, cache, outCache, dropped, ring, outRing,
                   recvVars, acceptLocal, closeLocal, queue, shared, mainVars, capVars>>

\* Mutant of RingTakes: the batch may be one longer.
RingTakesOneMore(items) == Len(ring) + Len(items) <= ringCap + 1

RingTakes(items) == Len(ring) + Len(items) <= ringCap
OutRingTakes(items) == Len(outRing) + Len(items) <= OutCap

\* PushRecvWorkItem, and CommitLocalWorkItem after as many events as the cache holds.
\* A full cache that cannot be committed is thrown away.
PushRecvWorkItem(c) ==
    LET filled == Append(cache, c)
        last == Len(filled) = CacheMax
        commits == RingTakes(filled) /\ (last \/ sum + 1 >= CacheMax)
    IN /\ ring' = IF commits THEN ring \o filled ELSE ring
       /\ cache' = IF commits \/ last THEN <<>> ELSE filled
       /\ dropped' = IF last /\ ~commits THEN dropped \cup {filled[i] : i \in DOMAIN filled}
                     ELSE dropped
       /\ sum' = IF sum + 1 >= CacheMax THEN 0 ELSE sum + 1

\* PushSendWorkItem, and CommitAllSendWorkItem.  A full cache that cannot be committed
\* stays full, and the next event is written behind it.
PushSendWorkItem(c) ==
    LET filled == Append(outCache, c)
        commits == OutRingTakes(filled) /\ (Len(filled) = CacheMax \/ outSum + 1 >= CacheMax)
    IN /\ outRing' = IF commits THEN outRing \o filled ELSE outRing
       /\ outCache' = IF commits THEN <<>> ELSE filled
       /\ outSum' = IF outSum + 1 >= CacheMax THEN 0 ELSE outSum + 1

EpollEvent ==
    /\ epollAt = "loop" /\ batch # <<>>
    /\ batch' = Tail(batch)
    /\ LET c == Head(batch).c
           E == IF Usable(c) THEN Head(batch).E ELSE {}
       IN /\ IF "in" \in E THEN PushRecvWorkItem(c) ELSE UNCHANGED <<ring, cache, dropped, sum>>
          /\ IF "out" \in E THEN PushSendWorkItem(c) ELSE UNCHANGED <<outRing, outCache, outSum>>
    /\ UNCHANGED <<sessionVars, sent, epollAt, recvVars, acceptLocal, closeLocal, queue, shared,
                   mainVars, capVars>>

\* CommitLocalWorkItem and CommitAllSendWorkItem behind the loop.  When epoll_wait
\* returns nothing this is not reached, so what was refused waits for the next event.
EpollCommit ==
    /\ epollAt = "loop" /\ batch = <<>>
    /\ epollAt' = "wait"
    /\ ring' = IF RingTakes(cache) THEN ring \o cache ELSE ring
    /\ cache' = IF RingTakes(cache) THEN <<>> ELSE cache
    /\ outRing' = IF OutRingTakes(outCache) THEN outRing \o outCache ELSE outRing
    /\ outCache' = IF OutRingTakes(outCache) THEN <<>> ELSE outCache
    /\ UNCHANGED <<sessionVars, sent, batch, sum, outSum, dropped, recvVars, acceptLocal,
                   closeLocal, queue, shared, mainVars, capVars>>
-----------------------------------------------------------------------------
(* The receive thread.                                                     *)

\* The next work item.  After CommitEvery of them the local ring is committed before
\* the next is taken, or tried to be.
RecvTake ==
    /\ recvAt = "take" /\ ring # <<>> /\ processed < CommitEvery
    /\ LET c == Head(ring) IN
       /\ ring' = Tail(ring)
       /\ IF Usable(c)
          THEN /\ todo' = sent[c] - handed[c] /\ at' = c
               /\ recvAt' = IF todo' = 0 THEN "rearm" ELSE "frame"
          ELSE UNCHANGED <<todo, at, recvAt>>
       /\ processed' = IF life[c] = "open" /\ c \in asked THEN processed + 1 ELSE processed
    /\ UNCHANGED <<sessionVars, sent, epollVars, outRing, handed, local, free, deleted,
                   acceptLocal, closeLocal, queue, shared, mainVars, capVars>>

RecvDone == recvAt' = "take" /\ at' = None /\ todo' = 0 /\ processed' = processed + 1

\* Mutant of TakePacket: the packet handed out stays in the pool that was just filled.
TakePacketTwice ==
    IF free > 0 THEN free' = free - 1 /\ shared' = shared
    ELSE LET n == IF shared < LocalPool THEN shared ELSE LocalPool IN
         n > 0 /\ free' = n /\ shared' = shared - n

\* GetOneFreePacket: from the own pool, which is filled from the global one when empty.
TakePacket ==
    IF free > 0 THEN free' = free - 1 /\ shared' = shared
    ELSE LET n == IF shared < LocalPool THEN shared ELSE LocalPool IN
         n > 0 /\ free' = n - 1 /\ shared' = shared - n

\* One frame of RecvData: a packet is filled and put into the local ring, which is
\* committed first when it is full.  If that fails the packet is deleted.
RecvFrame ==
    /\ recvAt = "frame"
    /\ TakePacket
    /\ LET packet == Packet(at, handed[at] + 1)
           n == IF Len(local) < LocalCap THEN {0} ELSE Movable(local)
       IN \E k \in n :
            /\ queue' = queue \o First(local, k)
            /\ IF Len(local) < LocalCap \/ k = Len(local)
               THEN /\ local' = Append(Rest(local, k), packet)
                    /\ handed' = [handed EXCEPT ![at] = @ + 1]
                    /\ todo' = todo - 1
                    /\ recvAt' = IF todo = 1 THEN "rearm" ELSE "frame"
                    /\ UNCHANGED <<asked, deleted, at, processed>>
               ELSE /\ local' = Rest(local, k)
                    /\ deleted' = deleted + 1
                    /\ asked' = asked \cup {at}
                    /\ RecvDone
                    /\ UNCHANGED handed
    /\ UNCHANGED <<life, armed, full, stalls, deaf, sent, epollVars, ring, outRing, acceptLocal,
                   closeLocal, mainVars, capVars>>

\* There is no packet: the session is closed.
RecvNoPacket ==
    /\ recvAt = "frame" /\ free = 0 /\ shared = 0
    /\ asked' = asked \cup {at}
    /\ RecvDone
    /\ UNCHANGED <<life, armed, full, stalls, deaf, sent, epollVars, ring, outRing, handed, local,
                   free, deleted, acceptLocal, closeLocal, queue, shared, mainVars, capVars>>

\* Mutant of Rearmed: a session whose send buffer is full is registered for EPOLLOUT alone.
RearmedForOne(c) == IF c \in full THEN {"out"} ELSE {"in"}
Rearmed(c) == IF c \in full THEN {"in", "out"} ELSE {"in"}

\* AddToEpollWaitThread
RecvRearm ==
    /\ recvAt = "rearm"
    /\ armed' = IF life[at] # "open" THEN armed ELSE [armed EXCEPT ![at] = Rearmed(at)]
    /\ deaf' = deaf \ {at}
    /\ RecvDone
    /\ UNCHANGED <<life, asked, full, stalls, sent, epollVars, ring, outRing, handed, local,
                   free, deleted, acceptLocal, closeLocal, queue, shared, mainVars, capVars>>

\* Mutant of CommitDue: the commit at the end of a turn is missing.
CommitDueLate == processed = CommitEvery
CommitDue == processed > 0

\* CommitLocalPacketToGlobalPacketPool: at the end of a turn, when nPacketProcess starts
\* again whatever becomes of the packets, or after CommitEvery items.
RecvCommit ==
    /\ recvAt = "take" /\ CommitDue
    /\ \E n \in Movable(local) :
        /\ queue' = queue \o First(local, n)
        /\ local' = Rest(local, n)
    /\ processed' = 0
    /\ UNCHANGED <<sessionVars, sent, epollVars, ring, outRing, recvAt, at, todo, handed, free,
                   deleted, acceptLocal, closeLocal, shared, mainVars, capVars>>
-----------------------------------------------------------------------------
(* The send thread, as far as the registration is concerned.               *)

Stall(c) ==
    /\ stalls < MaxStalls /\ stalls' = stalls + 1
    /\ full' = full \cup {c}
    /\ armed' = [armed EXCEPT ![c] = {"in", "out"}]
    /\ deaf' = deaf \ {c}

\* A work item of the main thread: the kernel takes no more.
SendStalls(c) ==
    /\ Usable(c) /\ c \notin full
    /\ Stall(c)
    /\ UNCHANGED <<life, asked, sent, epollVars, ring, outRing, recvVars, acceptLocal, closeLocal,
                   queue, shared, mainVars, capVars>>

\* An EPOLLOUT event: the rest is sent, or the kernel takes no more again.
SendOut ==
    /\ outRing # <<>>
    /\ outRing' = Tail(outRing)
    /\ LET c == Head(outRing) IN
       \/ Usable(c) /\ Stall(c)
       \/ /\ full' = IF Usable(c) THEN full \ {c} ELSE full
          /\ UNCHANGED <<armed, stalls, deaf>>
    /\ UNCHANGED <<life, asked, sent, epollVars, ring, recvVars, acceptLocal, closeLocal, queue,
                   shared, mainVars, capVars>>
-----------------------------------------------------------------------------
(* The main thread and the close thread.                                   *)

\* ProcessRecvedPacket: the packet of a frame goes back to the global pool.
MainTake ==
    /\ queue # <<>>
    /\ queue' = Tail(queue)
    /\ LET c == Head(queue).c
           n == Head(queue).n
       IN /\ heard' = CASE n = Up -> [heard EXCEPT ![c] = "up"]
                        [] n = Down -> [heard EXCEPT ![c] = "gone"]
                        [] OTHER -> heard
          /\ got' = IF n > 0 THEN [got EXCEPT ![c] = n] ELSE got
          /\ shared' = IF n > 0 /\ shared < GlobalMax THEN shared + 1 ELSE shared
    /\ UNCHANGED <<sessionVars, sent, epollVars, ring, outRing, recvVars, acceptLocal, closeLocal,
                   capVars>>

KickOutSession(c) ==
    /\ heard[c] = "up" /\ Usable(c)
    /\ asked' = asked \cup {c}
    /\ UNCHANGED <<life, armed, full, stalls, deaf, sent, epollVars, ring, outRing, recvVars,
                   acceptLocal, closeLocal, queue, shared, mainVars, capVars>>

\* Mutant of Disconnects: the close thread commits when its ring is full.
DisconnectsLater(packets) ==
    IF packets = closeLocal \/ Len(packets) < LocalCap THEN {0} ELSE Movable(packets)

\* How many disconnect packets the close thread commits: none when the last found no place
Disconnects(packets) == IF packets = closeLocal THEN {0} ELSE Movable(packets)

\* FreeSession, and the disconnect packet, which is not announced when the local ring
\* is full and waits for the next one when it cannot be committed.
CloseSession(c) ==
    /\ c \in asked /\ life[c] = "open"
    /\ life' = [life EXCEPT ![c] = "closed"] /\ armed' = [armed EXCEPT ![c] = {}]
    /\ LET packets == Announced(closeLocal, Packet(c, Down))
       IN \E n \in Disconnects(packets) :
            /\ queue' = queue \o First(packets, n)
            /\ closeLocal' = Rest(packets, n)
    /\ UNCHANGED <<asked, full, stalls, deaf, sent, epollVars, ring, outRing, recvVars, acceptLocal,
                   shared, mainVars, capVars>>
-----------------------------------------------------------------------------
RecvThread == RecvTake \/ RecvFrame \/ RecvNoPacket \/ RecvRearm \/ RecvCommit
EpollThread == EpollWait \/ EpollEvent \/ EpollCommit

Next ==
    \/ EpollThread \/ RecvThread \/ SendOut \/ MainTake
    \/ \E c \in Conns : \/ ClientSends(c) \/ AcceptAnnounce(c) \/ AcceptPost(c)
                        \/ AcceptPostFails(c) \/ SendStalls(c) \/ KickOutSession(c)
                        \/ CloseSession(c)

\* The threads run on; nothing makes a client send or a connection arrive.
Fairness ==
    /\ WF_vars(EpollThread) /\ WF_vars(RecvThread) /\ WF_vars(SendOut) /\ WF_vars(MainTake)
    /\ \A c \in Conns : WF_vars(CloseSession(c)) /\ WF_vars(AcceptPost(c))

Spec == Init /\ [][Next]_vars
FairSpec == Spec /\ Fairness
-----------------------------------------------------------------------------
TypeOK ==
    /\ life \in [Conns -> {"new", "refused", "announced", "open", "closed"}]
    /\ asked \subseteq Conns /\ full \subseteq Conns /\ dropped \subseteq Conns
    /\ sent \in [Conns -> 0 .. MaxFrames] /\ armed \in [Conns -> SUBSET {"in", "out"}]
    /\ stalls \in 0 .. MaxStalls /\ epollAt \in {"wait", "loop"}
    /\ batch \in Seq([c : Conns, E : SUBSET {"in", "out"}])
    /\ sum \in 0 .. CacheMax - 1 /\ outSum \in 0 .. CacheMax - 1
    /\ cache \in Seq(Conns) /\ Len(cache) < CacheMax /\ outCache \in Seq(Conns)
    /\ ring \in Seq(Conns) /\ Len(ring) <= ringCap
    /\ outRing \in Seq(Conns) /\ Len(outRing) <= OutCap
    /\ recvAt \in {"take", "frame", "rearm"} /\ at \in Conns \cup {None}
    /\ todo \in 0 .. MaxFrames /\ handed \in [Conns -> 0 .. MaxFrames]
    /\ processed \in 0 .. CommitEvery
    /\ \A q \in {local, acceptLocal, closeLocal} :
            q \in Seq([c : Conns, n : -1 .. MaxFrames]) /\ Len(q) <= LocalCap
    /\ queue \in Seq([c : Conns, n : -1 .. MaxFrames]) /\ Len(queue) <= queueCap
    /\ free \in 0 .. LocalPool /\ shared \in 0 .. GlobalMax /\ deleted \in Nat
    /\ heard \in [Conns -> {"none", "up", "gone"}] /\ got \in [Conns -> 0 .. MaxFrames]
    /\ ringCap \in RingCaps /\ queueCap \in QueueCaps

(* The main thread hears of a connection before it is given anything else of *)
(* it, whatever commits failed on the way (LServerBaseNetWork.cpp:165-176    *)
(* handles the packets as they come).                                        *)
ConnectFirst ==
    \A i \in DOMAIN queue : queue[i].n # Up /\ heard[queue[i].c] = "none" =>
        \E j \in 1 .. i - 1 : queue[j] = Packet(queue[i].c, Up)

\* Where the frames of a connection stand in a queue
Places(q, c) == {i \in DOMAIN q : q[i].c = c /\ q[i].n > 0}

(* What is under way to the main thread of a connection are the frames behind *)
(* those it was given, in order and without a gap, up to the last one the     *)
(* receive thread handed on.                                                  *)
FramesInOrder ==
    LET under == queue \o local IN
    \A c \in Conns :
        /\ got[c] <= handed[c]
        /\ {under[i].n : i \in Places(under, c)} = got[c] + 1 .. handed[c]
        /\ \A i, j \in Places(under, c) : i < j => under[i].n < under[j].n

(* To the main thread the library is a SessionView that loses nothing:        *)
(* whatever commits are refused on the way, a connection is announced once    *)
(* and before its frames, which come in order, and its end is the end of it,  *)
(* though a frame the receive thread commits late may come behind it          *)
(* (LRecvThread.cpp:225).                                                     *)
View == INSTANCE SessionView WITH
    Sessions <- Conns, StopsAtEnd <- FALSE, MayLose <- FALSE,
    heard <- heard, given <- [c \in Conns |-> [n \in 1 .. got[c] |-> n]]
ViewSpec == View!Spec

Frames(q) == Cardinality({i \in DOMAIN q : q[i].n > 0})

(* Every packet is in a pool or carries a frame, and none was lost but those  *)
(* RecvData deletes: the pools shrink with each of them and never grow.       *)
PacketsConserved ==
    free + shared + Frames(local) + Frames(queue) + deleted = LocalPool + GlobalPool

InFlight(c) ==
    \/ \E i \in DOMAIN batch : batch[i].c = c /\ "in" \in batch[i].E
    \/ \E i \in DOMAIN cache : cache[i] = c
    \/ \E i \in DOMAIN ring : ring[i] = c
    \/ at = c

(* A connection that is not registered for reading has an event under way    *)
(* that will register it again, unless the event said EPOLLOUT alone, after  *)
(* which only a stalled send registers it, or was thrown away with a full    *)
(* cache (LEpollThread.cpp:616).  The latter needs a small ring: one with a  *)
(* place for every connection, and one for every time a send thread          *)
(* registers a connection whose event is under way, never refuses a batch.   *)
BigRing == ringCap >= Cardinality(Conns) + MaxStalls

NoWakeupLost ==
    \A c \in Conns : Usable(c) /\ "in" \notin armed[c] /\ c \notin deaf =>
        InFlight(c) \/ (c \in dropped /\ ~BigRing)

(* A queue with a place for all there can be of every connection, its         *)
(* announcement, its frames, and its end, which may be told twice, refuses    *)
(* nothing: whoever commits leaves nothing behind in the ring, no frame is    *)
(* deleted, nobody is turned away, and the end of a session is under way or   *)
(* has been heard once the session is closed.                                 *)
BigQueue == queueCap >= Cardinality(Conns) * (MaxFrames + 3)

NothingRefused ==
    BigQueue =>
        /\ acceptLocal = <<>> /\ closeLocal = <<>> /\ deleted = 0
        /\ \A c \in Conns :
            /\ life[c] # "refused"
            /\ life[c] = "closed" =>
                heard[c] = "gone" \/ \E i \in DOMAIN queue : queue[i] = Packet(c, Down)

Ample == BigQueue /\ BigRing

(* With rings that are large enough every frame of a connection nobody closes *)
(* reaches the main thread, unless the connection was forgotten (deaf).       *)
FrameDelivered ==
    \A c \in Conns, n \in 1 .. MaxFrames :
        sent[c] >= n /\ Ample ~> got[c] >= n \/ ~Usable(c) \/ c \in deaf

(* The main thread is told of the end of every connection it knows.           *)
CloseReported ==
    \A c \in Conns : c \in asked /\ Ample ~> heard[c] = "gone"
=============================================================================
