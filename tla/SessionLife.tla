---------------------------- MODULE SessionLife ----------------------------
(***************************************************************************)
(* The life of an LSession object (src/NetWork/LSession.cpp,               *)
(* LSessionManager.cpp, LAcceptThread.cpp, LCloseSocketThread.cpp and the  *)
(* closing half of LRecvThread.cpp, LSendThread.cpp, LEpollThread.cpp,     *)
(* LNetWorkServices.cpp): taken from the pool when a connection is         *)
(* accepted, used by four threads that find it by its session id, closed   *)
(* by the close thread, and put back once all four threads have said, by a *)
(* flag each, that they stopped processing it.                             *)
(*                                                                         *)
(* One receive, one send and one epoll thread: every session is bound to   *)
(* one of each, and the threads it is not bound to never see it.           *)
(***************************************************************************)
EXTENDS Integers, Sequences

CONSTANTS
    SessionCount,   \* how many LSession objects InitializeSessionPool makes
    MaxSid,         \* bound: connections accepted
    CloseCap,       \* what m_BufSessionNeedToClose holds
    NoticeCap,      \* what each thread's ring of will-close sessions holds
    MaxSendErrors,  \* bound: failed sends
    StalledMove,    \* TRUE: a thread may stay between reading the stop flags and
                    \* acting on them until the session is handed out again
    EarlyKick       \* TRUE: the main thread may act on a session the accept
                    \* thread is not yet done with

ASSUME SessionLifeAssumption ==
    /\ SessionCount \in Nat
    /\ MaxSid \in Nat
    /\ CloseCap \in Nat
    /\ NoticeCap \in Nat
    /\ MaxSendErrors \in Nat
    /\ StalledMove \in BOOLEAN
    /\ EarlyKick \in BOOLEAN

VARIABLES
    pool,           \* m_queueDirtySessionManager
    managed,        \* m_mapSessionManager: session id -> session
    willReuse,      \* m_mapSessionWillReuseManager
    lastSid,        \* m_ullSessionID
    sid,            \* m_u64SessionID of each session
    epollSid,       \* m_EpollBindParam.u64SessionID; Reset() leaves it alone
    bound,          \* m_nEpollThreadID # -1
    open,           \* the session's socket is open
    stopped,        \* the threads whose m_n...ThreadStopProcessSession is 1
    closeSent,      \* m_nCloseWorkSendedToCloseThread
    closeRing,      \* m_BufSessionNeedToClose: session ids
    notices,        \* each thread's ring of will-close sessions
    unsent,         \* packets failed commits left in m_AccpetedSessionPacket and
                    \* m_FixBufToCommitSessionDisconnect
    announced,      \* ids whose connect packet reached the main thread's queue
    gone,           \* ids whose disconnect packet reached it
    armed,          \* ids registered with epoll
    accepting,      \* where the accept thread is
    acceptSes,      \* its pSession
    closing,        \* where the close thread is
    closeSes,       \* its pSession
    closeSid,       \* its u64SessionID
    doing,          \* where each I/O thread is
    at,             \* its pSession
    target,         \* the session id in its t_Client_Need_To_Close
    seen,           \* how many stop flags it has read as 1
    sendErrors,     \* failed sends so far
    crashed         \* the process dereferenced NULL

storeVars == <<pool, managed, willReuse, lastSid>>
sessionVars == <<sid, epollSid, bound, open, stopped, closeSent>>
packetVars == <<unsent, announced, gone, armed>>
acceptVars == <<accepting, acceptSes>>
closeVars == <<closing, closeSes, closeSid>>
threadVars == <<doing, at, target, seen>>
vars == <<storeVars, sessionVars, closeRing, notices, packetVars, acceptVars,
          closeVars, threadVars, sendErrors, crashed>>

Session == 1 .. SessionCount
NoSession == 0                          \* NULL
Sid == 1 .. MaxSid
Threads == {"send", "recv", "main", "epoll"}

\* Mutant of FlagOrder: the three threads LSession.h:80 names, without the epoll thread.
FlagOrderOfThree == <<"send", "recv", "main", "main">>

\* The order in which GetStopProcessInfos reads the flags
FlagOrder == <<"send", "recv", "main", "epoll">>

\* A ring refuses what does not fit, and every caller here ignores the refusal.
Pushed(ring, cap, x) == IF Len(ring) < cap THEN Append(ring, x) ELSE ring

\* CommitPackets: the packets of a local ring reach the main thread's queue, or
\* all stay where they are.
CommitPackets(r, packet) ==
    LET sent == unsent[r] \cup {packet} IN
    /\ unsent' = [unsent EXCEPT ![r] = {}]
    /\ announced' = announced \cup {p[2] : p \in {q \in sent : q[1] = "connect"}}
    /\ gone' = gone \cup {p[2] : p \in {q \in sent : q[1] = "disconnect"}}

CommitFails(r, packet) ==
    /\ unsent' = [unsent EXCEPT ![r] = @ \cup {packet}]
    /\ UNCHANGED <<announced, gone>>

FindSession(i) == IF i \in Sid THEN managed[i] ELSE NoSession

Init ==
    /\ pool = [i \in Session |-> i]
    /\ managed = [i \in Sid |-> NoSession]
    /\ willReuse = {} /\ lastSid = 0
    /\ sid = [s \in Session |-> 0] /\ epollSid = [s \in Session |-> 0]
    /\ bound = [s \in Session |-> FALSE] /\ open = [s \in Session |-> FALSE]
    /\ stopped = [s \in Session |-> {}] /\ closeSent = [s \in Session |-> FALSE]
    /\ closeRing = <<>> /\ notices = [t \in Threads |-> <<>>]
    /\ unsent = [r \in {"accept", "close"} |-> {}] /\ announced = {} /\ gone = {} /\ armed = {}
    /\ accepting = "idle" /\ acceptSes = NoSession
    /\ closing = "idle" /\ closeSes = NoSession /\ closeSid = 0
    /\ doing = [t \in Threads |-> "idle"] /\ at = [t \in Threads |-> NoSession]
    /\ target = [t \in Threads |-> 0] /\ seen = [t \in Threads |-> 0]
    /\ sendErrors = 0 /\ crashed = FALSE

-----------------------------------------------------------------------------
(* The accept thread.  The other threads cannot see a session before its   *)
(* connect packet is committed.                                            *)

\* Mutant of AcceptSession: Reset forgets m_nCloseWorkSendedToCloseThread.
AcceptSessionMarked ==
    /\ accepting = "idle" /\ ~crashed
    /\ pool # <<>> /\ lastSid < MaxSid
    /\ LET s == Head(pool) IN
        /\ StalledMove \/ \A t \in Threads : at[t] = s => doing[t] = "idle"
        /\ pool' = Tail(pool)
        /\ lastSid' = lastSid + 1
        /\ sid' = [sid EXCEPT ![s] = lastSid + 1]
        /\ managed' = [managed EXCEPT ![lastSid + 1] = s]
        /\ bound' = [bound EXCEPT ![s] = FALSE]
        /\ stopped' = [stopped EXCEPT ![s] = {}]
        /\ open' = [open EXCEPT ![s] = TRUE]
        /\ acceptSes' = s
    /\ accepting' = "opened"
    /\ UNCHANGED <<willReuse, epollSid, closeSent, closeRing, notices, packetVars, closeVars,
                   threadVars, sendErrors, crashed>>

\* AllocSession (with Reset and AddSession), SetSocket, BindRecvThread and
\* BindSendThread.  An empty pool only closes the new socket.
AcceptSession ==
    /\ accepting = "idle" /\ ~crashed
    /\ pool # <<>> /\ lastSid < MaxSid
    /\ LET s == Head(pool) IN
        /\ StalledMove \/ \A t \in Threads : at[t] = s => doing[t] = "idle"
        /\ pool' = Tail(pool)
        /\ lastSid' = lastSid + 1
        /\ sid' = [sid EXCEPT ![s] = lastSid + 1]
        /\ managed' = [managed EXCEPT ![lastSid + 1] = s]
        /\ bound' = [bound EXCEPT ![s] = FALSE]
        /\ stopped' = [stopped EXCEPT ![s] = {}]
        /\ closeSent' = [closeSent EXCEPT ![s] = FALSE]
        /\ open' = [open EXCEPT ![s] = TRUE]
        /\ acceptSes' = s
    /\ accepting' = "opened"
    /\ UNCHANGED <<willReuse, epollSid, closeRing, notices, packetVars, closeVars,
                   threadVars, sendErrors, crashed>>

AcceptAnnounce ==
    /\ accepting = "opened" /\ ~crashed
    /\ CommitPackets("accept", <<"connect", sid[acceptSes]>>)
    /\ accepting' = "announced"
    /\ UNCHANGED <<storeVars, sessionVars, closeRing, notices, armed, acceptSes,
                   closeVars, threadVars, sendErrors, crashed>>

\* CommitPackets failed: FreeSession and FreeSessionToPool.
AcceptGiveUp ==
    /\ accepting = "opened" /\ ~crashed
    /\ CommitFails("accept", <<"connect", sid[acceptSes]>>)
    /\ managed' = [managed EXCEPT ![sid[acceptSes]] = NoSession]
    /\ open' = [open EXCEPT ![acceptSes] = FALSE]
    /\ pool' = Append(pool, acceptSes)
    /\ accepting' = "idle" /\ acceptSes' = NoSession
    /\ UNCHANGED <<willReuse, lastSid, sid, epollSid, bound, stopped, closeSent,
                   closeRing, notices, armed, closeVars, threadVars, sendErrors, crashed>>

\* Mutant of BindEpollThread: the thread's number is not written into the session.
BindEpollThreadUnset ==
    /\ accepting = "announced" /\ ~crashed
    /\ epollSid' = [epollSid EXCEPT ![acceptSes] = sid[acceptSes]]
    /\ accepting' = "bound"
    /\ UNCHANGED <<storeVars, sid, bound, open, stopped, closeSent, closeRing, notices,
                   packetVars, acceptSes, closeVars, threadVars, sendErrors, crashed>>

BindEpollThread ==
    /\ accepting = "announced" /\ ~crashed
    /\ epollSid' = [epollSid EXCEPT ![acceptSes] = sid[acceptSes]]
    /\ bound' = [bound EXCEPT ![acceptSes] = TRUE]
    /\ accepting' = "bound"
    /\ UNCHANGED <<storeVars, sid, open, stopped, closeSent, closeRing, notices,
                   packetVars, acceptSes, closeVars, threadVars, sendErrors, crashed>>

PostEpollReadEvent ==
    /\ accepting = "bound" /\ ~crashed
    /\ open[acceptSes]
    /\ armed' = armed \cup {epollSid[acceptSes]}
    /\ accepting' = "idle" /\ acceptSes' = NoSession
    /\ UNCHANGED <<storeVars, sessionVars, closeRing, notices, unsent, announced, gone,
                   closeVars, threadVars, sendErrors, crashed>>

\* epoll_ctl failed, always so when the socket was closed meanwhile.
PostEpollReadEventFails ==
    /\ accepting = "bound" /\ ~crashed
    /\ \/ CommitPackets("accept", <<"disconnect", sid[acceptSes]>>)
       \/ CommitFails("accept", <<"disconnect", sid[acceptSes]>>)
    /\ accepting' = "failed"
    /\ UNCHANGED <<storeVars, sessionVars, closeRing, notices, armed,
                   acceptSes, closeVars, threadVars, sendErrors, crashed>>

AcceptAppendToClose ==
    /\ accepting = "failed" /\ ~crashed
    /\ closeRing' = Pushed(closeRing, CloseCap, sid[acceptSes])
    /\ accepting' = "mark"
    /\ UNCHANGED <<storeVars, sessionVars, notices, packetVars, acceptSes, closeVars,
                   threadVars, sendErrors, crashed>>

AcceptMarkClosing ==
    /\ accepting = "mark" /\ ~crashed
    /\ closeSent' = [closeSent EXCEPT ![acceptSes] = TRUE]
    /\ accepting' = "idle" /\ acceptSes' = NoSession
    /\ UNCHANGED <<storeVars, sid, epollSid, bound, open, stopped, closeRing, notices,
                   packetVars, closeVars, threadVars, sendErrors, crashed>>

-----------------------------------------------------------------------------
(* An I/O thread working on a session: an event, a work item, a packet to  *)
(* send or a kick-out that names a session id.                             *)

\* The ids a thread can have been given
Given(t) == IF t \in {"epoll", "recv"} THEN armed ELSE announced

\* FindSession, and the flag that nobody asked to close it yet
BeginUse(t, i) ==
    /\ doing[t] = "idle" /\ ~crashed
    /\ i \in Given(t)
    /\ FindSession(i) # NoSession
    /\ ~closeSent[managed[i]]
    /\ EarlyKick \/ managed[i] # acceptSes
    /\ doing' = [doing EXCEPT ![t] = "using"]
    /\ at' = [at EXCEPT ![t] = managed[i]]
    /\ target' = [target EXCEPT ![t] = IF t = "main" THEN i ELSE epollSid[managed[i]]]
    /\ UNCHANGED <<storeVars, sessionVars, closeRing, notices, packetVars, acceptVars,
                   closeVars, seen, sendErrors, crashed>>

BecomeIdle(t) ==
    /\ doing' = [doing EXCEPT ![t] = "idle"]
    /\ at' = [at EXCEPT ![t] = NoSession]
    /\ target' = [target EXCEPT ![t] = 0]
    /\ seen' = [seen EXCEPT ![t] = 0]

EndUse(t) ==
    /\ doing[t] = "using" /\ ~crashed
    /\ BecomeIdle(t)
    /\ UNCHANGED <<storeVars, sessionVars, closeRing, notices, packetVars, acceptVars,
                   closeVars, sendErrors, crashed>>

\* A receive error, or a kick-out: AppendToClose first, the flag afterwards.
RequestClose(t) ==
    /\ t \in {"recv", "main"}
    /\ doing[t] = "using" /\ ~crashed
    /\ t = "recv" => ~closeSent[at[t]]
    /\ closeRing' = Pushed(closeRing, CloseCap, target[t])
    /\ doing' = [doing EXCEPT ![t] = "mark"]
    /\ UNCHANGED <<storeVars, sessionVars, notices, packetVars, acceptVars, closeVars,
                   at, target, seen, sendErrors, crashed>>

MarkClosing(t) ==
    /\ doing[t] = "mark" /\ ~crashed
    /\ closeSent' = [closeSent EXCEPT ![at[t]] = TRUE]
    /\ BecomeIdle(t)
    /\ UNCHANGED <<storeVars, sid, epollSid, bound, open, stopped, closeRing, notices,
                   packetVars, acceptVars, closeVars, sendErrors, crashed>>

\* A send error: AppendToClose with the id of the epoll binding, no flag.
SendFails ==
    /\ doing["send"] = "using" /\ ~crashed
    /\ sendErrors < MaxSendErrors
    /\ sendErrors' = sendErrors + 1
    /\ closeRing' = Pushed(closeRing, CloseCap, epollSid[at["send"]])
    /\ BecomeIdle("send")
    /\ UNCHANGED <<storeVars, sessionVars, notices, packetVars, acceptVars, closeVars,
                   crashed>>

-----------------------------------------------------------------------------
(* The close thread.                                                       *)

\* Mutant of CloseSession: ReMoveSession is not called.
CloseSessionKept ==
    /\ closing = "idle" /\ ~crashed
    /\ closeRing # <<>>
    /\ LET s == FindSession(Head(closeRing)) IN
        /\ s # NoSession
        /\ open' = [open EXCEPT ![s] = FALSE]
        /\ closeSes' = s
    /\ closeSid' = Head(closeRing)
    /\ closeRing' = Tail(closeRing)
    /\ closing' = "reuse"
    /\ UNCHANGED <<storeVars, sid, epollSid, bound, stopped, closeSent,
                   notices, packetVars, acceptVars, threadVars, sendErrors, crashed>>

\* The id names no session any more: a second request for the same session.
CloseStale ==
    /\ closing = "idle" /\ ~crashed
    /\ closeRing # <<>>
    /\ FindSession(Head(closeRing)) = NoSession
    /\ closeRing' = Tail(closeRing)
    /\ UNCHANGED <<storeVars, sessionVars, notices, packetVars, acceptVars, closeVars,
                   threadVars, sendErrors, crashed>>

\* FreeSession: out of the map, socket closed.
CloseSession ==
    /\ closing = "idle" /\ ~crashed
    /\ closeRing # <<>>
    /\ LET s == FindSession(Head(closeRing)) IN
        /\ s # NoSession
        /\ managed' = [managed EXCEPT ![sid[s]] = NoSession]
        /\ open' = [open EXCEPT ![s] = FALSE]
        /\ closeSes' = s
    /\ closeSid' = Head(closeRing)
    /\ closeRing' = Tail(closeRing)
    /\ closing' = "reuse"
    /\ UNCHANGED <<pool, willReuse, lastSid, sid, epollSid, bound, stopped, closeSent,
                   notices, packetVars, acceptVars, threadVars, sendErrors, crashed>>

AddToWillReuseManager ==
    /\ closing = "reuse" /\ ~crashed
    /\ willReuse' = willReuse \cup {closeSes}
    /\ closing' = "main"
    /\ UNCHANGED <<pool, managed, lastSid, sessionVars, closeRing, notices, packetVars,
                   acceptVars, closeSes, closeSid, threadVars, sendErrors, crashed>>

\* Mutant of NextNotice: the send thread is not told.
NextNoticeSkip ==
    [main |-> "epoll", epoll |-> "recv", recv |-> "disconnect", send |-> "disconnect"]

\* The four notices, in this order; the epoll thread's needs m_nEpollThreadID.
NextNotice == [main |-> "epoll", epoll |-> "recv", recv |-> "send", send |-> "disconnect"]

NotifyThread ==
    /\ closing \in Threads /\ ~crashed
    /\ closing = "epoll" => bound[closeSes]
    /\ notices' = [notices EXCEPT ![closing] = Pushed(@, NoticeCap, closeSes)]
    /\ closing' = NextNotice[closing]
    /\ UNCHANGED <<storeVars, sessionVars, closeRing, packetVars, acceptVars, closeSes,
                   closeSid, threadVars, sendErrors, crashed>>

\* GetEpollThread(-1) is NULL.
NotifyUnboundEpollThread ==
    /\ closing = "epoll" /\ ~crashed
    /\ ~bound[closeSes]
    /\ crashed' = TRUE
    /\ UNCHANGED <<storeVars, sessionVars, closeRing, notices, packetVars, acceptVars,
                   closeVars, threadVars, sendErrors>>

CloseDisconnect ==
    /\ closing = "disconnect" /\ ~crashed
    /\ \/ CommitPackets("close", <<"disconnect", closeSid>>)
       \/ CommitFails("close", <<"disconnect", closeSid>>)
    /\ closing' = "idle" /\ closeSes' = NoSession /\ closeSid' = 0
    /\ UNCHANGED <<storeVars, sessionVars, closeRing, notices, armed, acceptVars,
                   threadVars, sendErrors, crashed>>

-----------------------------------------------------------------------------
(* The four threads giving a session up.                                   *)

\* GetOneWillCloseSession and Set...ThreadStopProcess(1)
StopProcess(t) ==
    /\ doing[t] = "idle" /\ ~crashed
    /\ notices[t] # <<>>
    /\ LET s == Head(notices[t]) IN
        /\ stopped' = [stopped EXCEPT ![s] = @ \cup {t}]
        /\ at' = [at EXCEPT ![t] = s]
    /\ notices' = [notices EXCEPT ![t] = Tail(@)]
    /\ doing' = [doing EXCEPT ![t] = "check"]
    /\ UNCHANGED <<storeVars, sid, epollSid, bound, open, closeSent, closeRing,
                   packetVars, acceptVars, closeVars, target, seen, sendErrors, crashed>>

\* GetStopProcessInfos, one flag; a flag that is 0 settles the outcome.
ReadFlag(t) ==
    /\ doing[t] = "check" /\ ~crashed
    /\ IF FlagOrder[seen[t] + 1] \in stopped[at[t]]
       THEN /\ seen' = [seen EXCEPT ![t] = @ + 1]
            /\ doing' = [doing EXCEPT ![t] = IF seen'[t] = 4 THEN "move" ELSE "check"]
            /\ UNCHANGED <<at, target>>
       ELSE BecomeIdle(t)
    /\ UNCHANGED <<storeVars, sessionVars, closeRing, notices, packetVars, acceptVars,
                   closeVars, sendErrors, crashed>>

\* Mutant of MoveToPool: the session is not erased from the will-reuse map.
MoveToPoolKept(t) ==
    /\ doing[t] = "move" /\ ~crashed
    /\ IF at[t] \in willReuse
       THEN /\ bound' = [bound EXCEPT ![at[t]] = FALSE]
            /\ pool' = Append(pool, at[t])
       ELSE UNCHANGED <<bound, pool>>
    /\ BecomeIdle(t)
    /\ UNCHANGED <<willReuse, managed, lastSid, sid, epollSid, open, stopped, closeSent,
                   closeRing, notices, packetVars, acceptVars, closeVars, sendErrors, crashed>>

\* MoveWillCloseSessionToSessionPool, under its mutex
MoveToPool(t) ==
    /\ doing[t] = "move" /\ ~crashed
    /\ IF at[t] \in willReuse
       THEN /\ bound' = [bound EXCEPT ![at[t]] = FALSE]
            /\ pool' = Append(pool, at[t])
            /\ willReuse' = willReuse \ {at[t]}
       ELSE UNCHANGED <<bound, pool, willReuse>>
    /\ BecomeIdle(t)
    /\ UNCHANGED <<managed, lastSid, sid, epollSid, open, stopped, closeSent, closeRing,
                   notices, packetVars, acceptVars, closeVars, sendErrors, crashed>>

-----------------------------------------------------------------------------
Accept == \/ AcceptSession \/ AcceptAnnounce \/ AcceptGiveUp
          \/ BindEpollThread \/ PostEpollReadEvent \/ PostEpollReadEventFails
          \/ AcceptAppendToClose \/ AcceptMarkClosing

Close == \/ CloseStale \/ CloseSession \/ AddToWillReuseManager
         \/ NotifyThread \/ NotifyUnboundEpollThread \/ CloseDisconnect

Leave(t) == EndUse(t) \/ MarkClosing(t)
Stop(t) == StopProcess(t) \/ ReadFlag(t) \/ MoveToPool(t)

Work(t) == \/ \E i \in Sid : BeginUse(t, i)
           \/ Leave(t) \/ RequestClose(t) \/ Stop(t)

Next == Accept \/ Close \/ SendFails \/ \E t \in Threads : Work(t)

Spec == Init /\ [][Next]_vars

\* Every thread keeps running, and each turn of the loop of an I/O thread starts
\* with its will-close sessions and takes a bounded number of other work items, so
\* a notice is not passed over for ever.
Fairness ==
    /\ WF_vars(Accept /\ ~AcceptSession)
    /\ WF_vars(Close)
    /\ \A t \in Threads : /\ WF_vars(Leave(t))
                          /\ WF_vars(ReadFlag(t) \/ MoveToPool(t))
                          /\ SF_vars(StopProcess(t))

FairSpec == Spec /\ Fairness

-----------------------------------------------------------------------------
RangeOf(q) == {q[k] : k \in 1 .. Len(q)}
Distinct(q) == \A j, k \in 1 .. Len(q) : q[j] = q[k] => j = k

StoreOK ==
    /\ pool \in Seq(Session)
    /\ managed \in [Sid -> Session \cup {NoSession}]
    /\ willReuse \subseteq Session
    /\ lastSid \in 0 .. MaxSid

SessionOK ==
    /\ sid \in [Session -> Sid \cup {0}] /\ epollSid \in [Session -> Sid \cup {0}]
    /\ bound \in [Session -> BOOLEAN] /\ open \in [Session -> BOOLEAN]
    /\ stopped \in [Session -> SUBSET Threads] /\ closeSent \in [Session -> BOOLEAN]

QueueOK ==
    /\ closeRing \in Seq(Sid \cup {0})
    /\ notices \in [Threads -> Seq(Session)]
    /\ unsent \in [{"accept", "close"} -> SUBSET ({"connect", "disconnect"} \X Sid)]
    /\ announced \subseteq Sid /\ gone \subseteq Sid /\ armed \subseteq Sid \cup {0}

AcceptOK ==
    /\ accepting \in {"idle", "opened", "announced", "bound", "failed", "mark"}
    /\ IF accepting = "idle" THEN acceptSes = NoSession
       ELSE acceptSes \in Session /\ sid[acceptSes] \in Sid

CloseOK ==
    /\ closing \in Threads \cup {"idle", "reuse", "disconnect"}
    /\ IF closing = "idle" THEN closeSes = NoSession /\ closeSid = 0
       ELSE closeSes \in Session /\ closeSid \in Sid

ThreadOK ==
    /\ doing \in [Threads -> {"idle", "using", "mark", "check", "move"}]
    /\ at \in [Threads -> Session \cup {NoSession}]
    /\ \A t \in Threads : (doing[t] = "idle") <=> (at[t] = NoSession)
    /\ \A t \in Threads : (doing[t] = "move") <=> (seen[t] = 4)
    /\ target \in [Threads -> Sid \cup {0}]
    /\ seen \in [Threads -> 0 .. 4]

TypeOK ==
    /\ StoreOK /\ SessionOK /\ QueueOK /\ AcceptOK /\ CloseOK /\ ThreadOK
    /\ sendErrors \in 0 .. MaxSendErrors /\ crashed \in BOOLEAN

-----------------------------------------------------------------------------
(* Where a session object is.                                              *)

Pooled == RangeOf(pool)
Managed == {s \in Session : \E i \in Sid : managed[i] = s}
InHand == IF closing = "reuse" THEN {closeSes} ELSE {}

\* Every session object is in exactly one place, once: in the pool, in the map, with
\* the close thread between FreeSession and AddToWillReuseManager, or waiting for
\* reuse (LSessionManager.cpp:296-409 and 463-512 under four different locks).
\* None leaks, and none can be handed to two connections.
OnePlace ==
    /\ Distinct(pool)
    /\ \A i, j \in Sid : managed[i] = managed[j] /\ managed[i] # NoSession => i = j
    /\ Pooled \cap Managed = {} /\ Pooled \cap InHand = {} /\ Pooled \cap willReuse = {}
    /\ Managed \cap InHand = {} /\ Managed \cap willReuse = {}
    /\ InHand \cap willReuse = {}
    /\ Session = Pooled \cup Managed \cup InHand \cup willReuse

\* A thread that works on a session; "check" and "move" only look at its flags.
Uses(t, s) == doing[t] \in {"using", "mark"} /\ at[t] = s

\* A session in the pool is in no thread's hands and in no notice ring: the next
\* connection gets an object nobody else will touch (LSession.h:80-82).
RecycledWhenStopped ==
    \A s \in Pooled, t \in Threads : ~Uses(t, s) /\ s \notin RangeOf(notices[t])

\* The threads that get their notice after closing stands at t, t included
ToBeNotified ==
    CASE closing = "reuse" -> Threads
      [] closing = "main" -> Threads
      [] closing = "epoll" -> {"epoll", "recv", "send"}
      [] closing = "recv" -> {"recv", "send"}
      [] closing = "send" -> {"send"}
      [] OTHER -> {}

\* A closed session waits for nothing but notices that are on their way: as long
\* as a thread has not stopped processing it, its notice is queued, once, or the
\* close thread is about to queue it (LCloseSocketThread.cpp:150-161).
NoticeUnderway ==
    \A s \in willReuse, t \in Threads :
        t \notin stopped[s] =>
            \/ s \in RangeOf(notices[t])
            \/ closeSes = s /\ t \in ToBeNotified

\* A socket is open exactly as long as its session can be found: FreeSession
\* neither leaks a descriptor nor closes one twice (LSessionManager.cpp:361-386).
SocketFollowsMap == \A s \in Session : open[s] <=> s \in Managed

\* The flag that makes every thread pass over a session, and nobody ask again, means
\* what LSession.h:100 says: the close work has been sent to the close thread.
CloseSentMeansQueued ==
    \A s \in Managed : closeSent[s] => sid[s] \in RangeOf(closeRing)

\* When the close thread asks for the session's epoll thread, the session has one: "if the
\* thread cannot be got, crash, it means that the whole program was not initialised
\* rightly" (LCloseSocketThread.cpp:155), so it must not be a matter of timing.
EpollThreadIsThere == closing = "epoll" => bound[closeSes]

\* The map never answers with a session that carries another connection's id
\* (FindSession against Reset and SetSessionID, LSessionManager.cpp:80-91, 316-326).
FoundByItsOwnId == \A i \in Sid : managed[i] # NoSession => sid[managed[i]] = i

-----------------------------------------------------------------------------
(* Why it works: what every step preserves.                                *)

\* No thread can name a session before its connect packet is committed.
KnownSids == IF accepting = "opened" THEN 0 .. lastSid - 1 ELSE 0 .. lastSid

SidsKnown ==
    /\ \A s \in Session : epollSid[s] \in KnownSids
    /\ \A t \in Threads : target[t] \in KnownSids
    /\ closeSid \in KnownSids
    /\ RangeOf(closeRing) \subseteq KnownSids
    /\ announced \subseteq KnownSids /\ armed \subseteq KnownSids
    /\ \A r \in {"accept", "close"} : \A p \in unsent[r] : p[2] \in KnownSids

\* The map and the sessions agree on who has which id.
SidsAgree ==
    /\ \A i \in Sid : managed[i] # NoSession => i <= lastSid /\ sid[managed[i]] = i
    /\ \A s \in Session : sid[s] <= lastSid
    /\ accepting = "opened" => sid[acceptSes] = lastSid /\ managed[lastSid] = acceptSes

PlaceInv == TypeOK /\ OnePlace /\ SocketFollowsMap /\ SidsKnown /\ SidsAgree

Checks(t, s) == doing[t] \in {"check", "move"} /\ at[t] = s
Noticed(t, s) == s \in RangeOf(notices[t])
WillNotice(t, s) == closeSes = s /\ t \in ToBeNotified

\* What a thread and a session have to do with each other
StopFacts(t, s) ==
    /\ s \in Managed \cup InHand => t \notin stopped[s] /\ ~Noticed(t, s) /\ ~Checks(t, s)
    /\ s \in Pooled => ~Uses(t, s) /\ ~Noticed(t, s)
    /\ s \in willReuse /\ t \in stopped[s] =>
            ~Uses(t, s) /\ ~Noticed(t, s) /\ ~WillNotice(t, s)
    /\ WillNotice(t, s) => s \in InHand \cup willReuse /\ ~Noticed(t, s)
    /\ Checks(t, s) => t \in stopped[s] /\ \A k \in 1 .. seen[t] : FlagOrder[k] \in stopped[s]
    /\ accepting = "opened" /\ s = acceptSes => ~Uses(t, s)

StopInv ==
    /\ \A t \in Threads, s \in Session : StopFacts(t, s)
    /\ \A t \in Threads : Distinct(notices[t])
    /\ \A t \in Threads : doing[t] \notin {"check", "move"} => seen[t] = 0

StopProtocolInv == PlaceInv /\ (~StalledMove => StopInv)

\* A session that is or is about to be marked as closing has its id in the close ring,
\* unless it has left the map already.
Marks(s) ==
    \/ closeSent[s]
    \/ \E t \in Threads : doing[t] = "mark" /\ at[t] = s
    \/ accepting = "mark" /\ acceptSes = s
Queued(s) == sid[s] \in RangeOf(closeRing)

\* Who may ask for a session to be closed, and mark it, has the id the session has now:
\* the one it was found by, or the one it was registered with epoll by.
AskInv ==
    /\ \A s \in Managed : Marks(s) => Queued(s)
    /\ \A t \in {"recv", "main"}, s \in Managed : Uses(t, s) => target[t] = sid[s]
    /\ \A i \in armed \cap Sid : managed[i] # NoSession => epollSid[managed[i]] = i
    /\ accepting = "bound" => epollSid[acceptSes] = sid[acceptSes]

-----------------------------------------------------------------------------
\* The recycling implements SessionContract.
Contract == INSTANCE SessionContract WITH
    phase <- [s \in Session |-> IF s \in Pooled THEN "pooled"
                               ELSE IF s \in Managed THEN "live" ELSE "closing"],
    users <- {u \in Threads \X Session : Uses(u[1], u[2])}
ContractSpec == Contract!Spec

\* A session marked as closing comes back to the pool, although its four threads
\* stop in any order and each may be the one that finds all flags set
\* (LSession.cpp:110-117 and the four callers).
MarkedIsRecycled == \A s \in Session : closeSent[s] ~> s \in Pooled \/ ~closeSent[s]
=============================================================================
