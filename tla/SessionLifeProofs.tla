------------------------- MODULE SessionLifeProofs -------------------------
(***************************************************************************)
(* For any number of sessions, connections and ring sizes: the type        *)
(* invariant of SessionLife, that every session object is in exactly one   *)
(* place, that it is recycled when the four threads have let go of it,     *)
(* that SessionLife implements SessionContract, that a thread which has    *)
(* not let go of a closed session has a notice of it, and that a session   *)
(* marked as requested to close has a request in the close ring.           *)
(***************************************************************************)
EXTENDS SessionLife, FiniteSetTheorems, TLAPS

USE SessionLifeAssumption

-----------------------------------------------------------------------------
(* Queues.                                                                 *)

LEMMA RangeOfAppend ==
    ASSUME NEW S, NEW q \in Seq(S), NEW x \in S
    PROVE  RangeOf(Append(q, x)) = RangeOf(q) \cup {x}
<1>1. /\ Len(Append(q, x)) = Len(q) + 1
      /\ \A k \in 1 .. Len(q) : Append(q, x)[k] = q[k]
      /\ Append(q, x)[Len(q) + 1] = x
      /\ Len(q) \in Nat
  OBVIOUS
<1>2. \A y \in RangeOf(Append(q, x)) : y \in RangeOf(q) \cup {x}
  BY <1>1 DEF RangeOf
<1>3. \A y \in RangeOf(q) \cup {x} : y \in RangeOf(Append(q, x))
  <2>1. \A k \in 1 .. Len(q) : k \in 1 .. Len(Append(q, x))
    BY <1>1
  <2>2. Len(q) + 1 \in 1 .. Len(Append(q, x))
    BY <1>1
  <2> QED BY <1>1, <2>1, <2>2 DEF RangeOf
<1> QED BY <1>2, <1>3

LEMMA DistinctAppend ==
    ASSUME NEW S, NEW q \in Seq(S), NEW x \in S, Distinct(q), x \notin RangeOf(q)
    PROVE  Distinct(Append(q, x))
<1>1. /\ Len(Append(q, x)) = Len(q) + 1
      /\ \A k \in 1 .. Len(q) : Append(q, x)[k] = q[k]
      /\ Append(q, x)[Len(q) + 1] = x
      /\ Len(q) \in Nat
  OBVIOUS
<1>2. \A k \in 1 .. Len(q) : q[k] # x
  BY DEF RangeOf
<1> QED BY <1>1, <1>2 DEF Distinct

LEMMA TailOfDistinct ==
    ASSUME NEW S, NEW q \in Seq(S), q # <<>>, Distinct(q)
    PROVE  /\ Head(q) \in S /\ Head(q) \in RangeOf(q)
           /\ Tail(q) \in Seq(S) /\ Distinct(Tail(q))
           /\ RangeOf(Tail(q)) = RangeOf(q) \ {Head(q)}
<1>1. /\ Len(q) \in Nat /\ Len(q) > 0
      /\ Head(q) = q[1] /\ Tail(q) \in Seq(S) /\ Len(Tail(q)) = Len(q) - 1
      /\ \A k \in 1 .. Len(q) - 1 : Tail(q)[k] = q[k + 1]
      /\ 1 \in 1 .. Len(q) /\ \A k \in 1 .. Len(q) : q[k] \in S
  OBVIOUS
<1>2. Distinct(Tail(q))
  BY <1>1 DEF Distinct
<1>3. \A y \in RangeOf(Tail(q)) : y \in RangeOf(q) \ {Head(q)}
  BY <1>1 DEF RangeOf, Distinct
<1>4. \A y \in RangeOf(q) \ {Head(q)} : y \in RangeOf(Tail(q))
  <2> TAKE y \in RangeOf(q) \ {Head(q)}
  <2>1. PICK k \in 1 .. Len(q) : y = q[k] /\ k # 1
    BY <1>1 DEF RangeOf
  <2>2. k - 1 \in 1 .. Len(Tail(q)) /\ Tail(q)[k - 1] = q[(k - 1) + 1] /\ (k - 1) + 1 = k
    BY <1>1, <2>1
  <2> QED BY <2>1, <2>2 DEF RangeOf
<1> QED BY <1>1, <1>2, <1>3, <1>4 DEF RangeOf

LEMMA RangeOfTail ==
    ASSUME NEW S, NEW q \in Seq(S), q # <<>>
    PROVE  /\ Head(q) \in S /\ Head(q) \in RangeOf(q)
           /\ Tail(q) \in Seq(S) /\ RangeOf(Tail(q)) \subseteq RangeOf(q)
<1>1. /\ Len(q) \in Nat /\ Len(q) > 0
      /\ Head(q) = q[1] /\ Tail(q) \in Seq(S) /\ Len(Tail(q)) = Len(q) - 1
      /\ \A k \in 1 .. Len(q) - 1 : Tail(q)[k] = q[k + 1]
      /\ 1 \in 1 .. Len(q) /\ \A k \in 1 .. Len(q) : q[k] \in S
  OBVIOUS
<1> QED BY <1>1 DEF RangeOf

\* A ring that refuses still holds only what was pushed.
LEMMA PushedRange ==
    ASSUME NEW S, NEW q \in Seq(S), NEW x \in S, NEW cap \in Nat
    PROVE  /\ Pushed(q, cap, x) \in Seq(S)
           /\ RangeOf(Pushed(q, cap, x)) \subseteq RangeOf(q) \cup {x}
BY RangeOfAppend DEF Pushed

-----------------------------------------------------------------------------
(* The type invariant, one group of actions at a time.                     *)

LEMMA InitTypeOK == Init => TypeOK
<1> SUFFICES ASSUME Init PROVE TypeOK
  OBVIOUS
<1>1. <<>> \in Seq(Session) /\ <<>> \in Seq(Sid \cup {0})
  OBVIOUS
<1>2. pool \in Seq(Session)
  BY DEF Init, Session
<1>3. StoreOK /\ SessionOK
  BY <1>2 DEF Init, StoreOK, SessionOK
<1>4. QueueOK
  BY <1>1 DEF Init, QueueOK
<1>5. AcceptOK /\ CloseOK
  BY DEF Init, AcceptOK, CloseOK
<1>6. ThreadOK
  <2>1. \A t \in Threads : doing[t] = "idle" /\ at[t] = NoSession /\ seen[t] = 0
    BY DEF Init
  <2>2. /\ doing \in [Threads -> {"idle", "using", "mark", "check", "move"}]
        /\ at \in [Threads -> Session \cup {NoSession}]
        /\ target \in [Threads -> Sid \cup {0}]
    BY DEF Init
  <2>3. seen \in [Threads -> 0 .. 4]
    BY DEF Init
  <2>4. \A t \in Threads : (doing[t] = "idle") <=> (at[t] = NoSession)
    BY <2>1
  <2> QED BY <2>1, <2>2, <2>3, <2>4 DEF ThreadOK
<1>7. crashed \in BOOLEAN
  BY DEF Init
<1>8. sendErrors \in 0 .. MaxSendErrors
  BY DEF Init
<1> QED BY <1>3, <1>4, <1>5, <1>6, <1>7, <1>8 DEF TypeOK

LEMMA AcceptSessionType ==
    ASSUME TypeOK, AcceptSession
    PROVE  TypeOK'
<1> DEFINE s == Head(pool)
<1>1. s \in Session /\ pool' \in Seq(Session) /\ lastSid + 1 \in Sid
  BY RangeOfTail DEF TypeOK, StoreOK, AcceptSession, Sid
<1>2. StoreOK'
  BY <1>1 DEF TypeOK, StoreOK, AcceptSession, Sid
<1>3. SessionOK'
  BY <1>1 DEF TypeOK, SessionOK, AcceptSession
<1>4. AcceptOK'
  BY <1>1 DEF TypeOK, SessionOK, AcceptOK, AcceptSession
<1> QED BY <1>2, <1>3, <1>4
        DEF TypeOK, AcceptSession, QueueOK, CloseOK, ThreadOK, packetVars, closeVars, threadVars

Packet == {"connect", "disconnect"} \X Sid

LEMMA CommitType ==
    ASSUME TypeOK, NEW r \in {"accept", "close"}, NEW p \in Packet,
           CommitPackets(r, p) \/ CommitFails(r, p)
    PROVE  /\ unsent' \in [{"accept", "close"} -> SUBSET Packet]
           /\ announced' \subseteq Sid /\ gone' \subseteq Sid
<1>1. /\ unsent \in [{"accept", "close"} -> SUBSET Packet]
      /\ announced \subseteq Sid /\ gone \subseteq Sid
  BY DEF TypeOK, QueueOK, Packet
<1>2. CASE CommitPackets(r, p)
  <2>1. unsent[r] \cup {p} \subseteq Packet
    BY <1>1
  <2>2. \A q \in unsent[r] \cup {p} : q[2] \in Sid
    BY <2>1 DEF Packet
  <2> QED BY <1>1, <1>2, <2>2 DEF CommitPackets
<1>3. CASE CommitFails(r, p)
  BY <1>1, <1>3 DEF CommitFails
<1> QED BY <1>2, <1>3

LEMMA AcceptType ==
    ASSUME TypeOK, Accept
    PROVE  TypeOK'
<1>1. CASE AcceptSession
  BY <1>1, AcceptSessionType
<1> SUFFICES ASSUME ~AcceptSession PROVE TypeOK'
  BY <1>1
<1>2. acceptSes \in Session /\ sid[acceptSes] \in Sid
  BY DEF Accept, TypeOK, AcceptOK, AcceptAnnounce, AcceptGiveUp, BindEpollThread,
         PostEpollReadEvent, PostEpollReadEventFails, AcceptAppendToClose, AcceptMarkClosing
<1>3. CASE AcceptAnnounce
  <2>1. QueueOK'
    BY <1>2, <1>3, CommitType DEF Packet, AcceptAnnounce, TypeOK, QueueOK
  <2>2. AcceptOK'
    BY <1>2, <1>3 DEF AcceptAnnounce, AcceptOK, sessionVars
  <2> QED BY <1>3, <2>1, <2>2
          DEF AcceptAnnounce, TypeOK, StoreOK, SessionOK, CloseOK, ThreadOK,
              storeVars, sessionVars, closeVars, threadVars
<1>4. CASE AcceptGiveUp
  <2>1. QueueOK'
    BY <1>2, <1>4, CommitType DEF Packet, AcceptGiveUp, TypeOK, QueueOK
  <2>2. StoreOK'
    BY <1>2, <1>4 DEF AcceptGiveUp, TypeOK, StoreOK
  <2>3. SessionOK' /\ AcceptOK'
    BY <1>2, <1>4 DEF AcceptGiveUp, TypeOK, SessionOK, AcceptOK
  <2> QED BY <1>4, <2>1, <2>2, <2>3
          DEF AcceptGiveUp, TypeOK, CloseOK, ThreadOK, closeVars, threadVars
<1>5. CASE BindEpollThread
  <2>1. SessionOK' /\ AcceptOK'
    BY <1>2, <1>5 DEF BindEpollThread, TypeOK, SessionOK, AcceptOK
  <2> QED BY <1>5, <2>1
          DEF BindEpollThread, TypeOK, StoreOK, QueueOK, CloseOK, ThreadOK,
              storeVars, packetVars, closeVars, threadVars
<1>6. CASE PostEpollReadEvent
  <2>1. QueueOK' /\ AcceptOK'
    BY <1>2, <1>6 DEF PostEpollReadEvent, TypeOK, SessionOK, QueueOK, AcceptOK
  <2> QED BY <1>6, <2>1
          DEF PostEpollReadEvent, TypeOK, StoreOK, SessionOK, CloseOK, ThreadOK,
              storeVars, sessionVars, closeVars, threadVars
<1>7. CASE PostEpollReadEventFails
  <2>1. QueueOK'
    BY <1>2, <1>7, CommitType DEF Packet, PostEpollReadEventFails, TypeOK, QueueOK
  <2>2. AcceptOK'
    BY <1>2, <1>7 DEF PostEpollReadEventFails, AcceptOK, sessionVars
  <2> QED BY <1>7, <2>1, <2>2
          DEF PostEpollReadEventFails, TypeOK, StoreOK, SessionOK, CloseOK, ThreadOK,
              storeVars, sessionVars, closeVars, threadVars
<1>8. CASE AcceptAppendToClose
  <2>1. QueueOK'
    BY <1>2, <1>8, PushedRange DEF AcceptAppendToClose, TypeOK, QueueOK, packetVars
  <2>2. AcceptOK'
    BY <1>2, <1>8 DEF AcceptAppendToClose, AcceptOK, sessionVars
  <2> QED BY <1>8, <2>1, <2>2
          DEF AcceptAppendToClose, TypeOK, StoreOK, SessionOK, CloseOK, ThreadOK,
              storeVars, sessionVars, closeVars, threadVars
<1>9. CASE AcceptMarkClosing
  <2>1. SessionOK' /\ AcceptOK'
    BY <1>2, <1>9 DEF AcceptMarkClosing, TypeOK, SessionOK, AcceptOK
  <2> QED BY <1>9, <2>1
          DEF AcceptMarkClosing, TypeOK, StoreOK, QueueOK, CloseOK, ThreadOK,
              storeVars, packetVars, closeVars, threadVars
<1> QED BY <1>3, <1>4, <1>5, <1>6, <1>7, <1>8, <1>9 DEF Accept

LEMMA CloseType ==
    ASSUME TypeOK, Close
    PROVE  TypeOK'
<1>1. CASE CloseStale
  <2>1. QueueOK'
    BY <1>1, RangeOfTail DEF CloseStale, TypeOK, QueueOK, packetVars
  <2> QED BY <1>1, <2>1
          DEF CloseStale, TypeOK, StoreOK, SessionOK, AcceptOK, CloseOK, ThreadOK,
              storeVars, sessionVars, acceptVars, closeVars, threadVars
<1>2. CASE CloseSession
  <2> DEFINE i == Head(closeRing)
             s == FindSession(i)
  <2>1. i \in Sid /\ s \in Session
    BY <1>2 DEF CloseSession, FindSession, TypeOK, StoreOK
  <2>2. StoreOK' /\ SessionOK'
    BY <1>2, <2>1 DEF CloseSession, TypeOK, StoreOK, SessionOK
  <2>3. QueueOK'
    BY <1>2, RangeOfTail DEF CloseSession, TypeOK, QueueOK, packetVars
  <2>4. AcceptOK' /\ CloseOK'
    BY <1>2, <2>1 DEF CloseSession, TypeOK, AcceptOK, CloseOK, acceptVars
  <2> QED BY <1>2, <2>2, <2>3, <2>4 DEF CloseSession, TypeOK, ThreadOK, threadVars
<1>3. CASE AddToWillReuseManager
  <2>1. StoreOK' /\ CloseOK'
    BY <1>3 DEF AddToWillReuseManager, TypeOK, StoreOK, CloseOK, Threads
  <2> QED BY <1>3, <2>1
          DEF AddToWillReuseManager, TypeOK, SessionOK, QueueOK, AcceptOK, ThreadOK,
              sessionVars, packetVars, acceptVars, threadVars
<1>4. CASE NotifyThread
  <2>1. closeSes \in Session /\ closeSid \in Sid
    BY <1>4 DEF NotifyThread, TypeOK, CloseOK, Threads
  <2>2. CloseOK'
    BY <1>4, <2>1 DEF NotifyThread, TypeOK, CloseOK, Threads, NextNotice
  <2>3. Pushed(notices[closing], NoticeCap, closeSes) \in Seq(Session)
    BY <1>4, <2>1, PushedRange DEF NotifyThread, TypeOK, QueueOK
  <2>4. QueueOK'
    BY <1>4, <2>3 DEF NotifyThread, TypeOK, QueueOK, packetVars
  <2> QED BY <1>4, <2>2, <2>4
          DEF NotifyThread, TypeOK, StoreOK, SessionOK, AcceptOK, ThreadOK,
              storeVars, sessionVars, acceptVars, threadVars
<1>5. CASE NotifyUnboundEpollThread
  <2>1. crashed' \in BOOLEAN
    BY <1>5 DEF NotifyUnboundEpollThread
  <2> QED BY <1>5, <2>1
          DEF NotifyUnboundEpollThread, TypeOK, StoreOK, SessionOK, QueueOK, AcceptOK,
              CloseOK, ThreadOK, storeVars, sessionVars, packetVars, acceptVars, closeVars,
              threadVars
<1>6. CASE CloseDisconnect
  <2>1. closeSid \in Sid
    BY <1>6 DEF CloseDisconnect, TypeOK, CloseOK
  <2>2. QueueOK'
    BY <1>6, <2>1, CommitType DEF Packet, CloseDisconnect, TypeOK, QueueOK
  <2>3. CloseOK'
    BY <1>6 DEF CloseDisconnect, CloseOK
  <2> QED BY <1>6, <2>2, <2>3
          DEF CloseDisconnect, TypeOK, StoreOK, SessionOK, AcceptOK, ThreadOK,
              storeVars, sessionVars, acceptVars, threadVars
<1> QED BY <1>1, <1>2, <1>3, <1>4, <1>5, <1>6 DEF Close

LEMMA ThreadType ==
    ASSUME TypeOK, NEW t \in Threads, Work(t)
    PROVE  TypeOK'
<1>0. ASSUME BecomeIdle(t) PROVE ThreadOK'
  BY <1>0 DEF BecomeIdle, TypeOK, ThreadOK, NoSession, Session
<1>1. ASSUME NEW i \in Sid, BeginUse(t, i) PROVE TypeOK'
  <2>1. managed[i] \in Session
    BY <1>1 DEF BeginUse, FindSession, TypeOK, StoreOK
  <2>2. epollSid[managed[i]] \in Sid \cup {0}
    BY <2>1 DEF TypeOK, SessionOK
  <2>3. seen[t] \in 0 .. 4
    BY DEF TypeOK, ThreadOK
  <2>4. ThreadOK'
    BY <1>1, <2>1, <2>2 DEF BeginUse, TypeOK, ThreadOK, NoSession, Session
  <2> QED BY <1>1, <2>4
          DEF BeginUse, TypeOK, StoreOK, SessionOK, QueueOK, AcceptOK, CloseOK,
              storeVars, sessionVars, packetVars, acceptVars, closeVars
<1>2. CASE EndUse(t)
  BY <1>0, <1>2
     DEF EndUse, TypeOK, StoreOK, SessionOK, QueueOK, AcceptOK, CloseOK,
         storeVars, sessionVars, packetVars, acceptVars, closeVars
<1>3. CASE RequestClose(t)
  <2>1. target[t] \in Sid \cup {0}
    BY DEF TypeOK, ThreadOK
  <2>2. QueueOK'
    BY <1>3, <2>1, PushedRange DEF RequestClose, TypeOK, QueueOK, packetVars
  <2>3. ThreadOK'
    BY <1>3 DEF RequestClose, TypeOK, ThreadOK
  <2> QED BY <1>3, <2>2, <2>3
          DEF RequestClose, TypeOK, StoreOK, SessionOK, AcceptOK, CloseOK,
              storeVars, sessionVars, acceptVars, closeVars
<1>4. CASE MarkClosing(t)
  <2>1. at[t] \in Session
    BY <1>4 DEF MarkClosing, TypeOK, ThreadOK
  <2>2. SessionOK'
    BY <1>4, <2>1 DEF MarkClosing, TypeOK, SessionOK
  <2> QED BY <1>0, <1>4, <2>2
          DEF MarkClosing, TypeOK, StoreOK, QueueOK, AcceptOK, CloseOK,
              storeVars, packetVars, acceptVars, closeVars
<1>5. CASE StopProcess(t)
  <2>1. notices[t] \in Seq(Session) /\ notices[t] # <<>>
    BY <1>5 DEF StopProcess, TypeOK, QueueOK
  <2>2. Head(notices[t]) \in Session /\ Tail(notices[t]) \in Seq(Session)
    BY <2>1, RangeOfTail
  <2>3. SessionOK'
    BY <1>5, <2>2 DEF StopProcess, TypeOK, SessionOK
  <2>4. QueueOK'
    BY <1>5, <2>2 DEF StopProcess, TypeOK, QueueOK, packetVars
  <2>5. ThreadOK'
    BY <1>5, <2>2 DEF StopProcess, TypeOK, ThreadOK, NoSession, Session
  <2> QED BY <1>5, <2>3, <2>4, <2>5
          DEF StopProcess, TypeOK, StoreOK, AcceptOK, CloseOK,
              storeVars, acceptVars, closeVars
<1>6. CASE ReadFlag(t)
  <2>1. ThreadOK'
    <3>1. CASE BecomeIdle(t)
      BY <1>0, <3>1
    <3>2. CASE ~BecomeIdle(t)
      BY <1>6, <3>2 DEF ReadFlag, TypeOK, ThreadOK
    <3> QED BY <3>1, <3>2
  <2> QED BY <1>6, <2>1
          DEF ReadFlag, TypeOK, StoreOK, SessionOK, QueueOK, AcceptOK, CloseOK,
              storeVars, sessionVars, packetVars, acceptVars, closeVars
<1>7. CASE MoveToPool(t)
  <2>1. at[t] \in Session
    BY <1>7 DEF MoveToPool, TypeOK, ThreadOK
  <2>2. StoreOK' /\ SessionOK'
    <3>1. CASE at[t] \in willReuse
      <4>1. bound' \in [Session -> BOOLEAN]
        BY <1>7, <2>1, <3>1 DEF MoveToPool, TypeOK, SessionOK
      <4>2. pool' \in Seq(Session)
        BY <1>7, <2>1, <3>1 DEF MoveToPool, TypeOK, StoreOK
      <4> QED BY <1>7, <3>1, <4>1, <4>2 DEF MoveToPool, TypeOK, StoreOK, SessionOK
    <3>2. CASE at[t] \notin willReuse
      BY <1>7, <3>2 DEF MoveToPool, TypeOK, StoreOK, SessionOK
    <3> QED BY <3>1, <3>2
  <2> QED BY <1>0, <1>7, <2>2
          DEF MoveToPool, TypeOK, QueueOK, AcceptOK, CloseOK,
              packetVars, acceptVars, closeVars
<1> QED BY <1>1, <1>2, <1>3, <1>4, <1>5, <1>6, <1>7 DEF Work, Leave, Stop

LEMMA SendFailsType ==
    ASSUME TypeOK, SendFails
    PROVE  TypeOK'
<1>1. "send" \in Threads
  BY DEF Threads
<1>2. at["send"] \in Session
  BY <1>1 DEF SendFails, TypeOK, ThreadOK
<1>3. epollSid[at["send"]] \in Sid \cup {0}
  BY <1>2 DEF TypeOK, SessionOK
<1>4. QueueOK'
  <2>1. QueueOK /\ closeRing \in Seq(Sid \cup {0}) /\ CloseCap \in Nat
    BY DEF TypeOK, QueueOK, SessionLifeAssumption
  <2>2. Pushed(closeRing, CloseCap, epollSid[at["send"]]) \in Seq(Sid \cup {0})
    BY <1>3, <2>1, PushedRange
  <2>3. closeRing' = Pushed(closeRing, CloseCap, epollSid[at["send"]])
    BY DEF SendFails
  <2>4. UNCHANGED <<notices, unsent, announced, gone, armed>>
    BY DEF SendFails, packetVars
  <2> QED BY <2>1, <2>2, <2>3, <2>4 DEF QueueOK
<1>5. ThreadOK'
  BY <1>1 DEF SendFails, BecomeIdle, TypeOK, ThreadOK, NoSession, Session
<1>6. sendErrors' \in 0 .. MaxSendErrors
  BY DEF SendFails, TypeOK
<1> QED BY <1>4, <1>5, <1>6
        DEF SendFails, TypeOK, StoreOK, SessionOK, AcceptOK, CloseOK,
            storeVars, sessionVars, acceptVars, closeVars

LEMMA TypeStep == TypeOK /\ [Next]_vars => TypeOK'
<1> SUFFICES ASSUME TypeOK, [Next]_vars PROVE TypeOK'
  OBVIOUS
<1>1. CASE UNCHANGED vars
  BY <1>1 DEF vars, storeVars, sessionVars, packetVars, acceptVars, closeVars, threadVars,
              TypeOK, StoreOK, SessionOK, QueueOK, AcceptOK, CloseOK, ThreadOK
<1> QED BY <1>1, AcceptType, CloseType, ThreadType, SendFailsType DEF Next

\* The type invariant, for any number of sessions and connections.
THEOREM TypeCorrect == Spec => []TypeOK
BY InitTypeOK, TypeStep, PTL DEF Spec

-----------------------------------------------------------------------------
(* Every object is in one place.                                           *)

LEMMA TakenOutOfMap ==
    ASSUME TypeOK, OnePlace, NEW i \in Sid, managed[i] # NoSession,
           managed' = [managed EXCEPT ![i] = NoSession]
    PROVE  /\ managed[i] \in Managed
           /\ Managed' = Managed \ {managed[i]}
           /\ \A j, k \in Sid : managed'[j] = managed'[k] /\ managed'[j] # NoSession => j = k
<1>1. /\ managed \in [Sid -> Session \cup {NoSession}]
      /\ \A j, k \in Sid : managed[j] = managed[k] /\ managed[j] # NoSession => j = k
      /\ \A j \in Sid : managed'[j] = IF j = i THEN NoSession ELSE managed[j]
      /\ NoSession \notin Session
  BY DEF TypeOK, StoreOK, OnePlace, NoSession, Session
<1> QED BY <1>1 DEF Managed

LEMMA PutIntoMap ==
    ASSUME TypeOK, OnePlace, NEW i \in Sid, managed[i] = NoSession,
           NEW s \in Session, s \notin Managed,
           managed' = [managed EXCEPT ![i] = s]
    PROVE  /\ Managed' = Managed \cup {s}
           /\ \A j, k \in Sid : managed'[j] = managed'[k] /\ managed'[j] # NoSession => j = k
<1>1. /\ managed \in [Sid -> Session \cup {NoSession}]
      /\ \A j, k \in Sid : managed[j] = managed[k] /\ managed[j] # NoSession => j = k
      /\ \A j \in Sid : managed'[j] = IF j = i THEN s ELSE managed[j]
      /\ NoSession \notin Session
  BY DEF TypeOK, StoreOK, OnePlace, NoSession, Session
<1> QED BY <1>1 DEF Managed

LEMMA PutIntoPool ==
    ASSUME TypeOK, OnePlace, NEW s \in Session, s \notin Pooled, pool' = Append(pool, s)
    PROVE  Distinct(pool)' /\ Pooled' = Pooled \cup {s}
BY DistinctAppend, RangeOfAppend DEF TypeOK, StoreOK, OnePlace, Pooled

\* Who goes where, action by action.
LEMMA AcceptSessionMoves ==
    ASSUME PlaceInv, AcceptSession
    PROVE  /\ Head(pool) \in Session /\ Head(pool) \in Pooled
           /\ Pooled' = Pooled \ {Head(pool)} /\ Distinct(pool)'
           /\ Managed' = Managed \cup {Head(pool)}
           /\ \A j, k \in Sid : managed'[j] = managed'[k] /\ managed'[j] # NoSession => j = k
           /\ InHand' = InHand /\ willReuse' = willReuse
<1> DEFINE s == Head(pool)
<1>1. /\ s \in Session /\ s \in Pooled
      /\ Distinct(pool)' /\ Pooled' = Pooled \ {s}
  BY TailOfDistinct DEF PlaceInv, OnePlace, TypeOK, StoreOK, AcceptSession, Pooled
<1>2. lastSid + 1 \in Sid /\ managed[lastSid + 1] = NoSession
  BY DEF PlaceInv, TypeOK, StoreOK, SidsAgree, AcceptSession, Sid
<1>3. s \notin Managed
  BY <1>1 DEF PlaceInv, OnePlace
<1>4. managed' = [managed EXCEPT ![lastSid + 1] = s]
  BY DEF AcceptSession
<1>5. InHand' = InHand /\ willReuse' = willReuse
  BY DEF AcceptSession, InHand, closeVars
<1> QED BY <1>1, <1>2, <1>3, <1>4, <1>5, PutIntoMap DEF PlaceInv

LEMMA AcceptGiveUpMoves ==
    ASSUME PlaceInv, AcceptGiveUp
    PROVE  /\ acceptSes \in Session /\ acceptSes \in Managed
           /\ Managed' = Managed \ {acceptSes}
           /\ \A j, k \in Sid : managed'[j] = managed'[k] /\ managed'[j] # NoSession => j = k
           /\ Pooled' = Pooled \cup {acceptSes} /\ Distinct(pool)'
           /\ InHand' = InHand /\ willReuse' = willReuse
<1> DEFINE s == acceptSes
<1>1. s \in Session /\ sid[s] \in Sid /\ managed[sid[s]] = s /\ s # NoSession
  BY DEF PlaceInv, TypeOK, AcceptOK, SidsAgree, AcceptGiveUp, Session, NoSession
<1>2. /\ s \in Managed /\ Managed' = Managed \ {s}
      /\ \A j, k \in Sid : managed'[j] = managed'[k] /\ managed'[j] # NoSession => j = k
  BY <1>1, TakenOutOfMap DEF PlaceInv, AcceptGiveUp
<1>3. Distinct(pool)' /\ Pooled' = Pooled \cup {s}
  BY <1>1, <1>2, PutIntoPool DEF PlaceInv, OnePlace, AcceptGiveUp
<1>4. InHand' = InHand /\ willReuse' = willReuse
  BY DEF AcceptGiveUp, InHand, closeVars
<1> QED BY <1>1, <1>2, <1>3, <1>4

LEMMA CloseSessionMoves ==
    ASSUME PlaceInv, CloseSession
    PROVE  /\ closeSes' \in Session /\ closeSes' \in Managed
           /\ Managed' = Managed \ {closeSes'}
           /\ \A j, k \in Sid : managed'[j] = managed'[k] /\ managed'[j] # NoSession => j = k
           /\ InHand = {} /\ InHand' = {closeSes'}
           /\ Pooled' = Pooled /\ Distinct(pool)' /\ willReuse' = willReuse
           /\ open' = [open EXCEPT ![closeSes'] = FALSE]
<1> DEFINE i == Head(closeRing)
           s == FindSession(i)
<1>1. i \in Sid /\ s = managed[i] /\ s \in Session /\ s # NoSession /\ sid[s] = i
  BY DEF PlaceInv, TypeOK, StoreOK, SidsAgree, CloseSession, FindSession
<1>2. managed' = [managed EXCEPT ![i] = NoSession] /\ closeSes' = s
  BY <1>1 DEF CloseSession
<1>3. /\ s \in Managed /\ Managed' = Managed \ {s}
      /\ \A j, k \in Sid : managed'[j] = managed'[k] /\ managed'[j] # NoSession => j = k
  BY <1>1, <1>2, TakenOutOfMap DEF PlaceInv
<1>4. /\ Pooled' = Pooled /\ Distinct(pool)' /\ willReuse' = willReuse
      /\ InHand = {} /\ InHand' = {closeSes'}
  BY DEF PlaceInv, OnePlace, CloseSession, Pooled, InHand
<1>5. open' = [open EXCEPT ![s] = FALSE]
  BY DEF CloseSession
<1> QED BY <1>1, <1>2, <1>3, <1>4, <1>5

LEMMA AddToWillReuseMoves ==
    ASSUME PlaceInv, AddToWillReuseManager
    PROVE  /\ InHand = {closeSes} /\ InHand' = {} /\ willReuse' = willReuse \cup {closeSes}
           /\ Pooled' = Pooled /\ Distinct(pool)' /\ Managed' = Managed
           /\ managed' = managed /\ open' = open
BY DEF PlaceInv, OnePlace, AddToWillReuseManager, InHand, Pooled, Managed, sessionVars

LEMMA MoveToPoolMoves ==
    ASSUME PlaceInv, NEW t \in Threads, MoveToPool(t), at[t] \in willReuse
    PROVE  /\ at[t] \in Session
           /\ willReuse' = willReuse \ {at[t]}
           /\ Pooled' = Pooled \cup {at[t]} /\ Distinct(pool)'
           /\ InHand' = InHand /\ Managed' = Managed /\ managed' = managed /\ open' = open
<1>1. at[t] \in Session /\ at[t] \notin Pooled
  BY DEF PlaceInv, OnePlace, TypeOK, StoreOK
<1>2. pool' = Append(pool, at[t]) /\ willReuse' = willReuse \ {at[t]}
  BY DEF MoveToPool
<1>3. InHand' = InHand /\ Managed' = Managed /\ managed' = managed /\ open' = open
  BY DEF MoveToPool, InHand, Managed, closeVars
<1> QED BY <1>1, <1>2, <1>3, PutIntoPool DEF PlaceInv

\* Every other step leaves all of them where they are.
LEMMA NobodyMoves ==
    ASSUME PlaceInv, [Next]_vars, ~AcceptSession, ~AcceptGiveUp, ~CloseSession,
           ~AddToWillReuseManager, \A t \in Threads : ~(MoveToPool(t) /\ at[t] \in willReuse)
    PROVE  UNCHANGED <<pool, managed, willReuse, open, Pooled, Managed, InHand>>
<1>1. UNCHANGED <<pool, managed, willReuse, open, InHand>>
  <2>1. CASE Accept
    BY <2>1 DEF Accept, AcceptAnnounce, BindEpollThread, PostEpollReadEvent,
        PostEpollReadEventFails, AcceptAppendToClose, AcceptMarkClosing,
        storeVars, sessionVars, closeVars, InHand
  <2>2. CASE Close
    BY <2>2 DEF Close, CloseStale, NotifyThread, NotifyUnboundEpollThread, CloseDisconnect,
        NextNotice, Threads, storeVars, sessionVars, closeVars, InHand
  <2>3. CASE SendFails \/ \E t \in Threads : Work(t)
    BY <2>3 DEF SendFails, Work, BeginUse, Leave, EndUse, MarkClosing, RequestClose, Stop,
        StopProcess, ReadFlag, MoveToPool, storeVars, sessionVars, closeVars, InHand
  <2>4. CASE UNCHANGED vars
    BY <2>4 DEF vars, storeVars, sessionVars, closeVars, InHand
  <2> QED BY <2>1, <2>2, <2>3, <2>4 DEF Next
<1> QED BY <1>1 DEF Pooled, Managed

LEMMA PlaceStep ==
    ASSUME PlaceInv, [Next]_vars
    PROVE  OnePlace' /\ SocketFollowsMap'
<1>1. CASE AcceptSession
  <2>1. open' = [open EXCEPT ![Head(pool)] = TRUE]
    BY <1>1 DEF AcceptSession
  <2>2. OnePlace'
    BY <1>1, AcceptSessionMoves DEF PlaceInv, OnePlace
  <2> QED BY <1>1, <2>1, <2>2, AcceptSessionMoves
          DEF PlaceInv, TypeOK, SessionOK, SocketFollowsMap
<1>2. CASE AcceptGiveUp
  <2>1. open' = [open EXCEPT ![acceptSes] = FALSE]
    BY <1>2 DEF AcceptGiveUp
  <2>2. OnePlace'
    BY <1>2, AcceptGiveUpMoves DEF PlaceInv, OnePlace
  <2> QED BY <1>2, <2>1, <2>2, AcceptGiveUpMoves
          DEF PlaceInv, TypeOK, SessionOK, SocketFollowsMap
<1>3. CASE CloseSession
  <2>1. OnePlace'
    BY <1>3, CloseSessionMoves DEF PlaceInv, OnePlace
  <2> QED BY <1>3, <2>1, CloseSessionMoves
          DEF PlaceInv, TypeOK, SessionOK, SocketFollowsMap
<1>4. CASE AddToWillReuseManager
  <2>1. OnePlace'
    BY <1>4, AddToWillReuseMoves DEF PlaceInv, OnePlace
  <2> QED BY <1>4, <2>1, AddToWillReuseMoves DEF PlaceInv, SocketFollowsMap
<1>5. ASSUME NEW t \in Threads, MoveToPool(t), at[t] \in willReuse
      PROVE  OnePlace' /\ SocketFollowsMap'
  <2>1. OnePlace'
    BY <1>5, MoveToPoolMoves DEF PlaceInv, OnePlace
  <2> QED BY <1>5, <2>1, MoveToPoolMoves DEF PlaceInv, SocketFollowsMap
<1>6. CASE UNCHANGED <<pool, managed, willReuse, open, Pooled, Managed, InHand>>
  BY <1>6 DEF PlaceInv, OnePlace, SocketFollowsMap
<1> QED BY <1>1, <1>2, <1>3, <1>4, <1>5, <1>6, NobodyMoves

LEMMA AgreeStep ==
    ASSUME PlaceInv, [Next]_vars
    PROVE  SidsAgree'
<1>1. CASE AcceptSession
  <2> DEFINE s == Head(pool)
  <2>1. s \in Session /\ s \in Pooled
    BY <1>1, TailOfDistinct DEF PlaceInv, OnePlace, TypeOK, StoreOK, AcceptSession, Pooled
  <2>2. lastSid \in 0 .. MaxSid /\ lastSid' = lastSid + 1 /\ lastSid + 1 \in Sid
    BY <1>1 DEF PlaceInv, TypeOK, StoreOK, AcceptSession, Sid
  <2>3. \A i \in Sid : managed[i] # s
    BY <2>1 DEF PlaceInv, OnePlace, Managed
  <2>4. /\ sid \in [Session -> Sid \cup {0}] /\ managed \in [Sid -> Session \cup {NoSession}]
        /\ sid' = [sid EXCEPT ![s] = lastSid + 1]
        /\ managed' = [managed EXCEPT ![lastSid + 1] = s]
        /\ acceptSes' = s
    BY <1>1 DEF PlaceInv, TypeOK, StoreOK, SessionOK, AcceptSession
  <2>5. ASSUME NEW i \in Sid, managed'[i] # NoSession
        PROVE  i <= lastSid' /\ sid'[managed'[i]] = i
    <3>1. CASE i = lastSid + 1
      BY <2>1, <2>2, <2>4, <3>1
    <3>2. CASE i # lastSid + 1
      <4>1. managed'[i] = managed[i] /\ managed[i] \in Session /\ managed[i] # s
        BY <2>3, <2>4, <2>5, <3>2
      <4>2. i <= lastSid /\ sid[managed[i]] = i
        BY <2>5, <4>1 DEF PlaceInv, SidsAgree
      <4> QED BY <2>2, <2>4, <4>1, <4>2 DEF Sid
    <3> QED BY <3>1, <3>2
  <2>6. ASSUME NEW r \in Session PROVE sid'[r] <= lastSid'
    <3>1. sid[r] <= lastSid /\ sid[r] \in Int
      BY <2>4 DEF PlaceInv, SidsAgree, Sid
    <3> QED BY <2>2, <2>4, <3>1
  <2>7. sid'[acceptSes'] = lastSid' /\ managed'[lastSid'] = acceptSes'
    BY <2>1, <2>2, <2>4
  <2> QED BY <2>5, <2>6, <2>7 DEF SidsAgree
<1>2. CASE AcceptGiveUp
  BY <1>2 DEF PlaceInv, SidsAgree, TypeOK, StoreOK, AcceptGiveUp
<1>3. CASE CloseSession
  <2> DEFINE i == Head(closeRing)
  <2>1. /\ i \in Sid /\ managed[i] # NoSession /\ sid[managed[i]] = i
        /\ FindSession(i) = managed[i]
    BY <1>3 DEF PlaceInv, TypeOK, StoreOK, SidsAgree, CloseSession, FindSession
  <2>2. i \in RangeOf(closeRing)
    BY <1>3, RangeOfTail DEF CloseSession, PlaceInv, TypeOK, QueueOK
  <2>3. accepting = "opened" => i # lastSid /\ lastSid \in Int
    BY <2>2 DEF PlaceInv, SidsKnown, KnownSids, TypeOK, StoreOK
  <2>4. managed' = [managed EXCEPT ![i] = NoSession]
    BY <1>3, <2>1 DEF CloseSession
  <2>5. UNCHANGED <<sid, lastSid, accepting, acceptSes>>
    BY <1>3 DEF CloseSession, acceptVars
  <2> QED BY <2>3, <2>4, <2>5 DEF PlaceInv, SidsAgree, TypeOK, StoreOK
<1>4. CASE ~AcceptSession /\ ~AcceptGiveUp /\ ~CloseSession
  <2>1. /\ UNCHANGED <<managed, sid, lastSid>>
        /\ accepting' # "opened" \/ UNCHANGED <<accepting, acceptSes>>
    <3>1. CASE Accept
      BY <1>4, <3>1 DEF Accept, AcceptAnnounce, BindEpollThread, PostEpollReadEvent,
          PostEpollReadEventFails, AcceptAppendToClose, AcceptMarkClosing,
          storeVars, sessionVars
    <3>2. CASE Close
      BY <1>4, <3>2 DEF Close, CloseStale, AddToWillReuseManager, NotifyThread,
          NotifyUnboundEpollThread, CloseDisconnect, storeVars, sessionVars, acceptVars
    <3>3. CASE SendFails \/ \E t \in Threads : Work(t)
      BY <3>3 DEF SendFails, Work, BeginUse, Leave, EndUse, MarkClosing, RequestClose, Stop,
          StopProcess, ReadFlag, MoveToPool, storeVars, sessionVars, acceptVars
    <3>4. CASE UNCHANGED vars
      BY <3>4 DEF vars, storeVars, sessionVars, acceptVars
    <3> QED BY <3>1, <3>2, <3>3, <3>4 DEF Next
  <2> QED BY <2>1 DEF PlaceInv, SidsAgree
<1> QED BY <1>1, <1>2, <1>3, <1>4

LEMMA KnownSidsGrow ==
    ASSUME PlaceInv, [Next]_vars
    PROVE  KnownSids \subseteq KnownSids' /\ 0 \in KnownSids'
<1>0. lastSid \in 0 .. MaxSid /\ lastSid' \in Int
      /\ (accepting = "opened" => lastSid >= 1)
  <2>1. accepting = "opened" => lastSid \in Sid
    BY DEF PlaceInv, TypeOK, AcceptOK, SidsAgree
  <2>2. lastSid' = lastSid \/ lastSid' = lastSid + 1
    BY DEF Next, Accept, AcceptSession, AcceptAnnounce, AcceptGiveUp, BindEpollThread,
          PostEpollReadEvent, PostEpollReadEventFails, AcceptAppendToClose, AcceptMarkClosing,
          Close, CloseStale, CloseSession, AddToWillReuseManager, NotifyThread,
          NotifyUnboundEpollThread, CloseDisconnect, SendFails, Work, BeginUse, Leave, EndUse,
          MarkClosing, RequestClose, Stop, StopProcess, ReadFlag, MoveToPool, vars, storeVars
  <2> QED BY <2>1, <2>2 DEF PlaceInv, TypeOK, StoreOK, Sid
<1>1. CASE AcceptSession
  BY <1>0, <1>1 DEF AcceptSession, KnownSids
<1>2. CASE ~AcceptSession
  <2>1. lastSid' = lastSid /\ (accepting' = accepting \/ accepting' # "opened")
    BY <1>2
       DEF Next, Accept, AcceptAnnounce, AcceptGiveUp, BindEpollThread,
          PostEpollReadEvent, PostEpollReadEventFails, AcceptAppendToClose, AcceptMarkClosing,
          Close, CloseStale, CloseSession, AddToWillReuseManager, NotifyThread,
          NotifyUnboundEpollThread, CloseDisconnect, SendFails, Work, BeginUse, Leave, EndUse,
          MarkClosing, RequestClose, Stop, StopProcess, ReadFlag, MoveToPool, vars, storeVars,
          acceptVars
  <2> QED BY <1>0, <2>1 DEF KnownSids
<1> QED BY <1>1, <1>2

\* A pushed id is known; what was known stays so.
LEMMA KnownPush ==
    ASSUME PlaceInv, [Next]_vars, NEW i \in KnownSids', i \in Sid \cup {0},
           closeRing' = Pushed(closeRing, CloseCap, i)
    PROVE  RangeOf(closeRing') \subseteq KnownSids'
<1>1. RangeOf(closeRing') \subseteq RangeOf(closeRing) \cup {i}
  BY PushedRange DEF PlaceInv, TypeOK, QueueOK
<1> QED BY <1>1, KnownSidsGrow DEF PlaceInv, SidsKnown

LEMMA KnownCommit ==
    ASSUME PlaceInv, [Next]_vars, NEW r \in {"accept", "close"},
           NEW i \in KnownSids', i \in Sid, NEW kind \in {"connect", "disconnect"},
           CommitPackets(r, <<kind, i>>) \/ CommitFails(r, <<kind, i>>)
    PROVE  /\ announced' \subseteq KnownSids'
           /\ \A x \in {"accept", "close"} : \A p \in unsent'[x] : p[2] \in KnownSids'
<1>1. /\ announced \subseteq KnownSids'
      /\ \A x \in {"accept", "close"} : \A p \in unsent[x] : p[2] \in KnownSids'
      /\ unsent \in [{"accept", "close"} -> SUBSET ({"connect", "disconnect"} \X Sid)]
  BY KnownSidsGrow DEF PlaceInv, SidsKnown, TypeOK, QueueOK
<1>2. \A p \in unsent[r] \cup {<<kind, i>>} : p[2] \in KnownSids'
  BY <1>1
<1>3. CASE CommitPackets(r, <<kind, i>>)
  BY <1>1, <1>2, <1>3 DEF CommitPackets
<1>4. CASE CommitFails(r, <<kind, i>>)
  BY <1>1, <1>2, <1>4 DEF CommitFails
<1> QED BY <1>3, <1>4

\* The id the accept thread holds is known once it is announced or given up.
LEMMA AcceptSidKnown ==
    ASSUME PlaceInv, [Next]_vars, accepting # "idle", accepting' # "opened"
    PROVE  sid[acceptSes] \in KnownSids' /\ sid[acceptSes] \in Sid
<1>1. acceptSes \in Session /\ sid[acceptSes] \in Sid /\ sid[acceptSes] <= lastSid
  BY DEF PlaceInv, TypeOK, AcceptOK, SidsAgree
<1>2. ~AcceptSession
  BY DEF AcceptSession
<1>4. lastSid \in Int
  BY DEF PlaceInv, TypeOK, StoreOK
<1>3. lastSid' = lastSid
  BY <1>2
     DEF Next, Accept, AcceptAnnounce, AcceptGiveUp, BindEpollThread,
         PostEpollReadEvent, PostEpollReadEventFails, AcceptAppendToClose, AcceptMarkClosing,
         Close, CloseStale, CloseSession, AddToWillReuseManager, NotifyThread,
         NotifyUnboundEpollThread, CloseDisconnect, SendFails, Work, BeginUse, Leave, EndUse,
         MarkClosing, RequestClose, Stop, StopProcess, ReadFlag, MoveToPool, vars, storeVars
<1> QED BY <1>1, <1>3, <1>4 DEF KnownSids, Sid

LEMMA KnownAccept ==
    ASSUME PlaceInv, Accept
    PROVE  SidsKnown'
<1>0. /\ [Next]_vars
      /\ \A x \in KnownSids : x \in KnownSids'
      /\ 0 \in KnownSids'
  BY KnownSidsGrow DEF Next
<1>1. UNCHANGED <<target, closeSid>>
  BY DEF Accept, AcceptSession, AcceptAnnounce, AcceptGiveUp, BindEpollThread,
         PostEpollReadEvent, PostEpollReadEventFails, AcceptAppendToClose, AcceptMarkClosing,
         closeVars, threadVars
<1>2. CASE AcceptSession \/ AcceptMarkClosing
  BY <1>0, <1>1, <1>2
     DEF PlaceInv, SidsKnown, AcceptSession, AcceptMarkClosing, packetVars
<1>6. CASE PostEpollReadEvent
  <2>1. epollSid[acceptSes] \in KnownSids'
    BY <1>0, <1>6 DEF PostEpollReadEvent, PlaceInv, SidsKnown, TypeOK, AcceptOK
  <2>2. armed' \subseteq KnownSids'
    BY <1>0, <1>6, <2>1 DEF PostEpollReadEvent, PlaceInv, SidsKnown
  <2> QED BY <1>0, <1>1, <1>6, <2>2
          DEF PostEpollReadEvent, PlaceInv, SidsKnown, sessionVars
<1>3. CASE AcceptAnnounce \/ AcceptGiveUp \/ PostEpollReadEventFails
  <2>1. UNCHANGED <<epollSid, closeRing, armed>>
    BY <1>3 DEF AcceptAnnounce, AcceptGiveUp, PostEpollReadEventFails, sessionVars
  <2>2. sid[acceptSes] \in KnownSids' /\ sid[acceptSes] \in Sid
    BY <1>0, <1>3, AcceptSidKnown DEF AcceptAnnounce, AcceptGiveUp, PostEpollReadEventFails
  <2>3. \E kind \in {"connect", "disconnect"} :
            \/ CommitPackets("accept", <<kind, sid[acceptSes]>>)
            \/ CommitFails("accept", <<kind, sid[acceptSes]>>)
    BY <1>3 DEF AcceptAnnounce, AcceptGiveUp, PostEpollReadEventFails
  <2>4. /\ announced' \subseteq KnownSids'
        /\ \A x \in {"accept", "close"} : \A p \in unsent'[x] : p[2] \in KnownSids'
    BY <1>0, <2>2, <2>3, KnownCommit
  <2> QED BY <1>0, <1>1, <2>1, <2>4 DEF PlaceInv, SidsKnown
<1>4. CASE BindEpollThread
  <2>1. sid[acceptSes] \in KnownSids'
    BY <1>0, <1>4, AcceptSidKnown DEF BindEpollThread
  <2>2. \A s \in Session : epollSid'[s] \in KnownSids'
    BY <1>0, <1>4, <2>1 DEF BindEpollThread, PlaceInv, TypeOK, SessionOK, SidsKnown
  <2> QED BY <1>0, <1>1, <1>4, <2>2 DEF BindEpollThread, PlaceInv, SidsKnown, packetVars
<1>5. CASE AcceptAppendToClose
  <2>1. sid[acceptSes] \in KnownSids' /\ sid[acceptSes] \in Sid
    BY <1>0, <1>5, AcceptSidKnown DEF AcceptAppendToClose
  <2>2. RangeOf(closeRing') \subseteq KnownSids'
    BY <1>0, <1>5, <2>1, KnownPush DEF AcceptAppendToClose
  <2> QED BY <1>0, <1>1, <1>5, <2>2
          DEF AcceptAppendToClose, PlaceInv, SidsKnown, sessionVars, packetVars
<1> QED BY <1>2, <1>3, <1>4, <1>5, <1>6 DEF Accept

LEMMA KnownClose ==
    ASSUME PlaceInv, Close
    PROVE  SidsKnown'
<1>0. /\ [Next]_vars
      /\ \A x \in KnownSids : x \in KnownSids'
      /\ 0 \in KnownSids'
  BY KnownSidsGrow DEF Next
<1>1. UNCHANGED <<epollSid, target>>
  BY DEF Close, CloseStale, CloseSession, AddToWillReuseManager, NotifyThread,
         NotifyUnboundEpollThread, CloseDisconnect, sessionVars, threadVars
<1>2. CASE CloseStale \/ CloseSession
  <2>1. closeRing \in Seq(Sid \cup {0}) /\ closeRing # <<>> /\ closeRing' = Tail(closeRing)
    BY <1>2 DEF CloseStale, CloseSession, PlaceInv, TypeOK, QueueOK
  <2>2. RangeOf(closeRing') \subseteq KnownSids' /\ Head(closeRing) \in KnownSids'
    BY <1>0, <2>1, RangeOfTail DEF PlaceInv, SidsKnown
  <2>3. closeSid' = closeSid \/ closeSid' = Head(closeRing)
    BY <1>2 DEF CloseStale, CloseSession, closeVars
  <2>4. UNCHANGED packetVars
    BY <1>2 DEF CloseStale, CloseSession
  <2> QED BY <1>0, <1>1, <2>2, <2>3, <2>4 DEF PlaceInv, SidsKnown, packetVars
<1>3. CASE CloseDisconnect
  <2>1. closeSid \in KnownSids' /\ closeSid \in Sid
    BY <1>0, <1>3 DEF CloseDisconnect, PlaceInv, SidsKnown, TypeOK, CloseOK
  <2>2. /\ announced' \subseteq KnownSids'
        /\ \A x \in {"accept", "close"} : \A p \in unsent'[x] : p[2] \in KnownSids'
    BY <1>0, <1>3, <2>1, KnownCommit DEF CloseDisconnect
  <2> QED BY <1>0, <1>1, <1>3, <2>2 DEF CloseDisconnect, PlaceInv, SidsKnown
<1>4. CASE AddToWillReuseManager \/ NotifyThread \/ NotifyUnboundEpollThread
  BY <1>0, <1>1, <1>4
     DEF AddToWillReuseManager, NotifyThread, NotifyUnboundEpollThread, PlaceInv, SidsKnown,
         packetVars, closeVars
<1> QED BY <1>2, <1>3, <1>4 DEF Close

LEMMA KnownThread ==
    ASSUME PlaceInv, NEW t \in Threads, Work(t)
    PROVE  SidsKnown'
<1>0. /\ [Next]_vars
      /\ \A x \in KnownSids : x \in KnownSids'
      /\ 0 \in KnownSids'
  BY KnownSidsGrow DEF Next
<1>1. UNCHANGED <<epollSid, closeSid, packetVars>>
  BY DEF Work, BeginUse, Leave, EndUse, MarkClosing, RequestClose, Stop, StopProcess, ReadFlag,
         MoveToPool, sessionVars, closeVars
<1>2. ASSUME BecomeIdle(t), closeRing' = closeRing PROVE SidsKnown'
  <2>1. \A u \in Threads : target'[u] \in KnownSids'
    BY <1>0, <1>2 DEF BecomeIdle, PlaceInv, SidsKnown, TypeOK, ThreadOK
  <2> QED BY <1>0, <1>1, <1>2, <2>1 DEF PlaceInv, SidsKnown, packetVars
<1>3. ASSUME NEW i \in Sid, BeginUse(t, i) PROVE SidsKnown'
  <2>1. managed[i] \in Session
    BY <1>3 DEF BeginUse, FindSession, PlaceInv, TypeOK, StoreOK
  <2>2. (t = "main" => i \in KnownSids) /\ epollSid[managed[i]] \in KnownSids
    BY <1>3, <2>1 DEF BeginUse, Given, PlaceInv, SidsKnown
  <2>3. \A u \in Threads : target'[u] \in KnownSids'
    BY <1>0, <1>3, <2>2 DEF BeginUse, PlaceInv, SidsKnown, TypeOK, ThreadOK
  <2> QED BY <1>0, <1>1, <1>3, <2>3 DEF BeginUse, PlaceInv, SidsKnown, packetVars
<1>4. CASE RequestClose(t)
  <2>1. target[t] \in KnownSids' /\ target[t] \in Sid \cup {0}
    BY <1>0 DEF PlaceInv, SidsKnown, TypeOK, ThreadOK
  <2>2. RangeOf(closeRing') \subseteq KnownSids'
    BY <1>0, <1>4, <2>1, KnownPush DEF RequestClose
  <2> QED BY <1>0, <1>1, <1>4, <2>2 DEF RequestClose, PlaceInv, SidsKnown, packetVars
<1>5. CASE EndUse(t) \/ MarkClosing(t) \/ MoveToPool(t)
  BY <1>2, <1>5 DEF EndUse, MarkClosing, MoveToPool
<1>6. CASE StopProcess(t)
  BY <1>0, <1>1, <1>6 DEF StopProcess, PlaceInv, SidsKnown, packetVars
<1>7. CASE ReadFlag(t)
  <2>1. CASE BecomeIdle(t)
    BY <1>2, <1>7, <2>1 DEF ReadFlag
  <2>2. CASE ~BecomeIdle(t)
    BY <1>0, <1>1, <1>7, <2>2 DEF ReadFlag, PlaceInv, SidsKnown, packetVars
  <2> QED BY <2>1, <2>2
<1> QED BY <1>3, <1>4, <1>5, <1>6, <1>7 DEF Work, Leave, Stop

LEMMA KnownSendFails ==
    ASSUME PlaceInv, SendFails
    PROVE  SidsKnown'
<1>0. /\ [Next]_vars
      /\ \A x \in KnownSids : x \in KnownSids'
      /\ 0 \in KnownSids'
  BY KnownSidsGrow DEF Next
<1>1. "send" \in Threads
  BY DEF Threads
<1>2. at["send"] \in Session
  BY <1>1 DEF SendFails, PlaceInv, TypeOK, ThreadOK
<1>3. epollSid[at["send"]] \in KnownSids' /\ epollSid[at["send"]] \in Sid \cup {0}
  BY <1>0, <1>2 DEF PlaceInv, SidsKnown, TypeOK, SessionOK
<1>4. RangeOf(closeRing') \subseteq KnownSids'
  BY <1>0, <1>3, KnownPush DEF SendFails
<1>5. \A u \in Threads : target'[u] \in KnownSids'
  BY <1>0, <1>1 DEF SendFails, BecomeIdle, PlaceInv, SidsKnown, TypeOK, ThreadOK
<1> QED BY <1>0, <1>4, <1>5
        DEF SendFails, PlaceInv, SidsKnown, sessionVars, closeVars, packetVars

LEMMA InitPlaceInv == Init => PlaceInv
<1> SUFFICES ASSUME Init PROVE PlaceInv
  OBVIOUS
<1>1. TypeOK
  BY InitTypeOK
<1>2. Pooled = Session /\ Distinct(pool) /\ Managed = {} /\ InHand = {} /\ willReuse = {}
  <2>1. Len(pool) = SessionCount /\ \A k \in 1 .. Len(pool) : pool[k] = k
    BY DEF Init, Session
  <2>2. Pooled = Session /\ Distinct(pool)
    BY <2>1 DEF Pooled, RangeOf, Distinct, Session
  <2>3. Managed = {}
    BY DEF Init, Managed, NoSession, Session
  <2> QED BY <2>2, <2>3 DEF Init, InHand
<1>3. OnePlace
  BY <1>2 DEF OnePlace, Init
<1>4. SocketFollowsMap
  BY <1>2 DEF SocketFollowsMap, Init
<1>5. RangeOf(closeRing) = {}
  BY DEF Init, RangeOf
<1>6. KnownSids = {0}
  BY DEF Init, KnownSids
<1>7. SidsKnown
  BY <1>5, <1>6 DEF SidsKnown, Init
<1>8. SidsAgree
  BY DEF SidsAgree, Init
<1> QED BY <1>1, <1>3, <1>4, <1>7, <1>8 DEF PlaceInv

\* For any number of objects and connections, under every interleaving of the six
\* threads: PlaceInv always holds.
THEOREM PlaceInvariance == Spec => []PlaceInv
<1>1. PlaceInv /\ [Next]_vars => PlaceInv'
  <2> SUFFICES ASSUME PlaceInv, [Next]_vars PROVE PlaceInv'
    OBVIOUS
  <2>1. TypeOK'
    BY TypeStep DEF PlaceInv
  <2>2. SidsKnown'
    <3>1. CASE UNCHANGED vars
      BY <3>1 DEF vars, storeVars, sessionVars, packetVars, acceptVars, closeVars, threadVars,
                  PlaceInv, SidsKnown, KnownSids
    <3> QED BY <3>1, KnownAccept, KnownClose, KnownThread, KnownSendFails DEF Next
  <2> QED BY <2>1, <2>2, PlaceStep, AgreeStep DEF PlaceInv
<1> QED BY InitPlaceInv, <1>1, PTL DEF Spec

\* No session object leaks and none is handed to two connections.
THEOREM EverySessionInOnePlace == Spec => []OnePlace
BY PlaceInvariance, PTL DEF PlaceInv

\* No descriptor leaks and none is closed twice.
THEOREM SocketsFollowMap == Spec => []SocketFollowsMap
BY PlaceInvariance, PTL DEF PlaceInv

\* FindSession never answers with another connection's session.
THEOREM FindsOwnId == Spec => []FoundByItsOwnId
<1>1. PlaceInv => FoundByItsOwnId
  BY DEF PlaceInv, SidsAgree, FoundByItsOwnId
<1> QED BY PlaceInvariance, <1>1, PTL

-----------------------------------------------------------------------------
(* The hand-over of a closed session: provided that no thread stays between  *)
(* reading the stop flags and acting on them until the object is handed out  *)
(* again, an object in the pool is in no thread's hands and in no ring of    *)
(* notices.                                                                  *)

Inv == PlaceInv /\ StopInv

-----------------------------------------------------------------------------
(* A step that moves no session and puts no thread to work.                *)

LEMMA QuietStep ==
    ASSUME Inv,
           UNCHANGED <<Pooled, Managed, InHand, willReuse, stopped, notices>>,
           \A t \in Threads, s \in Session :
              /\ Uses(t, s)' => Uses(t, s)
              /\ Checks(t, s)' => Checks(t, s) /\ seen'[t] = seen[t]
              /\ WillNotice(t, s)' => WillNotice(t, s),
           accepting' = "opened" => accepting = "opened" /\ acceptSes' = acceptSes,
           \A t \in Threads : doing'[t] \notin {"check", "move"} => seen'[t] = 0
    PROVE  StopInv'
<1>1. ASSUME NEW t \in Threads, NEW s \in Session PROVE StopFacts(t, s)'
  <2>1. StopFacts(t, s)
    BY DEF Inv, StopInv
  <2>2. Noticed(t, s)' = Noticed(t, s)
    BY DEF Noticed
  <2> QED BY <2>1, <2>2 DEF StopFacts
<1>2. \A t \in Threads : Distinct(notices[t])'
  BY DEF Inv, StopInv, Distinct
<1> QED BY <1>1, <1>2 DEF StopInv

\* No thread's place changes, and no flag it has read.
LEMMA ThreadsStay ==
    ASSUME Inv, UNCHANGED threadVars
    PROVE  /\ \A t \in Threads, s \in Session :
                 /\ Uses(t, s)' = Uses(t, s)
                 /\ Checks(t, s)' = Checks(t, s) /\ seen'[t] = seen[t]
           /\ \A t \in Threads : doing'[t] \notin {"check", "move"} => seen'[t] = 0
BY DEF Inv, StopInv, Uses, Checks, threadVars

\* A thread that is done with its session has no part in it.
LEMMA ThreadDone ==
    ASSUME Inv, NEW u \in Threads, BecomeIdle(u)
    PROVE  /\ \A t \in Threads, s \in Session :
                 /\ Uses(t, s)' => Uses(t, s)
                 /\ Checks(t, s)' => Checks(t, s) /\ seen'[t] = seen[t]
           /\ \A t \in Threads : doing'[t] \notin {"check", "move"} => seen'[t] = 0
<1>1. /\ \A t \in Threads : t # u => doing'[t] = doing[t] /\ at'[t] = at[t] /\ seen'[t] = seen[t]
      /\ doing'[u] = "idle" /\ seen'[u] = 0
  BY DEF Inv, PlaceInv, TypeOK, ThreadOK, BecomeIdle
<1>2. ASSUME NEW t \in Threads, NEW s \in Session
      PROVE  /\ Uses(t, s)' => Uses(t, s)
             /\ Checks(t, s)' => Checks(t, s) /\ seen'[t] = seen[t]
  BY <1>1 DEF Uses, Checks
<1>3. ASSUME NEW t \in Threads PROVE doing'[t] \notin {"check", "move"} => seen'[t] = 0
  BY <1>1 DEF Inv, StopInv
<1> QED BY <1>2, <1>3

-----------------------------------------------------------------------------
(* The accept thread.                                                      *)

LEMMA StopAcceptSession ==
    ASSUME Inv, ~StalledMove, AcceptSession
    PROVE  StopInv'
<1> DEFINE h == Head(pool)
<1>1. /\ h \in Session /\ h \in Pooled
      /\ Pooled' = Pooled \ {h} /\ Managed' = Managed \cup {h}
      /\ InHand' = InHand /\ willReuse' = willReuse
  BY AcceptSessionMoves DEF Inv
<1>2. h \notin Managed /\ h \notin InHand /\ h \notin willReuse
  BY <1>1 DEF Inv, PlaceInv, OnePlace
<1>3. /\ stopped'[h] = {}
      /\ \A s \in Session : s # h => stopped'[s] = stopped[s]
      /\ acceptSes' = h
      /\ \A t \in Threads : at[t] = h => doing[t] = "idle"
      /\ UNCHANGED <<notices, closing, closeSes>> /\ UNCHANGED threadVars
  BY <1>1 DEF AcceptSession, closeVars, Inv, PlaceInv, TypeOK, SessionOK
<1>4. ASSUME NEW t \in Threads, NEW s \in Session PROVE StopFacts(t, s)'
  <2>1. StopFacts(t, s)
    BY DEF Inv, StopInv
  <2>2. /\ Noticed(t, s)' = Noticed(t, s) /\ WillNotice(t, s)' = WillNotice(t, s)
        /\ Uses(t, s)' = Uses(t, s) /\ Checks(t, s)' = Checks(t, s) /\ seen'[t] = seen[t]
    BY <1>3 DEF Noticed, WillNotice, ToBeNotified, Uses, Checks, threadVars
  <2>3. CASE s = h
    <3>1. ~Checks(t, s)
      BY <1>3, <2>3 DEF Checks
    <3>2. t \notin stopped'[s]
      BY <1>3, <2>3
    <3> QED BY <1>1, <1>2, <2>1, <2>2, <2>3, <3>1, <3>2 DEF StopFacts
  <2>4. CASE s # h
    BY <1>1, <1>3, <2>1, <2>2, <2>4 DEF StopFacts
  <2> QED BY <2>3, <2>4
<1>5. \A t \in Threads : Distinct(notices[t])' /\ (doing'[t] \notin {"check", "move"} => seen'[t] = 0)
  BY <1>3 DEF Inv, StopInv, Distinct, threadVars
<1> QED BY <1>4, <1>5 DEF StopInv

LEMMA StopAcceptGiveUp ==
    ASSUME Inv, AcceptGiveUp
    PROVE  StopInv'
<1> DEFINE h == acceptSes
<1>1. /\ h \in Session /\ h \in Managed
      /\ Pooled' = Pooled \cup {h} /\ Managed' = Managed \ {h}
      /\ InHand' = InHand /\ willReuse' = willReuse
  BY AcceptGiveUpMoves DEF Inv
<1>2. h \notin InHand /\ h \notin willReuse
  BY <1>1 DEF Inv, PlaceInv, OnePlace
<1>3. /\ accepting = "opened" /\ accepting' = "idle"
      /\ UNCHANGED <<stopped, notices, closing, closeSes>> /\ UNCHANGED threadVars
  BY DEF AcceptGiveUp, closeVars
<1>4. ASSUME NEW t \in Threads, NEW s \in Session PROVE StopFacts(t, s)'
  <2>1. StopFacts(t, s)
    BY DEF Inv, StopInv
  <2>2. /\ Noticed(t, s)' = Noticed(t, s) /\ WillNotice(t, s)' = WillNotice(t, s)
        /\ Uses(t, s)' = Uses(t, s) /\ Checks(t, s)' = Checks(t, s) /\ seen'[t] = seen[t]
    BY <1>3 DEF Noticed, WillNotice, ToBeNotified, Uses, Checks, threadVars
  <2> QED BY <1>1, <1>2, <1>3, <2>1, <2>2 DEF StopFacts
<1>5. \A t \in Threads : Distinct(notices[t])' /\ (doing'[t] \notin {"check", "move"} => seen'[t] = 0)
  BY <1>3 DEF Inv, StopInv, Distinct, threadVars
<1> QED BY <1>4, <1>5 DEF StopInv

LEMMA StopAccept ==
    ASSUME Inv, ~StalledMove, Accept
    PROVE  StopInv'
<1>1. CASE AcceptSession \/ AcceptGiveUp
  BY <1>1, StopAcceptSession, StopAcceptGiveUp
<1>2. CASE ~AcceptSession /\ ~AcceptGiveUp
  <2>1. /\ UNCHANGED <<closing, closeSes, notices, stopped>> /\ UNCHANGED threadVars
        /\ accepting' # "opened"
    BY <1>2 DEF Accept, AcceptAnnounce, BindEpollThread, PostEpollReadEvent,
        PostEpollReadEventFails, AcceptAppendToClose, AcceptMarkClosing, sessionVars, closeVars
  <2>2. UNCHANGED <<pool, managed, willReuse>>
    BY <1>2 DEF Accept, AcceptAnnounce, BindEpollThread, PostEpollReadEvent,
        PostEpollReadEventFails, AcceptAppendToClose, AcceptMarkClosing, storeVars
  <2>3. UNCHANGED <<Pooled, Managed, InHand, willReuse, stopped, notices>>
    BY <2>1, <2>2 DEF Pooled, Managed, InHand
  <2>4. \A t \in Threads, s \in Session : WillNotice(t, s)' => WillNotice(t, s)
    BY <2>1 DEF WillNotice, ToBeNotified
  <2> QED BY <2>1, <2>3, <2>4, ThreadsStay, QuietStep
<1> QED BY <1>1, <1>2
-----------------------------------------------------------------------------
(* The close thread.                                                       *)

LEMMA StopCloseSession ==
    ASSUME Inv, CloseSession
    PROVE  StopInv'
<1> DEFINE h == closeSes'
<1>1. /\ h \in Session /\ h \in Managed
      /\ Pooled' = Pooled /\ Managed' = Managed \ {h}
      /\ InHand = {} /\ InHand' = {h} /\ willReuse' = willReuse
  BY CloseSessionMoves DEF Inv
<1>2. h \notin Pooled /\ h \notin willReuse
  BY <1>1 DEF Inv, PlaceInv, OnePlace
<1>3. /\ UNCHANGED <<stopped, notices, accepting, acceptSes>> /\ UNCHANGED threadVars
  BY DEF CloseSession, acceptVars
<1>4. ASSUME NEW t \in Threads, NEW s \in Session PROVE StopFacts(t, s)'
  <2>1. StopFacts(t, s)
    BY DEF Inv, StopInv
  <2>2. /\ Noticed(t, s)' = Noticed(t, s) /\ (WillNotice(t, s)' => s = h)
        /\ Uses(t, s)' = Uses(t, s) /\ Checks(t, s)' = Checks(t, s) /\ seen'[t] = seen[t]
    BY <1>3 DEF Noticed, WillNotice, Uses, Checks, threadVars
  <2>3. s \in willReuse => ~WillNotice(t, s)'
    BY <1>2, <2>2
  <2>4. WillNotice(t, s)' => s \in InHand' /\ ~Noticed(t, s)'
    BY <1>1, <2>1, <2>2 DEF StopFacts
  <2> QED BY <1>1, <1>2, <1>3, <2>1, <2>2, <2>3, <2>4 DEF StopFacts
<1>5. \A t \in Threads : Distinct(notices[t])' /\ (doing'[t] \notin {"check", "move"} => seen'[t] = 0)
  BY <1>3 DEF Inv, StopInv, Distinct, threadVars
<1> QED BY <1>4, <1>5 DEF StopInv

LEMMA StopAddToWillReuse ==
    ASSUME Inv, AddToWillReuseManager
    PROVE  StopInv'
<1>1. /\ InHand = {closeSes} /\ InHand' = {} /\ willReuse' = willReuse \cup {closeSes}
      /\ Pooled' = Pooled /\ Managed' = Managed
  BY AddToWillReuseMoves DEF Inv
<1>2. /\ UNCHANGED <<stopped, notices, accepting, acceptSes, closeSes>> /\ UNCHANGED threadVars
      /\ ToBeNotified = Threads /\ ToBeNotified' = Threads
  BY DEF AddToWillReuseManager, acceptVars, sessionVars, ToBeNotified
<1>3. ASSUME NEW t \in Threads, NEW s \in Session PROVE StopFacts(t, s)'
  <2>1. StopFacts(t, s)
    BY DEF Inv, StopInv
  <2>2. /\ Noticed(t, s)' = Noticed(t, s) /\ WillNotice(t, s)' = WillNotice(t, s)
        /\ Uses(t, s)' = Uses(t, s) /\ Checks(t, s)' = Checks(t, s) /\ seen'[t] = seen[t]
    BY <1>2 DEF Noticed, WillNotice, Uses, Checks, threadVars
  <2> QED BY <1>1, <1>2, <2>1, <2>2 DEF StopFacts
<1>4. \A t \in Threads : Distinct(notices[t])' /\ (doing'[t] \notin {"check", "move"} => seen'[t] = 0)
  BY <1>2 DEF Inv, StopInv, Distinct, threadVars
<1> QED BY <1>3, <1>4 DEF StopInv

LEMMA StopNotifyThread ==
    ASSUME Inv, NotifyThread
    PROVE  StopInv'
<1> DEFINE c == closing
           h == closeSes
<1>1. /\ c \in Threads /\ h \in Session /\ InHand = {} /\ InHand' = {}
      /\ notices \in [Threads -> Seq(Session)]
      /\ notices' = [notices EXCEPT ![c] = Pushed(@, NoticeCap, h)]
      /\ closeSes' = closeSes
  BY DEF NotifyThread, Inv, PlaceInv, TypeOK, CloseOK, QueueOK, InHand, NextNotice, Threads
<1>2. c \in ToBeNotified /\ ToBeNotified' = ToBeNotified \ {c}
  <2>1. \/ c = "main" /\ closing' = "epoll"
        \/ c = "epoll" /\ closing' = "recv"
        \/ c = "recv" /\ closing' = "send"
        \/ c = "send" /\ closing' = "disconnect"
    BY DEF NotifyThread, NextNotice, Threads
  <2> QED BY <2>1 DEF ToBeNotified, Threads
<1>3. UNCHANGED <<stopped, accepting, acceptSes>> /\ UNCHANGED threadVars
  BY DEF NotifyThread, acceptVars, sessionVars
<1>4. UNCHANGED <<Pooled, Managed, willReuse>>
  BY DEF NotifyThread, storeVars, Pooled, Managed
<1>5. h \in willReuse /\ ~Noticed(c, h) /\ c \notin stopped[h]
  <2>1. WillNotice(c, h)
    BY <1>2 DEF WillNotice
  <2> QED BY <1>1, <2>1 DEF Inv, StopInv, StopFacts
<1>6. /\ RangeOf(Pushed(notices[c], NoticeCap, h)) \subseteq RangeOf(notices[c]) \cup {h}
      /\ Distinct(Pushed(notices[c], NoticeCap, h))
  <2>1. Distinct(notices[c]) /\ h \notin RangeOf(notices[c]) /\ notices[c] \in Seq(Session)
    BY <1>1, <1>5 DEF Inv, StopInv, Noticed
  <2> QED BY <1>1, <2>1, PushedRange, DistinctAppend DEF Pushed
<1>7. ASSUME NEW t \in Threads, NEW s \in Session PROVE StopFacts(t, s)'
  <2>1. StopFacts(t, s)
    BY DEF Inv, StopInv
  <2>2. /\ Uses(t, s)' = Uses(t, s) /\ Checks(t, s)' = Checks(t, s) /\ seen'[t] = seen[t]
        /\ WillNotice(t, s)' = (WillNotice(t, s) /\ t # c)
    BY <1>1, <1>2, <1>3 DEF WillNotice, Uses, Checks, threadVars
  <2>3. Noticed(t, s)' => Noticed(t, s) \/ (t = c /\ s = h)
    BY <1>1, <1>6 DEF Noticed
  <2>4. CASE t = c /\ s = h
    <3>1. s \notin Managed /\ s \notin Pooled
      BY <1>5, <2>4 DEF Inv, PlaceInv, OnePlace
    <3> QED BY <1>1, <1>3, <1>4, <1>5, <2>1, <2>2, <2>4, <3>1 DEF StopFacts
  <2>5. CASE ~(t = c /\ s = h)
    BY <1>1, <1>3, <1>4, <2>1, <2>2, <2>3, <2>5 DEF StopFacts
  <2> QED BY <2>4, <2>5
<1>8. ASSUME NEW t \in Threads
      PROVE  Distinct(notices[t])' /\ (doing'[t] \notin {"check", "move"} => seen'[t] = 0)
  <2>1. Distinct(notices'[t])
    BY <1>1, <1>6 DEF Inv, StopInv
  <2> QED BY <1>3, <2>1 DEF Inv, StopInv, Distinct, threadVars
<1> QED BY <1>7, <1>8 DEF StopInv

LEMMA StopClose ==
    ASSUME Inv, Close
    PROVE  StopInv'
<1>1. CASE CloseSession \/ AddToWillReuseManager \/ NotifyThread
  BY <1>1, StopCloseSession, StopAddToWillReuse, StopNotifyThread
<1>2. CASE CloseStale \/ NotifyUnboundEpollThread \/ CloseDisconnect
  <2>1. UNCHANGED <<accepting, acceptSes, notices, stopped>> /\ UNCHANGED threadVars
    BY <1>2 DEF CloseStale, NotifyUnboundEpollThread, CloseDisconnect, sessionVars, acceptVars
  <2>2. UNCHANGED <<pool, managed, willReuse>>
    BY <1>2 DEF CloseStale, NotifyUnboundEpollThread, CloseDisconnect, storeVars
  <2>3. \/ UNCHANGED <<closing, closeSes>>
        \/ closing = "disconnect" /\ closing' = "idle"
    BY <1>2 DEF CloseStale, NotifyUnboundEpollThread, CloseDisconnect, closeVars
  <2>4. UNCHANGED <<Pooled, Managed, InHand, willReuse, stopped, notices>>
    BY <2>1, <2>2, <2>3 DEF Pooled, Managed, InHand
  <2>5. \A t \in Threads, s \in Session : WillNotice(t, s)' => WillNotice(t, s)
    BY <2>3 DEF WillNotice, ToBeNotified
  <2> QED BY <2>1, <2>4, <2>5, ThreadsStay, QuietStep
<1> QED BY <1>1, <1>2 DEF Close

-----------------------------------------------------------------------------
(* The I/O threads.                                                        *)

LEMMA StopBeginUse ==
    ASSUME Inv, NEW u \in Threads, NEW i \in Sid, BeginUse(u, i)
    PROVE  StopInv'
<1> DEFINE h == managed[i]
<1>1. h \in Session /\ h # NoSession /\ h \in Managed
  BY DEF BeginUse, FindSession, Inv, PlaceInv, TypeOK, StoreOK, Managed
<1>2. h \notin Pooled /\ h \notin willReuse
  BY <1>1 DEF Inv, PlaceInv, OnePlace
<1>3. accepting = "opened" => h # acceptSes
  <2>1. i \in KnownSids
    BY DEF BeginUse, Given, Inv, PlaceInv, SidsKnown
  <2>2. accepting = "opened" => i # lastSid /\ lastSid \in Sid /\ managed[lastSid] = acceptSes
    BY <2>1 DEF KnownSids, Inv, PlaceInv, SidsAgree, TypeOK, StoreOK, AcceptOK
  <2> QED BY <1>1, <2>2 DEF Inv, PlaceInv, OnePlace
<1>4. /\ UNCHANGED <<pool, managed, willReuse, stopped, notices, accepting, acceptSes,
                     closing, closeSes, seen>>
      /\ doing[u] = "idle" /\ doing'[u] = "using" /\ at'[u] = h
      /\ \A t \in Threads : t # u => doing'[t] = doing[t] /\ at'[t] = at[t]
  BY DEF BeginUse, storeVars, sessionVars, acceptVars, closeVars, Inv, PlaceInv, TypeOK, ThreadOK
<1>5. UNCHANGED <<Pooled, Managed, InHand>>
  BY <1>4 DEF Pooled, Managed, InHand
<1>6. ASSUME NEW t \in Threads, NEW s \in Session PROVE StopFacts(t, s)'
  <2>1. StopFacts(t, s)
    BY DEF Inv, StopInv
  <2>2. /\ Noticed(t, s)' = Noticed(t, s) /\ WillNotice(t, s)' = WillNotice(t, s)
        /\ (Uses(t, s)' => Uses(t, s) \/ s = h) /\ (Checks(t, s)' => Checks(t, s))
    BY <1>4 DEF Noticed, WillNotice, ToBeNotified, Uses, Checks
  <2> QED BY <1>1, <1>2, <1>3, <1>4, <1>5, <2>1, <2>2 DEF StopFacts
<1>7. \A t \in Threads : Distinct(notices[t])' /\ (doing'[t] \notin {"check", "move"} => seen'[t] = 0)
  BY <1>4 DEF Inv, StopInv, Distinct
<1> QED BY <1>6, <1>7 DEF StopInv

LEMMA StopStopProcess ==
    ASSUME Inv, NEW u \in Threads, StopProcess(u)
    PROVE  StopInv'
<1> DEFINE h == Head(notices[u])
<1>1. /\ notices[u] \in Seq(Session) /\ notices[u] # <<>> /\ Distinct(notices[u])
      /\ notices' = [notices EXCEPT ![u] = Tail(@)]
      /\ notices \in [Threads -> Seq(Session)]
  BY DEF StopProcess, Inv, StopInv, PlaceInv, TypeOK, QueueOK
<1>2. /\ h \in Session /\ h \in RangeOf(notices[u])
      /\ Distinct(Tail(notices[u])) /\ RangeOf(Tail(notices[u])) = RangeOf(notices[u]) \ {h}
  BY <1>1, TailOfDistinct
<1>3. h \in willReuse /\ h \notin Managed /\ h \notin InHand /\ h \notin Pooled
      /\ ~WillNotice(u, h)
  <2>1. StopFacts(u, h) /\ Noticed(u, h)
    BY <1>2 DEF Inv, StopInv, Noticed
  <2> QED BY <1>2, <2>1 DEF StopFacts, Inv, PlaceInv, OnePlace
<1>4. /\ stopped'[h] = stopped[h] \cup {u}
      /\ \A s \in Session : s # h => stopped'[s] = stopped[s]
      /\ doing[u] = "idle" /\ doing'[u] = "check" /\ at'[u] = h
      /\ \A t \in Threads : t # u => doing'[t] = doing[t] /\ at'[t] = at[t]
  BY <1>2 DEF StopProcess, Inv, PlaceInv, TypeOK, SessionOK, ThreadOK
<1>5. UNCHANGED <<accepting, acceptSes, closing, closeSes, seen>>
  BY DEF StopProcess, acceptVars, closeVars
<1>6. UNCHANGED <<Pooled, Managed, InHand, willReuse>>
  BY DEF StopProcess, storeVars, closeVars, Pooled, Managed, InHand
<1>7. seen[u] = 0
  BY <1>4 DEF Inv, StopInv
<1>8. ASSUME NEW t \in Threads, NEW s \in Session PROVE StopFacts(t, s)'
  <2>1. StopFacts(t, s)
    BY DEF Inv, StopInv
  <2>2. WillNotice(t, s)' = WillNotice(t, s) /\ (Uses(t, s)' => Uses(t, s))
    BY <1>4, <1>5 DEF WillNotice, ToBeNotified, Uses
  <2>3. Noticed(t, s)' = (Noticed(t, s) /\ ~(t = u /\ s = h))
    BY <1>1, <1>2 DEF Noticed
  <2>4. CASE t = u /\ s = h
    <3>1. ~Uses(t, s)' /\ ~Noticed(t, s)' /\ ~WillNotice(t, s)'
      BY <1>3, <1>4, <2>2, <2>3, <2>4 DEF Uses
    <3>2. t \in stopped'[s] /\ \A k \in 1 .. seen'[t] : FlagOrder[k] \in stopped'[s]
      BY <1>4, <1>5, <1>7, <2>4
    <3> QED BY <1>3, <1>6, <2>4, <3>1, <3>2 DEF StopFacts
  <2>5. CASE ~(t = u /\ s = h)
    <3>1. Checks(t, s)' => Checks(t, s)
      BY <1>4, <2>5 DEF Checks
    <3>2. (t \in stopped'[s]) = (t \in stopped[s]) /\ stopped[s] \subseteq stopped'[s]
      BY <1>4, <2>5
    <3> QED BY <1>5, <1>6, <2>1, <2>2, <2>3, <2>5, <3>1, <3>2 DEF StopFacts
  <2> QED BY <2>4, <2>5
<1>9. ASSUME NEW t \in Threads
      PROVE  Distinct(notices[t])' /\ (doing'[t] \notin {"check", "move"} => seen'[t] = 0)
  <2>1. Distinct(notices'[t])
    BY <1>1, <1>2 DEF Inv, StopInv
  <2>2. doing'[t] \notin {"check", "move"} => seen'[t] = 0
    BY <1>4, <1>5 DEF Inv, StopInv
  <2> QED BY <2>1, <2>2 DEF Distinct
<1> QED BY <1>8, <1>9 DEF StopInv

LEMMA StopReadFlag ==
    ASSUME Inv, NEW u \in Threads, ReadFlag(u)
    PROVE  StopInv'
<1>1. /\ UNCHANGED <<pool, managed, willReuse, stopped, notices, accepting, acceptSes,
                     closing, closeSes>>
  BY DEF ReadFlag, storeVars, sessionVars, acceptVars, closeVars
<1>2. UNCHANGED <<Pooled, Managed, InHand, willReuse, stopped, notices>>
  BY <1>1 DEF Pooled, Managed, InHand
<1>3. \A t \in Threads, s \in Session : WillNotice(t, s)' = WillNotice(t, s)
  BY <1>1 DEF WillNotice, ToBeNotified
<1>4. CASE BecomeIdle(u)
  BY <1>1, <1>2, <1>3, <1>4, ThreadDone, QuietStep
<1>5. CASE ~BecomeIdle(u)
  <2>1. FlagOrder[seen[u] + 1] \in stopped[at[u]] /\ doing[u] = "check"
    BY <1>5 DEF ReadFlag
  <2>2. /\ seen' = [seen EXCEPT ![u] = @ + 1] /\ at' = at
        /\ seen \in [Threads -> 0 .. 4]
        /\ doing'[u] \in {"check", "move"}
        /\ \A t \in Threads : t # u => doing'[t] = doing[t]
    BY <1>5 DEF ReadFlag, Inv, PlaceInv, TypeOK, ThreadOK
  <2>3. ASSUME NEW t \in Threads, NEW s \in Session PROVE StopFacts(t, s)'
    <3>1. StopFacts(t, s)
      BY DEF Inv, StopInv
    <3>2. /\ Noticed(t, s)' = Noticed(t, s) /\ (Uses(t, s)' => Uses(t, s))
          /\ Checks(t, s)' = Checks(t, s)
      BY <1>1, <2>1, <2>2 DEF Noticed, Uses, Checks
    <3>3. Checks(t, s)' => \A k \in 1 .. seen'[t] : FlagOrder[k] \in stopped'[s]
      <4>1. CASE t = u
        <5>1. ASSUME Checks(t, s) PROVE \A k \in 1 .. seen[u] + 1 : FlagOrder[k] \in stopped[s]
          <6>1. at[u] = s /\ \A k \in 1 .. seen[u] : FlagOrder[k] \in stopped[s]
            BY <3>1, <4>1, <5>1 DEF StopFacts, Checks
          <6>2. FlagOrder[seen[u] + 1] \in stopped[s]
            BY <2>1, <6>1
          <6>3. \A k \in 1 .. seen[u] + 1 : k \in 1 .. seen[u] \/ k = seen[u] + 1
            BY <2>2
          <6> QED BY <6>1, <6>2, <6>3
        <5> QED BY <1>1, <2>2, <3>2, <4>1, <5>1
      <4>2. CASE t # u
        BY <1>1, <2>2, <3>1, <3>2, <4>2 DEF StopFacts
      <4> QED BY <4>1, <4>2
    <3> QED BY <1>1, <1>2, <1>3, <3>1, <3>2, <3>3 DEF StopFacts
  <2>4. \A t \in Threads : Distinct(notices[t])' /\ (doing'[t] \notin {"check", "move"} => seen'[t] = 0)
    BY <1>1, <2>1, <2>2 DEF Inv, StopInv, Distinct
  <2> QED BY <2>3, <2>4 DEF StopInv
<1> QED BY <1>4, <1>5

\* A thread that is about to act on the flags has found all four.
LEMMA AllStopped ==
    ASSUME Inv, NEW u \in Threads, MoveToPool(u), at[u] \in Session
    PROVE  Threads \subseteq stopped[at[u]]
<1>1. Checks(u, at[u]) /\ seen[u] = 4
  BY DEF MoveToPool, Checks, Inv, PlaceInv, TypeOK, ThreadOK
<1>2. StopFacts(u, at[u])
  BY DEF Inv, StopInv
<1>3. \A k \in 1 .. 4 : FlagOrder[k] \in stopped[at[u]]
  BY <1>1, <1>2 DEF StopFacts
<1> QED BY <1>3 DEF FlagOrder, Threads

LEMMA StopMoveToPool ==
    ASSUME Inv, NEW u \in Threads, MoveToPool(u)
    PROVE  StopInv'
<1>1. UNCHANGED <<managed, stopped, notices, accepting, acceptSes, closing, closeSes>>
  BY DEF MoveToPool, acceptVars, closeVars
<1>2. \A t \in Threads, s \in Session : WillNotice(t, s)' = WillNotice(t, s)
  BY <1>1 DEF WillNotice, ToBeNotified
<1>3. BecomeIdle(u)
  BY DEF MoveToPool
<1>4. CASE at[u] \notin willReuse
  <2>1. UNCHANGED <<Pooled, Managed, InHand, willReuse>>
    BY <1>1, <1>4 DEF MoveToPool, Pooled, Managed, InHand
  <2> QED BY <1>1, <1>2, <1>3, <2>1, ThreadDone, QuietStep
<1>5. CASE at[u] \in willReuse
  <2> DEFINE h == at[u]
  <2>1. /\ h \in Session /\ willReuse' = willReuse \ {h} /\ Pooled' = Pooled \cup {h}
        /\ InHand' = InHand /\ Managed' = Managed
    BY <1>5, MoveToPoolMoves DEF Inv
  <2>2. Threads \subseteq stopped[h]
    BY <2>1, AllStopped
  <2>3. ASSUME NEW t \in Threads, NEW s \in Session PROVE StopFacts(t, s)'
    <3>1. StopFacts(t, s)
      BY DEF Inv, StopInv
    <3>2. /\ Noticed(t, s)' = Noticed(t, s) /\ (Uses(t, s)' => Uses(t, s))
          /\ (Checks(t, s)' => Checks(t, s) /\ seen'[t] = seen[t])
      BY <1>1, <1>3, ThreadDone DEF Noticed
    <3>3. s = h => ~Uses(t, s) /\ ~Noticed(t, s) /\ ~WillNotice(t, s)
      BY <1>5, <2>2, <3>1 DEF StopFacts
    <3> QED BY <1>1, <1>2, <2>1, <3>1, <3>2, <3>3 DEF StopFacts
  <2>4. \A t \in Threads : Distinct(notices[t])' /\ (doing'[t] \notin {"check", "move"} => seen'[t] = 0)
    BY <1>1, <1>3, ThreadDone DEF Inv, StopInv, Distinct
  <2> QED BY <2>3, <2>4 DEF StopInv
<1> QED BY <1>4, <1>5

LEMMA StopLeave ==
    ASSUME Inv, NEW u \in Threads, EndUse(u) \/ MarkClosing(u) \/ (u = "send" /\ SendFails)
    PROVE  StopInv'
<1>1. /\ UNCHANGED <<pool, managed, willReuse, stopped, notices, accepting, acceptSes,
                     closing, closeSes>>
      /\ BecomeIdle(u)
  BY DEF EndUse, MarkClosing, SendFails, storeVars, sessionVars, acceptVars, closeVars
<1>2. UNCHANGED <<Pooled, Managed, InHand, willReuse, stopped, notices>>
  BY <1>1 DEF Pooled, Managed, InHand
<1>3. \A t \in Threads, s \in Session : WillNotice(t, s)' => WillNotice(t, s)
  BY <1>1 DEF WillNotice, ToBeNotified
<1> QED BY <1>1, <1>2, <1>3, ThreadDone, QuietStep

LEMMA StopRequestClose ==
    ASSUME Inv, NEW u \in Threads, RequestClose(u)
    PROVE  StopInv'
<1>1. /\ UNCHANGED <<pool, managed, willReuse, stopped, notices, accepting, acceptSes,
                     closing, closeSes, at, seen>>
      /\ doing[u] = "using" /\ doing'[u] = "mark"
      /\ \A t \in Threads : t # u => doing'[t] = doing[t]
  BY DEF RequestClose, storeVars, sessionVars, acceptVars, closeVars,
         Inv, PlaceInv, TypeOK, ThreadOK
<1>2. UNCHANGED <<Pooled, Managed, InHand, willReuse, stopped, notices>>
  BY <1>1 DEF Pooled, Managed, InHand
<1>3. \A t \in Threads, s \in Session : WillNotice(t, s)' => WillNotice(t, s)
  BY <1>1 DEF WillNotice, ToBeNotified
<1>4. \A t \in Threads, s \in Session :
        /\ Uses(t, s)' => Uses(t, s)
        /\ Checks(t, s)' => Checks(t, s) /\ seen'[t] = seen[t]
  BY <1>1 DEF Uses, Checks
<1>5. \A t \in Threads : doing'[t] \notin {"check", "move"} => seen'[t] = 0
  BY <1>1 DEF Inv, StopInv
<1> QED BY <1>1, <1>2, <1>3, <1>4, <1>5, QuietStep

-----------------------------------------------------------------------------
LEMMA InitStopInv == Init => StopInv
<1> SUFFICES ASSUME Init PROVE StopInv
  OBVIOUS
<1>1. \A t \in Threads : doing[t] = "idle" /\ seen[t] = 0 /\ notices[t] = <<>>
  BY DEF Init
<1>2. Managed = {} /\ InHand = {} /\ willReuse = {} /\ closing = "idle" /\ accepting = "idle"
  BY DEF Init, Managed, InHand, NoSession, Session
<1>3. RangeOf(<<>>) = {} /\ Distinct(<<>>)
  BY DEF RangeOf, Distinct
<1>4. \A t \in Threads, s \in Session :
        ~Uses(t, s) /\ ~Checks(t, s) /\ ~Noticed(t, s) /\ ~WillNotice(t, s)
  BY <1>1, <1>2, <1>3 DEF Uses, Checks, Noticed, WillNotice, ToBeNotified
<1> QED BY <1>1, <1>2, <1>3, <1>4 DEF StopInv, StopFacts

LEMMA StopStep == Inv /\ ~StalledMove /\ [Next]_vars => StopInv'
<1> SUFFICES ASSUME Inv, ~StalledMove, [Next]_vars PROVE StopInv'
  OBVIOUS
<1>1. CASE UNCHANGED vars
  <2>1. UNCHANGED <<pool, managed, willReuse, stopped, notices, accepting, acceptSes,
                    closing, closeSes>> /\ UNCHANGED threadVars
    BY <1>1 DEF vars, storeVars, sessionVars, acceptVars, closeVars
  <2>2. UNCHANGED <<Pooled, Managed, InHand, willReuse, stopped, notices>>
    BY <2>1 DEF Pooled, Managed, InHand
  <2>3. \A t \in Threads, s \in Session : WillNotice(t, s)' => WillNotice(t, s)
    BY <2>1 DEF WillNotice, ToBeNotified
  <2> QED BY <2>1, <2>2, <2>3, ThreadsStay, QuietStep
<1>2. CASE SendFails
  BY <1>2, StopLeave DEF Threads
<1>3. ASSUME NEW t \in Threads, Work(t) PROVE StopInv'
  BY <1>3, StopBeginUse, StopLeave, StopRequestClose, StopStopProcess, StopReadFlag,
     StopMoveToPool DEF Work, Leave, Stop
<1> QED BY <1>1, <1>2, <1>3, StopAccept, StopClose DEF Next

\* What every step preserves, for any number of objects, connections and ring sizes.
THEOREM StopProtocol == Spec => []StopProtocolInv
<1>1. StopProtocolInv /\ PlaceInv' /\ [Next]_vars => StopProtocolInv'
  BY StopStep DEF StopProtocolInv, Inv
<1>2. Init => StopProtocolInv
  BY InitPlaceInv, InitStopInv DEF StopProtocolInv
<1> QED BY <1>1, <1>2, PlaceInvariance, PTL DEF Spec

\* An object that is handed to the next connection is in no other thread's hands, and
\* no notice of its former life is still queued.
THEOREM RecyclingIsSafe == ~StalledMove => (Spec => []RecycledWhenStopped)
<1> SUFFICES ASSUME ~StalledMove PROVE Spec => []RecycledWhenStopped
  OBVIOUS
<1>1. StopProtocolInv => RecycledWhenStopped
  BY DEF StopProtocolInv, StopInv, StopFacts, RecycledWhenStopped, PlaceInv, OnePlace, Noticed
<1> QED BY <1>1, StopProtocol, PTL
-----------------------------------------------------------------------------
(* The recycling implements SessionContract.                               *)

Phase == [s \in Session |-> IF s \in Pooled THEN "pooled"
                            ELSE IF s \in Managed THEN "live" ELSE "closing"]
Users == {u \in Threads \X Session : Uses(u[1], u[2])}

LEMMA InUsers == \A t \in Threads, s \in Session : <<t, s>> \in Users <=> Uses(t, s)
BY DEF Users

\* A session alone changes its phase.
LEMMA Becomes ==
    ASSUME NEW s \in Session, NEW from, NEW to, Phase[s] = from, Users' = Users,
           Phase' = [Phase EXCEPT ![s] = to]
    PROVE  Contract!Become(s, from, to)
BY DEF Contract!Become, Phase, Users

LEMMA IsUnused ==
    ASSUME NEW s \in Session, \A t \in Threads : ~Uses(t, s)
    PROVE  Contract!Unused(s)
BY InUsers DEF Contract!Unused, Users

LEMMA Stutters ==
    ASSUME Users' = Users, Phase' = Phase
    PROVE  UNCHANGED Contract!vars
BY DEF Contract!vars, Phase, Users

LEMMA PartsFrom ==
    ASSUME NEW t \in Threads, NEW s \in Session, Uses(t, s), Phase' = Phase,
           Users' = Users \ {<<t, s>>}
    PROVE  Contract!Part(t, s)
BY InUsers DEF Contract!Part, Phase, Users

LEMMA JoinsIn ==
    ASSUME NEW t \in Threads, NEW s \in Session, Phase[s] = "live", Phase' = Phase,
           \A r \in Session : ~Uses(t, r), Users' = Users \cup {<<t, s>>}
    PROVE  Contract!Join(t, s)
BY InUsers DEF Contract!Join, Phase, Users

\* The users after a step, from the threads' places.
LEMMA UsersStay ==
    ASSUME \A t \in Threads, s \in Session : Uses(t, s)' = Uses(t, s)
    PROVE  Users' = Users
BY DEF Users

LEMMA PhaseStays ==
    ASSUME Pooled' = Pooled, Managed' = Managed
    PROVE  Phase' = Phase
BY DEF Phase

LEMMA ContractAccept ==
    ASSUME Inv, ~StalledMove, Accept
    PROVE  [Contract!Next]_(Contract!vars)
<1>1. Users' = Users
  <2>1. UNCHANGED threadVars
    BY DEF Accept, AcceptSession, AcceptAnnounce, AcceptGiveUp, BindEpollThread,
        PostEpollReadEvent, PostEpollReadEventFails, AcceptAppendToClose, AcceptMarkClosing
  <2> QED BY <2>1, ThreadsStay, UsersStay
<1>2. CASE AcceptSession
  <2>0. PICK h \in Session : h = Head(pool)
    BY <1>2, AcceptSessionMoves DEF Inv
  <2>1. /\ h \in Session /\ h \in Pooled
        /\ Pooled' = Pooled \ {h} /\ Managed' = Managed \cup {h}
    BY <1>2, <2>0, AcceptSessionMoves DEF Inv
  <2>2. Phase[h] = "pooled" /\ Phase' = [Phase EXCEPT ![h] = "live"]
    BY <2>1 DEF Phase
  <2>3. \A t \in Threads : ~Uses(t, h)
    BY <2>1 DEF Inv, StopInv, StopFacts
  <2>4. Contract!Open(h)
    <3>1. Contract!Become(h, "pooled", "live")
      BY <1>1, <2>1, <2>2, Becomes
    <3>2. Contract!Unused(h)
      BY <2>1, <2>3, IsUnused
    <3> QED BY <3>1, <3>2 DEF Contract!Open
  <2> QED BY <2>1, <2>4 DEF Contract!Next
<1>3. CASE AcceptGiveUp
  <2>0. PICK h \in Session : h = acceptSes
    BY <1>3, AcceptGiveUpMoves DEF Inv
  <2>1. /\ h \in Session /\ h \in Managed
        /\ Pooled' = Pooled \cup {h} /\ Managed' = Managed \ {h}
    BY <1>3, <2>0, AcceptGiveUpMoves DEF Inv
  <2>2. h \notin Pooled
    BY <2>1 DEF Inv, PlaceInv, OnePlace
  <2>3. Phase[h] = "live" /\ Phase' = [Phase EXCEPT ![h] = "pooled"]
    BY <2>1, <2>2 DEF Phase
  <2>4. \A t \in Threads : ~Uses(t, h)
    BY <1>3, <2>0, <2>1 DEF Inv, StopInv, StopFacts, AcceptGiveUp
  <2>5. Contract!Abort(h)
    <3>1. Contract!Become(h, "live", "pooled")
      BY <1>1, <2>1, <2>3, Becomes
    <3>2. Contract!Unused(h)
      BY <2>1, <2>4, IsUnused
    <3> QED BY <3>1, <3>2 DEF Contract!Abort
  <2> QED BY <2>1, <2>5 DEF Contract!Next
<1>4. CASE ~AcceptSession /\ ~AcceptGiveUp
  <2>1. UNCHANGED <<pool, managed>>
    BY <1>4 DEF Accept, AcceptAnnounce, BindEpollThread, PostEpollReadEvent,
        PostEpollReadEventFails, AcceptAppendToClose, AcceptMarkClosing, storeVars
  <2> QED BY <1>1, <2>1, PhaseStays, Stutters DEF Pooled, Managed
<1> QED BY <1>2, <1>3, <1>4

LEMMA ContractClose ==
    ASSUME Inv, Close
    PROVE  [Contract!Next]_(Contract!vars)
<1>1. Users' = Users
  <2>1. UNCHANGED threadVars
    BY DEF Close, CloseStale, CloseSession, AddToWillReuseManager, NotifyThread,
        NotifyUnboundEpollThread, CloseDisconnect
  <2> QED BY <2>1, ThreadsStay, UsersStay
<1>2. CASE CloseSession
  <2>0. PICK h \in Session : h = closeSes'
    BY <1>2, CloseSessionMoves DEF Inv
  <2>1. /\ h \in Session /\ h \in Managed
        /\ Pooled' = Pooled /\ Managed' = Managed \ {h}
    BY <1>2, <2>0, CloseSessionMoves DEF Inv
  <2>2. h \notin Pooled
    BY <2>1 DEF Inv, PlaceInv, OnePlace
  <2>3. Phase[h] = "live" /\ Phase' = [Phase EXCEPT ![h] = "closing"]
    BY <2>1, <2>2 DEF Phase
  <2>4. Contract!Become(h, "live", "closing")
    BY <1>1, <2>1, <2>3, Becomes
  <2>5. Contract!Retire(h)
    BY <2>4 DEF Contract!Retire
  <2> QED BY <2>1, <2>5 DEF Contract!Next
<1>3. CASE ~CloseSession
  <2>1. UNCHANGED <<pool, managed>>
    BY <1>3 DEF Close, CloseStale, AddToWillReuseManager, NotifyThread,
        NotifyUnboundEpollThread, CloseDisconnect, storeVars
  <2> QED BY <1>1, <2>1, PhaseStays, Stutters DEF Pooled, Managed
<1> QED BY <1>2, <1>3

\* A thread that becomes idle leaves the session it worked on, if any.
LEMMA BecomesIdle ==
    ASSUME Inv, NEW u \in Threads, BecomeIdle(u)
    PROVE  Users' = Users \ {<<u, at[u]>>}
<1>1. /\ \A t \in Threads : t # u => doing'[t] = doing[t] /\ at'[t] = at[t]
      /\ doing'[u] = "idle"
  BY DEF Inv, PlaceInv, TypeOK, ThreadOK, BecomeIdle
<1>2. \A t \in Threads, s \in Session :
        Uses(t, s)' <=> Uses(t, s) /\ <<t, s>> # <<u, at[u]>>
  BY <1>1 DEF Uses
<1> QED BY <1>2 DEF Users

LEMMA ContractLeave ==
    ASSUME Inv, NEW u \in Threads, EndUse(u) \/ MarkClosing(u) \/ (u = "send" /\ SendFails)
    PROVE  [Contract!Next]_(Contract!vars)
<1>1. /\ BecomeIdle(u) /\ UNCHANGED <<pool, managed>> /\ doing[u] \in {"using", "mark"}
  BY DEF EndUse, MarkClosing, SendFails, storeVars
<1>2. PICK h \in Session : h = at[u]
  BY <1>1 DEF Inv, PlaceInv, TypeOK, ThreadOK
<1>3. Uses(u, h)
  BY <1>1, <1>2 DEF Uses
<1>4. Phase' = Phase
  BY <1>1, PhaseStays DEF Pooled, Managed
<1>5. Users' = Users \ {<<u, h>>}
  BY <1>1, <1>2, BecomesIdle
<1>6. Contract!Part(u, h)
  BY <1>3, <1>4, <1>5, PartsFrom
<1> QED BY <1>6 DEF Contract!Next

LEMMA ContractBeginUse ==
    ASSUME Inv, NEW u \in Threads, NEW i \in Sid, BeginUse(u, i)
    PROVE  [Contract!Next]_(Contract!vars)
<1>0. PICK h \in Session : h = managed[i]
  BY DEF BeginUse, FindSession, Inv, PlaceInv, TypeOK, StoreOK
<1>1. h \in Session /\ h \in Managed /\ h \notin Pooled
  BY <1>0 DEF Inv, PlaceInv, Managed, OnePlace
<1>2. /\ UNCHANGED <<pool, managed>>
      /\ doing[u] = "idle" /\ doing'[u] = "using" /\ at'[u] = h
      /\ \A t \in Threads : t # u => doing'[t] = doing[t] /\ at'[t] = at[t]
  BY <1>0 DEF BeginUse, storeVars, Inv, PlaceInv, TypeOK, ThreadOK
<1>3. Phase' = Phase
  BY <1>2, PhaseStays DEF Pooled, Managed
<1>4. Phase[h] = "live"
  BY <1>1 DEF Phase
<1>5. \A t \in Threads, s \in Session :
        Uses(t, s)' <=> Uses(t, s) \/ <<t, s>> = <<u, h>>
  BY <1>2 DEF Uses
<1>6. Users' = Users \cup {<<u, h>>}
  BY <1>1, <1>5 DEF Users
<1>7. \A r \in Session : ~Uses(u, r)
  BY <1>2 DEF Uses
<1>8. Contract!Join(u, h)
  BY <1>1, <1>3, <1>4, <1>6, <1>7, JoinsIn
<1> QED BY <1>1, <1>8 DEF Contract!Next

LEMMA ContractStop ==
    ASSUME Inv, NEW u \in Threads, Stop(u)
    PROVE  [Contract!Next]_(Contract!vars)
<1>1. doing[u] \in {"idle", "check", "move"} /\ doing'[u] \in {"idle", "check", "move"}
      /\ \A t \in Threads : t # u => doing'[t] = doing[t] /\ at'[t] = at[t]
  <2>1. CASE StopProcess(u)
    BY <2>1 DEF StopProcess, Inv, PlaceInv, TypeOK, ThreadOK
  <2>2. CASE ReadFlag(u)
    BY <2>2 DEF ReadFlag, BecomeIdle, Inv, PlaceInv, TypeOK, ThreadOK
  <2>3. CASE MoveToPool(u)
    BY <2>3 DEF MoveToPool, BecomeIdle, Inv, PlaceInv, TypeOK, ThreadOK
  <2> QED BY <2>1, <2>2, <2>3 DEF Stop
<1>2. Users' = Users
  BY <1>1, UsersStay DEF Uses
<1>3. CASE MoveToPool(u) /\ at[u] \in willReuse
  <2>0. PICK h \in Session : h = at[u]
    BY <1>3, MoveToPoolMoves DEF Inv
  <2>1. /\ h \in Session /\ Pooled' = Pooled \cup {h} /\ Managed' = Managed
    BY <1>3, <2>0, MoveToPoolMoves DEF Inv
  <2>2. h \notin Pooled /\ h \notin Managed
    BY <1>3, <2>0 DEF Inv, PlaceInv, OnePlace
  <2>3. Phase[h] = "closing" /\ Phase' = [Phase EXCEPT ![h] = "pooled"]
    BY <2>1, <2>2 DEF Phase
  <2>4. Threads \subseteq stopped[h]
    BY <1>3, <2>0, <2>1, AllStopped
  <2>5. \A t \in Threads : ~Uses(t, h)
    BY <1>3, <2>0, <2>1, <2>4 DEF Inv, StopInv, StopFacts
  <2>6. Contract!Recycle(h)
    <3>1. Contract!Become(h, "closing", "pooled")
      BY <1>2, <2>1, <2>3, Becomes
    <3>2. Contract!Unused(h)
      BY <2>1, <2>5, IsUnused
    <3> QED BY <3>1, <3>2 DEF Contract!Recycle
  <2> QED BY <2>1, <2>6 DEF Contract!Next
<1>4. CASE ~(MoveToPool(u) /\ at[u] \in willReuse)
  <2>1. UNCHANGED <<pool, managed>>
    BY <1>4 DEF Stop, StopProcess, ReadFlag, MoveToPool, storeVars
  <2> QED BY <1>2, <2>1, PhaseStays, Stutters DEF Pooled, Managed
<1> QED BY <1>3, <1>4

LEMMA ContractStep ==
    ASSUME Inv, ~StalledMove, [Next]_vars
    PROVE  [Contract!Next]_(Contract!vars)
<1>1. CASE UNCHANGED vars
  <2>1. UNCHANGED <<pool, managed>> /\ UNCHANGED threadVars
    BY <1>1 DEF vars, storeVars
  <2> QED BY <2>1, ThreadsStay, UsersStay, PhaseStays, Stutters DEF Pooled, Managed
<1>2. CASE SendFails
  BY <1>2, ContractLeave DEF Threads
<1>3. ASSUME NEW t \in Threads, RequestClose(t) PROVE [Contract!Next]_(Contract!vars)
  <2>1. /\ UNCHANGED <<pool, managed, at>>
        /\ doing[t] = "using" /\ doing'[t] = "mark"
        /\ \A u \in Threads : u # t => doing'[u] = doing[u]
    BY <1>3 DEF RequestClose, storeVars, Inv, PlaceInv, TypeOK, ThreadOK
  <2>2. \A u \in Threads, s \in Session : Uses(u, s)' = Uses(u, s)
    BY <2>1 DEF Uses
  <2> QED BY <2>1, <2>2, UsersStay, PhaseStays, Stutters DEF Pooled, Managed
<1>4. ASSUME NEW t \in Threads, Work(t) PROVE [Contract!Next]_(Contract!vars)
  BY <1>3, <1>4, ContractBeginUse, ContractLeave, ContractStop DEF Work, Leave
<1> QED BY <1>1, <1>2, <1>4, ContractAccept, ContractClose DEF Next

LEMMA ContractInit == Init => Contract!Init
<1> SUFFICES ASSUME Init PROVE Contract!Init
  OBVIOUS
<1>1. Len(pool) = SessionCount /\ \A k \in 1 .. Len(pool) : pool[k] = k
  BY SessionLifeAssumption DEF Init, Session
<1>2. Pooled = Session
  BY <1>1 DEF Pooled, RangeOf, Session
<1>3. \A t \in Threads, s \in Session : ~Uses(t, s)
  BY DEF Init, Uses
<1> QED BY <1>2, <1>3 DEF Contract!Init

\* The recycling keeps the promise of SessionContract: a thread joins only a session
\* that carries a connection, and an object changes hands only when nobody is at work
\* on it.
THEOREM ImplementsContract == ~StalledMove => (Spec => ContractSpec)
<1> SUFFICES ASSUME ~StalledMove PROVE Spec => ContractSpec
  OBVIOUS
<1>1. StopProtocolInv /\ [Next]_vars => [Contract!Next]_(Contract!vars)
  BY ContractStep DEF StopProtocolInv, Inv
<1> QED BY ContractInit, <1>1, StopProtocol, PTL DEF Spec, ContractSpec, Contract!Spec
-----------------------------------------------------------------------------
(* A closed session waits for nothing but notices that are on their way:     *)
(* a ring that has room for every session never refuses one, because it      *)
(* holds each session at most once and not the one it is told of.            *)

\* A queue of different numbers up to n that lacks one of them is shorter than n.
LEMMA OneIsMissing ==
    ASSUME NEW n \in Nat, NEW q \in Seq(1 .. n), Distinct(q), NEW x \in 1 .. n, x \notin RangeOf(q)
    PROVE  Len(q) < n
<1> DEFINE S == 1 .. Len(q)
           T == (1 .. n) \ {x}
           f == [k \in S |-> q[k]]
<1>1. IsFiniteSet(1 .. n) /\ Cardinality(1 .. n) = n
  BY FS_Interval
<1>2. IsFiniteSet(T) /\ Cardinality(T) = n - 1
  BY <1>1, FS_RemoveElement
<1>3. Len(q) \in Nat /\ Cardinality(S) = Len(q)
  BY FS_Interval
<1>4. \A k \in S : q[k] \in T
  BY DEF RangeOf
<1>5. f \in Injection(S, T)
  BY <1>4 DEF Injection, IsInjective, Distinct
<1>6. Cardinality(S) <= Cardinality(T)
  BY <1>2, <1>5, FS_Injection
<1> QED BY <1>2, <1>3, <1>6

\* What a thread and a closed session have to do with each other
Underway(t, s) == t \notin stopped[s] => Noticed(t, s) \/ WillNotice(t, s)

LEMMA NoticeIsUnderway == NoticeUnderway <=> \A s \in willReuse, t \in Threads : Underway(t, s)
BY DEF NoticeUnderway, Underway, Noticed, WillNotice

\* A step that leaves the closed sessions and their flags alone, and loses no notice.
LEMMA UnderwayStays ==
    ASSUME NoticeUnderway, willReuse' \subseteq willReuse,
           \A s \in willReuse' : \A t \in Threads :
              /\ t \notin stopped'[s] => t \notin stopped[s]
              /\ Noticed(t, s) => Noticed(t, s)' \/ t \in stopped'[s]
              /\ WillNotice(t, s) => WillNotice(t, s)' \/ Noticed(t, s)'
    PROVE  NoticeUnderway'
BY NoticeIsUnderway DEF NoticeUnderway, Noticed, WillNotice

\* A step that touches neither flags nor notices nor the close thread.
LEMMA UnderwayQuiet ==
    ASSUME NoticeUnderway, willReuse' \subseteq willReuse,
           UNCHANGED <<stopped, notices, closing, closeSes>>
    PROVE  NoticeUnderway'
BY UnderwayStays DEF Noticed, WillNotice, ToBeNotified

LEMMA UnderwayAccept ==
    ASSUME Inv, NoticeUnderway, Accept
    PROVE  NoticeUnderway'
<1>1. CASE AcceptSession
  <2> DEFINE h == Head(pool)
  <2>1. h \in Session /\ h \in Pooled /\ h \notin willReuse
    BY <1>1, AcceptSessionMoves DEF Inv, PlaceInv, OnePlace
  <2>2. UNCHANGED <<willReuse, notices, closing, closeSes>>
    BY <1>1 DEF AcceptSession, closeVars
  <2>3. \A s \in willReuse : stopped'[s] = stopped[s]
    BY <1>1, <2>1 DEF AcceptSession, Inv, PlaceInv, TypeOK, SessionOK, StoreOK
  <2> QED BY <2>2, <2>3, UnderwayStays DEF Noticed, WillNotice, ToBeNotified
<1>2. CASE ~AcceptSession
  <2>1. willReuse' = willReuse /\ UNCHANGED <<stopped, notices, closing, closeSes>>
    BY <1>2 DEF Accept, AcceptAnnounce, AcceptGiveUp, BindEpollThread, PostEpollReadEvent,
        PostEpollReadEventFails, AcceptAppendToClose, AcceptMarkClosing, storeVars,
        sessionVars, closeVars
  <2> QED BY <2>1, UnderwayQuiet
<1> QED BY <1>1, <1>2

\* The ring a notice goes to has room for it.
LEMMA NoticeIsTaken ==
    ASSUME Inv, NotifyThread, NoticeCap >= SessionCount
    PROVE  /\ closing \in Threads /\ closeSes \in Session
           /\ notices' = [notices EXCEPT ![closing] = Append(@, closeSes)]
           /\ RangeOf(notices'[closing]) = RangeOf(notices[closing]) \cup {closeSes}
           /\ \A t \in Threads : t # closing => notices'[t] = notices[t]
           /\ ToBeNotified' = ToBeNotified \ {closing}
<1>1. /\ closing \in Threads /\ closeSes \in Session
      /\ notices \in [Threads -> Seq(Session)]
      /\ notices' = [notices EXCEPT ![closing] = Pushed(@, NoticeCap, closeSes)]
  BY DEF NotifyThread, Inv, PlaceInv, TypeOK, CloseOK, QueueOK, Threads
<1>2. closing \in ToBeNotified /\ ToBeNotified' = ToBeNotified \ {closing}
  <2>1. \/ closing = "main" /\ closing' = "epoll"
        \/ closing = "epoll" /\ closing' = "recv"
        \/ closing = "recv" /\ closing' = "send"
        \/ closing = "send" /\ closing' = "disconnect"
    BY DEF NotifyThread, NextNotice, Threads
  <2> QED BY <2>1 DEF ToBeNotified, Threads
<1>3. Distinct(notices[closing]) /\ closeSes \notin RangeOf(notices[closing])
  BY <1>1, <1>2 DEF Inv, StopInv, StopFacts, WillNotice, Noticed
<1>4. Len(notices[closing]) < NoticeCap
  <2>1. SessionCount \in Nat /\ NoticeCap \in Nat /\ Len(notices[closing]) \in Nat
    BY <1>1 DEF SessionLifeAssumption
  <2>2. Len(notices[closing]) < SessionCount
    BY <1>1, <1>3, <2>1, OneIsMissing DEF Session
  <2> QED BY <2>1, <2>2
<1>5. notices' = [notices EXCEPT ![closing] = Append(@, closeSes)]
  BY <1>1, <1>4 DEF Pushed
<1>6. RangeOf(notices'[closing]) = RangeOf(notices[closing]) \cup {closeSes}
  <2>1. notices[closing] \in Seq(Session) /\ notices'[closing] = Append(notices[closing], closeSes)
    BY <1>1, <1>5
  <2>2. RangeOf(Append(notices[closing], closeSes)) = RangeOf(notices[closing]) \cup {closeSes}
    BY <1>1, <2>1, RangeOfAppend
  <2> QED BY <2>1, <2>2, Zenon
<1>7. \A t \in Threads : t # closing => notices'[t] = notices[t]
  BY <1>1, <1>5
<1> QED BY <1>1, <1>2, <1>5, <1>6, <1>7

LEMMA UnderwayClose ==
    ASSUME Inv, NoticeUnderway, Close, NoticeCap >= SessionCount
    PROVE  NoticeUnderway'
<1>1. CASE AddToWillReuseManager
  <2>1. willReuse' = willReuse \cup {closeSes}
    BY <1>1, AddToWillReuseMoves DEF Inv
  <2>2. /\ UNCHANGED <<stopped, notices, closeSes>> /\ ToBeNotified' = Threads
    BY <1>1 DEF AddToWillReuseManager, sessionVars, ToBeNotified
  <2>3. closing = "reuse" /\ ToBeNotified = Threads
    BY <1>1 DEF AddToWillReuseManager, ToBeNotified
  <2> QED BY <2>1, <2>2, <2>3 DEF NoticeUnderway
<1>2. CASE NotifyThread
  <2>1. UNCHANGED <<willReuse, stopped, closeSes>>
    BY <1>2 DEF NotifyThread, storeVars, sessionVars
  <2>2. \A t \in Threads, s \in willReuse :
            /\ Noticed(t, s) => Noticed(t, s)'
            /\ WillNotice(t, s) => WillNotice(t, s)' \/ Noticed(t, s)'
    BY <1>2, <2>1, NoticeIsTaken DEF Noticed, WillNotice
  <2> QED BY <2>1, <2>2, UnderwayStays
<1>3. CASE CloseStale \/ NotifyUnboundEpollThread
  <2>1. willReuse' = willReuse /\ UNCHANGED <<stopped, notices, closing, closeSes>>
    BY <1>3 DEF CloseStale, NotifyUnboundEpollThread, storeVars, sessionVars, closeVars
  <2> QED BY <2>1, UnderwayQuiet
<1>4. CASE CloseSession \/ CloseDisconnect
  <2>1. willReuse' = willReuse /\ UNCHANGED <<stopped, notices>> /\ ToBeNotified = {}
    BY <1>4 DEF CloseSession, CloseDisconnect, storeVars, sessionVars, ToBeNotified
  <2> QED BY <2>1, UnderwayStays DEF Noticed, WillNotice
<1> QED BY <1>1, <1>2, <1>3, <1>4 DEF Close

LEMMA UnderwayThread ==
    ASSUME Inv, NoticeUnderway, NEW u \in Threads, Work(u) \/ (u = "send" /\ SendFails)
    PROVE  NoticeUnderway'
<1>1. CASE StopProcess(u)
  <2> DEFINE h == Head(notices[u])
  <2>1. /\ notices[u] \in Seq(Session) /\ notices[u] # <<>> /\ Distinct(notices[u])
        /\ notices' = [notices EXCEPT ![u] = Tail(@)]
        /\ notices \in [Threads -> Seq(Session)]
    BY <1>1 DEF StopProcess, Inv, StopInv, PlaceInv, TypeOK, QueueOK
  <2>2. h \in Session /\ RangeOf(Tail(notices[u])) = RangeOf(notices[u]) \ {h}
    BY <2>1, TailOfDistinct
  <2>3. /\ stopped'[h] = stopped[h] \cup {u}
        /\ \A s \in Session : s # h => stopped'[s] = stopped[s]
    BY <1>1, <2>2 DEF StopProcess, Inv, PlaceInv, TypeOK, SessionOK
  <2>4. willReuse' = willReuse /\ willReuse \subseteq Session /\ UNCHANGED <<closing, closeSes>>
    BY <1>1 DEF StopProcess, storeVars, closeVars, Inv, PlaceInv, TypeOK, StoreOK
  <2>5. \A t \in Threads, s \in willReuse : Noticed(t, s) => Noticed(t, s)' \/ t \in stopped'[s]
    BY <2>1, <2>2, <2>3, <2>4 DEF Noticed
  <2>6. \A t \in Threads, s \in willReuse :
            /\ t \notin stopped'[s] => t \notin stopped[s]
            /\ WillNotice(t, s) => WillNotice(t, s)'
    BY <2>3, <2>4 DEF WillNotice, ToBeNotified
  <2> QED BY <2>4, <2>5, <2>6, UnderwayStays
<1>2. CASE ~StopProcess(u)
  <2>1. willReuse' \subseteq willReuse /\ UNCHANGED <<stopped, notices, closing, closeSes>>
    BY <1>2 DEF Work, BeginUse, Leave, EndUse, MarkClosing, RequestClose, Stop, ReadFlag,
        MoveToPool, SendFails, storeVars, sessionVars, closeVars
  <2> QED BY <2>1, UnderwayQuiet
<1> QED BY <1>1, <1>2

\* As long as a thread has not stopped processing a closed session, its notice is in the
\* thread's ring or the close thread is about to queue it; a ring of as many places as
\* there are sessions never refuses one (LCloseSocketThread.cpp:150-161).
THEOREM NoticesAreUnderway ==
    ~StalledMove /\ NoticeCap >= SessionCount => (Spec => []NoticeUnderway)
<1> SUFFICES ASSUME ~StalledMove, NoticeCap >= SessionCount PROVE Spec => []NoticeUnderway
  OBVIOUS
<1>1. Init => NoticeUnderway
  BY DEF Init, NoticeUnderway
<1>2. StopProtocolInv /\ NoticeUnderway /\ [Next]_vars => NoticeUnderway'
  <2> SUFFICES ASSUME Inv, NoticeUnderway, [Next]_vars PROVE NoticeUnderway'
    BY DEF StopProtocolInv, Inv
  <2>1. CASE UNCHANGED vars
    <3>1. willReuse' = willReuse /\ UNCHANGED <<stopped, notices, closing, closeSes>>
      BY <2>1 DEF vars, storeVars, sessionVars, closeVars
    <3> QED BY <3>1, UnderwayQuiet
  <2>2. CASE SendFails
    BY <2>2, UnderwayThread DEF Threads
  <2> QED BY <2>1, <2>2, UnderwayAccept, UnderwayClose, UnderwayThread DEF Next
<1> QED BY <1>1, <1>2, StopProtocol, PTL DEF Spec

-----------------------------------------------------------------------------
(* A session marked as closing has been asked for, provided that the close   *)
(* thread's ring has room for every request.                                 *)

\* What is pushed is in a ring that has room, and nothing else leaves it.
LEMMA PushedKeeps ==
    ASSUME NEW S, NEW q \in Seq(S), NEW x \in S, NEW cap \in Nat
    PROVE  /\ RangeOf(q) \subseteq RangeOf(Pushed(q, cap, x))
           /\ Len(q) < cap => x \in RangeOf(Pushed(q, cap, x))
BY RangeOfAppend DEF Pushed

LEMMA TailKeeps ==
    ASSUME NEW S, NEW q \in Seq(S), q # <<>>, NEW y \in RangeOf(q), y # Head(q)
    PROVE  y \in RangeOf(Tail(q))
<1>1. /\ Len(q) \in Nat /\ Head(q) = q[1] /\ Len(Tail(q)) = Len(q) - 1
      /\ \A k \in 1 .. Len(q) - 1 : Tail(q)[k] = q[k + 1]
  OBVIOUS
<1>2. PICK k \in 1 .. Len(q) : y = q[k] /\ k # 1
  BY <1>1 DEF RangeOf
<1>3. k - 1 \in 1 .. Len(Tail(q)) /\ Tail(q)[k - 1] = q[(k - 1) + 1] /\ (k - 1) + 1 = k
  BY <1>1, <1>2
<1> QED BY <1>2, <1>3 DEF RangeOf

\* A session in the map is found by its id.
LEMMA FoundById ==
    ASSUME PlaceInv, NEW s \in Managed
    PROVE  s \in Session /\ s # NoSession /\ sid[s] \in Sid /\ managed[sid[s]] = s
BY DEF PlaceInv, SidsAgree, Managed, Session, NoSession

LEMMA RingType == PlaceInv => closeRing \in Seq(Sid \cup {0}) /\ CloseCap \in Nat
BY DEF PlaceInv, TypeOK, QueueOK, SessionLifeAssumption

\* A step that adds no session to the map, changes no id, marks only what is queued and
\* takes no session's request from the ring while the session is in the map.
LEMMA AskQuiet ==
    ASSUME PlaceInv, AskInv,
           \A i \in Sid : managed'[i] = managed[i] \/ managed'[i] = NoSession,
           UNCHANGED <<sid, epollSid, armed>>,
           accepting' = "bound" => accepting = "bound" /\ acceptSes' = acceptSes,
           \A s \in Managed' : /\ Marks(s)' => Marks(s) \/ Queued(s)'
                               /\ Queued(s) => Queued(s)',
           \A t \in Threads, s \in Session : Uses(t, s)' => Uses(t, s) /\ target'[t] = target[t]
    PROVE  AskInv'
<1>1. Managed' \subseteq Managed
  BY DEF Managed, Session, NoSession
<1>2. \A s \in Managed' : Marks(s)' => Queued(s)'
  BY <1>1 DEF AskInv
<1>3. \A t \in {"recv", "main"}, s \in Managed' : Uses(t, s)' => target'[t] = sid'[s]
  BY <1>1 DEF AskInv, Managed, Threads
<1>4. \A i \in armed' \cap Sid : managed'[i] # NoSession => epollSid'[managed'[i]] = i
  BY DEF AskInv
<1> QED BY <1>2, <1>3, <1>4 DEF AskInv

\* A step that leaves the ring and every mark alone.
LEMMA AskUntouched ==
    ASSUME PlaceInv, AskInv,
           \A i \in Sid : managed'[i] = managed[i] \/ managed'[i] = NoSession,
           UNCHANGED <<sid, epollSid, armed, closeSent, closeRing, doing, at, target>>,
           accepting' \in {"bound", "mark"} => accepting' = accepting /\ acceptSes' = acceptSes
    PROVE  AskInv'
BY AskQuiet DEF Marks, Queued, Uses

LEMMA AskAcceptSession ==
    ASSUME Inv, AskInv, AcceptSession
    PROVE  AskInv'
<1> DEFINE h == Head(pool)
           i == lastSid + 1
<1>1. h \in Session /\ h \in Pooled /\ h \notin Managed /\ Managed' = Managed \cup {h}
  BY AcceptSessionMoves DEF Inv, PlaceInv, OnePlace
<1>2. /\ sid' = [sid EXCEPT ![h] = i] /\ closeSent' = [closeSent EXCEPT ![h] = FALSE]
      /\ managed' = [managed EXCEPT ![i] = h]
      /\ UNCHANGED <<epollSid, closeRing, armed, doing, at, target>>
      /\ accepting = "idle" /\ accepting' = "opened"
  BY DEF AcceptSession, packetVars, threadVars
<1>3. \A t \in Threads : ~Uses(t, h)
  BY <1>1 DEF Inv, StopInv, StopFacts
<1>4. /\ sid'[h] = i /\ ~closeSent'[h]
      /\ \A s \in Session : s # h => sid'[s] = sid[s] /\ closeSent'[s] = closeSent[s]
  BY <1>1, <1>2 DEF Inv, PlaceInv, TypeOK, SessionOK
<1>5. \A t \in Threads, s \in Session : Uses(t, s)' = Uses(t, s)
  BY <1>2 DEF Uses
<1>6. ASSUME NEW s \in Managed' PROVE Marks(s)' => Queued(s)'
  <2>1. CASE s = h
    BY <1>2, <1>3, <1>4, <2>1 DEF Marks, Uses
  <2>2. CASE s # h
    <3>1. s \in Managed /\ s \in Session
      BY <1>1, <2>2 DEF Managed
    <3>2. Marks(s)' => Marks(s)
      BY <1>2, <1>4, <2>2, <3>1 DEF Marks
    <3> QED BY <1>2, <1>4, <2>2, <3>1, <3>2 DEF AskInv, Queued
  <2> QED BY <2>1, <2>2
<1>7. ASSUME NEW t \in {"recv", "main"}, NEW s \in Managed' PROVE Uses(t, s)' => target'[t] = sid'[s]
  <2>1. t \in Threads /\ s \in Session
    BY <1>1 DEF Threads, Managed
  <2> QED BY <1>1, <1>2, <1>3, <1>4, <1>5, <2>1 DEF AskInv
<1>8. ASSUME NEW j \in armed' \cap Sid, managed'[j] # NoSession PROVE epollSid'[managed'[j]] = j
  <2>1. j # i
    BY <1>2 DEF Inv, PlaceInv, SidsKnown, KnownSids, TypeOK, StoreOK
  <2>2. managed'[j] = managed[j]
    BY <1>2, <2>1 DEF Inv, PlaceInv, TypeOK, StoreOK
  <2> QED BY <1>2, <1>8, <2>2 DEF AskInv
<1> QED BY <1>2, <1>6, <1>7, <1>8 DEF AskInv

LEMMA AskBindEpollThread ==
    ASSUME Inv, AskInv, BindEpollThread
    PROVE  AskInv'
<1> DEFINE h == acceptSes
<1>1. h \in Session /\ UNCHANGED <<managed, sid, closeSent, closeRing, armed, doing, at, target>>
  BY DEF BindEpollThread, storeVars, packetVars, threadVars, Inv, PlaceInv, TypeOK, AcceptOK
<1>2. /\ epollSid'[h] = sid[h] /\ \A s \in Session : s # h => epollSid'[s] = epollSid[s]
      /\ accepting = "announced" /\ accepting' = "bound" /\ acceptSes' = h
  BY <1>1 DEF BindEpollThread, Inv, PlaceInv, TypeOK, SessionOK
<1>3. Managed' = Managed /\ \A s \in Managed : Queued(s)' = Queued(s) /\ (Marks(s)' => Marks(s))
  BY <1>1, <1>2 DEF Managed, Queued, Marks
<1>4. ASSUME NEW j \in armed' \cap Sid, managed'[j] # NoSession PROVE epollSid'[managed'[j]] = j
  <2>1. managed[j] \in Session /\ sid[managed[j]] = j
    BY <1>1, <1>4 DEF Inv, PlaceInv, SidsAgree, TypeOK, StoreOK
  <2> QED BY <1>1, <1>2, <1>4, <2>1 DEF AskInv
<1>5. \A t \in {"recv", "main"}, s \in Managed' : Uses(t, s)' => target'[t] = sid'[s]
  BY <1>1, <1>3 DEF AskInv, Uses
<1>6. \A s \in Managed' : Marks(s)' => Queued(s)'
  BY <1>3 DEF AskInv
<1> QED BY <1>1, <1>2, <1>4, <1>5, <1>6 DEF AskInv

LEMMA AskPostEpollReadEvent ==
    ASSUME Inv, AskInv, PostEpollReadEvent
    PROVE  AskInv'
<1> DEFINE h == acceptSes
<1>1. /\ UNCHANGED <<managed, sid, epollSid, closeSent, closeRing, doing, at, target>>
      /\ armed' = armed \cup {epollSid[h]} /\ accepting = "bound" /\ accepting' = "idle"
  BY DEF PostEpollReadEvent, storeVars, sessionVars, threadVars
<1>2. epollSid[h] = sid[h]
  BY <1>1 DEF AskInv
<1>3. Managed' = Managed /\ \A s \in Managed : Queued(s)' = Queued(s) /\ (Marks(s)' => Marks(s))
  BY <1>1 DEF Managed, Queued, Marks
<1>4. ASSUME NEW j \in armed' \cap Sid, managed'[j] # NoSession PROVE epollSid'[managed'[j]] = j
  <2>1. CASE j \in armed
    BY <1>1, <1>4, <2>1 DEF AskInv
  <2>2. CASE j = epollSid[h]
    <3>1. h \in Managed
      BY DEF PostEpollReadEvent, Inv, PlaceInv, SocketFollowsMap, TypeOK, AcceptOK
    <3>2. managed[j] = h
      BY <1>2, <2>2, <3>1, FoundById DEF Inv
    <3> QED BY <1>1, <2>2, <3>2
  <2> QED BY <1>1, <2>1, <2>2
<1>5. \A t \in {"recv", "main"}, s \in Managed' : Uses(t, s)' => target'[t] = sid'[s]
  BY <1>1, <1>3 DEF AskInv, Uses
<1>6. \A s \in Managed' : Marks(s)' => Queued(s)'
  BY <1>3 DEF AskInv
<1> QED BY <1>1, <1>4, <1>5, <1>6 DEF AskInv

LEMMA AskAccept ==
    ASSUME Inv, AskInv, Accept, Len(closeRing) < CloseCap
    PROVE  AskInv'
<1>1. CASE AcceptSession \/ BindEpollThread \/ PostEpollReadEvent
  BY <1>1, AskAcceptSession, AskBindEpollThread, AskPostEpollReadEvent
<1>2. CASE AcceptAnnounce \/ AcceptGiveUp \/ PostEpollReadEventFails
  <2>1. /\ UNCHANGED <<sid, epollSid, armed, closeSent, closeRing, doing, at, target>>
        /\ accepting' \notin {"bound", "mark"}
    BY <1>2 DEF AcceptAnnounce, AcceptGiveUp, PostEpollReadEventFails, sessionVars, threadVars
  <2>2. \A i \in Sid : managed'[i] = managed[i] \/ managed'[i] = NoSession
    BY <1>2 DEF AcceptAnnounce, AcceptGiveUp, PostEpollReadEventFails, storeVars,
       Inv, PlaceInv, TypeOK, StoreOK
  <2> QED BY <2>1, <2>2, AskUntouched DEF Inv
<1>3. CASE AcceptAppendToClose
  <2>1. /\ UNCHANGED <<managed, sid, epollSid, armed, closeSent, doing, at, target, acceptSes>>
        /\ closeRing' = Pushed(closeRing, CloseCap, sid[acceptSes])
        /\ accepting' = "mark" /\ sid[acceptSes] \in Sid
    BY <1>3 DEF AcceptAppendToClose, storeVars, sessionVars, packetVars, threadVars,
       Inv, PlaceInv, TypeOK, AcceptOK
  <2>2. RangeOf(closeRing) \subseteq RangeOf(closeRing') /\ sid[acceptSes] \in RangeOf(closeRing')
    BY <2>1, RingType, PushedKeeps DEF Inv
  <2>3. \A s \in Managed' : /\ Marks(s)' => Marks(s) \/ Queued(s)'
                            /\ Queued(s) => Queued(s)'
    BY <2>1, <2>2 DEF Marks, Queued
  <2>4. \A t \in Threads, s \in Session : Uses(t, s)' => Uses(t, s) /\ target'[t] = target[t]
    BY <2>1 DEF Uses
  <2> QED BY <2>1, <2>3, <2>4, AskQuiet DEF Inv
<1>4. CASE AcceptMarkClosing
  <2>1. /\ UNCHANGED <<managed, sid, epollSid, armed, closeRing, doing, at, target>>
        /\ closeSent' = [closeSent EXCEPT ![acceptSes] = TRUE]
        /\ accepting = "mark" /\ accepting' = "idle"
    BY <1>4 DEF AcceptMarkClosing, storeVars, packetVars, threadVars
  <2>2. \A s \in Session : closeSent'[s] => closeSent[s] \/ s = acceptSes
    BY <2>1 DEF Inv, PlaceInv, TypeOK, SessionOK
  <2>3. \A s \in Managed' : /\ Marks(s)' => Marks(s) \/ Queued(s)'
                            /\ Queued(s) => Queued(s)'
    BY <2>1, <2>2 DEF Marks, Queued, Managed
  <2>4. \A t \in Threads, s \in Session : Uses(t, s)' => Uses(t, s) /\ target'[t] = target[t]
    BY <2>1 DEF Uses
  <2> QED BY <2>1, <2>3, <2>4, AskQuiet DEF Inv
<1> QED BY <1>1, <1>2, <1>3, <1>4 DEF Accept

\* The request that is taken from the ring is that of no session left in the map.
LEMMA AskTaken ==
    ASSUME Inv, AskInv, CloseStale \/ CloseSession
    PROVE  AskInv'
<1>1. /\ closeRing # <<>> /\ closeRing' = Tail(closeRing)
      /\ UNCHANGED <<sid, epollSid, armed, closeSent, doing, at, target, accepting, acceptSes>>
  BY DEF CloseStale, CloseSession, storeVars, sessionVars, packetVars, threadVars, acceptVars
<1>2. /\ \A i \in Sid : managed'[i] = managed[i] \/ managed'[i] = NoSession
      /\ Head(closeRing) \in Sid => managed'[Head(closeRing)] = NoSession
  <2>1. CASE CloseStale
    BY <2>1 DEF CloseStale, storeVars, FindSession
  <2>2. CASE CloseSession
    <3> DEFINE j == Head(closeRing)
    <3>1. j \in Sid /\ sid[managed[j]] = j /\ managed' = [managed EXCEPT ![j] = NoSession]
      BY <2>2 DEF CloseSession, FindSession, Inv, PlaceInv, SidsAgree
    <3> QED BY <3>1 DEF Inv, PlaceInv, TypeOK, StoreOK
  <2> QED BY <2>1, <2>2
<1>3. ASSUME NEW s \in Managed', Queued(s) PROVE Queued(s)'
  <2>1. PICK i \in Sid : managed'[i] = s /\ s \in Session
    BY DEF Managed
  <2>2. s # NoSession /\ managed[i] = s /\ sid[s] = i
    BY <1>2, <2>1 DEF Inv, PlaceInv, SidsAgree, Session, NoSession
  <2>3. sid[s] # Head(closeRing)
    BY <1>2, <2>1, <2>2
  <2> QED BY <1>1, <1>3, <2>3, RingType, TailKeeps DEF Queued, Inv
<1>4. \A s \in Managed' : Marks(s)' => Marks(s)
  BY <1>1 DEF Marks
<1>5. \A t \in Threads, s \in Session : Uses(t, s)' => Uses(t, s) /\ target'[t] = target[t]
  BY <1>1 DEF Uses
<1> QED BY <1>1, <1>2, <1>3, <1>4, <1>5, AskQuiet DEF Inv

LEMMA AskClose ==
    ASSUME Inv, AskInv, Close
    PROVE  AskInv'
<1>1. CASE CloseStale \/ CloseSession
  BY <1>1, AskTaken
<1>2. CASE ~(CloseStale \/ CloseSession)
  <2>1. UNCHANGED <<managed, sid, epollSid, armed, closeSent, closeRing, doing, at, target,
                    accepting, acceptSes>>
    BY <1>2 DEF Close, AddToWillReuseManager, NotifyThread, NotifyUnboundEpollThread,
        CloseDisconnect, storeVars, sessionVars, packetVars, threadVars, acceptVars
  <2> QED BY <2>1, AskUntouched DEF Inv
<1> QED BY <1>1, <1>2

LEMMA AskBeginUse ==
    ASSUME Inv, AskInv, NEW u \in Threads, NEW i \in Sid, BeginUse(u, i)
    PROVE  AskInv'
<1> DEFINE h == managed[i]
<1>1. /\ UNCHANGED <<managed, sid, epollSid, armed, closeSent, closeRing, accepting, acceptSes>>
      /\ h # NoSession
  BY DEF BeginUse, storeVars, sessionVars, packetVars, acceptVars, FindSession
<1>2. h \in Session /\ sid[h] = i
  BY <1>1 DEF Inv, PlaceInv, TypeOK, StoreOK, SidsAgree
<1>3. /\ doing'[u] = "using" /\ at'[u] = h
      /\ target'[u] = IF u = "main" THEN i ELSE epollSid[h]
      /\ \A t \in Threads : t # u => doing'[t] = doing[t] /\ at'[t] = at[t] /\ target'[t] = target[t]
  BY DEF BeginUse, Inv, PlaceInv, TypeOK, ThreadOK
<1>4. Managed' = Managed /\ \A s \in Managed : Queued(s)' = Queued(s) /\ (Marks(s)' => Marks(s))
  BY <1>1, <1>3 DEF Managed, Queued, Marks
<1>5. ASSUME NEW t \in {"recv", "main"}, NEW s \in Managed', Uses(t, s)' PROVE target'[t] = sid'[s]
  <2>1. CASE t = u
    <3>1. s = h
      BY <1>3, <1>5, <2>1 DEF Uses
    <3>2. u = "recv" => i \in armed
      BY DEF BeginUse, Given
    <3>3. u = "recv" => epollSid[h] = i
      BY <1>1, <3>2 DEF AskInv
    <3> QED BY <1>1, <1>2, <1>3, <2>1, <3>1, <3>3
  <2>2. CASE t # u
    BY <1>1, <1>3, <1>4, <1>5, <2>2 DEF AskInv, Uses, Threads
  <2> QED BY <2>1, <2>2
<1>6. \A s \in Managed' : Marks(s)' => Queued(s)'
  BY <1>4 DEF AskInv
<1>7. \A j \in armed' \cap Sid : managed'[j] # NoSession => epollSid'[managed'[j]] = j
  BY <1>1 DEF AskInv
<1> QED BY <1>1, <1>5, <1>6, <1>7 DEF AskInv

LEMMA AskThread ==
    ASSUME Inv, AskInv, NEW u \in Threads, Work(u) \/ (u = "send" /\ SendFails),
           Len(closeRing) < CloseCap
    PROVE  AskInv'
<1>0. doing \in [Threads -> {"idle", "using", "mark", "check", "move"}]
  BY DEF Inv, PlaceInv, TypeOK, ThreadOK
<1>1. ASSUME NEW i \in Sid, BeginUse(u, i) PROVE AskInv'
  BY <1>1, AskBeginUse
<1>2. CASE EndUse(u) \/ ReadFlag(u) \/ MoveToPool(u) \/ StopProcess(u)
  <2>1. UNCHANGED <<managed, sid, epollSid, armed, closeSent, closeRing, accepting, acceptSes>>
    BY <1>2 DEF EndUse, ReadFlag, MoveToPool, StopProcess, storeVars, sessionVars, packetVars,
        acceptVars
  <2>2. /\ \A t \in Threads : t # u => doing'[t] = doing[t] /\ at'[t] = at[t] /\ target'[t] = target[t]
        /\ doing'[u] \in {"idle", "check", "move"}
    <3>1. CASE EndUse(u) \/ MoveToPool(u)
      BY <1>0, <3>1 DEF EndUse, MoveToPool, BecomeIdle, Inv, PlaceInv, TypeOK, ThreadOK
    <3>2. CASE StopProcess(u)
      BY <1>0, <3>2 DEF StopProcess, Inv, PlaceInv, TypeOK, ThreadOK
    <3>3. CASE ReadFlag(u)
      BY <1>0, <3>3 DEF ReadFlag, BecomeIdle, Inv, PlaceInv, TypeOK, ThreadOK
    <3> QED BY <1>2, <3>1, <3>2, <3>3
  <2>3. \A s \in Managed' : (Marks(s)' => Marks(s)) /\ (Queued(s) => Queued(s)')
    BY <2>1, <2>2 DEF Marks, Queued
  <2>4. \A t \in Threads, s \in Session : Uses(t, s)' => Uses(t, s) /\ target'[t] = target[t]
    BY <2>2 DEF Uses
  <2> QED BY <2>1, <2>3, <2>4, AskQuiet DEF Inv
<1>3. CASE RequestClose(u)
  <2>1. /\ UNCHANGED <<managed, sid, epollSid, armed, closeSent, at, target, accepting, acceptSes>>
        /\ u \in {"recv", "main"} /\ doing[u] = "using" /\ doing' = [doing EXCEPT ![u] = "mark"]
        /\ closeRing' = Pushed(closeRing, CloseCap, target[u]) /\ target[u] \in Sid \cup {0}
    BY <1>3 DEF RequestClose, storeVars, sessionVars, packetVars, acceptVars,
       Inv, PlaceInv, TypeOK, ThreadOK
  <2>2. RangeOf(closeRing) \subseteq RangeOf(closeRing') /\ target[u] \in RangeOf(closeRing')
    BY <2>1, RingType, PushedKeeps DEF Inv
  <2>3. ASSUME NEW s \in Managed'
        PROVE  (Marks(s)' => Marks(s) \/ Queued(s)') /\ (Queued(s) => Queued(s)')
    <3>1. s \in Managed
      BY <2>1 DEF Managed
    <3>2. at[u] = s => target[u] = sid[s]
      BY <2>1, <3>1 DEF AskInv, Uses
    <3>3. Marks(s)' => Marks(s) \/ at[u] = s
      BY <1>0, <2>1 DEF Marks
    <3> QED BY <2>1, <2>2, <3>2, <3>3 DEF Queued
  <2>4. \A t \in Threads, s \in Session : Uses(t, s)' => Uses(t, s) /\ target'[t] = target[t]
    BY <1>0, <2>1 DEF Uses
  <2> QED BY <2>1, <2>3, <2>4, AskQuiet DEF Inv
<1>4. CASE MarkClosing(u)
  <2>1. /\ UNCHANGED <<managed, sid, epollSid, armed, closeRing, accepting, acceptSes>>
        /\ closeSent' = [closeSent EXCEPT ![at[u]] = TRUE]
        /\ doing[u] = "mark" /\ BecomeIdle(u)
    BY <1>4 DEF MarkClosing, storeVars, packetVars, acceptVars
  <2>2. /\ \A t \in Threads : t # u => doing'[t] = doing[t] /\ at'[t] = at[t] /\ target'[t] = target[t]
        /\ doing'[u] = "idle"
        /\ \A s \in Session : closeSent'[s] => closeSent[s] \/ s = at[u]
    BY <1>0, <2>1 DEF BecomeIdle, Inv, PlaceInv, TypeOK, ThreadOK, SessionOK
  <2>3. \A s \in Managed' : (Marks(s)' => Marks(s)) /\ (Queued(s) => Queued(s)')
    BY <2>1, <2>2 DEF Marks, Queued, Managed
  <2>4. \A t \in Threads, s \in Session : Uses(t, s)' => Uses(t, s) /\ target'[t] = target[t]
    BY <2>2 DEF Uses
  <2> QED BY <2>1, <2>3, <2>4, AskQuiet DEF Inv
<1>5. CASE u = "send" /\ SendFails
  <2>1. /\ UNCHANGED <<managed, sid, epollSid, armed, closeSent, accepting, acceptSes>>
        /\ doing[u] = "using" /\ BecomeIdle(u)
        /\ closeRing' = Pushed(closeRing, CloseCap, epollSid[at[u]])
    BY <1>5 DEF SendFails, storeVars, sessionVars, packetVars, acceptVars
  <2>2. at[u] \in Session /\ epollSid[at[u]] \in Sid \cup {0}
    BY <2>1 DEF Inv, PlaceInv, TypeOK, ThreadOK, SessionOK
  <2>3. RangeOf(closeRing) \subseteq RangeOf(closeRing')
    BY <2>1, <2>2, RingType, PushedKeeps DEF Inv
  <2>4. /\ \A t \in Threads : t # u => doing'[t] = doing[t] /\ at'[t] = at[t] /\ target'[t] = target[t]
        /\ doing'[u] = "idle"
    BY <1>0, <2>1 DEF BecomeIdle, Inv, PlaceInv, TypeOK, ThreadOK
  <2>5. \A s \in Managed' : (Marks(s)' => Marks(s)) /\ (Queued(s) => Queued(s)')
    BY <2>1, <2>3, <2>4 DEF Marks, Queued
  <2>6. \A t \in Threads, s \in Session : Uses(t, s)' => Uses(t, s) /\ target'[t] = target[t]
    BY <2>4 DEF Uses
  <2> QED BY <2>1, <2>5, <2>6, AskQuiet DEF Inv
<1> QED BY <1>1, <1>2, <1>3, <1>4, <1>5 DEF Work, Leave, Stop

\* Unless the close thread's ring is full, a session that is marked as closing while it
\* is in the map has its id in the ring: the mark, after which nobody asks again, is
\* never set for a request that is not there (LSession.h:100).
THEOREM MarkedIsQueued ==
    ~StalledMove => (Spec /\ [](Len(closeRing) < CloseCap) => []CloseSentMeansQueued)
<1> SUFFICES ASSUME ~StalledMove
             PROVE  Spec /\ [](Len(closeRing) < CloseCap) => []CloseSentMeansQueued
  OBVIOUS
<1>1. Init => AskInv
  <2> SUFFICES ASSUME Init PROVE AskInv
    OBVIOUS
  <2>1. Managed = {} /\ armed = {} /\ accepting = "idle"
    BY DEF Init, Managed, NoSession, Session
  <2> QED BY <2>1 DEF AskInv
<1>2. StopProtocolInv /\ AskInv /\ Len(closeRing) < CloseCap /\ [Next]_vars => AskInv'
  <2> SUFFICES ASSUME Inv, AskInv, Len(closeRing) < CloseCap, [Next]_vars PROVE AskInv'
    BY DEF StopProtocolInv, Inv
  <2>1. CASE UNCHANGED vars
    <3>1. UNCHANGED <<managed, sid, epollSid, armed, closeSent, closeRing, doing, at, target,
                      accepting, acceptSes>>
      BY <2>1 DEF vars, storeVars, sessionVars, packetVars, threadVars, acceptVars
    <3> QED BY <3>1, AskUntouched DEF Inv
  <2>2. CASE SendFails
    BY <2>2, AskThread DEF Threads
  <2> QED BY <2>1, <2>2, AskAccept, AskClose, AskThread DEF Next
<1>3. AskInv => CloseSentMeansQueued
  BY DEF AskInv, Marks, Queued, CloseSentMeansQueued
<1> QED BY <1>1, <1>2, <1>3, StopProtocol, PTL DEF Spec

-----------------------------------------------------------------------------
(* The close thread and the epoll thread a session has not got yet.        *)

\* A session that is found by this id has its epoll thread.
HasThread(i) == i \in Sid /\ managed[i] # NoSession => bound[managed[i]]

\* The ids by which a close is, or can be, asked for
Asked ==
    RangeOf(closeRing) \cup {target[t] : t \in Threads} \cup {epollSid[s] : s \in Session}

\* Every id by which a close can be asked for is that of a session whose accept is past
\* BindEpollThread: no thread is given the session the accept thread still holds.
BoundInv ==
    /\ \A s \in Managed : bound[s] \/ (s = acceptSes /\ accepting \in {"opened", "announced"})
    /\ \A i \in Asked : HasThread(i)
    /\ closing \in {"reuse", "main", "epoll"} => bound[closeSes]

\* Ids keep what they say as long as nothing enters the map and no session in the map
\* loses its thread.
LEMMA BoundStays ==
    ASSUME Inv, BoundInv,
           \A i \in Sid : managed'[i] = managed[i] \/ managed'[i] = NoSession,
           \A s \in Managed : bound[s] => bound'[s],
           \A i \in Asked' : HasThread(i) \/ HasThread(i)',
           \A s \in Managed' : bound'[s] \/ (s = acceptSes' /\ accepting' \in {"opened", "announced"}),
           closing' \in {"reuse", "main", "epoll"} => bound'[closeSes']
    PROVE  BoundInv'
<1>1. ASSUME NEW i, HasThread(i) PROVE HasThread(i)'
  <2>1. CASE i \in Sid /\ managed'[i] # NoSession
    <3>1. managed'[i] = managed[i] /\ managed[i] \in Session
      BY <2>1 DEF Inv, PlaceInv, TypeOK, StoreOK
    <3>2. managed[i] \in Managed /\ bound[managed[i]]
      BY <1>1, <2>1, <3>1 DEF Managed, HasThread
    <3> QED BY <3>1, <3>2 DEF HasThread
  <2> QED BY <2>1 DEF HasThread
<1> QED BY <1>1 DEF BoundInv

\* Nothing but the accept thread, the close thread or the owner of a target moves.
LEMMA BoundQuiet ==
    ASSUME Inv, BoundInv,
           \A i \in Sid : managed'[i] = managed[i] \/ managed'[i] = NoSession,
           \A i \in Asked' : HasThread(i),
           UNCHANGED <<bound, accepting, acceptSes>>,
           closing' \in {"reuse", "main", "epoll"} => bound[closeSes']
    PROVE  BoundInv'
<1>1. Managed' \subseteq Managed
  BY DEF Managed, NoSession, Session
<1> QED BY <1>1, BoundStays DEF BoundInv

LEMMA NoThreadNeeded == HasThread(0)
BY DEF HasThread, Sid

LEMMA BoundAcceptSession ==
    ASSUME Inv, BoundInv, AcceptSession
    PROVE  BoundInv'
<1> DEFINE h == Head(pool)
<1>1. /\ accepting = "idle" /\ accepting' = "opened" /\ acceptSes' = h
      /\ lastSid \in 0 .. MaxSid /\ lastSid < MaxSid
      /\ managed' = [managed EXCEPT ![lastSid + 1] = h]
      /\ bound' = [bound EXCEPT ![h] = FALSE]
      /\ UNCHANGED <<epollSid, closeRing, target, closing, closeSes>>
  BY DEF AcceptSession, Inv, PlaceInv, TypeOK, StoreOK, sessionVars, closeVars, threadVars
<1>2. h \in Pooled /\ h \in Session
  BY RangeOfTail DEF AcceptSession, Pooled, RangeOf, Inv, PlaceInv, TypeOK, StoreOK
<1>3. h \notin Managed /\ h \notin InHand /\ h \notin willReuse
  BY <1>2 DEF Inv, PlaceInv, OnePlace
<1>4. KnownSids = 0 .. lastSid
  BY <1>1 DEF KnownSids
<1>5. ASSUME NEW i \in KnownSids, HasThread(i) PROVE HasThread(i)'
  <2>1. i # lastSid + 1
    BY <1>1, <1>4
  <2>2. ASSUME i \in Sid, managed'[i] # NoSession PROVE bound'[managed'[i]]
    <3>1. managed'[i] = managed[i] /\ managed[i] \in Session
      BY <1>1, <2>1, <2>2 DEF Inv, PlaceInv, TypeOK, StoreOK
    <3>2. managed[i] # h /\ bound[managed[i]]
      BY <1>3, <1>5, <2>2, <3>1 DEF Managed, HasThread
    <3> QED BY <1>1, <3>1, <3>2 DEF Inv, PlaceInv, TypeOK, SessionOK
  <2> QED BY <2>2 DEF HasThread
<1>6. Asked' = Asked /\ Asked \subseteq KnownSids
  BY <1>1 DEF Asked, Inv, PlaceInv, SidsKnown
<1>7. ASSUME NEW s \in Managed', s # h PROVE bound'[s]
  <2>1. s \in Managed /\ s \in Session
    BY <1>1, <1>7 DEF Managed, Inv, PlaceInv, TypeOK, StoreOK
  <2>2. bound[s]
    BY <1>1, <2>1 DEF BoundInv
  <2> QED BY <1>1, <1>7, <2>1, <2>2 DEF Inv, PlaceInv, TypeOK, SessionOK
<1>8. ASSUME closing \in {"reuse", "main", "epoll"} PROVE bound'[closeSes]
  <2>1. closeSes \in Session /\ "epoll" \in Threads /\ WillNotice("epoll", closeSes)
    BY <1>8 DEF Inv, PlaceInv, TypeOK, CloseOK, WillNotice, ToBeNotified, Threads
  <2>2. closeSes \in InHand \cup willReuse
    BY <2>1 DEF Inv, StopInv, StopFacts
  <2>3. closeSes # h /\ bound[closeSes]
    BY <1>3, <1>8, <2>2 DEF BoundInv
  <2> QED BY <1>1, <2>1, <2>3 DEF Inv, PlaceInv, TypeOK, SessionOK
<1>9. \A i \in Asked' : HasThread(i)'
  BY <1>5, <1>6 DEF BoundInv
<1> QED BY <1>1, <1>7, <1>8, <1>9 DEF BoundInv

LEMMA BoundAccept ==
    ASSUME Inv, BoundInv, Accept
    PROVE  BoundInv'
<1>0. acceptSes \in Session \/ accepting = "idle"
  BY DEF Inv, PlaceInv, TypeOK, AcceptOK
<1>1. CASE AcceptSession
  BY <1>1, BoundAcceptSession
<1>2. CASE AcceptAnnounce
  <2>1. /\ UNCHANGED <<managed, bound, closeRing, target, epollSid, acceptSes, closing, closeSes>>
        /\ accepting = "opened" /\ accepting' = "announced"
    BY <1>2 DEF AcceptAnnounce, storeVars, sessionVars, threadVars, closeVars
  <2> QED BY <2>1 DEF BoundInv, HasThread, Managed, Asked
<1>3. CASE AcceptGiveUp
  <2> DEFINE i == sid[acceptSes]
  <2>1. /\ UNCHANGED <<bound, closeRing, target, epollSid, closing, closeSes>>
        /\ accepting = "opened" /\ accepting' = "idle"
        /\ managed' = [managed EXCEPT ![i] = NoSession]
    BY <1>3 DEF AcceptGiveUp, threadVars, closeVars
  <2>2. i \in Sid /\ managed[i] = acceptSes
    BY <2>1 DEF Inv, PlaceInv, SidsAgree, TypeOK, AcceptOK
  <2>3. \A j \in Sid : managed'[j] = managed[j] \/ managed'[j] = NoSession
    BY <2>1 DEF Inv, PlaceInv, TypeOK, StoreOK
  <2>4. ASSUME NEW s \in Managed' PROVE bound'[s]
    <3>1. PICK j \in Sid : managed'[j] = s /\ s \in Session
      BY DEF Managed
    <3>2. managed[j] = s /\ j # i /\ s # NoSession
      BY <2>1, <2>2, <2>3, <3>1 DEF Session, NoSession, Inv, PlaceInv, TypeOK, StoreOK
    <3>3. s \in Managed /\ s # acceptSes
      BY <2>2, <3>1, <3>2 DEF Managed, Inv, PlaceInv, OnePlace
    <3> QED BY <2>1, <3>3 DEF BoundInv
  <2>5. Asked' = Asked
    BY <2>1 DEF Asked
  <2> QED BY <2>1, <2>3, <2>4, <2>5, BoundStays DEF BoundInv
<1>4. CASE BindEpollThread
  <2>1. /\ UNCHANGED <<managed, closeRing, target, acceptSes, closing, closeSes>>
        /\ accepting = "announced" /\ accepting' = "bound"
        /\ epollSid' = [epollSid EXCEPT ![acceptSes] = sid[acceptSes]]
        /\ bound' = [bound EXCEPT ![acceptSes] = TRUE]
        /\ bound \in [Session -> BOOLEAN] /\ epollSid \in [Session -> Sid \cup {0}]
    BY <1>4 DEF BindEpollThread, storeVars, closeVars, threadVars, Inv, PlaceInv, TypeOK, SessionOK
  <2>2. /\ bound'[acceptSes] /\ \A s \in Session : bound[s] => bound'[s]
    BY <1>0, <2>1
  <2>3. Managed' = Managed /\ Managed \subseteq Session
    BY <2>1 DEF Managed
  <2>4. \A s \in Managed' : bound'[s]
    BY <2>1, <2>2, <2>3 DEF BoundInv
  <2>5. ASSUME NEW i \in Sid PROVE HasThread(i)'
    <3>1. ASSUME managed'[i] # NoSession PROVE managed'[i] \in Managed'
      BY <2>1, <3>1 DEF Managed, Inv, PlaceInv, TypeOK, StoreOK
    <3> QED BY <2>4, <3>1 DEF HasThread
  <2>6. \A i \in Asked' : HasThread(i) \/ HasThread(i)'
    <3>1. \A s \in Session : epollSid'[s] = epollSid[s] \/ epollSid'[s] = sid[acceptSes]
      BY <2>1
    <3>2. Asked' \subseteq Asked \cup {sid[acceptSes]}
      BY <2>1, <3>1 DEF Asked
    <3>3. sid[acceptSes] \in Sid
      BY <2>1 DEF Inv, PlaceInv, TypeOK, AcceptOK
    <3> QED BY <2>5, <3>2, <3>3 DEF BoundInv
  <2>7. closing' \in {"reuse", "main", "epoll"} => bound'[closeSes']
    BY <2>1, <2>2 DEF BoundInv, Inv, PlaceInv, TypeOK, CloseOK
  <2>8. /\ \A s \in Managed : bound[s] => bound'[s]
        /\ \A i \in Sid : managed'[i] = managed[i]
    BY <2>1, <2>2, <2>3 DEF BoundInv
  <2> QED BY <2>4, <2>6, <2>7, <2>8, BoundStays
<1>5. CASE PostEpollReadEvent \/ PostEpollReadEventFails \/ AcceptMarkClosing
  <2>1. /\ UNCHANGED <<managed, bound, closeRing, target, epollSid, closing, closeSes>>
        /\ accepting \in {"bound", "mark"}
        /\ accepting' = "idle" \/ (accepting' = "failed" /\ accepting = "bound" /\ acceptSes' = acceptSes)
    BY <1>5 DEF PostEpollReadEvent, PostEpollReadEventFails, AcceptMarkClosing, storeVars,
       sessionVars, threadVars, closeVars
  <2> QED BY <2>1 DEF BoundInv, HasThread, Managed, Asked
<1>6. CASE AcceptAppendToClose
  <2> DEFINE i == sid[acceptSes]
  <2>1. /\ UNCHANGED <<managed, bound, target, epollSid, acceptSes, closing, closeSes>>
        /\ accepting = "failed" /\ accepting' = "mark" /\ i \in Sid
        /\ closeRing' = Pushed(closeRing, CloseCap, i)
    BY <1>6 DEF AcceptAppendToClose, storeVars, sessionVars, threadVars, closeVars,
       Inv, PlaceInv, TypeOK, AcceptOK
  <2>2. RangeOf(closeRing') \subseteq RangeOf(closeRing) \cup {i}
    BY <2>1, PushedRange DEF Inv, PlaceInv, TypeOK, QueueOK
  <2>3. HasThread(i)
    <3>1. ASSUME managed[i] # NoSession PROVE managed[i] \in Managed
      BY <2>1, <3>1 DEF Managed, Inv, PlaceInv, TypeOK, StoreOK
    <3> QED BY <2>1, <3>1 DEF HasThread, BoundInv
  <2>4. Asked' \subseteq Asked \cup {i}
    BY <2>1, <2>2 DEF Asked
  <2>5. \A j \in Asked' : HasThread(j)
    BY <2>3, <2>4 DEF BoundInv
  <2>6. Managed' = Managed
    BY <2>1 DEF Managed
  <2> QED BY <2>1, <2>5, <2>6, BoundStays DEF BoundInv
<1> QED BY <1>1, <1>2, <1>3, <1>4, <1>5, <1>6 DEF Accept

LEMMA BoundClose ==
    ASSUME Inv, BoundInv, Close
    PROVE  BoundInv'
<1>1. CASE CloseStale \/ CloseSession
  <2> DEFINE j == Head(closeRing)
  <2>1. /\ closeRing # <<>> /\ closeRing' = Tail(closeRing)
        /\ UNCHANGED <<bound, target, epollSid, accepting, acceptSes>>
    BY <1>1 DEF CloseStale, CloseSession, sessionVars, threadVars, acceptVars
  <2>2. RangeOf(closeRing') \subseteq RangeOf(closeRing) /\ j \in RangeOf(closeRing)
    BY <2>1, RangeOfTail DEF RangeOf, Inv, PlaceInv, TypeOK, QueueOK
  <2>3. \A i \in Sid : managed'[i] = managed[i] \/ managed'[i] = NoSession
    BY <1>1 DEF CloseStale, CloseSession, storeVars, Inv, PlaceInv, TypeOK, StoreOK
  <2>4. closing' \in {"reuse", "main", "epoll"} => bound[closeSes']
    <3>1. CASE CloseStale
      BY <3>1 DEF CloseStale, closeVars
    <3>2. CASE CloseSession
      <4>1. closeSes' = managed[j] /\ j \in Sid /\ managed[j] # NoSession
        BY <3>2 DEF CloseSession, FindSession
      <4> QED BY <2>2, <4>1 DEF BoundInv, HasThread, Asked
    <3> QED BY <1>1, <3>1, <3>2
  <2>5. Asked' \subseteq Asked
    BY <2>1, <2>2 DEF Asked
  <2> QED BY <2>1, <2>3, <2>4, <2>5, BoundQuiet DEF BoundInv
<1>2. CASE ~(CloseStale \/ CloseSession)
  <2>1. /\ UNCHANGED <<managed, bound, closeRing, target, epollSid, accepting, acceptSes>>
        /\ closing' \in {"reuse", "main", "epoll"} =>
              closing \in {"reuse", "main", "epoll"} /\ closeSes' = closeSes
    BY <1>2 DEF Close, AddToWillReuseManager, NotifyThread, NextNotice, Threads,
       NotifyUnboundEpollThread, CloseDisconnect, storeVars, sessionVars, closeVars, threadVars,
       acceptVars
  <2>2. Asked' = Asked
    BY <2>1 DEF Asked
  <2> QED BY <2>1, <2>2, BoundQuiet DEF BoundInv
<1> QED BY <1>1, <1>2

\* A thread that is done forgets its target, the others keep theirs.
LEMMA TargetsIdle ==
    ASSUME Inv, NEW u \in Threads, BecomeIdle(u), UNCHANGED <<closeRing, epollSid>>
    PROVE  Asked' \subseteq Asked \cup {0}
<1>1. \A t \in Threads : target'[t] \in {target[t], 0}
  BY DEF BecomeIdle, Inv, PlaceInv, TypeOK, ThreadOK
<1> QED BY <1>1 DEF Asked

LEMMA BoundMoveToPool ==
    ASSUME Inv, BoundInv, NEW u \in Threads, MoveToPool(u)
    PROVE  BoundInv'
<1> DEFINE s == at[u]
<1>1. /\ UNCHANGED <<managed, closeRing, epollSid, accepting, acceptSes, closing, closeSes>>
      /\ doing[u] = "move" /\ BecomeIdle(u)
      /\ bound' = bound \/ (s \in willReuse /\ bound' = [bound EXCEPT ![s] = FALSE])
  BY DEF MoveToPool, acceptVars, closeVars
<1>2. s \in Session /\ Checks(u, s) /\ seen[u] = 4
  BY <1>1 DEF Inv, PlaceInv, TypeOK, ThreadOK, Checks
<1>3. "epoll" \in stopped[s]
  BY <1>2 DEF Inv, StopInv, StopFacts, FlagOrder
<1>4. \A x \in Session : x # s \/ s \notin willReuse => bound'[x] = bound[x]
  BY <1>1 DEF Inv, PlaceInv, TypeOK, SessionOK
<1>5. ASSUME s \in willReuse, closing \in {"reuse", "main", "epoll"} PROVE closeSes # s
  <2>1. s \in Session /\ "epoll" \in Threads /\ ~WillNotice("epoll", s)
    BY <1>2, <1>3, <1>5 DEF Inv, StopInv, StopFacts, Threads
  <2> QED BY <1>5, <2>1 DEF WillNotice, ToBeNotified, Threads
<1>6. ASSUME NEW x \in Managed PROVE x \in Session /\ bound'[x] = bound[x]
  BY <1>4 DEF Managed, Inv, PlaceInv, OnePlace
<1>7. closing' \in {"reuse", "main", "epoll"} => bound'[closeSes']
  BY <1>1, <1>4, <1>5 DEF BoundInv, Inv, PlaceInv, TypeOK, CloseOK
<1>9. Managed' = Managed
  BY <1>1 DEF Managed
<1>10. \A i \in Asked' : HasThread(i)
  BY <1>1, TargetsIdle, NoThreadNeeded DEF BoundInv
<1> QED BY <1>1, <1>6, <1>7, <1>9, <1>10, BoundStays DEF BoundInv

LEMMA BoundWork ==
    ASSUME Inv, BoundInv, ~EarlyKick, NEW u \in Threads, Work(u)
    PROVE  BoundInv'
<1>1. ASSUME NEW i \in Sid, BeginUse(u, i) PROVE BoundInv'
  <2>1. /\ UNCHANGED <<managed, bound, closeRing, epollSid, accepting, acceptSes, closing, closeSes>>
        /\ managed[i] # NoSession /\ managed[i] # acceptSes
        /\ target' = [target EXCEPT ![u] = IF u = "main" THEN i ELSE epollSid[managed[i]]]
    BY <1>1 DEF BeginUse, FindSession, storeVars, sessionVars, acceptVars, closeVars
  <2>2. managed[i] \in Managed /\ managed[i] \in Session
    BY <2>1 DEF Managed, Inv, PlaceInv, TypeOK, StoreOK
  <2>3. HasThread(i) /\ HasThread(epollSid[managed[i]])
    BY <2>1, <2>2 DEF BoundInv, HasThread, Asked
  <2>4. \A t \in Threads : target'[t] \in {target[t], i, epollSid[managed[i]]}
    BY <2>1 DEF Inv, PlaceInv, TypeOK, ThreadOK
  <2>5. Asked' \subseteq Asked \cup {i, epollSid[managed[i]]}
    BY <2>1, <2>4 DEF Asked
  <2>6. \A j \in Asked' : HasThread(j)
    BY <2>3, <2>5 DEF BoundInv
  <2> QED BY <2>1, <2>6, BoundQuiet DEF BoundInv
<1>2. CASE EndUse(u) \/ MarkClosing(u) \/ ReadFlag(u)
  <2>1. UNCHANGED <<managed, bound, closeRing, epollSid, accepting, acceptSes, closing, closeSes>>
    BY <1>2 DEF EndUse, MarkClosing, ReadFlag, storeVars, sessionVars, acceptVars, closeVars
  <2>2. BecomeIdle(u) \/ UNCHANGED target
    BY <1>2 DEF EndUse, MarkClosing, ReadFlag
  <2>3. \A i \in Asked' : HasThread(i)
    <3>1. Asked' \subseteq Asked \cup {0}
      BY <2>1, <2>2, TargetsIdle DEF Asked
    <3> QED BY <3>1, NoThreadNeeded DEF BoundInv
  <2> QED BY <2>1, <2>3, BoundQuiet DEF BoundInv
<1>3. CASE RequestClose(u)
  <2>1. /\ UNCHANGED <<managed, bound, target, epollSid, accepting, acceptSes, closing, closeSes>>
        /\ closeRing' = Pushed(closeRing, CloseCap, target[u]) /\ target[u] \in Sid \cup {0}
    BY <1>3 DEF RequestClose, storeVars, sessionVars, acceptVars, closeVars,
       Inv, PlaceInv, TypeOK, ThreadOK
  <2>2. RangeOf(closeRing') \subseteq RangeOf(closeRing) \cup {target[u]}
    BY <2>1, PushedRange DEF Inv, PlaceInv, TypeOK, QueueOK
  <2>3. \A i \in Asked' : HasThread(i)
    BY <2>1, <2>2 DEF BoundInv, Asked
  <2> QED BY <2>1, <2>3, BoundQuiet DEF BoundInv
<1>4. CASE StopProcess(u)
  <2>1. UNCHANGED <<managed, bound, closeRing, target, epollSid, accepting, acceptSes, closing,
                    closeSes>>
    BY <1>4 DEF StopProcess, storeVars, acceptVars, closeVars
  <2>2. Asked' = Asked
    BY <2>1 DEF Asked
  <2> QED BY <2>1, <2>2, BoundQuiet DEF BoundInv
<1> QED BY <1>1, <1>2, <1>3, <1>4, BoundMoveToPool DEF Work, Leave, Stop

LEMMA BoundSendFails ==
    ASSUME Inv, BoundInv, SendFails
    PROVE  BoundInv'
<1> DEFINE i == epollSid[at["send"]]
<1>1. /\ UNCHANGED <<managed, bound, epollSid, accepting, acceptSes, closing, closeSes>>
      /\ doing["send"] = "using" /\ BecomeIdle("send") /\ "send" \in Threads
      /\ closeRing' = Pushed(closeRing, CloseCap, i)
  BY DEF SendFails, storeVars, sessionVars, acceptVars, closeVars, Threads
<1>2. at["send"] \in Session /\ i \in Sid \cup {0}
  BY <1>1 DEF Inv, PlaceInv, TypeOK, ThreadOK, SessionOK
<1>3. RangeOf(closeRing') \subseteq RangeOf(closeRing) \cup {i}
  <2> HIDE DEF i
  <2> QED BY <1>1, <1>2, RingType, PushedRange DEF Inv
<1>4. \A t \in Threads : target'[t] \in {target[t], 0}
  BY <1>1 DEF BecomeIdle, Inv, PlaceInv, TypeOK, ThreadOK
<1>5. Asked' \subseteq Asked \cup {0}
  BY <1>1, <1>2, <1>3, <1>4 DEF Asked
<1>6. \A j \in Asked' : HasThread(j)
  BY <1>5, NoThreadNeeded DEF BoundInv
<1> QED BY <1>1, <1>6, BoundQuiet DEF BoundInv

\* The close thread finds an epoll thread in every session it closes, as long as the main
\* thread leaves a session alone until the accept thread is done with it and no thread
\* stalls before it recycles one: then, and only then, does the crash of
\* LCloseSocketThread.cpp:156 mean what the comment before it says.
THEOREM EpollThreadFound ==
    ~StalledMove /\ ~EarlyKick => (Spec => [](EpollThreadIsThere /\ ~crashed))
<1> SUFFICES ASSUME ~StalledMove, ~EarlyKick
             PROVE  Spec => [](EpollThreadIsThere /\ ~crashed)
  OBVIOUS
<1> DEFINE J == BoundInv /\ ~crashed
<1>1. Init => J
  <2> SUFFICES ASSUME Init PROVE J
    OBVIOUS
  <2>1. Managed = {} /\ RangeOf(closeRing) = {} /\ accepting = "idle" /\ closing = "idle"
    BY DEF Init, Managed, NoSession, Session, RangeOf
  <2>2. /\ \A t \in Threads : target[t] = 0
        /\ \A s \in Session : epollSid[s] = 0
    BY DEF Init
  <2>3. Asked \subseteq {0}
    BY <2>1, <2>2 DEF Asked
  <2> QED BY <2>1, <2>3, NoThreadNeeded DEF BoundInv, Init
<1>2. StopProtocolInv /\ J /\ [Next]_vars => J'
  <2> SUFFICES ASSUME Inv, J, [Next]_vars PROVE J'
    BY DEF StopProtocolInv, Inv
  <2>1. crashed' = crashed \/ NotifyUnboundEpollThread
    BY DEF Next, Accept, AcceptSession, AcceptAnnounce, AcceptGiveUp, BindEpollThread,
       PostEpollReadEvent, PostEpollReadEventFails, AcceptAppendToClose, AcceptMarkClosing,
       Close, CloseStale, CloseSession, AddToWillReuseManager, NotifyThread, CloseDisconnect,
       SendFails, Work, BeginUse, Leave, EndUse, MarkClosing, RequestClose, Stop, StopProcess,
       ReadFlag, MoveToPool, vars
  <2>2. ~NotifyUnboundEpollThread
    BY DEF NotifyUnboundEpollThread, BoundInv
  <2>3. CASE UNCHANGED vars
    <3>1. UNCHANGED <<managed, bound, closeRing, target, epollSid, accepting, acceptSes, closing,
                      closeSes>>
      BY <2>3 DEF vars, storeVars, sessionVars, acceptVars, closeVars, threadVars
    <3>2. Asked' = Asked
      BY <3>1 DEF Asked
    <3> QED BY <2>1, <2>2, <3>1, <3>2, BoundQuiet DEF BoundInv
  <2> QED BY <2>1, <2>2, <2>3, BoundAccept, BoundClose, BoundWork, BoundSendFails DEF Next
<1>3. J => EpollThreadIsThere /\ ~crashed
  BY DEF BoundInv, EpollThreadIsThere
<1> QED BY <1>1, <1>2, <1>3, StopProtocol, PTL DEF Spec
=============================================================================
