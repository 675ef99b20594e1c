-------------------------- MODULE ConnectorProofs --------------------------
(***************************************************************************)
(* What holds of a connector for every number of packets, every capacity   *)
(* and every history of lost connections.                                  *)
(***************************************************************************)
EXTENDS Connector, FiniteSetTheorems, SequenceTheorems, TLAPS

USE ConnectorAssumption

-----------------------------------------------------------------------------
(* The inductive invariant.                                                *)

Distinct(s) == \A i, j \in DOMAIN s : s[i] = s[j] => i = j

\* PacketsKept without the concatenation.
Apart ==
    /\ Distinct(sendFree) /\ Distinct(sendQueue)
    /\ \A i \in DOMAIN sendFree, j \in DOMAIN sendQueue : sendFree[i] # sendQueue[j]
    /\ \A i \in DOMAIN sendFree : sendFree[i] \notin refused
    /\ \A j \in DOMAIN sendQueue : sendQueue[j] \notin refused
    /\ \A p \in Packets : \/ p \in refused
                          \/ \E i \in DOMAIN sendFree : sendFree[i] = p
                          \/ \E j \in DOMAIN sendQueue : sendQueue[j] = p

Counted == recvFree + Len(recvQueue) + recvLost = RecvPool

\* A packet the main thread is given is not empty.
NotEmpty == \A i \in DOMAIN recvQueue : recvQueue[i] # <<>>

IInv == TypeOK /\ Apart /\ Counted /\ NotEmpty /\ SentInOrder

-----------------------------------------------------------------------------
(* The parts of the type invariant, by what changes together.              *)

LinkOK ==
    /\ at \in {"loop", "parse", "dead"} /\ link \in 0 .. links /\ links \in Nat
    /\ broken \in BOOLEAN /\ sendable \in BOOLEAN /\ tainted \in BOOLEAN
    /\ leaked \in 0 .. MaxFds /\ breaks \in 0 .. MaxBreaks /\ fails \in 0 .. MaxFails

BytesOK ==
    /\ net \in Seq(Halves) /\ buf \in Seq(Halves) /\ parsed \in 0 .. Len(buf)
    /\ peerSent \in 0 .. MaxPeer

RecvOK ==
    /\ recvQueue \in Seq(Seq(Halves)) /\ Len(recvQueue) <= RecvCap
    /\ recvFree \in 0 .. RecvPool /\ recvLost \in 0 .. RecvPool
    /\ heard \in Halves

PoolOK ==
    /\ sendQueue \in Seq(Packets) /\ Len(sendQueue) <= SendCap
    /\ sendFree \in Seq(Packets) /\ refused \subseteq Packets
    /\ text \in [Packets -> Seq(1 .. MaxSend)] /\ about \in [Packets -> 0 .. MaxSend]
    /\ \A p \in Packets : Len(text[p]) <= TextCap
    /\ said \in 0 .. MaxSend

OutOK == out \in Seq([about : 1 .. MaxSend, text : Seq(1 .. MaxSend), whole : BOOLEAN])

MainOK == main \in {"runs", "crashed"}

LEMMA Parts == TypeOK <=> LinkOK /\ BytesOK /\ RecvOK /\ PoolOK /\ OutOK /\ MainOK
BY Zenon DEF TypeOK, LinkOK, BytesOK, RecvOK, PoolOK, OutOK, MainOK

\* The rest of the invariant, by the same split.
RecvInv == RecvOK /\ Counted /\ NotEmpty
SendInv == PoolOK /\ OutOK /\ Apart /\ SentInOrder

LEMMA Split == IInv <=> LinkOK /\ BytesOK /\ RecvInv /\ SendInv /\ MainOK
BY Parts, Zenon DEF IInv, RecvInv, SendInv

LEMMA SplitNext == LinkOK' /\ BytesOK' /\ RecvInv' /\ SendInv' /\ MainOK' => IInv'
<1>1. LinkOK' /\ BytesOK' /\ RecvOK' /\ PoolOK' /\ OutOK' /\ MainOK' => TypeOK'
    BY Zenon DEF TypeOK, LinkOK, BytesOK, RecvOK, PoolOK, OutOK, MainOK
<1> QED
    BY <1>1, Zenon DEF IInv, RecvInv, SendInv

-----------------------------------------------------------------------------
(* Initially the pool for sending holds every packet.                      *)

LEMMA AllInPool ==
    ASSUME NEW s \in [1 .. Cardinality(Packets) -> Packets], Distinct(s), NEW p \in Packets
    PROVE  \E i \in DOMAIN s : s[i] = p
<1> DEFINE n == Cardinality(Packets)
<1> SUFFICES ASSUME \A i \in 1 .. n : s[i] # p PROVE FALSE
    OBVIOUS
<1>1. n \in Nat /\ IsFiniteSet(Packets \ {p}) /\ Cardinality(Packets \ {p}) = n - 1
    BY FS_CardinalityType, FS_RemoveElement
<1>2. IsFiniteSet(1 .. n) /\ Cardinality(1 .. n) = n
    BY <1>1, FS_Interval, Z3
<1>3. s \in [1 .. n -> Packets \ {p}]
    OBVIOUS
<1>4. \E x, y \in 1 .. n : x # y /\ s[x] = s[y]
    <2>1. Cardinality(Packets \ {p}) < Cardinality(1 .. n)
        BY <1>1, <1>2
    <2> QED
        BY <1>1, <1>2, <1>3, <2>1, FS_PigeonHole
<1> QED
    BY <1>3, <1>4 DEF Distinct

LEMMA InitInv == Init => IInv
<1> SUFFICES ASSUME Init PROVE IInv
    OBVIOUS
<1>0. Cardinality(Packets) \in Nat
    BY FS_CardinalityType
<1>1. LinkOK /\ BytesOK /\ MainOK
    <2>1. /\ at = "loop" /\ link = 0 /\ links = 0 /\ broken = FALSE /\ sendable = TRUE
          /\ tainted = FALSE /\ leaked = 0 /\ breaks = 0 /\ fails = 0 /\ net = <<>>
          /\ buf = <<>> /\ parsed = 0 /\ peerSent = 0 /\ main = "runs"
        BY DEF Init
    <2>2. broken \in BOOLEAN /\ sendable \in BOOLEAN /\ tainted \in BOOLEAN
        BY <2>1, Zenon
    <2>3. LinkOK
        <3>1. /\ at \in {"loop", "parse", "dead"} /\ link \in 0 .. links /\ links \in Nat
              /\ leaked \in 0 .. MaxFds /\ breaks \in 0 .. MaxBreaks /\ fails \in 0 .. MaxFails
            BY <2>1
        <3> QED
            BY <2>2, <3>1 DEF LinkOK
    <2>4. BytesOK
        BY <2>1, SMT DEF BytesOK
    <2> QED
        BY <2>1, <2>3, <2>4 DEF MainOK
<1>2. RecvInv
    BY DEF Init, RecvInv, RecvOK, Counted, NotEmpty, Half, Halves
<1>3. /\ sendFree \in [1 .. Cardinality(Packets) -> Packets] /\ Distinct(sendFree)
      /\ sendQueue = <<>> /\ refused = {} /\ out = <<>> /\ said = 0
      /\ text = [p \in Packets |-> <<>>] /\ about = [p \in Packets |-> 0]
    BY DEF Init, Distinct
<1>4. sendFree \in Seq(Packets)
    BY <1>0, <1>3
<1>5. PoolOK /\ OutOK
    BY <1>3, <1>4 DEF PoolOK, OutOK
<1>6. Apart
    <2>1. \A p \in Packets : \E i \in DOMAIN sendFree : sendFree[i] = p
        BY <1>3, AllInPool
    <2> QED
        BY <1>3, <2>1 DEF Apart, Distinct
<1>7. SentInOrder
    BY <1>3 DEF SentInOrder
<1> QED
    BY <1>1, <1>2, <1>5, <1>6, <1>7, Split DEF SendInv

-----------------------------------------------------------------------------
(* What changes together: the connection, the bytes, the packets for         *)
(* receiving, the packets for sending.                                       *)

LEMMA RecvStays ==
    ASSUME RecvInv, UNCHANGED <<recvPackets, heard>> PROVE RecvInv'
BY DEF RecvInv, RecvOK, Counted, NotEmpty, recvPackets

LEMMA SendStays ==
    ASSUME SendInv, UNCHANGED <<sendVars, out>> PROVE SendInv'
BY DEF SendInv, PoolOK, OutOK, Apart, Distinct, SentInOrder, sendVars

LEMMA BytesStay ==
    ASSUME BytesOK, UNCHANGED recvVars PROVE BytesOK'
BY DEF BytesOK, recvVars

LEMMA DisconnectInv ==
    ASSUME LinkOK, BytesOK, Disconnect, UNCHANGED <<sendable, buf, peerSent>>,
           at' \in {"loop", "parse", "dead"}, parsed' \in 0 .. Len(buf)
    PROVE  LinkOK' /\ BytesOK'
<1>1. LinkOK'
    <2>1. link' = 0 /\ broken' = FALSE /\ tainted' = (tainted \/ buf # <<>>)
          /\ UNCHANGED <<links, leaked, breaks, fails>>
        BY DEF Disconnect
    <2>2. broken' \in BOOLEAN /\ sendable' \in BOOLEAN /\ tainted' \in BOOLEAN
        BY <2>1, Zenon DEF LinkOK
    <2>3. /\ link' \in 0 .. links' /\ links' \in Nat
          /\ leaked' \in 0 .. MaxFds /\ breaks' \in 0 .. MaxBreaks /\ fails' \in 0 .. MaxFails
        BY <2>1 DEF LinkOK
    <2> QED
        BY <2>2, <2>3 DEF LinkOK
<1>2. BytesOK'
    BY SMT DEF BytesOK, Disconnect
<1> QED
    BY <1>1, <1>2

\* What a sequence holds behind its head, and with one element more.
LEMMA BehindHeadIs ==
    ASSUME NEW S, NEW s \in Seq(S), s # <<>>
    PROVE  /\ Head(s) \in S /\ 1 \in DOMAIN s /\ Head(s) = s[1]
           /\ Tail(s) \in Seq(S) /\ Len(Tail(s)) = Len(s) - 1
           /\ \A i \in DOMAIN Tail(s) : i + 1 \in DOMAIN s /\ i + 1 # 1 /\ Tail(s)[i] = s[i + 1]
           /\ \A i \in DOMAIN s : i = 1 \/ (i - 1 \in DOMAIN Tail(s) /\ s[i] = Tail(s)[i - 1])
<1>1. Len(s) \in Nat \ {0} /\ DOMAIN s = 1 .. Len(s)
    OBVIOUS
<1>2. Head(s) = s[1] /\ Tail(s) \in Seq(S) /\ Len(Tail(s)) = Len(s) - 1
    OBVIOUS
<1>3. \A i \in 1 .. Len(s) - 1 : Tail(s)[i] = s[i + 1]
    OBVIOUS
<1>4. DOMAIN Tail(s) = 1 .. Len(s) - 1
    BY <1>2
<1>5. \A i \in DOMAIN Tail(s) : i + 1 \in DOMAIN s /\ i + 1 # 1 /\ Tail(s)[i] = s[i + 1]
    BY <1>1, <1>3, <1>4
<1>6. \A i \in DOMAIN s : i = 1 \/ (i - 1 \in DOMAIN Tail(s) /\ s[i] = Tail(s)[i - 1])
    BY <1>1, <1>3, <1>4
<1> QED
    BY <1>1, <1>2, <1>5, <1>6

LEMMA AppendedIs ==
    ASSUME NEW S, NEW s \in Seq(S), NEW e \in S
    PROVE  /\ Append(s, e) \in Seq(S) /\ Len(Append(s, e)) = Len(s) + 1
           /\ \A j \in DOMAIN s : j \in DOMAIN Append(s, e) /\ Append(s, e)[j] = s[j]
           /\ Len(s) + 1 \in DOMAIN Append(s, e) /\ Append(s, e)[Len(s) + 1] = e
           /\ \A j \in DOMAIN Append(s, e) : j \in DOMAIN s \/ j = Len(s) + 1
<1>1. Append(s, e) \in Seq(S) /\ Len(Append(s, e)) = Len(s) + 1 /\ Len(s) \in Nat
    OBVIOUS
<1>2. DOMAIN s = 1 .. Len(s) /\ DOMAIN Append(s, e) = 1 .. Len(s) + 1
    BY <1>1
<1>3. \A j \in 1 .. Len(s) : Append(s, e)[j] = s[j]
    OBVIOUS
<1>4. Append(s, e)[Len(s) + 1] = e
    OBVIOUS
<1> QED
    BY <1>1, <1>2, <1>3, <1>4

\* A packet from the pool is put into the queue or deleted.
LEMMA ReceiveInv ==
    ASSUME RecvInv, recvFree > 0, recvFree' = recvFree - 1, UNCHANGED heard,
           NEW f \in Seq(Halves), f # <<>>, Receive(f)
    PROVE  RecvInv'
<1>1. CASE RoomToReceive
    <2>1. recvQueue' = Append(recvQueue, f) /\ recvLost' = recvLost
        BY <1>1 DEF Receive
    <2>2. recvQueue' \in Seq(Seq(Halves)) /\ Len(recvQueue') = Len(recvQueue) + 1
        BY <2>1, AppendedIs DEF RecvInv, RecvOK
    <2>3. RecvOK' /\ Counted'
        <3>1. /\ Len(recvQueue) \in Nat /\ Len(recvQueue) < RecvCap /\ recvFree \in 0 .. RecvPool
              /\ recvLost \in 0 .. RecvPool /\ heard \in Halves
              /\ recvFree + Len(recvQueue) + recvLost = RecvPool
            BY <1>1 DEF RecvInv, RecvOK, Counted, RoomToReceive
        <3>2. Len(recvQueue') <= RecvCap /\ recvFree' \in 0 .. RecvPool
            BY <2>2, <3>1
        <3>3. recvFree' + Len(recvQueue') + recvLost' = RecvPool
            BY <2>1, <2>2, <3>1
        <3> QED
            BY <2>1, <2>2, <3>1, <3>2, <3>3 DEF RecvOK, Counted
    <2>4. NotEmpty'
        BY <2>1, AppendedIs DEF RecvInv, RecvOK, NotEmpty
    <2> QED
        BY <2>3, <2>4 DEF RecvInv
<1>2. CASE ~RoomToReceive
    <2>1. recvQueue' = recvQueue /\ recvLost' = recvLost + 1
        BY <1>2 DEF Receive
    <2> QED
        BY <2>1, SMT DEF RecvInv, RecvOK, Counted, NotEmpty
<1> QED
    BY <1>1, <1>2

\* The main thread writes a packet of the pool, and the queue takes it or it is forgotten.
LEMMA SayInv ==
    ASSUME SendInv, sendFree # <<>>, said < MaxSend, Say, UNCHANGED out
    PROVE  SendInv'
<1> DEFINE p == Head(sendFree)
<1> DEFINE n == said + 1
<1>1. PoolOK /\ OutOK /\ Apart /\ SentInOrder
    BY DEF SendInv
<1>2. /\ p \in Packets /\ 1 \in DOMAIN sendFree /\ p = sendFree[1]
      /\ sendFree' \in Seq(Packets)
      /\ \A i \in DOMAIN sendFree' : i + 1 \in DOMAIN sendFree /\ i + 1 # 1
                                    /\ sendFree'[i] = sendFree[i + 1]
      /\ \A i \in DOMAIN sendFree :
            i = 1 \/ (i - 1 \in DOMAIN sendFree' /\ sendFree[i] = sendFree'[i - 1])
    <2>1. sendFree' = Tail(sendFree) /\ sendFree \in Seq(Packets)
        BY <1>1 DEF Say, PoolOK
    <2>2. /\ Head(sendFree) \in Packets /\ 1 \in DOMAIN sendFree /\ Head(sendFree) = sendFree[1]
          /\ Tail(sendFree) \in Seq(Packets)
          /\ \A i \in DOMAIN Tail(sendFree) : i + 1 \in DOMAIN sendFree /\ i + 1 # 1
                                             /\ Tail(sendFree)[i] = sendFree[i + 1]
          /\ \A i \in DOMAIN sendFree :
                i = 1 \/ (i - 1 \in DOMAIN Tail(sendFree) /\ sendFree[i] = Tail(sendFree)[i - 1])
        BY <2>1, BehindHeadIs, Zenon
    <2> DEFINE rest == Tail(sendFree)
    <2>3. p = sendFree[1] /\ p \in Packets /\ sendFree' = rest
        BY <2>1, <2>2
    <2> HIDE DEF p, rest
    <2> QED
        BY <2>2, <2>3 DEF rest
<1>0. n \in 1 .. MaxSend
    BY <1>1 DEF PoolOK
<1>a. /\ \A i \in DOMAIN sendFree' : sendFree'[i] # p /\ sendFree'[i] \notin refused
      /\ \A j \in DOMAIN sendQueue : sendQueue[j] # p
      /\ p \notin refused
    <2> HIDE DEF p
    <2>1. \A i \in DOMAIN sendFree' : sendFree[i + 1] # sendFree[1]
        BY <1>1, <1>2, Zenon DEF Apart, Distinct
    <2>2. \A i \in DOMAIN sendFree' : sendFree'[i] # p
        BY <1>2, <2>1, Zenon
    <2>3. \A i \in DOMAIN sendFree' : sendFree'[i] \notin refused
        BY <1>1, <1>2, Zenon DEF Apart
    <2>4. \A j \in DOMAIN sendQueue : sendQueue[j] # p
        BY <1>1, <1>2, Zenon DEF Apart
    <2>5. p \notin refused
        BY <1>1, <1>2, Zenon DEF Apart
    <2> QED
        BY <2>2, <2>3, <2>4, <2>5
<1>b. Distinct(sendFree')
    <2> HIDE DEF p
    <2> QED
        BY <1>1, <1>2 DEF Apart, Distinct, PoolOK
<1>c. \A i \in DOMAIN sendFree', j \in DOMAIN sendQueue : sendFree'[i] # sendQueue[j]
    <2> HIDE DEF p
    <2> QED
        BY <1>1, <1>2 DEF Apart
<1>d. \A q \in Packets : \/ q \in refused \/ q = p
                         \/ \E i \in DOMAIN sendFree' : sendFree'[i] = q
                         \/ \E j \in DOMAIN sendQueue : sendQueue[j] = q
    <2> HIDE DEF p
    <2> TAKE q \in Packets
    <2>1. CASE \E i \in DOMAIN sendFree : sendFree[i] = q
        <3>1. PICK i \in DOMAIN sendFree : sendFree[i] = q
            BY <2>1
        <3>2. CASE i = 1
            BY <1>2, <3>1, <3>2
        <3>3. CASE i - 1 \in DOMAIN sendFree' /\ sendFree[i] = sendFree'[i - 1]
            BY <3>1, <3>3, Zenon
        <3> QED
            BY <1>2, <3>2, <3>3, Zenon
    <2> QED
        BY <1>1, <2>1, Zenon DEF Apart
<1>3. text' = [text EXCEPT ![p] = Written(p, n)]
    BY DEF Say
<1>4. /\ text' \in [Packets -> Seq(1 .. MaxSend)]
      /\ \A q \in Packets : Len(text'[q]) <= TextCap
    <2>0. text[p] \in Seq(1 .. MaxSend) /\ Len(text[p]) <= TextCap /\ Len(text[p]) \in Nat
        BY <1>1, <1>2 DEF PoolOK
    <2>1. Written(p, n) \in Seq(1 .. MaxSend) /\ Len(Written(p, n)) <= TextCap
        <3> HIDE DEF p, n
        <3>1. CASE Len(text[p]) < TextCap
            <4>1. /\ Append(text[p], n) \in Seq(1 .. MaxSend)
                  /\ Len(Append(text[p], n)) = Len(text[p]) + 1
                <5>1. \A S : \A s \in Seq(S) : \A e \in S :
                            Append(s, e) \in Seq(S) /\ Len(Append(s, e)) = Len(s) + 1
                    BY AppendedIs, Zenon
                <5> QED
                    BY <1>0, <2>0, <5>1, Zenon
            <4> QED
                BY <2>0, <3>1, <4>1 DEF Written
        <3>2. CASE ~(Len(text[p]) < TextCap)
            BY <2>0, <3>2 DEF Written
        <3> QED
            BY <3>1, <3>2
    <2> QED
        BY <1>1, <1>3, <2>1 DEF PoolOK
<1>5. OutOK'
    BY <1>1 DEF OutOK
<1>6. CASE Len(sendQueue) < SendCap
    <2>1. /\ about' = [about EXCEPT ![p] = n] /\ sendQueue' = Append(sendQueue, p)
          /\ refused' = refused /\ said' = n
        BY <1>6 DEF Say
    <2>2. /\ sendQueue' \in Seq(Packets) /\ Len(sendQueue') = Len(sendQueue) + 1
          /\ \A j \in DOMAIN sendQueue : j \in DOMAIN sendQueue' /\ sendQueue'[j] = sendQueue[j]
          /\ Len(sendQueue) + 1 \in DOMAIN sendQueue' /\ sendQueue'[Len(sendQueue) + 1] = p
          /\ \A j \in DOMAIN sendQueue' : j \in DOMAIN sendQueue \/ j = Len(sendQueue) + 1
        <3> HIDE DEF p, n
        <3> QED
            BY <1>1, <1>2, <2>1, AppendedIs DEF PoolOK
    <2>3. PoolOK'
        BY <1>1, <1>2, <1>4, <1>6, <2>1, <2>2, SMT DEF PoolOK
    <2>4. Apart'
        <3> HIDE DEF p, n
        <3>1. Distinct(sendQueue')
            BY <1>1, <1>a, <2>2 DEF Apart, Distinct
        <3>2. \A i \in DOMAIN sendFree', j \in DOMAIN sendQueue' : sendFree'[i] # sendQueue'[j]
            BY <1>a, <1>c, <2>2, Zenon
        <3>3. /\ \A i \in DOMAIN sendFree' : sendFree'[i] \notin refused
              /\ \A j \in DOMAIN sendQueue' : sendQueue'[j] \notin refused
            BY <1>1, <1>a, <2>2, Zenon DEF Apart
        <3>4. \A q \in Packets : \/ q \in refused
                                 \/ \E i \in DOMAIN sendFree' : sendFree'[i] = q
                                 \/ \E j \in DOMAIN sendQueue' : sendQueue'[j] = q
            BY <1>d, <2>2, Zenon
        <3> QED
            BY <1>b, <2>1, <3>1, <3>2, <3>3, <3>4, Zenon DEF Apart
    <2>5. SentInOrder'
        <3>1. \A j \in DOMAIN sendQueue : sendQueue[j] \in Packets
            BY <1>1 DEF PoolOK
        <3>2. \A j \in DOMAIN sendQueue' : about'[sendQueue'[j]] = Len(out) + j
            <4> HIDE DEF p, n
            <4>1. ASSUME NEW j \in DOMAIN sendQueue PROVE about'[sendQueue'[j]] = Len(out) + j
                <5>1. sendQueue'[j] = sendQueue[j] /\ sendQueue[j] # p /\ sendQueue[j] \in Packets
                    BY <1>a, <2>2, <3>1
                <5>2. about'[sendQueue[j]] = about[sendQueue[j]]
                    BY <1>1, <1>2, <2>1, <5>1 DEF PoolOK
                <5> QED
                    BY <1>1, <5>1, <5>2 DEF SentInOrder
            <4>2. about'[p] = Len(out) + (Len(sendQueue) + 1)
                <5>1. about'[p] = n
                    BY <1>1, <1>2, <2>1 DEF PoolOK
                <5> QED
                    BY <1>1, <5>1 DEF SentInOrder, PoolOK, OutOK, n
            <4> QED
                BY <2>2, <4>1, <4>2
        <3>3. said' = Len(out) + Len(sendQueue')
            BY <1>1, <2>1, <2>2, SMT DEF SentInOrder, PoolOK, OutOK
        <3> QED
            BY <1>1, <3>2, <3>3 DEF SentInOrder
    <2> QED
        BY <1>5, <2>3, <2>4, <2>5 DEF SendInv
<1>7. CASE ~(Len(sendQueue) < SendCap)
    <2>1. /\ about' = [about EXCEPT ![p] = 0] /\ sendQueue' = sendQueue
          /\ refused' = refused \cup {p} /\ said' = said
        BY <1>7 DEF Say
    <2>2. PoolOK'
        BY <1>1, <1>2, <1>4, <2>1, SMT DEF PoolOK
    <2>3. Apart'
        <3> HIDE DEF p, n
        <3>1. /\ \A i \in DOMAIN sendFree' : sendFree'[i] \notin refused'
              /\ \A j \in DOMAIN sendQueue : sendQueue[j] \notin refused'
            BY <1>1, <1>a, <2>1 DEF Apart
        <3>2. \A q \in Packets : \/ q \in refused'
                                 \/ \E i \in DOMAIN sendFree' : sendFree'[i] = q
                                 \/ \E j \in DOMAIN sendQueue : sendQueue[j] = q
            BY <1>d, <2>1
        <3>3. Distinct(sendQueue)
            BY <1>1 DEF Apart
        <3> QED
            BY <1>b, <1>c, <2>1, <3>1, <3>2, <3>3, Zenon DEF Apart
    <2>4. SentInOrder'
        <3>1. \A j \in DOMAIN sendQueue : sendQueue[j] \in Packets
            BY <1>1 DEF PoolOK
        <3> HIDE DEF p
        <3> QED
            BY <1>1, <1>2, <1>a, <2>1, <3>1, SMT DEF SentInOrder, PoolOK
    <2> QED
        BY <1>5, <2>2, <2>3, <2>4 DEF SendInv
<1> QED
    BY <1>6, <1>7

\* The head of the queue goes to the kernel and its packet back to the pool.
LEMMA SendDataInv ==
    ASSUME SendInv, SendData PROVE SendInv'
<1> DEFINE p == Head(sendQueue)
<1>1. PoolOK /\ OutOK /\ Apart /\ SentInOrder
    BY DEF SendInv
<1>2. PICK whole \in BOOLEAN :
        /\ out' = Append(out, [about |-> about[p], text |-> text[p], whole |-> whole])
        /\ text' = [text EXCEPT ![p] = text[p]]
        /\ sendFree' = Append(sendFree, p)
    BY Zenon DEF SendData, TextOfFreed
<1> DEFINE e == [about |-> about[p], text |-> text[p], whole |-> whole]
<1>3. /\ sendQueue # <<>> /\ sendQueue' = Tail(sendQueue)
      /\ about' = about /\ refused' = refused /\ said' = said
    BY DEF SendData, BehindHead
<1>4. sendQueue \in Seq(Packets) /\ sendFree \in Seq(Packets) /\ p \in Packets
    BY <1>1, <1>3 DEF PoolOK
<1>5. /\ 1 \in DOMAIN sendQueue /\ p = sendQueue[1]
      /\ sendQueue' \in Seq(Packets) /\ Len(sendQueue') = Len(sendQueue) - 1
      /\ \A i \in DOMAIN sendQueue' : i + 1 \in DOMAIN sendQueue /\ i + 1 # 1
                                     /\ sendQueue'[i] = sendQueue[i + 1]
      /\ \A i \in DOMAIN sendQueue :
            i = 1 \/ (i - 1 \in DOMAIN sendQueue' /\ sendQueue[i] = sendQueue'[i - 1])
    <2> DEFINE rest == Tail(sendQueue)
    <2>1. /\ Head(sendQueue) = sendQueue[1] /\ 1 \in DOMAIN sendQueue
          /\ rest \in Seq(Packets) /\ Len(rest) = Len(sendQueue) - 1
          /\ \A i \in DOMAIN rest : i + 1 \in DOMAIN sendQueue /\ i + 1 # 1
                                  /\ rest[i] = sendQueue[i + 1]
          /\ \A i \in DOMAIN sendQueue :
                i = 1 \/ (i - 1 \in DOMAIN rest /\ sendQueue[i] = rest[i - 1])
        BY <1>3, <1>4, BehindHeadIs, Zenon
    <2>2. p = sendQueue[1] /\ sendQueue' = rest
        BY <1>3, <2>1
    <2> HIDE DEF p, rest
    <2> QED
        BY <2>1, <2>2
<1>6. /\ sendFree' \in Seq(Packets)
      /\ \A j \in DOMAIN sendFree : j \in DOMAIN sendFree' /\ sendFree'[j] = sendFree[j]
      /\ Len(sendFree) + 1 \in DOMAIN sendFree' /\ sendFree'[Len(sendFree) + 1] = p
      /\ \A j \in DOMAIN sendFree' : j \in DOMAIN sendFree \/ j = Len(sendFree) + 1
    <2> HIDE DEF p
    <2> QED
        BY <1>2, <1>4, AppendedIs
<1>7. Len(out) \in Nat /\ Len(sendQueue) \in Nat \ {0} /\ about[p] = Len(out) + 1
    <2>1. Len(out) \in Nat /\ Len(sendQueue) \in Nat \ {0}
        BY <1>1, <1>3, <1>4 DEF OutOK
    <2>2. about[sendQueue[1]] = Len(out) + 1
        BY <1>1, <1>5 DEF SentInOrder
    <2> HIDE DEF p
    <2> QED
        BY <1>5, <2>1, <2>2
<1>8. e \in [about : 1 .. MaxSend, text : Seq(1 .. MaxSend), whole : BOOLEAN]
    <2>1. about[p] \in 1 .. MaxSend /\ text[p] \in Seq(1 .. MaxSend)
        BY <1>1, <1>4, <1>7 DEF PoolOK
    <2> HIDE DEF p
    <2> QED
        BY <2>1
<1>9. /\ out' \in Seq([about : 1 .. MaxSend, text : Seq(1 .. MaxSend), whole : BOOLEAN])
      /\ Len(out') = Len(out) + 1
      /\ \A j \in DOMAIN out : j \in DOMAIN out' /\ out'[j] = out[j]
      /\ Len(out) + 1 \in DOMAIN out' /\ out'[Len(out) + 1] = e
      /\ \A j \in DOMAIN out' : j \in DOMAIN out \/ j = Len(out) + 1
    <2>1. out' = Append(out, e)
        BY <1>2
    <2> HIDE DEF e
    <2> QED
        BY <1>1, <1>8, <2>1, AppendedIs DEF OutOK
<1>10. PoolOK' /\ OutOK'
    <2>1. text' = text
        BY <1>1, <1>2 DEF PoolOK
    <2>2. Len(sendQueue') <= SendCap
        BY <1>1, <1>5, <1>7 DEF PoolOK
    <2> HIDE DEF p
    <2> QED
        BY <1>1, <1>3, <1>5, <1>6, <1>9, <2>1, <2>2 DEF PoolOK, OutOK
<1>11. Apart'
    <2> HIDE DEF p, e
    <2>1. \A i \in DOMAIN sendFree : sendFree[i] # p
        BY <1>1, <1>5, Zenon DEF Apart
    <2>2. \A i \in DOMAIN sendQueue' : sendQueue'[i] # p
        <3>1. \A i \in DOMAIN sendQueue' : sendQueue[i + 1] # sendQueue[1]
            BY <1>1, <1>5, Zenon DEF Apart, Distinct
        <3> QED
            BY <1>5, <3>1, Zenon
    <2>3. Distinct(sendFree')
        BY <1>1, <1>6, <2>1 DEF Apart, Distinct
    <2>4. Distinct(sendQueue')
        BY <1>1, <1>4, <1>5 DEF Apart, Distinct
    <2>5. \A i \in DOMAIN sendFree', j \in DOMAIN sendQueue' : sendFree'[i] # sendQueue'[j]
        BY <1>1, <1>5, <1>6, <2>2 DEF Apart
    <2>6. /\ \A i \in DOMAIN sendFree' : sendFree'[i] \notin refused
          /\ \A j \in DOMAIN sendQueue' : sendQueue'[j] \notin refused
        <3>1. p \notin refused
            BY <1>1, <1>5, Zenon DEF Apart
        <3> QED
            BY <1>1, <1>5, <1>6, <3>1 DEF Apart
    <2>7. ASSUME NEW q \in Packets
          PROVE  \/ q \in refused
                 \/ \E i \in DOMAIN sendFree' : sendFree'[i] = q
                 \/ \E j \in DOMAIN sendQueue' : sendQueue'[j] = q
        <3>1. CASE \E i \in DOMAIN sendFree : sendFree[i] = q
            BY <1>6, <3>1, Zenon
        <3>2. CASE \E j \in DOMAIN sendQueue : sendQueue[j] = q
            <4>1. PICK j \in DOMAIN sendQueue : sendQueue[j] = q
                BY <3>2
            <4>2. CASE j = 1
                BY <1>5, <1>6, <4>1, <4>2
            <4>3. CASE j - 1 \in DOMAIN sendQueue' /\ sendQueue[j] = sendQueue'[j - 1]
                BY <4>1, <4>3, Zenon
            <4> QED
                BY <1>5, <4>2, <4>3, Zenon
        <3> QED
            BY <1>1, <3>1, <3>2, Zenon DEF Apart
    <2> QED
        BY <1>3, <2>3, <2>4, <2>5, <2>6, <2>7, Zenon DEF Apart
<1>12. SentInOrder'
    <2>1. \A i \in DOMAIN out' : out'[i].about = i
        <3>1. out'[Len(out) + 1].about = Len(out) + 1
            BY <1>7, <1>9
        <3> HIDE DEF e, p
        <3> QED
            BY <1>1, <1>9, <3>1 DEF SentInOrder
    <2>2. \A i \in DOMAIN sendQueue' : about'[sendQueue'[i]] = Len(out') + i
        <3> HIDE DEF e, p
        <3> TAKE i \in DOMAIN sendQueue'
        <3>1. about[sendQueue[i + 1]] = Len(out) + (i + 1) /\ i \in Nat
            BY <1>1, <1>5 DEF SentInOrder
        <3> QED
            BY <1>3, <1>5, <1>7, <1>9, <3>1
    <2>3. said' = Len(out') + Len(sendQueue')
        <3> HIDE DEF e, p
        <3> QED
            BY <1>1, <1>3, <1>5, <1>7, <1>9 DEF SentInOrder
    <2> QED
        BY <2>1, <2>2, <2>3 DEF SentInOrder
<1> QED
    BY <1>10, <1>11, <1>12 DEF SendInv

\* The main thread gives a packet back.
LEMMA MainTakeRecv ==
    ASSUME RecvInv, MainTake PROVE RecvInv'
<1>1. /\ recvQueue # <<>> /\ recvQueue' = Tail(recvQueue) /\ recvFree' = recvFree + 1
      /\ recvLost' = recvLost /\ heard' = Head(recvQueue)[Len(Head(recvQueue))]
    BY DEF MainTake, Freed
<1>2. recvQueue \in Seq(Seq(Halves)) /\ Len(recvQueue) \in Nat \ {0} /\ 1 \in DOMAIN recvQueue
    BY <1>1 DEF RecvInv, RecvOK
<1>3. /\ Head(recvQueue) = recvQueue[1] /\ Head(recvQueue) \in Seq(Halves)
      /\ Tail(recvQueue) \in Seq(Seq(Halves)) /\ Len(Tail(recvQueue)) = Len(recvQueue) - 1
      /\ \A i \in DOMAIN Tail(recvQueue) :
            i + 1 \in DOMAIN recvQueue /\ Tail(recvQueue)[i] = recvQueue[i + 1]
    BY <1>1, <1>2, BehindHeadIs, Zenon
<1>4. heard' \in Halves
    <2> DEFINE f == Head(recvQueue)
    <2>1. f # <<>>
        BY <1>2, <1>3 DEF RecvInv, NotEmpty
    <2>2. f \in Seq(Halves) /\ heard' = f[Len(f)]
        BY <1>1, <1>3
    <2> HIDE DEF f
    <2> QED
        BY <2>1, <2>2
<1>5. RecvOK' /\ Counted'
    <2>1. /\ recvFree \in 0 .. RecvPool /\ recvLost \in 0 .. RecvPool
          /\ Len(recvQueue) <= RecvCap /\ recvFree + Len(recvQueue) + recvLost = RecvPool
        BY DEF RecvInv, RecvOK, Counted
    <2>2. /\ recvFree' \in 0 .. RecvPool /\ Len(recvQueue') <= RecvCap
          /\ recvFree' + Len(recvQueue') + recvLost' = RecvPool
        BY <1>1, <1>2, <1>3, <2>1
    <2> QED
        BY <1>1, <1>3, <1>4, <2>1, <2>2 DEF RecvOK, Counted
<1>6. NotEmpty'
    <2> DEFINE rest == Tail(recvQueue)
    <2>1. recvQueue' = rest /\ \A i \in DOMAIN rest : rest[i] # <<>>
        BY <1>1, <1>3 DEF RecvInv, NotEmpty
    <2> HIDE DEF rest
    <2> QED
        BY <2>1 DEF NotEmpty
<1> QED
    BY <1>5, <1>6 DEF RecvInv

-----------------------------------------------------------------------------
(* One lemma for each step.                                                  *)

\* What a frame and an announcement are made of.
LEMMA AnnouncementIs ==
    ASSUME LinkOK PROVE Announcement(links + 1) \in Seq(Halves) /\ Announcement(links + 1) # <<>>
BY DEF LinkOK, Announcement, Half, Halves

LEMMA ReConnectInv ==
    ASSUME IInv, ReConnect PROVE IInv'
<1>1. LinkOK /\ BytesOK /\ RecvInv /\ SendInv /\ MainOK
    BY Split
<1>2. LinkOK'
    <2>1. /\ link' = links + 1 /\ links' = links + 1 /\ broken' = FALSE
          /\ UNCHANGED <<at, leaked, breaks, fails, tainted, sendable>>
        BY DEF ReConnect
    <2>2. broken' \in BOOLEAN
        BY <2>1, Zenon
    <2> QED
        BY <1>1, <2>1, <2>2 DEF LinkOK
<1>3. BytesOK' /\ SendInv' /\ MainOK'
    BY <1>1, BytesStay, SendStays DEF ReConnect, MainOK
<1>4. RecvInv'
    <2>1. CASE recvFree = 0
        BY <1>1, <2>1, RecvStays DEF ReConnect
    <2>2. CASE recvFree # 0
        <3>1. recvFree > 0
            BY <1>1, <2>2 DEF RecvInv, RecvOK
        <3>2. recvFree' = recvFree - 1 /\ Receive(Announcement(links + 1)) /\ UNCHANGED heard
            BY <2>2 DEF ReConnect
        <3> QED
            BY <1>1, <3>1, <3>2, AnnouncementIs, ReceiveInv
    <2> QED
        BY <2>1, <2>2
<1> QED
    BY <1>2, <1>3, <1>4, SplitNext

LEMMA ReConnectFailsInv ==
    ASSUME IInv, ReConnectFails PROVE IInv'
<1>1. LinkOK /\ BytesOK /\ RecvInv /\ SendInv /\ MainOK
    BY Split
<1>2. LinkOK'
    BY <1>1 DEF LinkOK, ReConnectFails, LeftOpen
<1>3. BytesOK' /\ RecvInv' /\ SendInv' /\ MainOK'
    BY <1>1, BytesStay, RecvStays, SendStays DEF ReConnectFails, MainOK
<1> QED
    BY <1>2, <1>3, SplitNext

\* Any part of what is on its way arrives.
LEMMA FirstPart ==
    ASSUME NEW S, NEW s \in Seq(S), NEW n \in 0 .. Len(s)
    PROVE  SubSeq(s, 1, n) \in Seq(S) /\ SubSeq(s, n + 1, Len(s)) \in Seq(S)
OBVIOUS

LEMMA LinkBreaksInv ==
    ASSUME IInv, LinkBreaks PROVE IInv'
<1>1. LinkOK /\ BytesOK /\ RecvInv /\ SendInv /\ MainOK
    BY Split
<1>2. LinkOK'
    <2>1. /\ broken' = TRUE /\ breaks' = breaks + 1 /\ breaks < MaxBreaks
          /\ UNCHANGED <<at, link, links, leaked, fails, tainted, sendable>>
        BY DEF LinkBreaks
    <2>2. broken' \in BOOLEAN
        BY <2>1, Zenon
    <2> QED
        BY <1>1, <2>1, <2>2 DEF LinkOK
<1>3. BytesOK'
    <2>1. PICK n \in 0 .. Len(net) : net' = SubSeq(net, 1, n)
        BY DEF LinkBreaks
    <2>2. net' \in Seq(Halves)
        BY <1>1, <2>1, FirstPart DEF BytesOK
    <2> QED
        BY <1>1, <2>2 DEF BytesOK, LinkBreaks
<1>4. RecvInv' /\ SendInv' /\ MainOK'
    BY <1>1, RecvStays, SendStays DEF LinkBreaks, MainOK
<1> QED
    BY <1>2, <1>3, <1>4, SplitNext

LEMMA PeerSendsInv ==
    ASSUME IInv, PeerSends PROVE IInv'
<1>1. LinkOK /\ BytesOK /\ RecvInv /\ SendInv /\ MainOK
    BY Split
<1>2. LinkOK' /\ RecvInv' /\ SendInv' /\ MainOK'
    BY <1>1, RecvStays, SendStays DEF PeerSends, MainOK, LinkOK, linkVars
<1>3. BytesOK'
    <2>1. Frame(link, peerSent + 1) \in Seq(Halves)
        BY <1>1 DEF PeerSends, Frame, Half, Halves, LinkOK, BytesOK
    <2> QED
        BY <1>1, <2>1 DEF PeerSends, BytesOK
<1> QED
    BY <1>2, <1>3, SplitNext

LEMMA SelectFailsInv ==
    ASSUME IInv, SelectFails PROVE IInv'
<1>1. LinkOK /\ BytesOK /\ RecvInv /\ SendInv /\ MainOK
    BY Split
<1>2. LinkOK'
    BY <1>1 DEF LinkOK, SelectFails
<1>3. BytesOK' /\ RecvInv' /\ SendInv' /\ MainOK'
    BY <1>1, BytesStay, RecvStays, SendStays DEF SelectFails, MainOK
<1> QED
    BY <1>2, <1>3, SplitNext

LEMMA OnRecvInv ==
    ASSUME IInv, OnRecv PROVE IInv'
<1>1. LinkOK /\ BytesOK /\ RecvInv /\ SendInv /\ MainOK
    BY Split
<1>2. LinkOK' /\ RecvInv' /\ SendInv' /\ MainOK'
    BY <1>1, RecvStays, SendStays DEF OnRecv, MainOK, LinkOK, linkVars
<1>3. BytesOK'
    <2>1. PICK n \in 1 .. Len(net) : /\ buf' = buf \o SubSeq(net, 1, n)
                                    /\ net' = SubSeq(net, n + 1, Len(net))
        BY DEF OnRecv
    <2>2. SubSeq(net, 1, n) \in Seq(Halves) /\ net' \in Seq(Halves)
        BY <1>1, <2>1, FirstPart DEF BytesOK
    <2>3. buf' \in Seq(Halves)
        BY <1>1, <2>1, <2>2 DEF BytesOK
    <2>4. parsed' = 0 /\ peerSent' = peerSent
        BY DEF OnRecv
    <2> QED
        BY <1>1, <2>2, <2>3, <2>4 DEF BytesOK
<1> QED
    BY <1>2, <1>3, SplitNext

LEMMA OnRecvEndsInv ==
    ASSUME IInv, OnRecvEnds PROVE IInv'
<1>1. LinkOK /\ BytesOK /\ RecvInv /\ SendInv /\ MainOK
    BY Split
<1>2. RecvInv' /\ SendInv' /\ MainOK'
    BY <1>1, RecvStays, SendStays DEF OnRecvEnds, MainOK
<1>3. at' \in {"loop", "parse", "dead"} /\ parsed' \in 0 .. Len(buf)
    BY <1>1 DEF OnRecvEnds, LinkOK, BytesOK
<1>4. LinkOK' /\ BytesOK'
    BY <1>1, <1>3, DisconnectInv DEF OnRecvEnds
<1> QED
    BY <1>2, <1>4, SplitNext

\* What is not parsed yet.
LEMMA UnparsedIs ==
    ASSUME BytesOK PROVE Unparsed \in Seq(Halves) /\ Len(Unparsed) = Len(buf) - parsed
<1>1. buf \in Seq(Halves) /\ parsed \in 0 .. Len(buf)
    BY DEF BytesOK
<1> QED
    BY <1>1 DEF Unparsed

LEMMA ParseFrameInv ==
    ASSUME IInv, ParseFrame PROVE IInv'
<1>1. LinkOK /\ BytesOK /\ RecvInv /\ SendInv /\ MainOK
    BY Split
<1>2. LinkOK' /\ SendInv' /\ MainOK'
    BY <1>1, SendStays DEF ParseFrame, MainOK, LinkOK, linkVars
<1>3. PICK n \in Lengths : /\ n <= Len(Unparsed) /\ Receive(SubSeq(Unparsed, 1, n))
                           /\ parsed' = parsed + n
    BY DEF ParseFrame
<1>4. n \in {1, 2, 3} /\ Unparsed \in Seq(Halves) /\ Len(Unparsed) = Len(buf) - parsed
    BY <1>1, UnparsedIs DEF Lengths
<1>5. SubSeq(Unparsed, 1, n) \in Seq(Halves) /\ SubSeq(Unparsed, 1, n) # <<>>
    <2>1. n \in 0 .. Len(Unparsed) /\ n > 0 /\ Len(Unparsed) \in Nat
        BY <1>3, <1>4
    <2> QED
        BY <1>4, <2>1
<1>6. RecvInv'
    <2>1. recvFree > 0 /\ recvFree' = recvFree - 1 /\ UNCHANGED heard
        BY DEF ParseFrame
    <2> QED
        BY <1>1, <1>3, <1>5, <2>1, ReceiveInv
<1>7. BytesOK'
    BY <1>1, <1>3, <1>4 DEF BytesOK, ParseFrame
<1> QED
    BY <1>2, <1>6, <1>7, SplitNext

LEMMA ParseFailsInv ==
    ASSUME IInv, ParseFails PROVE IInv'
<1>1. LinkOK /\ BytesOK /\ RecvInv /\ SendInv /\ MainOK
    BY Split
<1>2. RecvInv' /\ SendInv' /\ MainOK'
    BY <1>1, RecvStays, SendStays DEF ParseFails, MainOK
<1>3. at' \in {"loop", "parse", "dead"} /\ parsed' \in 0 .. Len(buf)
    BY <1>1 DEF ParseFails, BytesOK
<1>4. LinkOK' /\ BytesOK'
    BY <1>1, <1>3, DisconnectInv DEF ParseFails
<1> QED
    BY <1>2, <1>4, SplitNext

LEMMA ParseEndsInv ==
    ASSUME IInv, ParseEnds PROVE IInv'
<1>1. LinkOK /\ BytesOK /\ RecvInv /\ SendInv /\ MainOK
    BY Split
<1>2. LinkOK' /\ RecvInv' /\ SendInv' /\ MainOK'
    BY <1>1, RecvStays, SendStays DEF ParseEnds, MainOK, LinkOK, linkVars
<1>3. BytesOK'
    <2>1. buf' \in Seq(Halves) /\ parsed' = 0 /\ net' = net /\ peerSent' = peerSent
        BY <1>1, UnparsedIs DEF ParseEnds, LeftBehindFrames
    <2> QED
        BY <1>1, <2>1 DEF BytesOK
<1> QED
    BY <1>2, <1>3, SplitNext

LEMMA OnSendInv ==
    ASSUME IInv, OnSend PROVE IInv'
<1>1. LinkOK /\ BytesOK /\ RecvInv /\ SendInv /\ MainOK
    BY Split
<1>2. sendable' \in BOOLEAN
    BY Zenon DEF OnSend
<1>3. LinkOK'
    BY <1>1, <1>2 DEF LinkOK, OnSend, linkVars
<1>4. BytesOK' /\ RecvInv' /\ SendInv' /\ MainOK'
    BY <1>1, BytesStay, RecvStays, SendStays DEF OnSend, MainOK
<1> QED
    BY <1>3, <1>4, SplitNext

LEMMA SendDataStep ==
    ASSUME IInv, SendData PROVE IInv'
<1>1. LinkOK /\ BytesOK /\ RecvInv /\ SendInv /\ MainOK
    BY Split
<1>2. UNCHANGED <<at, linkVars, sendable, recvVars, recvPackets, heard, main>>
    BY DEF SendData
<1>3. LinkOK' /\ BytesOK' /\ RecvInv' /\ MainOK'
    BY <1>1, <1>2, BytesStay, RecvStays DEF MainOK, LinkOK, linkVars
<1>4. SendInv'
    BY <1>1, SendDataInv
<1> QED
    BY <1>3, <1>4, SplitNext

LEMMA SendDataBlocksInv ==
    ASSUME IInv, SendDataBlocks PROVE IInv'
<1>1. LinkOK /\ BytesOK /\ RecvInv /\ SendInv /\ MainOK
    BY Split
<1>2. sendable' \in BOOLEAN
    BY Zenon DEF SendDataBlocks
<1>3. LinkOK'
    BY <1>1, <1>2 DEF LinkOK, SendDataBlocks
<1>4. BytesOK' /\ RecvInv' /\ SendInv' /\ MainOK'
    BY <1>1, BytesStay, RecvStays, SendStays DEF SendDataBlocks, MainOK
<1> QED
    BY <1>3, <1>4, SplitNext

LEMMA SendDataFailsInv ==
    ASSUME IInv, SendDataFails PROVE IInv'
<1>1. LinkOK /\ BytesOK /\ RecvInv /\ SendInv /\ MainOK
    BY Split
<1>2. RecvInv' /\ SendInv' /\ MainOK'
    BY <1>1, RecvStays, SendStays DEF SendDataFails, MainOK, LookedUp, sendVars
<1>3. at' \in {"loop", "parse", "dead"} /\ parsed' \in 0 .. Len(buf)
    BY <1>1 DEF SendDataFails, LinkOK, BytesOK
<1>4. LinkOK' /\ BytesOK'
    BY <1>1, <1>3, DisconnectInv DEF SendDataFails
<1> QED
    BY <1>2, <1>4, SplitNext

LEMMA MainTakeInv ==
    ASSUME IInv, MainTake PROVE IInv'
<1>1. LinkOK /\ BytesOK /\ RecvInv /\ SendInv /\ MainOK
    BY Split
<1>2. UNCHANGED <<at, linkVars, sendable, recvVars, out, main>>
    BY DEF MainTake
<1>3. LinkOK' /\ BytesOK' /\ MainOK'
    BY <1>1, <1>2, BytesStay DEF MainOK, LinkOK, linkVars
<1>4. RecvInv'
    BY <1>1, MainTakeRecv
<1>5. SendInv'
    <2>1. CASE sendFree # <<>> /\ said < MaxSend /\ Say
        BY <1>1, <1>2, <2>1, SayInv
    <2>2. CASE UNCHANGED sendVars
        BY <1>1, <1>2, <2>2, SendStays
    <2> QED
        BY <2>1, <2>2, Zenon DEF MainTake
<1> QED
    BY <1>3, <1>4, <1>5, SplitNext

LEMMA MainCountsInv ==
    ASSUME IInv, MainCounts PROVE IInv'
<1>1. LinkOK /\ BytesOK /\ RecvInv /\ SendInv /\ MainOK
    BY Split
<1>2. UNCHANGED <<at, linkVars, sendable, recvVars, recvPackets, out, heard>>
    BY DEF MainCounts
<1>3. LinkOK' /\ BytesOK' /\ RecvInv'
    BY <1>1, <1>2, BytesStay, RecvStays DEF LinkOK, linkVars
<1>4. CASE sendFree = <<>>
    <2>1. main' = "crashed" /\ UNCHANGED sendVars
        BY <1>4 DEF MainCounts
    <2> QED
        BY <1>1, <1>2, <1>3, <2>1, SendStays, SplitNext DEF MainOK
<1>5. CASE sendFree # <<>>
    <2>1. Say /\ main' = main /\ said < MaxSend
        BY <1>5 DEF MainCounts
    <2> QED
        BY <1>1, <1>2, <1>3, <1>5, <2>1, SayInv, SplitNext DEF MainOK
<1> QED
    BY <1>4, <1>5

-----------------------------------------------------------------------------
(* The invariant holds in every state.                                       *)
THEOREM Invariance == Spec => []IInv
<1>1. IInv /\ [Next]_vars => IInv'
    <2> SUFFICES ASSUME IInv, [Next]_vars PROVE IInv'
        OBVIOUS
    <2>1. CASE UNCHANGED vars
        <3>1. LinkOK /\ BytesOK /\ RecvInv /\ SendInv /\ MainOK
            BY Split
        <3>2. BytesOK' /\ RecvInv' /\ SendInv' /\ MainOK'
            BY <2>1, <3>1, BytesStay, RecvStays, SendStays DEF vars, MainOK
        <3>3. LinkOK'
            BY <2>1, <3>1 DEF vars, linkVars, LinkOK
        <3> QED
            BY <3>2, <3>3, SplitNext
    <2>2. CASE ConnectorThread
        BY <2>2, OnRecvInv, OnRecvEndsInv, ParseFrameInv, ParseFailsInv, ParseEndsInv, OnSendInv,
           SendDataStep, SendDataFailsInv, Zenon DEF ConnectorThread
    <2> QED
        BY <2>1, <2>2, ReConnectInv, ReConnectFailsInv, LinkBreaksInv, PeerSendsInv,
           SelectFailsInv, SendDataBlocksInv, MainTakeInv, MainCountsInv, Zenon DEF Next
<1> QED
    BY InitInv, <1>1, PTL DEF Spec

(* The variables keep their types and no queue holds more than it may,       *)
(* whatever the capacities and the number of packets.                        *)
THEOREM TypeCorrect == Spec => []TypeOK
<1>1. IInv => TypeOK
    BY DEF IInv
<1> QED
    BY Invariance, <1>1, PTL

(* Over all connections, the kernel is given the messages the queue took one *)
(* after another, each once, and those that wait are the ones behind them.   *)
THEOREM MessagesInOrder == Spec => []SentInOrder
<1>1. IInv => SentInOrder
    BY DEF IInv
<1> QED
    BY Invariance, <1>1, PTL

\* Two sequences without a common element and without repetitions, one behind the other.
LEMMA OneBehindTheOther ==
    ASSUME NEW s \in Seq(Packets), NEW t \in Seq(Packets), Distinct(s), Distinct(t),
           \A i \in DOMAIN s, j \in DOMAIN t : s[i] # t[j]
    PROVE  /\ Distinct(s \o t)
           /\ Members(s \o t) = Members(s) \cup Members(t)
<1>1. /\ Len(s) \in Nat /\ Len(t) \in Nat /\ DOMAIN s = 1 .. Len(s) /\ DOMAIN t = 1 .. Len(t)
      /\ DOMAIN (s \o t) = 1 .. Len(s) + Len(t)
    OBVIOUS
<1>2. /\ \A i \in 1 .. Len(s) : (s \o t)[i] = s[i]
      /\ \A i \in Len(s) + 1 .. Len(s) + Len(t) : (s \o t)[i] = t[i - Len(s)]
    BY <1>1
<1>3. \A j \in DOMAIN t : (s \o t)[Len(s) + j] = t[j] /\ Len(s) + j \in DOMAIN (s \o t)
    BY <1>1
<1> DEFINE st == s \o t
<1>4. \A i \in DOMAIN st : \/ i \in DOMAIN s /\ st[i] = s[i]
                           \/ i - Len(s) \in DOMAIN t /\ st[i] = t[i - Len(s)]
    <2> SUFFICES ASSUME NEW i \in DOMAIN st
                 PROVE  \/ i \in DOMAIN s /\ st[i] = s[i]
                        \/ i - Len(s) \in DOMAIN t /\ st[i] = t[i - Len(s)]
        OBVIOUS
    <2>1. i \in 1 .. Len(s) \/ (i \in Len(s) + 1 .. Len(s) + Len(t) /\ i - Len(s) \in 1 .. Len(t))
        BY <1>1
    <2> HIDE DEF st
    <2> QED
        BY <1>1, <1>2, <2>1 DEF st
<1>5. \A i \in DOMAIN s : i \in DOMAIN st /\ st[i] = s[i]
    BY <1>1, <1>2
<1>6. Distinct(st)
    <2> HIDE DEF st
    <2> SUFFICES ASSUME NEW i \in DOMAIN st, NEW j \in DOMAIN st, st[i] = st[j] PROVE i = j
        BY DEF Distinct
    <2>1. CASE i \in DOMAIN s /\ st[i] = s[i] /\ j \in DOMAIN s /\ st[j] = s[j]
        BY <2>1 DEF Distinct
    <2>2. CASE /\ i - Len(s) \in DOMAIN t /\ st[i] = t[i - Len(s)]
               /\ j - Len(s) \in DOMAIN t /\ st[j] = t[j - Len(s)]
        <3>1. i - Len(s) = j - Len(s)
            BY <2>2 DEF Distinct
        <3> QED
            BY <1>1, <3>1 DEF st
    <2> QED
        BY <1>4, <2>1, <2>2
<1>7. Members(st) = Members(s) \cup Members(t)
    <2>1. ASSUME NEW x \in Members(st) PROVE x \in Members(s) \cup Members(t)
        BY <1>4, Zenon DEF Members
    <2>2. ASSUME NEW x \in Members(s) PROVE x \in Members(st)
        BY <1>5, Zenon DEF Members
    <2>3. ASSUME NEW x \in Members(t) PROVE x \in Members(st)
        BY <1>3, Zenon DEF Members
    <2> HIDE DEF st
    <2> QED
        BY <2>1, <2>2, <2>3
<1> QED
    BY <1>6, <1>7

(* A packet for sending is in the pool, in the queue or forgotten, once, and *)
(* the pool for receiving loses a packet with every one the full queue       *)
(* refuses and never otherwise: no packet is freed twice.                    *)
THEOREM PacketsStay == Spec => []PacketsKept
<1>1. IInv => PacketsKept
    <2> SUFFICES ASSUME IInv PROVE PacketsKept
        OBVIOUS
    <2> DEFINE all == sendFree \o sendQueue
    <2>1. PoolOK /\ Apart /\ Counted
        BY Split DEF SendInv, RecvInv
    <2>2. Distinct(all) /\ Members(all) = Members(sendFree) \cup Members(sendQueue)
        BY <2>1, OneBehindTheOther DEF PoolOK, Apart
    <2>3. (Members(sendFree) \cup Members(sendQueue)) \cap refused = {}
        BY <2>1 DEF Apart, Members
    <2>4. Members(sendFree) \cup Members(sendQueue) \cup refused = Packets
        <3>1. Members(sendFree) \subseteq Packets /\ Members(sendQueue) \subseteq Packets
            BY <2>1 DEF PoolOK, Members
        <3>2. refused \subseteq Packets
            BY <2>1 DEF PoolOK
        <3>3. \A q \in Packets : q \in refused \/ q \in Members(sendFree) \/ q \in Members(sendQueue)
            BY <2>1, Zenon DEF Apart, Members
        <3> QED
            BY <3>1, <3>2, <3>3
    <2> HIDE DEF all
    <2>5. (\A i, j \in DOMAIN all : all[i] = all[j] => i = j) /\ Members(all) \cap refused = {}
          /\ Members(all) \cup refused = Packets
        BY <2>2, <2>3, <2>4 DEF Distinct
    <2> QED
        BY <2>1, <2>5 DEF PacketsKept, Counted, all
<1> QED
    BY Invariance, <1>1, PTL

-----------------------------------------------------------------------------
(* The packets the main thread is given, as long as no connection was lost   *)
(* with bytes in the buffer.                                                 *)

\* What is read and not parsed, and what is on its way: the halves of the frames of
\* connection k one behind the other, from the beginning of one to frame m at most.
Stream == Unparsed \o net
Goes(g, h) == IF g.h = 1 THEN h.h = 2 /\ h.n = g.n ELSE h.h = 1 /\ h.n = g.n + 1
Flows(s, k, m) ==
    /\ s # <<>> => s[1].h = 1
    /\ \A i \in DOMAIN s : s[i].k = k /\ s[i].n \in 1 .. m
    /\ \A i \in DOMAIN s : i + 1 \in DOMAIN s => Goes(s[i], s[i + 1])

LinkWhole == link \in {0, links} /\ (at # "parse" => parsed = 0)

StreamWhole ==
    /\ link = 0 => buf = <<>> /\ net = <<>>
    /\ Flows(Stream, link, peerSent)
    /\ ~broken /\ Stream # <<>> => Stream[Len(Stream)] = Half(link, peerSent, 2)

\* The heads of the packets that were taken, or wait to be
Told == {heard} \cup {Head(recvQueue[i]) : i \in DOMAIN recvQueue}

GivenWhole ==
    /\ \A i \in DOMAIN recvQueue : \E k \in Nat, n \in 0 .. MaxPeer :
            recvQueue[i] = IF n = 0 THEN Announcement(k) ELSE Frame(k, n)
    /\ \A i, j \in DOMAIN recvQueue : j < i => Behind(Head(recvQueue[j]), Head(recvQueue[i]))
    /\ \A i \in DOMAIN recvQueue : Behind(heard, Head(recvQueue[i]))
    /\ \A h \in Told : h.k <= links /\ h.n <= peerSent

\* What comes next is behind all that was given.
Ahead == Stream # <<>> => \A h \in Told : Behind(h, Stream[1])

Whole == LinkWhole /\ (~tainted => StreamWhole /\ GivenWhole /\ Ahead)

\* The stream, half by half
LEMMA StreamIs ==
    ASSUME NEW b \in Seq(Halves), NEW t \in Seq(Halves), NEW p \in 0 .. Len(b)
    PROVE  LET s == SubSeq(b, p + 1, Len(b)) \o t
           IN /\ s \in Seq(Halves) /\ Len(s) = (Len(b) - p) + Len(t) /\ DOMAIN s = 1 .. Len(s)
              /\ \A i \in 1 .. Len(s) : s[i] = IF i <= Len(b) - p THEN b[i + p]
                                                                 ELSE t[i - (Len(b) - p)]
              /\ \A i \in 1 .. Len(s) : s[i] \in Halves
<1> DEFINE u == SubSeq(b, p + 1, Len(b))
<1>1. /\ u \in Seq(Halves) /\ Len(u) = Len(b) - p /\ Len(b) \in Nat /\ p \in Nat /\ Len(t) \in Nat
      /\ Len(b) - p \in Nat
      /\ \A i \in 1 .. Len(b) - p : u[i] = b[i + p]
    OBVIOUS
<1> HIDE DEF u
<1>2. /\ u \o t \in Seq(Halves) /\ Len(u \o t) = Len(u) + Len(t) /\ DOMAIN (u \o t) = 1 .. Len(u \o t)
      /\ \A i \in 1 .. Len(u) + Len(t) : (u \o t)[i] = IF i <= Len(u) THEN u[i] ELSE t[i - Len(u)]
      /\ \A i \in 1 .. Len(u) + Len(t) : (u \o t)[i] \in Halves
    <2>1. /\ u \o t \in Seq(Halves) /\ Len(u \o t) = Len(u) + Len(t)
          /\ \A i \in 1 .. Len(u) + Len(t) : (u \o t)[i] = IF i <= Len(u) THEN u[i] ELSE t[i - Len(u)]
        BY <1>1, ConcatProperties
    <2> DEFINE st == u \o t
    <2> HIDE DEF st
    <2>2. st \in Seq(Halves) /\ Len(st) = Len(u) + Len(t)
        BY <2>1 DEF st
    <2>3. DOMAIN st = 1 .. Len(st) /\ \A i \in 1 .. Len(st) : st[i] \in Halves
        BY <2>2
    <2> QED
        BY <2>1, <2>2, <2>3 DEF st
<1>3. ASSUME NEW i \in 1 .. Len(u) + Len(t)
      PROVE  (u \o t)[i] = IF i <= Len(b) - p THEN b[i + p] ELSE t[i - (Len(b) - p)]
    <2>1. CASE i <= Len(b) - p
        <3>1. i \in 1 .. Len(b) - p
            BY <1>1, <2>1
        <3> QED
            BY <1>1, <1>2, <2>1, <3>1
    <2>2. CASE ~(i <= Len(b) - p)
        BY <1>1, <1>2, <2>2
    <2> QED
        BY <2>1, <2>2
<1> QED
    BY <1>1, <1>2, <1>3 DEF u

LEMMA StreamNow ==
    ASSUME BytesOK
    PROVE  /\ Stream \in Seq(Halves) /\ Len(Stream) = (Len(buf) - parsed) + Len(net)
           /\ DOMAIN Stream = 1 .. Len(Stream)
           /\ \A i \in 1 .. Len(Stream) :
                Stream[i] = IF i <= Len(buf) - parsed THEN buf[i + parsed]
                                                      ELSE net[i - (Len(buf) - parsed)]
           /\ \A i \in 1 .. Len(Stream) : Stream[i] \in Halves
           /\ Len(buf) \in Nat /\ parsed \in Nat /\ Len(net) \in Nat /\ Len(buf) - parsed \in Nat
<1>1. buf \in Seq(Halves) /\ net \in Seq(Halves) /\ parsed \in 0 .. Len(buf)
    BY DEF BytesOK
<1>2. Len(buf) \in Nat /\ parsed \in Nat /\ Len(net) \in Nat /\ Len(buf) - parsed \in Nat
    BY <1>1
<1> QED
    BY <1>1, <1>2, StreamIs DEF Stream, Unparsed

LEMMA StreamNext ==
    ASSUME BytesOK'
    PROVE  /\ Stream' \in Seq(Halves) /\ Len(Stream') = (Len(buf') - parsed') + Len(net')
           /\ DOMAIN Stream' = 1 .. Len(Stream')
           /\ \A i \in 1 .. Len(Stream') :
                Stream'[i] = IF i <= Len(buf') - parsed' THEN buf'[i + parsed']
                                                        ELSE net'[i - (Len(buf') - parsed')]
           /\ \A i \in 1 .. Len(Stream') : Stream'[i] \in Halves
           /\ Len(buf') \in Nat /\ parsed' \in Nat /\ Len(net') \in Nat /\ Len(buf') - parsed' \in Nat
<1>1. buf' \in Seq(Halves) /\ net' \in Seq(Halves) /\ parsed' \in 0 .. Len(buf')
    BY DEF BytesOK
<1>2. Len(buf') \in Nat /\ parsed' \in Nat /\ Len(net') \in Nat /\ Len(buf') - parsed' \in Nat
    BY <1>1
<1> QED
    BY <1>1, <1>2, StreamIs DEF Stream, Unparsed

\* A part of a stream from its beginning, and all of it but for the first frame
LEMMA FlowsOn ==
    ASSUME NEW s \in Seq(Halves), NEW k, NEW m \in Nat, Flows(s, k, m)
    PROVE  /\ \A t \in Seq(Halves) :
                Len(t) <= Len(s) /\ (\A i \in 1 .. Len(t) : t[i] = s[i]) => Flows(t, k, m)
           /\ Len(s) >= 2 => s[1] = Half(k, s[1].n, 1) /\ s[2] = Half(k, s[1].n, 2)
           /\ \A t \in Seq(Halves) :
                Len(s) >= 2 /\ Len(t) = Len(s) - 2 /\ (\A i \in 1 .. Len(t) : t[i] = s[i + 2]) =>
                    /\ Flows(t, k, m)
                    /\ t # <<>> => t[1].k = k /\ t[1].n = s[1].n + 1
<1>1. /\ Len(s) \in Nat /\ DOMAIN s = 1 .. Len(s)
      /\ \A i \in 1 .. Len(s) : s[i] \in Halves /\ s[i].k = k /\ s[i].n \in 1 .. m
    BY DEF Flows
<1>2. ASSUME NEW t \in Seq(Halves), Len(t) <= Len(s), \A i \in 1 .. Len(t) : t[i] = s[i]
      PROVE  Flows(t, k, m)
    <2>1. Len(t) \in Nat /\ DOMAIN t = 1 .. Len(t) /\ (t # <<>> => 1 \in 1 .. Len(t))
        OBVIOUS
    <2>2. \A i \in DOMAIN t : i \in DOMAIN s /\ t[i] = s[i]
        BY <1>1, <1>2, <2>1
    <2>3. t # <<>> => t[1].h = 1 /\ s # <<>>
        BY <1>1, <2>1, <2>2 DEF Flows
    <2> QED
        BY <2>2, <2>3 DEF Flows
<1>3. ASSUME Len(s) >= 2
      PROVE  s[1] = Half(k, s[1].n, 1) /\ s[2] = Half(k, s[1].n, 2) /\ s[1].n \in Nat /\ s[2].n = s[1].n
             /\ s[2].h = 2
    <2>1. 1 \in DOMAIN s /\ 2 \in DOMAIN s /\ s # <<>> /\ 1 + 1 = 2
        BY <1>1, <1>3
    <2>2. s[1].h = 1 /\ Goes(s[1], s[2])
        BY <2>1 DEF Flows
    <2> QED
        BY <1>1, <2>1, <2>2 DEF Goes, Half, Halves
<1>4. ASSUME Len(s) >= 2, NEW t \in Seq(Halves), Len(t) = Len(s) - 2,
             \A i \in 1 .. Len(t) : t[i] = s[i + 2]
      PROVE  Flows(t, k, m) /\ (t # <<>> => t[1].k = k /\ t[1].n = s[1].n + 1)
    <2>1. Len(t) \in Nat /\ DOMAIN t = 1 .. Len(t) /\ (t # <<>> => 1 \in 1 .. Len(t))
        OBVIOUS
    <2>2. \A i \in DOMAIN t : i + 2 \in DOMAIN s /\ t[i] = s[i + 2]
        BY <1>1, <1>4, <2>1
    <2>3. ASSUME NEW i \in DOMAIN t, i + 1 \in DOMAIN t PROVE Goes(t[i], t[i + 1])
        <3>1. i + 2 \in DOMAIN s /\ (i + 2) + 1 \in DOMAIN s /\ t[i] = s[i + 2]
              /\ t[i + 1] = s[(i + 2) + 1]
            <4>1. i + 1 + 2 = i + 2 + 1
                BY <2>1
            <4> QED
                BY <2>2, <2>3, <4>1
        <3> QED
            BY <3>1 DEF Flows
    <2>4. ASSUME t # <<>> PROVE t[1].h = 1 /\ t[1].k = k /\ t[1].n = s[1].n + 1
        <3>1. 2 \in DOMAIN s /\ 2 + 1 \in DOMAIN s /\ t[1] = s[2 + 1]
            BY <1>1, <2>1, <2>2, <2>4
        <3>2. Goes(s[2], s[2 + 1]) /\ s[2 + 1].k = k
            BY <1>1, <3>1 DEF Flows
        <3> QED
            BY <1>3, <1>4, <3>1, <3>2 DEF Goes
    <2>5. \A i \in DOMAIN t : t[i].k = k /\ t[i].n \in 1 .. m
        BY <1>1, <2>2
    <2> QED
        BY <2>3, <2>4, <2>5 DEF Flows
<1> QED
    BY <1>2, <1>3, <1>4

\* A frame behind a stream that ends with the last
LEMMA FlowsFurther ==
    ASSUME NEW s \in Seq(Halves), NEW k \in Nat, NEW m \in Nat, NEW l, l = m + 1, Flows(s, k, m),
           s # <<>> => s[Len(s)] = Half(k, m, 2),
           NEW t \in Seq(Halves), Len(t) = Len(s) + 2, \A i \in 1 .. Len(s) : t[i] = s[i],
           t[Len(s) + 1] = Half(k, l, 1), t[Len(s) + 2] = Half(k, l, 2)
    PROVE  Flows(t, k, l) /\ (s # <<>> => t[1] = s[1]) /\ (s = <<>> => t[1] = Half(k, l, 1))
<1>0. l \in Nat /\ l = m + 1
    OBVIOUS
<1>1. /\ Len(s) \in Nat /\ DOMAIN s = 1 .. Len(s) /\ DOMAIN t = 1 .. Len(s) + 2
      /\ (s # <<>> => 1 \in 1 .. Len(s)) /\ (s = <<>> => Len(s) = 0) /\ t # <<>>
    OBVIOUS
<1>2. s # <<>> => t[1] = s[1] /\ t[1].h = 1
    BY <1>1 DEF Flows
<1>3. s = <<>> => t[1] = Half(k, l, 1)
    BY <1>1
<1>4. \A i \in DOMAIN t : i \in 1 .. Len(s) \/ i = Len(s) + 1 \/ i = Len(s) + 2
    BY <1>1
<1>5. ASSUME NEW i \in DOMAIN t PROVE t[i].k = k /\ t[i].n \in 1 .. l
    <2>1. CASE i \in 1 .. Len(s)
        <3>1. t[i] = s[i] /\ s[i].k = k /\ s[i].n \in 1 .. m
            BY <1>1, <2>1 DEF Flows
        <3> QED
            BY <1>0, <3>1
    <2>2. CASE i = Len(s) + 1 \/ i = Len(s) + 2
        BY <1>0, <2>2 DEF Half
    <2> QED
        BY <1>4, <2>1, <2>2
<1>6. ASSUME NEW i \in DOMAIN t, i + 1 \in DOMAIN t PROVE Goes(t[i], t[i + 1])
    <2>1. CASE i \in 1 .. Len(s) /\ i + 1 \in 1 .. Len(s)
        <3>1. Goes(s[i], s[i + 1])
            BY <1>1, <2>1 DEF Flows
        <3> QED
            BY <2>1, <3>1
    <2>2. CASE i = Len(s) /\ i \in 1 .. Len(s)
        <3>1. t[i] = Half(k, m, 2) /\ t[i + 1] = Half(k, l, 1)
            BY <1>1, <2>2
        <3> QED
            BY <1>0, <3>1 DEF Goes, Half
    <2>3. CASE i = Len(s) + 1
        <3>1. t[i] = Half(k, l, 1) /\ t[i + 1] = Half(k, l, 2)
            BY <1>1, <2>3
        <3> QED
            BY <1>0, <3>1 DEF Goes, Half
    <2> QED
        BY <1>1, <1>6, <2>1, <2>2, <2>3
<1>7. t[1].h = 1
    BY <1>2, <1>3 DEF Half
<1> QED
    BY <1>2, <1>3, <1>5, <1>6, <1>7 DEF Flows

\* What a step may be given next, and by whom
LEMMA HeadsAre ==
    ASSUME NEW k, NEW n
    PROVE  /\ Announcement(k) # <<>> /\ Frame(k, n) # <<>>
           /\ Head(Announcement(k)) = Half(k, 0, 1) /\ Head(Frame(k, n)) = Half(k, n, 1)
           /\ Announcement(k)[Len(Announcement(k))] = Half(k, 0, 1)
           /\ Frame(k, n)[Len(Frame(k, n))] = Half(k, n, 2)
           /\ Half(k, n, 1).k = k /\ Half(k, n, 1).n = n /\ Half(k, 0, 1).k = k /\ Half(k, 0, 1).n = 0
           /\ Half(k, n, 2).k = k /\ Half(k, n, 2).n = n
BY DEF Announcement, Frame, Half

LEMMA BehindAll ==
    ASSUME NEW g, NEW h, NEW i, g.k \in Nat, g.n \in Nat, h.k \in Nat, h.n \in Nat,
           i.k \in Nat, i.n \in Nat, Behind(g, h), Behind(h, i)
    PROVE  Behind(g, i)
<1>1. CASE g.k < h.k
    BY <1>1 DEF Behind
<1>2. CASE g.k = h.k /\ g.n < h.n
    BY <1>2 DEF Behind
<1> QED
    BY <1>1, <1>2 DEF Behind

\* Every half that was given has its numbers.
LEMMA ToldIs ==
    ASSUME RecvOK, GivenWhole
    PROVE  \A h \in Told : h.k \in Nat /\ h.n \in Nat
<1>1. heard.k \in Nat /\ heard.n \in Nat
    BY DEF RecvOK, Halves
<1>2. ASSUME NEW i \in DOMAIN recvQueue
      PROVE  Head(recvQueue[i]).k \in Nat /\ Head(recvQueue[i]).n \in Nat
    <2>1. PICK k \in Nat, n \in 0 .. MaxPeer :
                recvQueue[i] = IF n = 0 THEN Announcement(k) ELSE Frame(k, n)
        BY DEF GivenWhole
    <2>2. /\ Head(Announcement(k)).k = k /\ Head(Announcement(k)).n = 0
          /\ Head(Frame(k, n)).k = k /\ Head(Frame(k, n)).n = n
        BY HeadsAre
    <2>3. CASE n = 0
        <3>1. recvQueue[i] = Announcement(k)
            BY <2>1, <2>3
        <3> QED
            BY <2>2, <3>1
    <2>4. CASE n # 0
        <3>1. recvQueue[i] = Frame(k, n) /\ n \in Nat
            BY <2>1, <2>4
        <3> QED
            BY <2>2, <3>1
    <2> QED
        BY <2>3, <2>4
<1> QED
    BY <1>1, <1>2 DEF Told

\* A packet that is behind all that were given is put into the queue, or lost.
LEMMA GivenMore ==
    ASSUME RecvOK, GivenWhole, NEW k \in Nat, NEW n \in 0 .. MaxPeer,
           NEW f, f = IF n = 0 THEN Announcement(k) ELSE Frame(k, n), f \in Seq(Halves),
           \/ Receive(f)
           \/ UNCHANGED recvQueue,
           \A h \in Told : Behind(h, Half(k, n, 1)), k <= links', n <= peerSent',
           \A h \in Told : h.k <= links' /\ h.n <= peerSent', UNCHANGED heard
    PROVE  GivenWhole' /\ Told' \subseteq Told \cup {Half(k, n, 1)}
<1>1. Head(f) = Half(k, n, 1) /\ Half(k, n, 1).k = k /\ Half(k, n, 1).n = n
    BY HeadsAre
<1>2. CASE recvQueue' = recvQueue
    BY <1>2 DEF GivenWhole, Told
<1>3. CASE recvQueue' = Append(recvQueue, f)
    <2>1. /\ \A j \in DOMAIN recvQueue : j \in DOMAIN recvQueue' /\ recvQueue'[j] = recvQueue[j]
          /\ \A j \in DOMAIN recvQueue' : j \in DOMAIN recvQueue \/ j = Len(recvQueue) + 1
          /\ recvQueue'[Len(recvQueue) + 1] = f
          /\ \A j \in DOMAIN recvQueue : j \in 1 .. Len(recvQueue) /\ Len(recvQueue) \in Nat
        <3>1. recvQueue \in Seq(Seq(Halves))
            BY DEF RecvOK
        <3> QED
            BY <1>3, <3>1, AppendedIs
    <2>2. Told' \subseteq Told \cup {Half(k, n, 1)}
        BY <1>1, <2>1 DEF Told
    <2>3. \A i \in DOMAIN recvQueue' : \E l \in Nat, m \in 0 .. MaxPeer :
            recvQueue'[i] = IF m = 0 THEN Announcement(l) ELSE Frame(l, m)
        BY <2>1 DEF GivenWhole
    <2>4. ASSUME NEW i \in DOMAIN recvQueue', NEW j \in DOMAIN recvQueue', j < i
          PROVE  Behind(Head(recvQueue'[j]), Head(recvQueue'[i]))
        <3>1. CASE i \in DOMAIN recvQueue
            <4>1. j \in DOMAIN recvQueue
                BY <2>1, <2>4, <3>1
            <4> QED
                BY <2>1, <2>4, <3>1, <4>1 DEF GivenWhole
        <3>2. CASE i = Len(recvQueue) + 1
            <4>1. j \in DOMAIN recvQueue
                BY <2>1, <2>4, <3>2
            <4> QED
                BY <1>1, <2>1, <3>2, <4>1 DEF Told
        <3> QED
            BY <2>1, <3>1, <3>2
    <2>5. \A i \in DOMAIN recvQueue' : Behind(heard', Head(recvQueue'[i]))
        BY <1>1, <2>1 DEF GivenWhole, Told
    <2>6. \A h \in Told' : h.k <= links' /\ h.n <= peerSent'
        BY <1>1, <2>2
    <2> QED
        BY <2>2, <2>3, <2>4, <2>5, <2>6 DEF GivenWhole
<1> QED
    BY <1>2, <1>3 DEF Receive

LEMMA WholeStays ==
    ASSUME Whole, at' # "parse" => parsed = 0,
           UNCHANGED <<link, links, broken, tainted, buf, net, parsed, peerSent, recvQueue, heard>>
    PROVE  Whole'
<1>1. Stream' = Stream /\ Told' = Told
    BY DEF Stream, Unparsed, Told
<1> QED
    BY <1>1 DEF Whole, LinkWhole, StreamWhole, GivenWhole, Ahead

\* The connection is closed; with nothing in the buffer, nothing is left of it.
LEMMA DisconnectWhole ==
    ASSUME IInv, IInv', Whole, Disconnect, at' = "loop", parsed' = 0, UNCHANGED <<buf, peerSent, recvQueue, heard>>
    PROVE  Whole'
<1>1. LinkWhole'
    BY DEF LinkWhole, Disconnect
<1>2. ASSUME ~tainted' PROVE StreamWhole' /\ GivenWhole' /\ Ahead'
    <2>1. ~tainted /\ buf = <<>> /\ link' = 0 /\ net' = <<>> /\ links' = links
        BY <1>2 DEF Disconnect
    <2>2. Stream' = <<>> /\ Len(buf') = 0
        <3>1. BytesOK'
            BY SplitNext, Parts DEF IInv, TypeOK, BytesOK
        <3>2. Len(Stream') = 0 /\ Stream' \in Seq(Halves)
            BY <2>1, <3>1, StreamNext
        <3> QED
            BY <2>1, <3>2
    <2>3. StreamWhole'
        BY <2>1, <2>2 DEF StreamWhole, Flows
    <2>4. GivenWhole' /\ Ahead'
        BY <2>1, <2>2 DEF Whole, GivenWhole, Told, Ahead
    <2> QED
        BY <2>3, <2>4
<1> QED
    BY <1>1, <1>2 DEF Whole

LEMMA ReConnectWhole ==
    ASSUME IInv, IInv', Whole, ReConnect PROVE Whole'
<1>1. LinkOK /\ BytesOK /\ RecvOK
    BY Split DEF RecvInv
<1>2. /\ link = 0 /\ link' = links + 1 /\ links' = links + 1 /\ links \in Nat
      /\ UNCHANGED <<at, tainted, net, buf, parsed, peerSent, heard>>
    BY <1>1 DEF ReConnect, LinkOK, recvVars
<1>3. LinkWhole'
    BY <1>2 DEF Whole, LinkWhole
<1>4. ASSUME ~tainted' PROVE StreamWhole' /\ GivenWhole' /\ Ahead'
    <2>1. StreamWhole /\ GivenWhole /\ buf = <<>> /\ net = <<>>
        BY <1>2, <1>4 DEF Whole, StreamWhole
    <2>2. Stream' = <<>> /\ Stream = <<>>
        <3>1. Len(Stream) = 0 /\ Stream \in Seq(Halves)
            BY <1>1, <2>1, StreamNow
        <3>2. Stream' = Stream
            BY <1>2 DEF Stream, Unparsed
        <3> QED
            BY <3>1, <3>2
    <2>3. StreamWhole'
        BY <1>2, <2>1, <2>2 DEF StreamWhole, Flows
    <2>4. GivenWhole'
        <3> DEFINE f == Announcement(links + 1)
        <3>1. \A h \in Told : h.k <= links /\ h.n <= peerSent /\ h.k \in Nat /\ h.n \in Nat
            BY <1>1, <2>1, ToldIs DEF GivenWhole
        <3>2. \A h \in Told : Behind(h, Half(links + 1, 0, 1)) /\ h.k <= links' /\ h.n <= peerSent'
            BY <1>2, <3>1, HeadsAre DEF Behind
        <3>3. Receive(f) \/ recvQueue' = recvQueue
            BY DEF ReConnect, recvPackets
        <3>4. f \in Seq(Halves) /\ peerSent' \in Nat /\ MaxPeer \in Nat
            BY <1>1, <1>2 DEF Announcement, Half, Halves, BytesOK
        <3> HIDE DEF f
        <3> QED
            BY <1>1, <1>2, <2>1, <3>2, <3>3, <3>4, GivenMore DEF f
    <2> QED
        BY <2>2, <2>3, <2>4 DEF Ahead
<1> QED
    BY <1>3, <1>4 DEF Whole

LEMMA LinkBreaksWhole ==
    ASSUME IInv, IInv', Whole, LinkBreaks PROVE Whole'
<1>1. LinkOK /\ BytesOK /\ BytesOK'
    BY Split, SplitNext, Parts DEF IInv, TypeOK, BytesOK
<1>2. PICK n \in 0 .. Len(net) : net' = SubSeq(net, 1, n)
    BY DEF LinkBreaks
<1>3. /\ link # 0 /\ broken' = TRUE
      /\ UNCHANGED <<at, link, links, tainted, buf, parsed, peerSent, recvQueue, heard>>
    BY DEF LinkBreaks, recvPackets
<1>4. LinkWhole'
    BY <1>3 DEF Whole, LinkWhole
<1>5. ASSUME ~tainted' PROVE StreamWhole' /\ GivenWhole' /\ Ahead'
    <2>1. StreamWhole /\ GivenWhole /\ Ahead
        BY <1>3, <1>5 DEF Whole
    <2>2. /\ Stream \in Seq(Halves) /\ Stream' \in Seq(Halves) /\ Len(Stream') <= Len(Stream)
          /\ \A i \in 1 .. Len(Stream') : Stream'[i] = Stream[i]
        <3>1. net \in Seq(Halves) /\ n \in Nat /\ Len(net) \in Nat /\ n <= Len(net)
            BY <1>1, <1>2 DEF BytesOK
        <3>2. Len(net') = n /\ \A i \in 1 .. n : net'[i] = net[i]
            BY <1>2, <3>1
        <3> DEFINE d == Len(buf) - parsed
        <3>3. /\ Stream \in Seq(Halves) /\ Len(Stream) = d + Len(net) /\ d \in Nat
              /\ \A i \in 1 .. Len(Stream) : Stream[i] = IF i <= d THEN buf[i + parsed] ELSE net[i - d]
            BY <1>1, StreamNow
        <3>4. /\ Stream' \in Seq(Halves) /\ Len(Stream') = d + n
              /\ \A i \in 1 .. Len(Stream') : Stream'[i] = IF i <= d THEN buf[i + parsed] ELSE net'[i - d]
            BY <1>1, <1>3, <3>2, StreamNext
        <3> HIDE DEF d
        <3>5. ASSUME NEW i \in 1 .. d + n PROVE Stream'[i] = Stream[i]
            <4>1. CASE i <= d
                BY <3>1, <3>3, <3>4, <4>1
            <4>2. CASE i > d
                <5>1. i - d \in 1 .. n /\ i \in 1 .. d + Len(net) /\ ~(i <= d)
                    BY <3>1, <3>3, <4>2
                <5> QED
                    BY <3>2, <3>3, <3>4, <5>1
            <4> QED
                BY <3>3, <4>1, <4>2
        <3> QED
            BY <3>1, <3>3, <3>4, <3>5
    <2>3. Flows(Stream', link, peerSent)
        <3>1. Flows(Stream, link, peerSent) /\ peerSent \in Nat
            BY <1>1, <2>1 DEF StreamWhole, BytesOK
        <3> QED
            BY <2>2, <3>1, FlowsOn
    <2>4. StreamWhole'
        BY <1>3, <2>3 DEF StreamWhole
    <2>5. Stream' # <<>> => Stream # <<>> /\ Stream'[1] = Stream[1]
        <3>1. Stream' # <<>> => Len(Stream') > 0 /\ Len(Stream') \in Nat /\ 1 \in 1 .. Len(Stream')
            BY <2>2
        <3> QED
            BY <2>2, <3>1
    <2> QED
        BY <1>3, <2>1, <2>4, <2>5 DEF GivenWhole, Told, Ahead
<1> QED
    BY <1>4, <1>5 DEF Whole

LEMMA PeerSendsWhole ==
    ASSUME IInv, IInv', Whole, PeerSends PROVE Whole'
<1>1. LinkOK /\ BytesOK /\ BytesOK' /\ RecvOK
    BY Split, SplitNext, Parts DEF IInv, TypeOK, BytesOK, RecvInv
<1>2. /\ link # 0 /\ ~broken /\ peerSent < MaxPeer /\ peerSent' = peerSent + 1
      /\ net' = net \o Frame(link, peerSent + 1)
      /\ UNCHANGED <<at, link, links, broken, tainted, buf, parsed, recvQueue, heard>>
    BY DEF PeerSends, linkVars, recvPackets
<1>3. LinkWhole'
    BY <1>2 DEF Whole, LinkWhole
<1>4. ASSUME ~tainted' PROVE StreamWhole' /\ GivenWhole' /\ Ahead'
    <2>1. StreamWhole /\ GivenWhole /\ Ahead
        BY <1>2, <1>4 DEF Whole
    <2>2. link = links /\ link \in Nat /\ peerSent \in Nat
        BY <1>1, <1>2 DEF Whole, LinkWhole, LinkOK, BytesOK
    <2> DEFINE d == Len(buf) - parsed
    <2>3. /\ Stream \in Seq(Halves) /\ Len(Stream) = d + Len(net) /\ d \in Nat /\ Len(net) \in Nat
          /\ \A i \in 1 .. Len(Stream) : Stream[i] = IF i <= d THEN buf[i + parsed] ELSE net[i - d]
        BY <1>1, StreamNow
    <2>4. /\ Stream' \in Seq(Halves) /\ Len(Stream') = d + Len(net')
          /\ \A i \in 1 .. Len(Stream') : Stream'[i] = IF i <= d THEN buf[i + parsed] ELSE net'[i - d]
        BY <1>1, <1>2, StreamNext
    <2> HIDE DEF d
    <2>5. /\ Len(net') = Len(net) + 2 /\ \A i \in 1 .. Len(net) : net'[i] = net[i]
          /\ net'[Len(net) + 1] = Half(link, peerSent + 1, 1)
          /\ net'[Len(net) + 2] = Half(link, peerSent + 1, 2)
        <3> DEFINE fr == Frame(link, peerSent + 1)
        <3>1. /\ fr \in Seq(Halves) /\ Len(fr) = 2 /\ fr[1] = Half(link, peerSent + 1, 1)
              /\ fr[2] = Half(link, peerSent + 1, 2)
            BY <1>2, <2>2 DEF Frame, Half, Halves
        <3> HIDE DEF fr
        <3>2. net \in Seq(Halves) /\ net' = net \o fr
            BY <1>1, <1>2 DEF BytesOK, fr
        <3>3. /\ Len(net') = Len(net) + Len(fr)
              /\ \A i \in 1 .. Len(net) + Len(fr) : net'[i] = IF i <= Len(net) THEN net[i] ELSE fr[i - Len(net)]
            BY <3>1, <3>2, ConcatProperties
        <3>4. ASSUME NEW j \in {1, 2} PROVE net'[Len(net) + j] = fr[j]
            <4>1. Len(net) + j \in 1 .. Len(net) + Len(fr) /\ ~(Len(net) + j <= Len(net))
                  /\ Len(net) + j - Len(net) = j
                BY <2>3, <3>1
            <4> QED
                BY <3>3, <4>1
        <3> QED
            BY <2>3, <3>1, <3>3, <3>4
    <2>6. Len(Stream') = Len(Stream) + 2 /\ \A i \in 1 .. Len(Stream) : Stream'[i] = Stream[i]
        <3>1. ASSUME NEW i \in 1 .. d + Len(net) PROVE Stream'[i] = Stream[i]
            <4>1. i \in 1 .. Len(Stream) /\ i \in 1 .. Len(Stream')
                BY <2>3, <2>4, <2>5
            <4>2. CASE i <= d
                BY <2>3, <2>4, <4>1, <4>2
            <4>3. CASE i > d
                <5>1. i - d \in 1 .. Len(net) /\ ~(i <= d)
                    BY <2>3, <4>3
                <5> QED
                    BY <2>3, <2>4, <2>5, <4>1, <5>1
            <4> QED
                BY <2>3, <4>2, <4>3
        <3> QED
            BY <2>3, <2>4, <2>5, <3>1
    <2>7. /\ Stream'[Len(Stream) + 1] = Half(link, peerSent + 1, 1)
          /\ Stream'[Len(Stream) + 2] = Half(link, peerSent + 1, 2)
        <3>1. ASSUME NEW j \in {1, 2} PROVE Stream'[Len(Stream) + j] = net'[Len(net) + j]
            <4> DEFINE i == Len(Stream) + j
            <4>1. i \in 1 .. Len(Stream') /\ ~(i <= d) /\ i - d = Len(net) + j
                BY <2>3, <2>6
            <4> HIDE DEF i
            <4>2. Stream'[i] = net'[i - d]
                BY <2>4, <4>1
            <4> QED
                BY <4>1, <4>2 DEF i
        <3> QED
            BY <2>5, <3>1
    <2>8. /\ Flows(Stream', link, peerSent + 1) /\ (Stream # <<>> => Stream'[1] = Stream[1])
          /\ (Stream = <<>> => Stream'[1] = Half(link, peerSent + 1, 1))
        <3>1. Flows(Stream, link, peerSent) /\ (Stream # <<>> => Stream[Len(Stream)] = Half(link, peerSent, 2))
            BY <1>2, <2>1 DEF StreamWhole
        <3>2. PICK s \in Seq(Halves), t \in Seq(Halves) : s = Stream /\ t = Stream'
            BY <2>3, <2>4
        <3> DEFINE l == peerSent + 1
        <3>5. l = peerSent + 1
            OBVIOUS
        <3>3. /\ Flows(s, link, peerSent) /\ (s # <<>> => s[Len(s)] = Half(link, peerSent, 2))
              /\ Len(t) = Len(s) + 2 /\ \A i \in 1 .. Len(s) : t[i] = s[i]
              /\ t[Len(s) + 1] = Half(link, l, 1) /\ t[Len(s) + 2] = Half(link, l, 2)
            BY <2>6, <2>7, <3>1, <3>2, Zenon
        <3> HIDE DEF l
        <3>4. Flows(t, link, l) /\ (s # <<>> => t[1] = s[1])
              /\ (s = <<>> => t[1] = Half(link, l, 1))
            BY <2>2, <3>2, <3>3, <3>5, FlowsFurther
        <3> QED
            BY <3>2, <3>4, Zenon DEF l
    <2>9. StreamWhole'
        <3>1. Stream'[Len(Stream')] = Half(link, peerSent + 1, 2)
            BY <2>6, <2>7
        <3> QED
            BY <1>2, <2>8, <3>1 DEF StreamWhole
    <2>10. Told' = Told /\ \A h \in Told : h.k <= links /\ h.n <= peerSent /\ h.k \in Nat /\ h.n \in Nat
        BY <1>1, <1>2, <2>1, ToldIs DEF GivenWhole, Told
    <2>11. GivenWhole'
        <3>1. \A h \in Told : h.n <= peerSent + 1
            BY <2>2, <2>10
        <3> QED
            BY <1>2, <2>1, <2>10, <3>1 DEF GivenWhole
    <2>12. Ahead'
        <3>1. CASE Stream # <<>>
            BY <2>1, <2>8, <2>10, <3>1 DEF Ahead
        <3>2. CASE Stream = <<>>
            <4>1. Stream'[1].k = links /\ Stream'[1].n = peerSent + 1
                BY <2>2, <2>8, <3>2, HeadsAre
            <4>2. \A h \in Told : Behind(h, Stream'[1])
                BY <2>2, <2>10, <4>1 DEF Behind
            <4> QED
                BY <2>10, <4>2 DEF Ahead
        <3> QED
            BY <3>1, <3>2
    <2> QED
        BY <2>9, <2>11, <2>12
<1> QED
    BY <1>3, <1>4 DEF Whole

LEMMA Regrouped ==
    \A q, p, r \in Seq(Halves) : (q \o p) \o r = q \o (p \o r)
BY ConcatAssociative

\* The halves that are read go from one part of the stream to the other.
LEMMA OnRecvWhole ==
    ASSUME IInv, IInv', Whole, OnRecv PROVE Whole'
<1>1. LinkOK /\ BytesOK
    BY Split
<1>2. PICK n \in 1 .. Len(net) : buf' = buf \o SubSeq(net, 1, n) /\ net' = SubSeq(net, n + 1, Len(net))
    BY DEF OnRecv
<1>3. /\ at = "loop" /\ link # 0 /\ at' = "parse" /\ parsed' = 0 /\ parsed = 0
      /\ UNCHANGED <<link, links, broken, tainted, peerSent, recvQueue, heard>>
    BY DEF OnRecv, linkVars, recvPackets, Whole, LinkWhole
<1>4. Stream' = Stream
    <2> DEFINE f == SubSeq(net, 1, n)
    <2> DEFINE r == SubSeq(net, n + 1, Len(net))
    <2>1. buf \in Seq(Halves) /\ net \in Seq(Halves) /\ n \in 1 .. Len(net) /\ n \in 0 .. Len(net)
        BY <1>1 DEF BytesOK
    <2>2. f \in Seq(Halves) /\ r \in Seq(Halves)
        BY <2>1, FirstPart
    <2>3. f \o r = net
        <3>1. /\ Len(f) = n /\ Len(r) = Len(net) - n /\ Len(net) \in Nat /\ n \in Nat
              /\ \A i \in 1 .. n : f[i] = net[i]
              /\ \A i \in 1 .. Len(net) - n : r[i] = net[i + n]
            BY <2>1
        <3> HIDE DEF f, r
        <3>0. /\ f \o r \in Seq(Halves) /\ Len(f \o r) = Len(f) + Len(r)
              /\ \A i \in 1 .. Len(f) + Len(r) : (f \o r)[i] = IF i <= Len(f) THEN f[i] ELSE r[i - Len(f)]
            BY <2>2, ConcatProperties
        <3>2. /\ f \o r \in Seq(Halves) /\ Len(f \o r) = Len(net)
              /\ \A i \in 1 .. Len(net) : (f \o r)[i] = IF i <= n THEN f[i] ELSE r[i - n]
            BY <3>0, <3>1
        <3>3. ASSUME NEW i \in 1 .. Len(net) PROVE (f \o r)[i] = net[i]
            <4>1. CASE i <= n
                BY <3>1, <3>2, <4>1
            <4>2. CASE i > n
                <5> DEFINE k == i - n
                <5>1. k \in 1 .. Len(net) - n /\ k + n = i /\ ~(i <= n)
                    BY <3>1, <4>2
                <5>2. (f \o r)[i] = r[k]
                    BY <3>2, <5>1
                <5> HIDE DEF k
                <5>3. r[k] = net[k + n]
                    BY <3>1, <5>1, Zenon
                <5> QED
                    BY <5>1, <5>2, <5>3
            <4> QED
                BY <3>1, <4>1, <4>2
        <3> QED
            BY <2>1, <3>2, <3>3, SeqEqual
    <2>4. buf \o f \in Seq(Halves)
        BY <2>1, <2>2
    <2>5. (buf \o f) \o r = buf \o (f \o r)
        <3> HIDE DEF f, r
        <3> QED
            BY <2>1, <2>2, Regrouped
    <2>6. Stream = buf \o net
        <3>1. Unparsed = buf
            BY <1>3, <2>1, SubSeqFull DEF Unparsed
        <3> QED
            BY <3>1 DEF Stream
    <2>7. Stream' = (buf \o f) \o r
        <3>1. SubSeq(buf \o f, 1, Len(buf \o f)) = buf \o f
            BY <2>4, SubSeqFull
        <3>2. Unparsed' = buf \o f /\ net' = r
            BY <1>2, <1>3, <3>1 DEF Unparsed
        <3> QED
            BY <3>2 DEF Stream
    <2> QED
        BY <2>3, <2>5, <2>6, <2>7
<1> QED
    BY <1>3, <1>4 DEF Whole, LinkWhole, StreamWhole, GivenWhole, Told, Ahead

\* A frame is cut off the stream: the only length that stands where one is expected is
\* that of the frame.
LEMMA ParseFrameWhole ==
    ASSUME IInv, IInv', Whole, ParseFrame PROVE Whole'
<1>1. LinkOK /\ BytesOK /\ BytesOK' /\ RecvOK
    BY Split, SplitNext, Parts DEF IInv, TypeOK, BytesOK, RecvInv
<1>2. PICK n \in Lengths : /\ n <= Len(Unparsed) /\ Receive(SubSeq(Unparsed, 1, n))
                           /\ parsed' = parsed + n
    BY DEF ParseFrame
<1>3. /\ at = "parse"
      /\ UNCHANGED <<at, link, links, broken, tainted, buf, net, peerSent, heard>>
    BY DEF ParseFrame, linkVars
<1>4. LinkWhole'
    BY <1>3 DEF Whole, LinkWhole
<1>5. ASSUME ~tainted' PROVE StreamWhole' /\ GivenWhole' /\ Ahead'
    <2>1. StreamWhole /\ GivenWhole /\ Ahead
        BY <1>3, <1>5 DEF Whole
    <2>2. link \in Nat /\ links \in Nat /\ link <= links /\ peerSent \in Nat /\ peerSent <= MaxPeer
        BY <1>1 DEF LinkOK, BytesOK
    <2> DEFINE d == Len(buf) - parsed
    <2>3. /\ Stream \in Seq(Halves) /\ Len(Stream) = d + Len(net) /\ d \in Nat /\ Len(net) \in Nat
          /\ \A i \in 1 .. Len(Stream) : Stream[i] = IF i <= d THEN buf[i + parsed] ELSE net[i - d]
          /\ parsed \in Nat
        BY <1>1, StreamNow
    <2>4. /\ Unparsed \in Seq(Halves) /\ Len(Unparsed) = d /\ \A i \in 1 .. d : Unparsed[i] = buf[i + parsed]
        <3>1. buf \in Seq(Halves) /\ parsed \in 0 .. Len(buf)
            BY <1>1 DEF BytesOK
        <3> QED
            BY <1>1, <3>1, UnparsedIs DEF Unparsed
    <2> HIDE DEF d
    <2>5. \A i \in 1 .. d : i \in 1 .. Len(Stream) /\ Stream[i] = Unparsed[i]
        BY <2>3, <2>4
    <2>6. Unparsed # <<>>
        BY <1>2 DEF Lengths
    <2>7. 1 \in 1 .. d /\ Head(Unparsed) = Unparsed[1] /\ Stream # <<>>
        <3>1. d # 0
            BY <2>4, <2>6
        <3>2. 1 \in 1 .. d
            BY <2>3, <3>1
        <3> QED
            BY <2>3, <2>4, <2>5, <3>2
    <2>8. Flows(Stream, link, peerSent)
        BY <2>1 DEF StreamWhole
    <2>9. n = 2
        <3>1. Stream[1].h = 1
            BY <2>7, <2>8 DEF Flows
        <3>2. Head(Unparsed).h = 1
            BY <2>5, <2>7, <3>1
        <3> QED
            BY <1>2, <3>2 DEF Lengths
    <2>10. d >= 2 /\ 2 \in 1 .. d
        BY <1>2, <2>3, <2>4, <2>9
    <2> DEFINE m == Stream[1].n
    <2>11. /\ Stream[1] = Half(link, m, 1) /\ Stream[2] = Half(link, m, 2) /\ m \in 1 .. peerSent
           /\ Stream[1].k = link
        <3>1. Len(Stream) >= 2 /\ 1 \in DOMAIN Stream
            BY <2>3, <2>7, <2>10
        <3>2. m \in 1 .. peerSent /\ Stream[1].k = link
            BY <2>8, <3>1 DEF Flows
        <3> QED
            BY <2>2, <2>3, <2>8, <3>1, <3>2, FlowsOn
    <2>12. SubSeq(Unparsed, 1, n) = Frame(link, m)
        <3>1. SubSeq(Unparsed, 1, 2) = <<Unparsed[1], Unparsed[2]>>
            <4> DEFINE q == SubSeq(Unparsed, 1, 2)
            <4>1. /\ q \in Seq(Halves) /\ Len(q) = 2 /\ q[1] = Unparsed[1] /\ q[2] = Unparsed[2]
                BY <2>3, <2>4, <2>10
            <4> HIDE DEF q
            <4>2. q = <<q[1], q[2]>>
                BY <4>1
            <4> QED
                BY <4>1, <4>2 DEF q
        <3>2. Unparsed[1] = Half(link, m, 1) /\ Unparsed[2] = Half(link, m, 2)
            BY <2>5, <2>7, <2>10, <2>11
        <3> QED
            BY <2>9, <3>1, <3>2 DEF Frame
    <2>13. /\ Stream' \in Seq(Halves) /\ Len(Stream') = Len(Stream) - 2 /\ Len(Stream) >= 2
           /\ \A i \in 1 .. Len(Stream') : Stream'[i] = Stream[i + 2]
        <3>1. /\ Stream' \in Seq(Halves) /\ Len(Stream') = (Len(buf) - (parsed + 2)) + Len(net)
              /\ \A i \in 1 .. Len(Stream') :
                    Stream'[i] = IF i <= Len(buf) - (parsed + 2) THEN buf[i + (parsed + 2)]
                                                              ELSE net[i - (Len(buf) - (parsed + 2))]
              /\ Len(buf) \in Nat
            BY <1>1, <1>2, <1>3, <2>9, StreamNext
        <3>2. Len(buf) - (parsed + 2) = d - 2
            BY <2>3, <3>1 DEF d
        <3>5. Len(Stream') = (d - 2) + Len(net)
            BY <3>1, <3>2, Zenon
        <3>6. Len(Stream) - 2 = (d - 2) + Len(net) /\ Len(Stream) >= 2
            BY <2>3, <2>10
        <3>3. Len(Stream') = Len(Stream) - 2 /\ Len(Stream) >= 2
            BY <3>5, <3>6, Zenon
        <3>4. ASSUME NEW i \in 1 .. Len(Stream') PROVE Stream'[i] = Stream[i + 2]
            <4>1. i \in Nat /\ i + 2 \in 1 .. Len(Stream)
                BY <2>3, <3>3
            <4>2. CASE i + 2 <= d
                <5>1. i <= d - 2 /\ i + (parsed + 2) = (i + 2) + parsed
                    BY <2>3, <4>1, <4>2
                <5> QED
                    BY <2>3, <3>1, <3>2, <4>1, <4>2, <5>1
            <4>3. CASE ~(i + 2 <= d)
                <5>1. ~(i <= d - 2) /\ i - (d - 2) = (i + 2) - d
                    BY <2>3, <4>1, <4>3
                <5>2. Stream'[i] = net[i - (d - 2)]
                    BY <3>1, <3>2, <5>1, Zenon
                <5>3. Stream[i + 2] = net[(i + 2) - d]
                    BY <2>3, <4>1, <4>3
                <5> QED
                    BY <5>1, <5>2, <5>3, Zenon
            <4> QED
                BY <4>2, <4>3
        <3> QED
            BY <3>1, <3>3, <3>4
    <2>14. /\ Flows(Stream', link, peerSent)
           /\ Stream' # <<>> => Stream'[1].k = link /\ Stream'[1].n = m + 1
        BY <2>2, <2>3, <2>8, <2>13, FlowsOn
    <2> HIDE DEF m
    <2>15. StreamWhole'
        <3>1. link # 0
            BY <2>1, <2>3, <2>4, <2>7 DEF StreamWhole, d
        <3>2. ~broken /\ Stream' # <<>> => Stream'[Len(Stream')] = Half(link, peerSent, 2)
            <4> SUFFICES ASSUME ~broken, Stream' # <<>> PROVE Stream'[Len(Stream')] = Half(link, peerSent, 2)
                OBVIOUS
            <4>1. Len(Stream') \in 1 .. Len(Stream') /\ Len(Stream') + 2 = Len(Stream)
                BY <2>3, <2>13
            <4>2. Stream'[Len(Stream')] = Stream[Len(Stream)]
                BY <2>13, <4>1
            <4> QED
                BY <2>1, <2>7, <4>2 DEF StreamWhole
        <3> QED
            BY <1>3, <2>14, <3>1, <3>2 DEF StreamWhole
    <2>16. \A h \in Told : /\ Behind(h, Half(link, m, 1)) /\ h.k <= links /\ h.n <= peerSent
                           /\ h.k \in Nat /\ h.n \in Nat
        BY <1>1, <2>1, <2>7, <2>11, ToldIs DEF GivenWhole, Ahead
    <2>17. GivenWhole' /\ Told' \subseteq Told \cup {Half(link, m, 1)}
        <3> DEFINE f == SubSeq(Unparsed, 1, n)
        <3>1. f = Frame(link, m) /\ m # 0 /\ m \in 0 .. MaxPeer /\ m <= peerSent' /\ link <= links'
            BY <1>3, <2>2, <2>11, <2>12
        <3>2. f \in Seq(Halves)
            <4>1. Half(link, m, 1) \in Halves /\ Half(link, m, 2) \in Halves
                BY <2>2, <3>1 DEF Half, Halves
            <4>2. Frame(link, m) \in Seq(Halves)
                BY <4>1 DEF Frame
            <4> QED
                BY <2>12, <4>2
        <3>3. Receive(f) /\ heard' = heard
            BY <1>2, <1>3
        <3>4. \A h \in Told : Behind(h, Half(link, m, 1)) /\ h.k <= links' /\ h.n <= peerSent'
            BY <1>3, <2>16
        <3> HIDE DEF f
        <3> QED
            BY <1>1, <2>1, <2>2, <3>1, <3>2, <3>3, <3>4, GivenMore
    <2>18. Ahead'
        <3> SUFFICES ASSUME Stream' # <<>>, NEW h \in Told' PROVE Behind(h, Stream'[1])
            BY DEF Ahead
        <3>1. Stream'[1].k = link /\ Stream'[1].n = m + 1
            BY <2>14
        <3>2. m \in Nat /\ Half(link, m, 1).k = link /\ Half(link, m, 1).n = m
            BY <2>2, <2>11, HeadsAre
        <3>3. Behind(Half(link, m, 1), Stream'[1])
            BY <2>2, <3>1, <3>2 DEF Behind
        <3>4. CASE h = Half(link, m, 1)
            BY <3>3, <3>4
        <3>5. CASE h \in Told
            <4>1. Behind(h, Half(link, m, 1)) /\ h.k \in Nat /\ h.n \in Nat
                BY <2>16, <3>5
            <4> QED
                BY <2>2, <3>1, <3>2, <3>3, <4>1, BehindAll
        <3> QED
            BY <2>17, <3>4, <3>5
    <2> QED
        BY <2>15, <2>17, <2>18
<1> QED
    BY <1>4, <1>5 DEF Whole

\* What stays in the buffer is what was not parsed.
LEMMA ParseEndsWhole ==
    ASSUME IInv, IInv', Whole, ParseEnds PROVE Whole'
<1>1. BytesOK
    BY Split
<1>2. /\ buf' = Unparsed /\ parsed' = 0 /\ at' = "loop"
      /\ UNCHANGED <<link, links, broken, tainted, net, peerSent, recvQueue, heard>>
    BY DEF ParseEnds, LeftBehindFrames, linkVars, recvPackets
<1>3. Stream' = Stream
    <2>1. Unparsed \in Seq(Halves)
        BY <1>1, UnparsedIs
    <2>2. SubSeq(Unparsed, 1, Len(Unparsed)) = Unparsed
        BY <2>1, SubSeqFull
    <2> DEFINE u == Unparsed
    <2>3. Unparsed' = SubSeq(u, 1, Len(u))
        <3>1. buf' = u /\ parsed' + 1 = 1
            BY <1>2
        <3> HIDE DEF u
        <3> QED
            BY <3>1 DEF Unparsed
    <2>4. Unparsed' = Unparsed
        BY <2>2, <2>3
    <2> QED
        BY <1>2, <2>4 DEF Stream
<1>4. link = 0 /\ buf = <<>> => buf' = <<>>
    BY <1>1, <1>2 DEF Unparsed, BytesOK
<1> QED
    BY <1>2, <1>3, <1>4 DEF Whole, LinkWhole, StreamWhole, GivenWhole, Told, Ahead

\* The main thread takes the packet that was given first.
LEMMA MainTakeWhole ==
    ASSUME IInv, IInv', Whole, MainTake PROVE Whole'
<1>1. LinkOK /\ BytesOK /\ RecvOK
    BY Split DEF RecvInv
<1> DEFINE f == Head(recvQueue)
<1>2. /\ recvQueue # <<>> /\ recvQueue' = Tail(recvQueue) /\ heard' = f[Len(f)]
      /\ UNCHANGED <<at, link, links, broken, tainted, buf, net, parsed, peerSent>>
    BY DEF MainTake, linkVars, recvVars
<1>3. /\ 1 \in DOMAIN recvQueue /\ f = recvQueue[1]
      /\ \A i \in DOMAIN recvQueue' : /\ i + 1 \in DOMAIN recvQueue /\ i \in Nat
                                      /\ recvQueue'[i] = recvQueue[i + 1]
    <2>1. recvQueue \in Seq(Seq(Halves))
        BY <1>1 DEF RecvOK
    <2>2. \A i \in DOMAIN Tail(recvQueue) : i \in Nat
        BY <1>2, <2>1
    <2> QED
        BY <1>2, <2>1, <2>2, BehindHeadIs
<1> HIDE DEF f
<1>4. LinkWhole' /\ Stream' = Stream
    BY <1>2 DEF Whole, LinkWhole, Stream, Unparsed
<1>5. ASSUME ~tainted' PROVE StreamWhole' /\ GivenWhole' /\ Ahead'
    <2>1. StreamWhole /\ GivenWhole /\ Ahead
        BY <1>2, <1>5 DEF Whole
    <2>2. heard'.k = Head(f).k /\ heard'.n = Head(f).n /\ Head(f) \in Told
        <3>1. PICK k \in Nat, n \in 0 .. MaxPeer : f = IF n = 0 THEN Announcement(k) ELSE Frame(k, n)
            BY <1>3, <2>1 DEF GivenWhole
        <3>2. Head(f) \in Told
            BY <1>3 DEF Told
        <3>3. CASE n = 0
            BY <1>2, <3>1, <3>2, <3>3, HeadsAre
        <3>4. CASE n # 0
            BY <1>2, <3>1, <3>2, <3>4, HeadsAre
        <3> QED
            BY <3>3, <3>4
    <2>3. \A g : Behind(Head(f), g) => Behind(heard', g)
        BY <2>2 DEF Behind
    <2>4. \A h \in Told' : h = heard' \/ h \in Told
        BY <1>3 DEF Told
    <2>5. StreamWhole'
        BY <1>2, <1>4, <2>1 DEF StreamWhole
    <2>6. GivenWhole'
        <3>1. \A i \in DOMAIN recvQueue' : \E k \in Nat, n \in 0 .. MaxPeer :
                recvQueue'[i] = IF n = 0 THEN Announcement(k) ELSE Frame(k, n)
            BY <1>3, <2>1 DEF GivenWhole
        <3>2. ASSUME NEW i \in DOMAIN recvQueue', NEW j \in DOMAIN recvQueue', j < i
              PROVE  Behind(Head(recvQueue'[j]), Head(recvQueue'[i]))
            <4>1. j + 1 < i + 1
                BY <1>3, <3>2
            <4> QED
                BY <1>3, <2>1, <4>1 DEF GivenWhole
        <3>3. ASSUME NEW i \in DOMAIN recvQueue' PROVE Behind(heard', Head(recvQueue'[i]))
            <4>1. 1 < i + 1 /\ i + 1 \in DOMAIN recvQueue /\ recvQueue'[i] = recvQueue[i + 1]
                <5>1. i \in DOMAIN recvQueue' /\ recvQueue' \in Seq(Seq(Halves))
                    BY Split, SplitNext, Parts DEF IInv, TypeOK
                <5>2. i >= 1
                    BY <5>1
                <5> QED
                    BY <1>3, <5>2
            <4>2. Behind(Head(f), Head(recvQueue[i + 1]))
                BY <1>3, <2>1, <4>1 DEF GivenWhole
            <4> QED
                BY <2>3, <4>1, <4>2
        <3>4. \A h \in Told' : h.k <= links' /\ h.n <= peerSent'
            BY <1>2, <2>1, <2>2, <2>4 DEF GivenWhole
        <3> QED
            BY <3>1, <3>2, <3>3, <3>4 DEF GivenWhole
    <2>7. Ahead'
        BY <1>4, <2>1, <2>2, <2>3, <2>4 DEF Ahead
    <2> QED
        BY <2>5, <2>6, <2>7
<1> QED
    BY <1>4, <1>5 DEF Whole

LEMMA InitWhole == Init => Whole
<1> SUFFICES ASSUME Init PROVE Whole
    OBVIOUS
<1>1. LinkWhole
    BY DEF Init, LinkWhole
<1>2. Stream = <<>> /\ Told = {heard}
    BY DEF Init, Stream, Unparsed, Told
<1>3. StreamWhole
    BY <1>2 DEF Init, StreamWhole, Flows
<1>4. GivenWhole /\ Ahead
    BY <1>2, HeadsAre DEF Init, GivenWhole, Ahead
<1> QED
    BY <1>1, <1>3, <1>4 DEF Whole

LEMMA WholeStep ==
    ASSUME IInv, IInv', Whole, [Next]_vars PROVE Whole'
<1>1. CASE OnRecvEnds \/ SendDataFails
    <2>1. at = "loop" /\ at' = "loop" /\ parsed' = 0
        BY <1>1 DEF OnRecvEnds, SendDataFails, Whole, LinkWhole
    <2> QED
        BY <1>1, <2>1, DisconnectWhole DEF OnRecvEnds, SendDataFails, recvPackets
<1>2. CASE ParseFails
    BY <1>2, DisconnectWhole DEF ParseFails, recvPackets
<1>3. CASE \/ ReConnectFails \/ SelectFails \/ OnSend \/ SendData \/ SendDataBlocks \/ MainCounts
           \/ UNCHANGED vars
    <2>1. /\ UNCHANGED <<link, links, broken, tainted, buf, net, parsed, peerSent, recvQueue, heard>>
          /\ at' = at \/ (at = "loop" /\ at' = "dead")
        BY <1>3 DEF ReConnectFails, SelectFails, OnSend, SendData, SendDataBlocks, MainCounts, vars,
                    linkVars, recvVars, recvPackets
    <2>2. at' # "parse" => parsed = 0
        BY <2>1 DEF Whole, LinkWhole
    <2> QED
        BY <2>1, <2>2, WholeStays
<1> QED
    BY <1>1, <1>2, <1>3, ReConnectWhole, LinkBreaksWhole, PeerSendsWhole, OnRecvWhole,
       ParseFrameWhole, ParseEndsWhole, MainTakeWhole DEF Next, ConnectorThread

(* As long as no connection was lost with bytes in the buffer, the main      *)
(* thread is given announcements and whole frames, each behind all it was    *)
(* given before (ParseRecvedData, ReConnect).                                *)
THEOREM FramesStayWhole == Spec => []FramesWhole
<1>1. IInv /\ Whole /\ IInv' /\ [Next]_vars => Whole'
    BY WholeStep
<1>2. IInv /\ Whole => FramesWhole
    <2> SUFFICES ASSUME Whole, ~tainted, NEW i \in DOMAIN recvQueue
                 PROVE  /\ IsAnnouncement(recvQueue[i])
                           \/ recvQueue[i] = Frame(Head(recvQueue[i]).k, Head(recvQueue[i]).n)
                        /\ IInv => \A j \in 1 .. i - 1 : Behind(Head(recvQueue[j]), Head(recvQueue[i]))
                        /\ Behind(heard, Head(recvQueue[i]))
        BY DEF FramesWhole
    <2>1. GivenWhole
        BY DEF Whole
    <2>2. IsAnnouncement(recvQueue[i])
          \/ recvQueue[i] = Frame(Head(recvQueue[i]).k, Head(recvQueue[i]).n)
        <3>1. PICK k \in Nat, n \in 0 .. MaxPeer :
                recvQueue[i] = IF n = 0 THEN Announcement(k) ELSE Frame(k, n)
            BY <2>1 DEF GivenWhole
        <3>2. Head(Frame(k, n)).k = k /\ Head(Frame(k, n)).n = n
            BY HeadsAre
        <3>3. CASE n = 0
            <4>1. recvQueue[i] = Announcement(k)
                BY <3>1, <3>3
            <4>2. Head(Announcement(k)).n = 0
                BY HeadsAre
            <4> QED
                BY <4>1, <4>2 DEF IsAnnouncement
        <3>4. CASE n # 0
            <4>1. recvQueue[i] = Frame(k, n)
                BY <3>1, <3>4
            <4> QED
                BY <3>2, <4>1
        <3> QED
            BY <3>3, <3>4
    <2>3. ASSUME IInv, NEW j \in 1 .. i - 1 PROVE Behind(Head(recvQueue[j]), Head(recvQueue[i]))
        <3>1. recvQueue \in Seq(Seq(Halves))
            BY <2>3, Split DEF RecvInv, RecvOK
        <3>2. j \in DOMAIN recvQueue /\ j < i
            BY <3>1
        <3> QED
            BY <2>1, <3>2 DEF GivenWhole
    <2>4. Behind(heard, Head(recvQueue[i]))
        BY <2>1 DEF GivenWhole
    <2> QED
        BY <2>2, <2>3, <2>4
<1> QED
    BY InitWhole, Invariance, <1>1, <1>2, PTL DEF Spec
=============================================================================
