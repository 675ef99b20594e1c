------------------------- MODULE SelectServerProofs -------------------------
(***************************************************************************)
(* The select server for every size of its pools, rings and buffers and    *)
(* every number of connections: its type invariant, the order in which     *)
(* messages leave, the references of a packet, and the order in which the  *)
(* main thread hears of a session.                                         *)
(***************************************************************************)
EXTENDS SelectServer, FiniteSetTheorems, SequenceTheorems, TLAPS

LEMMA Regrouped ==
    \A q, p, r \in Seq(Entries) : (q \o p) \o r = q \o (p \o r)
BY ConcatAssociative

-----------------------------------------------------------------------------
(* Counting the places of a queue.                                         *)

\* The places of q that hold a member of P
Holding(q, P) == {i \in DOMAIN q : q[i] \in P}
Count(q, P) == Cardinality(Holding(q, P))

LEMMA HoldingFinite ==
    ASSUME NEW S, NEW q \in Seq(S), NEW P
    PROVE  IsFiniteSet(Holding(q, P)) /\ Count(q, P) \in Nat /\ Count(q, P) <= Len(q)
<1>1. Len(q) \in Nat /\ Holding(q, P) \subseteq 1 .. Len(q)
    BY DEF Holding
<1>2. IsFiniteSet(1 .. Len(q)) /\ Cardinality(1 .. Len(q)) = Len(q)
    <2>1. 1 \in Int /\ Len(q) \in Int /\ (1 > Len(q) => Len(q) = 0) /\ Len(q) - 1 + 1 = Len(q)
        BY <1>1
    <2> QED
        BY <2>1, FS_Interval, Zenon
<1>3. IsFiniteSet(Holding(q, P)) /\ Cardinality(Holding(q, P)) <= Cardinality(1 .. Len(q))
    BY <1>1, <1>2, FS_Subset
<1> QED
    BY <1>2, <1>3, FS_CardinalityType DEF Count

LEMMA CountBehind ==
    ASSUME NEW S, NEW q \in Seq(S), NEW r \in Seq(S), NEW P
    PROVE  Count(q \o r, P) = Count(q, P) + Count(r, P)
<1> DEFINE t == q \o r
<1> DEFINE n == Len(q)
<1> DEFINE A == Holding(q, P)
<1> DEFINE B == Holding(r, P)
<1> DEFINE C == {i \in n + 1 .. n + Len(r) : r[i - n] \in P}
<1>1. /\ n \in Nat /\ Len(r) \in Nat
      /\ DOMAIN q = 1 .. n /\ DOMAIN r = 1 .. Len(r) /\ DOMAIN t = 1 .. n + Len(r)
      /\ \A i \in 1 .. n : t[i] = q[i]
      /\ \A i \in n + 1 .. n + Len(r) : t[i] = r[i - n]
    OBVIOUS
<1> HIDE DEF t, n
<1>2. Holding(t, P) = A \cup C /\ A \cap C = {}
    BY <1>1 DEF Holding
<1>3. /\ IsFiniteSet(A) /\ IsFiniteSet(B)
      /\ Cardinality(A) = Count(q, P) /\ Cardinality(B) = Count(r, P)
      /\ Cardinality(A) \in Nat /\ Cardinality(B) \in Nat
    BY HoldingFinite DEF Count
<1>4. [i \in B |-> i + n] \in Bijection(B, C)
    <2> DEFINE f == [i \in B |-> i + n]
    <2>1. \A i \in B : i \in 1 .. Len(r) /\ r[i] \in P /\ i + n - n = i
        BY <1>1 DEF Holding
    <2>2. f \in [B -> C]
        BY <1>1, <2>1
    <2>3. \A i, j \in B : f[i] = f[j] => i = j
        BY <1>1, <2>1
    <2>4. \A k \in C : k - n \in B /\ f[k - n] = k
        BY <1>1 DEF Holding
    <2> HIDE DEF f, B, C
    <2>5. \A k \in C : \E i \in B : f[i] = k
        BY <2>4
    <2>6. DOMAIN f = B
        BY <2>2
    <2>7. IsInjective(f)
        BY <2>3, <2>6, Zenon DEF IsInjective
    <2>8. f \in Bijection(B, C)
        BY <2>2, <2>5, <2>7, Zenon DEF Bijection, Injection, Surjection
    <2> QED
        BY <2>8 DEF f
<1>5. IsFiniteSet(C) /\ Cardinality(C) = Cardinality(B)
    BY <1>3, <1>4, FS_Bijection DEF ExistsBijection
<1> HIDE DEF A, B, C
<1>6. Cardinality(A \cup C) = Cardinality(A) + Cardinality(C)
    <2>1. Cardinality(A \cup C) = Cardinality(A) + Cardinality(C) - Cardinality(A \cap C)
        BY <1>3, <1>5, FS_Union
    <2>2. Cardinality(A \cap C) = 0
        BY <1>2, FS_EmptySet
    <2> QED
        BY <1>2, <1>3, <1>5, <2>1, <2>2
<1>7. Count(t, P) = Count(q, P) + Count(r, P)
    BY <1>2, <1>3, <1>5, <1>6 DEF Count
<1> QED
    BY <1>7 DEF t

LEMMA CountOne ==
    ASSUME NEW e, NEW P
    PROVE  /\ Count(<<>>, P) = 0
           /\ Count(<<e>>, P) = IF e \in P THEN 1 ELSE 0
<1>1. Holding(<<>>, P) = {}
    BY DEF Holding
<1>2. Holding(<<e>>, P) = IF e \in P THEN {1} ELSE {}
    BY DEF Holding
<1> QED
    BY <1>1, <1>2, FS_EmptySet, FS_Singleton DEF Count

\* A queue is its first element and those behind it.
LEMMA HeadAndTail ==
    ASSUME NEW S, NEW q \in Seq(S), q # <<>>
    PROVE  /\ Head(q) \in S /\ Tail(q) \in Seq(S) /\ q = <<Head(q)>> \o Tail(q)
           /\ Len(Tail(q)) = Len(q) - 1 /\ Len(q) \in Nat \ {0}
<1> DEFINE h == <<Head(q)>>
<1> DEFINE t == Tail(q)
<1>1. /\ h \in Seq(S) /\ Len(h) = 1 /\ h[1] = q[1] /\ t \in Seq(S) /\ Len(t) = Len(q) - 1
      /\ Len(q) \in Nat \ {0}
      /\ \A i \in 1 .. Len(q) - 1 : t[i] = q[i + 1]
    OBVIOUS
<1> HIDE DEF h, t
<1>2. /\ h \o t \in Seq(S) /\ Len(h \o t) = Len(q)
      /\ \A i \in 1 .. Len(q) : (h \o t)[i] = IF i <= 1 THEN h[i] ELSE t[i - 1]
    <2>1. /\ h \o t \in Seq(S) /\ Len(h \o t) = Len(h) + Len(t)
          /\ \A i \in 1 .. Len(h) + Len(t) : (h \o t)[i] = IF i <= Len(h) THEN h[i]
                                                           ELSE t[i - Len(h)]
        BY <1>1, ConcatProperties
    <2>2. Len(h) + Len(t) = Len(q)
        BY <1>1
    <2> QED
        BY <1>1, <2>1, <2>2
<1>3. ASSUME NEW i \in 1 .. Len(q) PROVE (h \o t)[i] = q[i]
    <2>1. CASE i = 1
        BY <1>1, <1>2, <2>1
    <2>2. CASE i # 1
        <3> DEFINE k == i - 1
        <3>1. k \in 1 .. Len(q) - 1 /\ k + 1 = i /\ ~(i <= 1)
            BY <1>1, <2>2
        <3>2. (h \o t)[i] = t[k]
            BY <1>2, <3>1
        <3> HIDE DEF k
        <3>3. t[k] = q[k + 1]
            BY <1>1, <3>1, Zenon
        <3> QED
            BY <3>1, <3>2, <3>3
    <2> QED
        BY <2>1, <2>2
<1>4. h \o t = q
    BY <1>2, <1>3, SeqEqual
<1> QED
    BY <1>1, <1>4 DEF h, t

\* The first n elements of a queue, and those behind them
LEMMA FrontAndRest ==
    ASSUME NEW S, NEW q \in Seq(S), NEW n \in 0 .. Len(q)
    PROVE  /\ SubSeq(q, 1, n) \in Seq(S) /\ Len(SubSeq(q, 1, n)) = n
           /\ SubSeq(q, n + 1, Len(q)) \in Seq(S) /\ Len(SubSeq(q, n + 1, Len(q))) = Len(q) - n
           /\ SubSeq(q, 1, n) \o SubSeq(q, n + 1, Len(q)) = q
<1>1. Len(q) \in Nat /\ \A i \in 1 .. Len(q) : q[i] \in S
    OBVIOUS
<1>2. /\ 1 \in Int /\ n \in Int /\ Len(q) \in Int /\ n + 1 \in Int
      /\ 1 .. n \subseteq 1 .. Len(q) /\ n + 1 .. Len(q) \subseteq 1 .. Len(q)
    BY <1>1
<1>3. /\ SubSeq(q, 1, n) \in Seq(S)
      /\ Len(SubSeq(q, 1, n)) = IF 1 <= n THEN n - 1 + 1 ELSE 0
    <2>1. \A i \in 1 .. n : q[i] \in S
        BY <1>1, <1>2
    <2> QED
        BY <1>2, <2>1, SubSeqProperties
<1>4. /\ SubSeq(q, n + 1, Len(q)) \in Seq(S)
      /\ Len(SubSeq(q, n + 1, Len(q))) = IF n + 1 <= Len(q) THEN Len(q) - (n + 1) + 1 ELSE 0
    <2>1. \A i \in n + 1 .. Len(q) : q[i] \in S
        BY <1>1, <1>2
    <2> QED
        BY <1>2, <2>1, SubSeqProperties
<1>5. SubSeq(q, 1, n) \o SubSeq(q, n + 1, Len(q)) = q
    <2>1. /\ 1 \in 1 .. Len(q) + 1 /\ n \in 1 - 1 .. Len(q) /\ Len(q) \in n .. Len(q)
        BY <1>1
    <2>2. SubSeq(q, 1, n) \o SubSeq(q, n + 1, Len(q)) = SubSeq(q, 1, Len(q))
        BY <1>1, <2>1, ConcatAdjacentSubSeq
    <2> QED
        BY <2>2, SubSeqFull
<1> DEFINE a == Len(SubSeq(q, 1, n))
<1> DEFINE b == Len(SubSeq(q, n + 1, Len(q)))
<1> DEFINE l == Len(q)
<1>6. /\ a = (IF 1 <= n THEN n - 1 + 1 ELSE 0) /\ l \in Nat /\ n \in 0 .. l
      /\ b = (IF n + 1 <= l THEN l - (n + 1) + 1 ELSE 0)
    BY <1>1, <1>3, <1>4
<1> HIDE DEF a, b, l
<1>7. a = n /\ b = l - n
    BY <1>6
<1> QED
    BY <1>3, <1>4, <1>5, <1>7 DEF a, b, l

LEMMA CountTaken ==
    ASSUME NEW S, NEW q \in Seq(S), q # <<>>, NEW P
    PROVE  /\ Count(q, P) \in Nat /\ Count(Tail(q), P) \in Nat
           /\ Count(q, P) = Count(Tail(q), P) + (IF Head(q) \in P THEN 1 ELSE 0)
<1> DEFINE h == <<Head(q)>>
<1> DEFINE t == Tail(q)
<1>1. h \in Seq(S) /\ t \in Seq(S) /\ q = h \o t
    BY HeadAndTail
<1>2. Count(h, P) = IF Head(q) \in P THEN 1 ELSE 0
    BY CountOne
<1> HIDE DEF h, t
<1>3. Count(h \o t, P) = Count(h, P) + Count(t, P) /\ Count(h, P) \in Nat /\ Count(t, P) \in Nat
    BY <1>1, CountBehind, HoldingFinite
<1>4. Count(q, P) = Count(t, P) + Count(h, P)
    BY <1>1, <1>3
<1>5. Count(q, P) \in Nat
    BY HoldingFinite
<1> QED
    BY <1>2, <1>3, <1>4, <1>5 DEF t

\* What a queue counts after an element is put behind it, and after its first is taken.
LEMMA CountMoves ==
    ASSUME NEW S, NEW q \in Seq(S), NEW P
    PROVE  /\ Count(q, P) \in Nat
           /\ \A e \in S : Count(Append(q, e), P) = Count(q, P) + (IF e \in P THEN 1 ELSE 0)
           /\ q # <<>> => Count(q, P) = Count(Tail(q), P) + (IF Head(q) \in P THEN 1 ELSE 0)
<1>1. ASSUME NEW e \in S
      PROVE  Count(Append(q, e), P) = Count(q, P) + (IF e \in P THEN 1 ELSE 0)
    <2> DEFINE h == <<e>>
    <2>1. h \in Seq(S) /\ Append(q, e) = q \o h
        BY AppendIsConcat
    <2>2. Count(h, P) = IF e \in P THEN 1 ELSE 0
        BY CountOne
    <2> HIDE DEF h
    <2> QED
        BY <2>1, <2>2, CountBehind
<1>2. q # <<>> => Count(q, P) = Count(Tail(q), P) + (IF Head(q) \in P THEN 1 ELSE 0)
    BY CountTaken
<1> QED
    BY <1>1, <1>2, HoldingFinite

-----------------------------------------------------------------------------
(* The type invariant.  Behind the bounds that TypeOK states are three        *)
(* counts: the objects in the pool and in use, the packets for receiving in   *)
(* the pool and in the queue, and the connects that can still become a        *)
(* session.                                                                   *)

Notes == [s : Sids, what : Nat \cup {Up, Gone}]
Framed == {m \in Notes : m.what \notin {Up, Gone}}

TurnOK == at \in {"close", "connected", "work", "parse", "direct", "flush"} /\ done \in 0 .. Turn

ConnOK ==
    /\ works \in Seq(BOOLEAN) /\ Len(works) <= WorkCap
    /\ trying \in [BOOLEAN -> Nat] /\ results \in 0 .. WorkCap
    /\ asks \in 0 .. MaxAsks /\ arrivals \in 0 .. MaxArrivals /\ backlog \in 0 .. arrivals
    /\ lastId + backlog + Count(works, {There}) + trying[There] + results <= arrivals + asks

PoolOK ==
    /\ lastId \in 0 .. MaxArrivals + MaxAsks /\ live \subseteq 1 .. lastId
    /\ pool \in Seq(BOOLEAN) /\ Len(pool) + Cardinality(live) = PoolSize
    /\ reconnect \in [Sids -> BOOLEAN]

ReadOK ==
    /\ readable \subseteq live /\ writable \subseteq live
    /\ at \in {"close", "connected"} => readable = {} /\ writable = {}
    /\ at = "parse" => current \in live /\ parsed \in 0 .. Len(buf[current])

HandOK ==
    IF at \in {"direct", "flush"} THEN hand \in Entries /\ hand.s \in live ELSE hand = <<>>

QueueOK ==
    /\ sendable \in [Sids -> BOOLEAN] /\ sendQ \in [Sids -> Seq(Entries)]
    /\ \A s \in Sids : Len(sendQ[s]) <= QueueCap

BufOK == buf \in [Sids -> Seq(Nat)] /\ \A s \in Sids : Len(buf[s]) <= BufCap

NetOK ==
    /\ net \in [Sids -> Seq(Nat)] /\ kernel \in [Sids -> 0 .. KernelCap] /\ sent \in [Sids -> Nat]
    /\ lost \subseteq live

CleanOK ==
    \A s \in Sids \ live :
        sendable[s] /\ sendQ[s] = <<>> /\ buf[s] = <<>> /\ net[s] = <<>> /\ kernel[s] = 0

HeardOK ==
    /\ recvQueue \in Seq(Notes) /\ Len(recvQueue) <= RecvCap /\ unheard \subseteq Sids
    /\ recvFree \in Nat /\ recvFree + Count(recvQueue, Framed) <= RecvPool

CloseOK == closes \in Seq(Sids) /\ Len(closes) <= CloseCap /\ late \subseteq Sids

RingOK ==
    /\ mainRing \in Seq(Entries) /\ Len(mainRing) <= MainCap
    /\ sendRing \in Seq(Entries) /\ Len(sendRing) <= SendCap

MainOK == filling \subseteq Entries /\ connected \subseteq Sids /\ messages \in 0 .. MaxMessages

RefsOK == refs \in [Packets -> Int] /\ sendFree \in [Packets -> Int] /\ stray \in [Packets -> Nat]

HistOK == out \in [Sids -> Nat] /\ got \in [Sids -> Seq(Nat \cup {Up, Gone})]

Types ==
    /\ TurnOK /\ ConnOK /\ PoolOK /\ ReadOK /\ HandOK /\ QueueOK /\ BufOK /\ NetOK /\ CleanOK
    /\ HeardOK /\ CloseOK /\ RingOK /\ MainOK /\ RefsOK /\ HistOK

LEMMA Bounds ==
    /\ Sids = 1 .. MaxArrivals + MaxAsks /\ MaxArrivals \in Nat /\ MaxAsks \in Nat
    /\ MaxMessages \in Nat /\ BufCap \in Nat \ {0} /\ Turn \in Nat \ {0} /\ KernelCap \in Nat \ {0}
    /\ RecvCap \in Nat /\ CloseCap \in Nat /\ MainCap \in Nat /\ SendCap \in Nat /\ QueueCap \in Nat
    /\ WorkCap \in Nat /\ RecvPool \in Nat /\ PoolSize \in Nat
BY SelectServerAssumption DEF Sids

LEMMA Facts ==
    ASSUME Types
    PROVE  /\ TurnOK /\ ConnOK /\ PoolOK /\ ReadOK /\ HandOK /\ QueueOK /\ BufOK /\ NetOK /\ CleanOK
           /\ HeardOK /\ CloseOK /\ RingOK /\ MainOK /\ RefsOK /\ HistOK
           /\ live \subseteq Sids /\ IsFiniteSet(live) /\ Cardinality(live) \in Nat
<1>1. lastId \in 0 .. MaxArrivals + MaxAsks /\ live \subseteq 1 .. lastId
    BY DEF Types, PoolOK
<1>2. live \subseteq Sids
    BY <1>1, Bounds
<1>3. IsFiniteSet(1 .. lastId)
    <2>1. 1 \in Int /\ lastId \in Int
        BY <1>1
    <2> QED
        BY <2>1, FS_Interval
<1>4. IsFiniteSet(live) /\ Cardinality(live) \in Nat
    BY <1>1, <1>3, FS_Subset, FS_CardinalityType
<1> QED
    BY <1>2, <1>4, Zenon DEF Types

LEMMA FactsNext ==
    ASSUME TurnOK', ConnOK', PoolOK', ReadOK', HandOK', QueueOK', BufOK', NetOK', CleanOK',
           HeardOK', CloseOK', RingOK', MainOK', RefsOK', HistOK'
    PROVE  Types'
BY Zenon DEF Types

\* What a step leaves alone keeps its part.
LEMMA Kept ==
    /\ TurnOK /\ UNCHANGED <<at, done>> => TurnOK'
    /\ ConnOK /\ UNCHANGED <<works, trying, results, asks, arrivals, backlog, lastId>> => ConnOK'
    /\ PoolOK /\ UNCHANGED <<live, lastId, pool, reconnect>> => PoolOK'
    /\ ReadOK /\ UNCHANGED <<at, readable, writable, live, current, parsed, buf>> => ReadOK'
    /\ HandOK /\ UNCHANGED <<at, hand, live>> => HandOK'
    /\ QueueOK /\ UNCHANGED <<sendable, sendQ>> => QueueOK'
    /\ BufOK /\ UNCHANGED buf => BufOK'
    /\ NetOK /\ UNCHANGED <<net, kernel, sent, lost, live>> => NetOK'
    /\ CleanOK /\ UNCHANGED <<sendable, sendQ, buf, net, kernel, live>> => CleanOK'
    /\ HeardOK /\ UNCHANGED <<recvQueue, recvFree, unheard>> => HeardOK'
    /\ CloseOK /\ UNCHANGED <<closes, late>> => CloseOK'
    /\ RingOK /\ UNCHANGED <<mainRing, sendRing>> => RingOK'
    /\ MainOK /\ UNCHANGED <<filling, connected, messages>> => MainOK'
    /\ RefsOK /\ UNCHANGED <<refs, sendFree, stray>> => RefsOK'
    /\ HistOK /\ UNCHANGED <<out, got>> => HistOK'
<1>1. /\ TurnOK /\ UNCHANGED <<at, done>> => TurnOK'
      /\ PoolOK /\ UNCHANGED <<live, lastId, pool, reconnect>> => PoolOK'
    BY DEF TurnOK, PoolOK
<1>2. ConnOK /\ UNCHANGED <<works, trying, results, asks, arrivals, backlog, lastId>> => ConnOK'
    BY Zenon DEF ConnOK
<1>3. /\ ReadOK /\ UNCHANGED <<at, readable, writable, live, current, parsed, buf>> => ReadOK'
      /\ HandOK /\ UNCHANGED <<at, hand, live>> => HandOK'
    BY DEF ReadOK, HandOK
<1>4. /\ QueueOK /\ UNCHANGED <<sendable, sendQ>> => QueueOK'
      /\ BufOK /\ UNCHANGED buf => BufOK'
      /\ NetOK /\ UNCHANGED <<net, kernel, sent, lost, live>> => NetOK'
    BY DEF QueueOK, BufOK, NetOK
<1>5. CleanOK /\ UNCHANGED <<sendable, sendQ, buf, net, kernel, live>> => CleanOK'
    BY DEF CleanOK
<1>6. HeardOK /\ UNCHANGED <<recvQueue, recvFree, unheard>> => HeardOK'
    BY Zenon DEF HeardOK
<1>7. /\ CloseOK /\ UNCHANGED <<closes, late>> => CloseOK'
      /\ RingOK /\ UNCHANGED <<mainRing, sendRing>> => RingOK'
      /\ MainOK /\ UNCHANGED <<filling, connected, messages>> => MainOK'
      /\ RefsOK /\ UNCHANGED <<refs, sendFree, stray>> => RefsOK'
      /\ HistOK /\ UNCHANGED <<out, got>> => HistOK'
    BY DEF CloseOK, RingOK, MainOK, RefsOK, HistOK
<1> QED
    BY <1>1, <1>2, <1>3, <1>4, <1>5, <1>6, <1>7

-----------------------------------------------------------------------------
(* What the parts share.                                                     *)

LEMMA AnnounceKeeps ==
    ASSUME HeardOK, NEW s \in Sids, NEW what \in {Up, Gone}, Announce(s, what), recvFree' = recvFree
    PROVE  HeardOK'
<1>1. CASE Len(recvQueue) < RecvCap
    <2> DEFINE e == Told(s, what)
    <2>1. recvQueue' = Append(recvQueue, e) /\ unheard' = unheard
        BY <1>1 DEF Announce
    <2>2. e \in Notes /\ e \notin Framed
        BY DEF Told, Notes, Framed
    <2> HIDE DEF e
    <2>3. recvQueue \in Seq(Notes)
        BY DEF HeardOK
    <2>4. Count(recvQueue', Framed) = Count(recvQueue, Framed) + 0
        BY <2>1, <2>2, <2>3, CountMoves
    <2>5. Count(recvQueue', Framed) = Count(recvQueue, Framed)
        BY <2>3, <2>4, CountMoves
    <2>6. recvQueue' \in Seq(Notes) /\ Len(recvQueue') <= RecvCap
        BY <1>1, <2>1, <2>2, <2>3, Bounds
    <2> QED
        BY <2>1, <2>5, <2>6 DEF HeardOK
<1>2. CASE ~(Len(recvQueue) < RecvCap)
    <2>1. unheard' = unheard \cup {s} /\ recvQueue' = recvQueue
        BY <1>2 DEF Announce
    <2> QED
        BY <2>1 DEF HeardOK
<1> QED
    BY <1>1, <1>2

LEMMA AddWorkKeeps ==
    ASSUME works \in Seq(BOOLEAN), Len(works) <= WorkCap, NEW d \in BOOLEAN, AddConnectWork(d)
    PROVE  /\ works' \in Seq(BOOLEAN) /\ Len(works') <= WorkCap
           /\ Count(works, {There}) \in Nat /\ Count(works', {There}) \in Nat
           /\ Count(works', {There}) <= Count(works, {There}) + (IF d = There THEN 1 ELSE 0)
<1>0. Count(works, {There}) \in Nat
    BY CountMoves
<1>1. CASE Len(works) < WorkCap
    <2>1. works' = Append(works, d)
        BY <1>1 DEF AddConnectWork
    <2>2. works' \in Seq(BOOLEAN) /\ Len(works') <= WorkCap
        BY <1>1, <2>1, Bounds
    <2>3. Count(works', {There}) = Count(works, {There}) + (IF d \in {There} THEN 1 ELSE 0)
        BY <2>1, CountMoves
    <2> QED
        BY <1>0, <2>2, <2>3
<1>2. CASE ~(Len(works) < WorkCap)
    <2>1. works' = works
        BY <1>2 DEF AddConnectWork
    <2> QED
        BY <1>0, <2>1
<1> QED
    BY <1>1, <1>2

LEMMA AddCloseKeeps ==
    ASSUME CloseOK, NEW s \in Sids, AddOneCloseSessionWork(s) PROVE CloseOK'
<1>1. CASE Len(closes) < CloseCap
    <2>1. closes' = Append(closes, s) /\ late' = late
        BY <1>1 DEF AddOneCloseSessionWork
    <2> QED
        BY <1>1, <2>1, Bounds DEF CloseOK
<1>2. CASE ~(Len(closes) < CloseCap)
    <2>1. late' = late \cup {s} /\ closes' = closes
        BY <1>2 DEF AddOneCloseSessionWork
    <2> QED
        BY <2>1 DEF CloseOK
<1> QED
    BY <1>1, <1>2

LEMMA OpenKeeps ==
    ASSUME PoolOK, HeardOK, lastId < MaxArrivals + MaxAsks, pool # <<>>, NEW flag \in BOOLEAN,
           OpenSession(flag), recvFree' = recvFree
    PROVE  /\ PoolOK' /\ HeardOK' /\ lastId' = lastId + 1 /\ live' = live \cup {lastId + 1}
           /\ lastId + 1 \in Sids /\ lastId + 1 \notin live
<1>1. /\ live' = live \cup {lastId + 1} /\ lastId' = lastId + 1 /\ pool' = Tail(pool)
      /\ reconnect' = [reconnect EXCEPT ![lastId + 1] = flag] /\ Announce(lastId + 1, Up)
    BY DEF OpenSession
<1> DEFINE s == lastId + 1
<1>2. lastId \in Nat /\ s \in Sids /\ s \notin live /\ live \subseteq 1 .. lastId
    BY Bounds DEF PoolOK
<1>3. HeardOK'
    BY <1>1, <1>2, AnnounceKeeps
<1>4. IsFiniteSet(1 .. lastId)
    <2>1. 1 \in Int /\ lastId \in Int
        BY <1>2
    <2> QED
        BY <2>1, FS_Interval
<1>5. IsFiniteSet(live) /\ Cardinality(live) \in Nat
    BY <1>2, <1>4, FS_Subset, FS_CardinalityType
<1> HIDE DEF s
<1>6. Cardinality(live \cup {s}) = Cardinality(live) + 1
    BY <1>2, <1>5, FS_AddElement
<1>7. pool' \in Seq(BOOLEAN) /\ Len(pool') = Len(pool) - 1 /\ Len(pool) \in Nat
    BY <1>1, HeadAndTail DEF PoolOK
<1>8. Len(pool') + Cardinality(live') = PoolSize
    BY <1>1, <1>5, <1>6, <1>7 DEF PoolOK, s
<1>9. reconnect' \in [Sids -> BOOLEAN]
    BY <1>1, <1>2 DEF PoolOK
<1>10. lastId' \in 0 .. MaxArrivals + MaxAsks /\ live' \subseteq 1 .. lastId'
    BY <1>1, <1>2, Bounds DEF PoolOK
<1> QED
    BY <1>1, <1>2, <1>3, <1>7, <1>8, <1>9, <1>10 DEF PoolOK, s

LEMMA ReleaseKeeps ==
    ASSUME RefsOK, NEW p \in Packets, NEW into \in Packets, Release(p, into), stray' = stray
    PROVE  RefsOK'
BY DEF RefsOK, Release

LEMMA ReleaseAllKeeps ==
    ASSUME RefsOK, NEW q \in Seq(Entries), ReleaseAll(q), stray' = stray
    PROVE  RefsOK'
<1>1. \A p \in Packets : CountOf(p, q) \in Nat
    <2>1. ASSUME NEW p \in Packets PROVE CountOf(p, q) \in Nat
        <3> DEFINE P == {e \in Entries : e.p = p}
        <3>1. {i \in DOMAIN q : q[i].p = p} = Holding(q, P)
            <4>1. \A i \in DOMAIN q : q[i] \in Entries
                OBVIOUS
            <4> QED
                BY <4>1 DEF Holding
        <3>2. CountOf(p, q) = Count(q, P)
            BY <3>1, Zenon DEF CountOf, Count
        <3> HIDE DEF P
        <3> QED
            BY <3>2, CountMoves
    <2> QED
        BY <2>1
<1>2. \A p \in Packets : refs[p] - CountOf(p, q) \in Int
    BY <1>1 DEF RefsOK
<1>3. refs' \in [Packets -> Int]
    BY <1>2 DEF ReleaseAll
<1>4. sendFree' \in [Packets -> Int]
    BY <1>3 DEF RefsOK, ReleaseAll
<1> QED
    BY <1>3, <1>4 DEF RefsOK

-----------------------------------------------------------------------------
(* The first two parts of a turn.                                            *)

LEMMA Numbers ==
    ASSUME Types
    PROVE  /\ lastId \in Nat /\ backlog \in Nat /\ results \in Nat /\ arrivals \in Nat
           /\ asks \in Nat /\ trying[There] \in Nat /\ Count(works, {There}) \in Nat
           /\ backlog <= arrivals /\ arrivals <= MaxArrivals /\ asks <= MaxAsks
           /\ lastId + backlog + Count(works, {There}) + trying[There] + results
              <= arrivals + asks
<1>1. Count(works, {There}) \in Nat
    BY Facts, CountMoves DEF ConnOK
<1>2. /\ results \in Nat /\ arrivals \in Nat /\ asks \in Nat /\ arrivals <= MaxArrivals
      /\ asks <= MaxAsks
    BY Facts, Bounds DEF ConnOK
<1>3. backlog \in Nat /\ backlog <= arrivals
    BY Facts, <1>2 DEF ConnOK
<1>4. trying[There] \in Nat
    BY Facts DEF ConnOK, There
<1>5. lastId \in Nat
    BY Facts, Bounds DEF PoolOK
<1> QED
    BY <1>1, <1>2, <1>3, <1>4, <1>5, Facts, Zenon DEF ConnOK

\* The sum of ConnOK when there are c connects to be made, and then d
LEMMA Fewer ==
    ASSUME NEW l \in Nat, NEW b \in Nat, NEW c \in Nat, NEW d \in Nat, NEW t \in Nat, NEW r \in Nat,
           NEW z \in Nat, l + b + c + t + r <= z
    PROVE  /\ d <= c => l + b + d + t + r <= z
           /\ d <= c + 1 => l + b + d + t + (r - 1) <= z
           /\ l + 1 + b + c + t + (r - 1) <= z
           /\ l + 1 + (b - 1) + c + t + r <= z
OBVIOUS

\* What CloseSession leaves behind
LEMMA CloseSessionTypes ==
    ASSUME Types, NEW s \in live, CloseSession(s), recvFree' = recvFree, stray' = stray,
           UNCHANGED <<trying, results, asks, arrivals, backlog>>, sent' = sent
    PROVE  /\ PoolOK' /\ ConnOK' /\ QueueOK' /\ BufOK' /\ NetOK' /\ CleanOK' /\ HeardOK' /\ RefsOK'
<1> USE Facts
<1>0. s \in Sids
    OBVIOUS
<1>1. /\ live' = live \ {s} /\ pool' = Append(pool, reconnect[s]) /\ lastId' = lastId
      /\ reconnect' = reconnect /\ sendable' = [sendable EXCEPT ![s] = TRUE]
      /\ buf' = [buf EXCEPT ![s] = <<>>] /\ sendQ' = [sendQ EXCEPT ![s] = <<>>]
      /\ ReleaseAll(sendQ[s]) /\ net' = [net EXCEPT ![s] = <<>>]
      /\ kernel' = [kernel EXCEPT ![s] = 0] /\ lost' = lost \ {s} /\ Announce(s, Gone)
      /\ IF reconnect[s] THEN AddConnectWork(Nowhere) ELSE works' = works
    BY Zenon DEF CloseSession
<1>2. PoolOK'
    <2>1. reconnect[s] \in BOOLEAN
        BY <1>0 DEF PoolOK
    <2> DEFINE flag == reconnect[s]
    <2> HIDE DEF flag
    <2>2. pool' = Append(pool, flag) /\ flag \in BOOLEAN
        BY <1>1, <2>1 DEF flag
    <2>3. pool' \in Seq(BOOLEAN) /\ Len(pool') = Len(pool) + 1 /\ Len(pool) \in Nat
        BY <2>2 DEF PoolOK
    <2>4. Cardinality(live \ {s}) = Cardinality(live) - 1
        BY FS_RemoveElement
    <2>5. Len(pool') + Cardinality(live') = PoolSize
        BY <1>1, <2>3, <2>4 DEF PoolOK
    <2> QED
        BY <1>1, <2>3, <2>5 DEF PoolOK
<1>3. ConnOK'
    <2> DEFINE c == Count(works, {There})
    <2> DEFINE d == Count(works', {There})
    <2>1. works' \in Seq(BOOLEAN) /\ Len(works') <= WorkCap /\ c \in Nat /\ d \in Nat /\ d <= c
        <3>1. CASE reconnect[s]
            <4>1. AddConnectWork(Nowhere) /\ Nowhere \in BOOLEAN /\ Nowhere # There
                BY <1>1, <3>1 DEF Nowhere, There
            <4>2. works \in Seq(BOOLEAN) /\ Len(works) <= WorkCap
                BY DEF ConnOK
            <4>3. /\ works' \in Seq(BOOLEAN) /\ Len(works') <= WorkCap
                  /\ Count(works, {There}) \in Nat /\ Count(works', {There}) \in Nat
                  /\ Count(works', {There}) <= Count(works, {There})
                                               + (IF Nowhere = There THEN 1 ELSE 0)
                BY <4>1, <4>2, AddWorkKeeps
            <4> QED
                BY <4>1, <4>3
        <3>2. CASE ~reconnect[s]
            <4>1. works' = works
                BY <1>1, <3>2
            <4> QED
                BY <4>1, CountMoves DEF ConnOK
        <3> QED
            BY <3>1, <3>2
    <2>2. /\ lastId + backlog + c + trying[There] + results <= arrivals + asks
          /\ lastId \in Nat /\ backlog \in Nat /\ results \in Nat /\ arrivals + asks \in Nat
          /\ trying[There] \in Nat
        BY Numbers
    <2>3. /\ trying' = trying /\ results' = results /\ asks' = asks /\ arrivals' = arrivals
          /\ backlog' = backlog /\ lastId' = lastId
        BY <1>1
    <2> HIDE DEF c, d
    <2>4. lastId + backlog + d + trying[There] + results <= arrivals + asks
        <3> DEFINE t == trying[There]
        <3> DEFINE z == arrivals + asks
        <3>1. c \in Nat /\ d \in Nat /\ d <= c
            BY <2>1
        <3>2. /\ lastId + backlog + c + t + results <= z
              /\ lastId \in Nat /\ backlog \in Nat /\ results \in Nat /\ z \in Nat /\ t \in Nat
            BY <2>2
        <3> HIDE DEF t, z
        <3>3. lastId + backlog + d + t + results <= z
            BY <3>1, <3>2, Fewer
        <3> QED
            BY <3>3 DEF t, z
    <2>5. lastId' + backlog' + d + trying'[There] + results' <= arrivals' + asks'
        BY <2>3, <2>4
    <2> QED
        BY <2>1, <2>3, <2>5 DEF ConnOK, d
<1>4. QueueOK'
    BY <1>0, <1>1, Bounds DEF QueueOK
<1>5. BufOK'
    BY <1>0, <1>1, Bounds DEF BufOK
<1>6. NetOK'
    <2>1. /\ net' \in [Sids -> Seq(Nat)] /\ lost' \subseteq live' /\ sent' \in [Sids -> Nat]
        BY <1>0, <1>1 DEF NetOK
    <2>2. 0 \in 0 .. KernelCap
        BY Bounds
    <2>3. kernel' \in [Sids -> 0 .. KernelCap]
        BY <1>0, <1>1, <2>2, Zenon DEF NetOK
    <2> QED
        BY <2>1, <2>3 DEF NetOK
<1>7. CleanOK'
    BY <1>0, <1>1 DEF CleanOK, QueueOK, BufOK, NetOK
<1>8. HeardOK'
    BY <1>0, <1>1, AnnounceKeeps
<1>9. RefsOK'
    <2>1. sendQ[s] \in Seq(Entries)
        BY <1>0 DEF QueueOK
    <2> QED
        BY <1>1, <2>1, ReleaseAllKeeps
<1> QED
    BY <1>2, <1>3, <1>4, <1>5, <1>6, <1>7, <1>8, <1>9

LEMMA CloseOneTypes == Types /\ CloseOne => Types'
<1> SUFFICES ASSUME Types, CloseOne PROVE Types'
    OBVIOUS
<1> USE Facts
<1> DEFINE s == Head(closes)
<1>1. /\ at = "close" /\ closes # <<>> /\ done < Turn /\ closes' = Tail(closes) /\ done' = done + 1
      /\ IF s \in live THEN CloseSession(s)
         ELSE UNCHANGED <<poolVars, sessionVars, net, kernel, lost, recvQueue, unheard, refs,
                          sendFree, works>>
      /\ UNCHANGED <<at, readable, writable, current, parsed, hand, backlog, boundVars, out,
                     recvFree, late, mainRing, sendRing, stray, trying, results, asks, mainVars,
                     resumed>>
    BY Zenon DEF CloseOne
<1>2. /\ UNCHANGED <<at, readable, writable, current, parsed, hand, backlog, out, recvFree, late,
                     mainRing, sendRing, stray, trying, results, asks>>
      /\ UNCHANGED <<sent, frames, losses, arrivals, connected, filling, got, messages>>
    BY <1>1 DEF boundVars, mainVars
<1> HIDE DEF s
<1>3. TurnOK' /\ CloseOK'
    <2>1. closes' \in Seq(Sids) /\ Len(closes') <= CloseCap
        BY <1>1, HeadAndTail, Bounds DEF CloseOK
    <2> QED
        BY <1>1, <1>2, <2>1, Bounds DEF TurnOK, CloseOK
<1>4. RingOK' /\ MainOK' /\ HistOK'
    BY <1>2, Kept
<1>5. /\ PoolOK' /\ ConnOK' /\ QueueOK' /\ BufOK' /\ NetOK' /\ CleanOK' /\ HeardOK' /\ RefsOK'
    <2>1. CASE s \in live
        BY <1>1, <1>2, <2>1, CloseSessionTypes
    <2>2. CASE s \notin live
        <3>1. UNCHANGED <<live, lastId, pool, reconnect, sendable, sendQ, buf, net, kernel, lost,
                          recvQueue, unheard, refs, sendFree, works>>
            BY <1>1, <2>2 DEF poolVars, sessionVars
        <3> QED
            BY <1>2, <3>1, Kept
    <2> QED
        BY <2>1, <2>2
<1>6. ReadOK' /\ HandOK'
    BY <1>1, <1>2 DEF ReadOK, HandOK
<1> QED
    BY <1>3, <1>4, <1>5, <1>6, FactsNext

LEMMA CloseEndsTypes == Types /\ CloseEnds => Types'
<1> SUFFICES ASSUME Types, CloseEnds PROVE Types'
    OBVIOUS
<1> USE Facts
<1>1. /\ at = "close" /\ at' = "connected" /\ done' = 0
      /\ late' = late \cup {closes[i] : i \in DOMAIN closes} /\ closes' = closes
      /\ UNCHANGED <<readable, writable, current, parsed, hand, resumed>>
      /\ UNCHANGED <<live, lastId, pool, reconnect, sendable, sendQ, buf>>
      /\ UNCHANGED <<net, kernel, lost, backlog, sent, frames, losses, arrivals, out>>
      /\ UNCHANGED <<recvQueue, recvFree, unheard, mainRing, sendRing, refs, sendFree, stray>>
      /\ UNCHANGED <<works, trying, results, asks, connected, filling, got, messages>>
    BY DEF CloseEnds, poolVars, sessionVars, socketVars, boundVars, heardVars, packetVars,
           connectVars, mainVars
<1>2. TurnOK' /\ HandOK' /\ ReadOK'
    BY <1>1, Bounds DEF TurnOK, HandOK, ReadOK
<1>3. CloseOK'
    <2>1. \A i \in DOMAIN closes : closes[i] \in Sids
        BY DEF CloseOK
    <2> QED
        BY <1>1, <2>1 DEF CloseOK
<1>4. /\ ConnOK' /\ PoolOK' /\ QueueOK' /\ BufOK' /\ NetOK' /\ CleanOK' /\ HeardOK' /\ RingOK'
      /\ MainOK' /\ RefsOK' /\ HistOK'
    BY <1>1, Kept
<1> QED
    BY <1>2, <1>3, <1>4, FactsNext

\* A connection that the sum of ConnOK still counts has an id left for it.
LEMMA IdLeft ==
    ASSUME Types, results + backlog > 0
    PROVE  lastId < MaxArrivals + MaxAsks
<1> DEFINE c == Count(works, {There})
<1> DEFINE t == trying[There]
<1>1. /\ lastId \in Nat /\ backlog \in Nat /\ results \in Nat /\ arrivals \in Nat
      /\ asks \in Nat /\ t \in Nat /\ c \in Nat /\ arrivals <= MaxArrivals /\ asks <= MaxAsks
      /\ lastId + backlog + c + t + results <= arrivals + asks
    BY Numbers
<1> HIDE DEF c, t
<1> QED
    BY <1>1, Bounds

LEMMA ConnectedOneTypes == Types /\ ConnectedOne => Types'
<1> SUFFICES ASSUME Types, ConnectedOne PROVE Types'
    OBVIOUS
<1> USE Facts
<1>1. /\ at = "connected" /\ results > 0 /\ done < Turn /\ results' = results - 1
      /\ done' = done + 1
      /\ IF pool = <<>>
         THEN AddConnectWork(There) /\ UNCHANGED <<poolVars, recvQueue, unheard>>
         ELSE OpenSession(TRUE) /\ works' = works
      /\ UNCHANGED <<at, readable, writable, current, parsed, hand, sendable, sendQ, buf>>
      /\ UNCHANGED <<net, kernel, lost, backlog, sent, frames, losses, arrivals, out>>
      /\ UNCHANGED <<recvFree, closes, late, mainRing, sendRing, refs, sendFree, stray>>
      /\ UNCHANGED <<trying, asks, connected, filling, got, messages>>
    BY DEF ConnectedOne, sessionVars, socketVars, boundVars, closeVars, packetVars, mainVars
<1> DEFINE c == Count(works, {There})
<1> DEFINE d == Count(works', {There})
<1>2. /\ c \in Nat /\ trying[There] \in Nat /\ results \in Nat /\ backlog \in Nat
      /\ lastId \in Nat /\ arrivals + asks \in Nat
      /\ lastId + backlog + c + trying[There] + results <= arrivals + asks
    BY Numbers
<1> HIDE DEF c, d
<1>3. TurnOK'
    BY <1>1, Bounds DEF TurnOK
<1>4. PoolOK' /\ HeardOK' /\ ConnOK' /\ live \subseteq live' /\ live' \subseteq Sids
    <2>1. CASE pool = <<>>
        <3>1. UNCHANGED <<live, lastId, pool, reconnect, recvQueue, unheard>>
            BY <1>1, <2>1 DEF poolVars
        <3>2. PoolOK' /\ HeardOK'
            BY <1>1, <3>1, Kept
        <3>3. AddConnectWork(There) /\ There \in BOOLEAN
            BY <1>1, <2>1 DEF There
        <3>4. works' \in Seq(BOOLEAN) /\ Len(works') <= WorkCap /\ d \in Nat /\ d <= c + 1
            BY <3>3, AddWorkKeeps DEF ConnOK, c, d
        <3>5. lastId + backlog + d + trying[There] + (results - 1) <= arrivals + asks
            <4> DEFINE t == trying[There]
            <4> DEFINE z == arrivals + asks
            <4>1. d \in Nat /\ d <= c + 1
                BY <3>4
            <4>2. /\ lastId + backlog + c + t + results <= z /\ c \in Nat
                  /\ lastId \in Nat /\ backlog \in Nat /\ results \in Nat /\ z \in Nat /\ t \in Nat
                BY <1>2
            <4> HIDE DEF t, z
            <4>3. lastId + backlog + d + t + (results - 1) <= z
                BY <4>1, <4>2, Fewer
            <4> QED
                BY <4>3 DEF t, z
        <3>6. lastId' + backlog' + d + trying'[There] + results' <= arrivals' + asks'
            BY <1>1, <3>1, <3>5
        <3>7. results' \in 0 .. WorkCap
            BY <1>1, Bounds DEF ConnOK
        <3>8. ConnOK'
            BY <1>1, <3>4, <3>6, <3>7 DEF ConnOK, d
        <3> QED
            BY <3>1, <3>2, <3>8
    <2>2. CASE pool # <<>>
        <3>1. OpenSession(TRUE) /\ works' = works
            BY <1>1, <2>2
        <3>2. lastId < MaxArrivals + MaxAsks
            BY <1>1, <1>2, IdLeft
        <3>3. /\ PoolOK' /\ HeardOK' /\ lastId' = lastId + 1 /\ live' = live \cup {lastId + 1}
              /\ lastId + 1 \in Sids
            BY <1>1, <2>2, <3>1, <3>2, OpenKeeps
        <3>4. lastId + 1 + backlog + c + trying[There] + (results - 1) <= arrivals + asks
            BY <1>2, Fewer
        <3>5. d = c
            BY <3>1 DEF c, d
        <3>6. lastId' + backlog' + d + trying'[There] + results' <= arrivals' + asks'
            BY <1>1, <3>3, <3>4, <3>5
        <3>7. results' \in 0 .. WorkCap
            BY <1>1, Bounds DEF ConnOK
        <3>8. ConnOK'
            BY <1>1, <3>1, <3>6, <3>7 DEF ConnOK, d
        <3> QED
            BY <3>3, <3>8
    <2> QED
        BY <2>1, <2>2
<1>5. /\ QueueOK' /\ BufOK' /\ CloseOK' /\ RingOK' /\ MainOK' /\ RefsOK' /\ HistOK'
    BY <1>1, Kept
<1>6. ReadOK' /\ HandOK' /\ NetOK' /\ CleanOK'
    BY <1>1, <1>4 DEF ReadOK, HandOK, NetOK, CleanOK
<1> QED
    BY <1>3, <1>4, <1>5, <1>6, FactsNext

LEMMA SelectTypes == Types /\ Select => Types'
<1> SUFFICES ASSUME Types, Select PROVE Types'
    OBVIOUS
<1> USE Facts
<1>1. /\ at = "connected" /\ at' = "work" /\ done' = 0
      /\ readable' = {s \in live : Readable(s)} /\ writable' = {s \in live : Writable(s)}
      /\ IF backlog = 0 THEN UNCHANGED <<poolVars, recvQueue, unheard, backlog>>
         ELSE /\ backlog' = backlog - 1
              /\ IF pool = <<>> THEN UNCHANGED <<poolVars, recvQueue, unheard>>
                 ELSE OpenSession(Head(pool))
      /\ UNCHANGED <<current, parsed, hand, sendable, sendQ, buf, net, kernel, lost>>
      /\ UNCHANGED <<sent, frames, losses, arrivals, out, recvFree, closes, late>>
      /\ UNCHANGED <<mainRing, sendRing, refs, sendFree, stray>>
      /\ UNCHANGED <<works, trying, results, asks, connected, filling, got, messages>>
    BY DEF Select, sessionVars, boundVars, closeVars, packetVars, connectVars, mainVars
<1> DEFINE c == Count(works, {There})
<1>2. /\ c \in Nat /\ trying[There] \in Nat /\ results \in Nat /\ backlog \in Nat
      /\ lastId \in Nat /\ arrivals \in Nat /\ arrivals + asks \in Nat /\ backlog <= arrivals
      /\ lastId + backlog + c + trying[There] + results <= arrivals + asks
    BY Numbers
<1> HIDE DEF c
<1>3. TurnOK'
    BY <1>1, Bounds DEF TurnOK
<1>4. /\ PoolOK' /\ HeardOK' /\ live \subseteq live' /\ live' \subseteq Sids
      /\ backlog' \in 0 .. arrivals
      /\ lastId' + backlog' + c + trying[There] + results <= arrivals + asks
    <2>1. CASE backlog = 0 \/ pool = <<>>
        <3>1. /\ UNCHANGED <<live, lastId, pool, reconnect, recvQueue, unheard>>
              /\ backlog' = IF backlog = 0 THEN backlog ELSE backlog - 1
            BY <1>1, <2>1 DEF poolVars
        <3>2. PoolOK' /\ HeardOK'
            BY <1>1, <3>1, Kept
        <3>3. backlog' \in 0 .. arrivals /\ backlog' <= backlog
            BY <1>2, <3>1
        <3>4. lastId' + backlog' + c + trying[There] + results <= arrivals + asks
            BY <1>2, <3>1, <3>3
        <3> QED
            BY <3>1, <3>2, <3>3, <3>4
    <2>2. CASE backlog # 0 /\ pool # <<>>
        <3> DEFINE flag == Head(pool)
        <3>1. flag \in BOOLEAN /\ OpenSession(flag) /\ backlog' = backlog - 1
            BY <1>1, <2>2, HeadAndTail DEF PoolOK
        <3> HIDE DEF flag
        <3>2. lastId < MaxArrivals + MaxAsks
            BY <1>2, <2>2, IdLeft
        <3>3. /\ PoolOK' /\ HeardOK' /\ lastId' = lastId + 1 /\ live' = live \cup {lastId + 1}
              /\ lastId + 1 \in Sids
            BY <1>1, <2>2, <3>1, <3>2, OpenKeeps
        <3>4. backlog' \in 0 .. arrivals
            BY <1>2, <2>2, <3>1
        <3>5. lastId + 1 + (backlog - 1) + c + trying[There] + results <= arrivals + asks
            BY <1>2, Fewer
        <3>6. lastId' + backlog' + c + trying[There] + results <= arrivals + asks
            BY <3>1, <3>3, <3>5
        <3> QED
            BY <3>3, <3>4, <3>6
    <2> QED
        BY <2>1, <2>2
<1>5. ConnOK'
    BY <1>1, <1>4 DEF ConnOK, c
<1>6. /\ QueueOK' /\ BufOK' /\ CloseOK' /\ RingOK' /\ MainOK' /\ RefsOK' /\ HistOK'
    BY <1>1, Kept
<1>7. ReadOK' /\ HandOK' /\ NetOK' /\ CleanOK'
    BY <1>1, <1>4 DEF ReadOK, HandOK, NetOK, CleanOK
<1> QED
    BY <1>3, <1>4, <1>5, <1>6, <1>7, FactsNext

-----------------------------------------------------------------------------
(* The third part: reading.                                                  *)

\* RecvFails, wherever the thread goes from it
LEMMA RecvFailsTypes ==
    ASSUME Types, NEW s \in live, RecvFails(s), sendQ' = sendQ, live' = live
    PROVE  /\ QueueOK' /\ CloseOK' /\ readable' \subseteq live' /\ writable' \subseteq live'
           /\ \A r \in Sids \ live : sendable'[r]
<1> USE Facts
<1>1. /\ sendable' = [sendable EXCEPT ![s] = FALSE] /\ AddOneCloseSessionWork(s)
      /\ readable' = readable \ {s} /\ writable' = writable \ {s}
    BY DEF RecvFails
<1>2. CloseOK'
    BY <1>1, AddCloseKeeps
<1>3. QueueOK'
    BY <1>1 DEF QueueOK
<1>4. \A r \in Sids \ live : sendable'[r]
    BY <1>1 DEF CleanOK, QueueOK
<1> QED
    BY <1>1, <1>2, <1>3, <1>4 DEF ReadOK

\* What Recv puts behind the frames of the buffer, and leaves in the socket
LEMMA Parts ==
    ASSUME NEW q \in Seq(Nat), NEW b \in Seq(Nat), NEW n \in Nat, n <= Len(q), Len(b) + n <= BufCap
    PROVE  /\ b \o SubSeq(q, 1, n) \in Seq(Nat) /\ Len(b \o SubSeq(q, 1, n)) <= BufCap
           /\ SubSeq(q, n + 1, Len(q)) \in Seq(Nat)
<1> DEFINE f == SubSeq(q, 1, n)
<1>1. n \in 0 .. Len(q)
    OBVIOUS
<1>2. f \in Seq(Nat) /\ Len(f) = n /\ SubSeq(q, n + 1, Len(q)) \in Seq(Nat)
    BY <1>1, FrontAndRest
<1> HIDE DEF f
<1>3. b \o f \in Seq(Nat) /\ Len(b \o f) <= BufCap
    BY <1>2, Bounds
<1> QED
    BY <1>2, <1>3 DEF f

LEMMA SessionRecvTypes ==
    ASSUME Types, NEW s \in Sids, SessionRecv(s)
    PROVE  Types'
<1> USE Facts
<1>1. /\ at = "work" /\ s \in readable
      /\ IF FitsBuffer(s) = 0
         THEN RecvFails(s) /\ UNCHANGED <<at, current, parsed, net, buf>>
         ELSE /\ buf' = [buf EXCEPT ![s] = @ \o SubSeq(net[s], 1, FitsBuffer(s))]
              /\ net' = [net EXCEPT ![s] = SubSeq(@, FitsBuffer(s) + 1, Len(@))]
              /\ at' = "parse" /\ current' = s /\ parsed' = 0
              /\ UNCHANGED <<sendable, closeVars, readable, writable>>
      /\ UNCHANGED <<done, hand, live, lastId, pool, reconnect, sendQ, kernel, lost, backlog>>
      /\ UNCHANGED <<sent, frames, losses, arrivals, out, recvQueue, recvFree, unheard>>
      /\ UNCHANGED <<mainRing, sendRing, refs, sendFree, stray>>
      /\ UNCHANGED <<works, trying, results, asks, connected, filling, got, messages>>
    BY DEF SessionRecv, poolVars, boundVars, heardVars, packetVars, connectVars, mainVars
<1>2. s \in live
    BY <1>1 DEF ReadOK
<1>3. /\ ConnOK' /\ PoolOK' /\ HeardOK' /\ RingOK' /\ MainOK' /\ RefsOK' /\ HistOK'
    BY <1>1, Kept
<1>4. CASE FitsBuffer(s) = 0
    <2>1. RecvFails(s) /\ UNCHANGED <<at, current, parsed, net, buf>>
        BY <1>1, <1>4
    <2>2. /\ QueueOK' /\ CloseOK' /\ readable' \subseteq live' /\ writable' \subseteq live'
          /\ \A r \in Sids \ live : sendable'[r]
        BY <1>1, <1>2, <2>1, RecvFailsTypes
    <2>3. TurnOK' /\ HandOK' /\ BufOK' /\ NetOK'
        BY <1>1, <2>1, Kept
    <2>4. ReadOK' /\ CleanOK'
        BY <1>1, <2>1, <2>2 DEF ReadOK, CleanOK
    <2> QED
        BY <1>3, <2>2, <2>3, <2>4, FactsNext
<1>5. CASE FitsBuffer(s) # 0
    <2>1. /\ buf' = [buf EXCEPT ![s] = @ \o SubSeq(net[s], 1, FitsBuffer(s))]
          /\ net' = [net EXCEPT ![s] = SubSeq(@, FitsBuffer(s) + 1, Len(@))]
          /\ at' = "parse" /\ current' = s /\ parsed' = 0
          /\ UNCHANGED <<sendable, closes, late, readable, writable>>
        BY <1>1, <1>5 DEF closeVars
    <2> DEFINE n == FitsBuffer(s)
    <2> DEFINE q == net[s]
    <2> DEFINE b == buf[s]
    <2>2. q \in Seq(Nat) /\ b \in Seq(Nat) /\ Len(b) <= BufCap
        BY DEF NetOK, BufOK
    <2>3. n = IF Len(q) <= BufCap - Len(b) THEN Len(q) ELSE BufCap - Len(b)
        BY DEF FitsBuffer
    <2> HIDE DEF n, q, b
    <2>4. n \in Nat /\ n <= Len(q) /\ Len(b) + n <= BufCap
        <3>1. Len(q) \in Nat /\ Len(b) \in Nat
            BY <2>2
        <3> QED
            BY <2>2, <2>3, <3>1, Bounds
    <2>5. /\ b \o SubSeq(q, 1, n) \in Seq(Nat) /\ Len(b \o SubSeq(q, 1, n)) <= BufCap
          /\ SubSeq(q, n + 1, Len(q)) \in Seq(Nat)
        BY <2>2, <2>4, Parts
    <2>6. /\ buf' = [buf EXCEPT ![s] = b \o SubSeq(q, 1, n)]
          /\ net' = [net EXCEPT ![s] = SubSeq(q, n + 1, Len(q))]
        BY <2>1 DEF n, q, b
    <2> DEFINE x == b \o SubSeq(q, 1, n)
    <2> DEFINE y == SubSeq(q, n + 1, Len(q))
    <2>7. x \in Seq(Nat) /\ Len(x) <= BufCap /\ y \in Seq(Nat) /\ Len(x) \in Nat
        BY <2>5, LenProperties
    <2>8. buf' = [buf EXCEPT ![s] = x] /\ net' = [net EXCEPT ![s] = y]
        BY <2>6
    <2> HIDE DEF x, y
    <2>9. BufOK' /\ NetOK' /\ CleanOK'
        <3>1. BufOK'
            BY <2>7, <2>8 DEF BufOK
        <3>2. NetOK'
            BY <1>1, <2>7, <2>8 DEF NetOK
        <3>3. CleanOK'
            BY <1>1, <1>2, <2>1, <2>8 DEF CleanOK, BufOK, NetOK
        <3> QED
            BY <3>1, <3>2, <3>3
    <2>10. TurnOK' /\ HandOK' /\ QueueOK' /\ CloseOK'
        BY <1>1, <2>1 DEF TurnOK, HandOK, QueueOK, CloseOK
    <2>11. ReadOK'
        <3>1. Len(buf'[current']) \in Nat /\ current' \in live'
            BY <1>1, <1>2, <2>1, <2>7, <2>8 DEF BufOK
        <3>2. at' = "parse" /\ parsed' = 0 /\ readable' \subseteq live' /\ writable' \subseteq live'
            BY <1>1, <2>1 DEF ReadOK
        <3> QED
            BY <3>1, <3>2 DEF ReadOK
    <2> QED
        BY <1>3, <2>9, <2>10, <2>11, FactsNext
<1> QED
    BY <1>4, <1>5

\* A frame takes a packet out of the pool and into the queue.
LEMMA FrameQueued ==
    ASSUME HeardOK, NEW s \in Sids, NEW frame \in Nat, recvFree > 0, recvFree' = recvFree - 1,
           Len(recvQueue) < RecvCap, recvQueue' = Append(recvQueue, Told(s, frame)),
           unheard' = unheard
    PROVE  HeardOK'
<1> DEFINE e == Told(s, frame)
<1> DEFINE c == Count(recvQueue, Framed)
<1>1. e \in Notes /\ e \in Framed
    BY DEF Told, Notes, Framed, Up, Gone
<1>2. recvQueue' = Append(recvQueue, e) /\ recvQueue \in Seq(Notes)
    BY DEF HeardOK
<1> HIDE DEF e
<1>3. Count(recvQueue', Framed) = c + 1 /\ c \in Nat
    BY <1>1, <1>2, CountMoves
<1>4. recvFree \in Nat /\ recvFree + c <= RecvPool
    BY DEF HeardOK
<1> HIDE DEF c
<1>5. recvFree' \in Nat /\ recvFree' + Count(recvQueue', Framed) <= RecvPool
    BY <1>3, <1>4, Bounds
<1>6. recvQueue' \in Seq(Notes) /\ Len(recvQueue') <= RecvCap
    BY <1>1, <1>2, Bounds
<1> QED
    BY <1>5, <1>6 DEF HeardOK

LEMMA ParsePacketTypes == Types /\ ParsePacket => Types'
<1> SUFFICES ASSUME Types, ParsePacket PROVE Types'
    OBVIOUS
<1> USE Facts
<1> DEFINE frame == buf[current][parsed + 1]
<1> DEFINE taken == frame # Bad /\ recvFree > 0
<1>1. /\ at = "parse" /\ parsed < Len(buf[current])
      /\ recvFree' = IF taken THEN recvFree - 1 ELSE recvFree
      /\ IF taken /\ Len(recvQueue) < RecvCap
         THEN /\ recvQueue' = Append(recvQueue, Told(current, frame)) /\ parsed' = parsed + 1
              /\ UNCHANGED <<at, current, sendable, closeVars, readable, writable, unheard>>
         ELSE /\ at' = "work" /\ current' = 0 /\ parsed' = 0 /\ RecvFails(current)
              /\ unheard' = IF frame = Bad THEN unheard ELSE unheard \cup {current}
              /\ UNCHANGED recvQueue
      /\ UNCHANGED <<done, hand, live, lastId, pool, reconnect, sendQ, buf>>
      /\ UNCHANGED <<net, kernel, lost, backlog, sent, frames, losses, arrivals, out>>
      /\ UNCHANGED <<mainRing, sendRing, refs, sendFree, stray>>
      /\ UNCHANGED <<works, trying, results, asks, connected, filling, got, messages>>
    BY DEF ParsePacket, poolVars, socketVars, boundVars, packetVars, connectVars, mainVars
<1>2. current \in live /\ current \in Sids /\ parsed \in Nat
    BY <1>1 DEF ReadOK
<1>3. frame \in Nat
    <2> DEFINE b == buf[current]
    <2>1. b \in Seq(Nat) /\ parsed < Len(b)
        BY <1>1, <1>2 DEF BufOK
    <2> HIDE DEF b
    <2>2. Len(b) \in Nat /\ \A i \in 1 .. Len(b) : b[i] \in Nat
        BY <2>1
    <2>3. parsed + 1 \in 1 .. Len(b)
        BY <1>2, <2>1, <2>2
    <2>4. b[parsed + 1] \in Nat
        BY <2>2, <2>3, Zenon
    <2> QED
        BY <2>4 DEF b
<1> HIDE DEF frame
<1>4. /\ ConnOK' /\ PoolOK' /\ BufOK' /\ NetOK' /\ RingOK' /\ MainOK' /\ RefsOK' /\ HistOK'
    BY <1>1, Kept
<1>5. CASE taken /\ Len(recvQueue) < RecvCap
    <2>1. /\ recvQueue' = Append(recvQueue, Told(current, frame)) /\ parsed' = parsed + 1
          /\ UNCHANGED <<at, current, sendable, closes, late, readable, writable, unheard>>
          /\ recvFree > 0 /\ recvFree' = recvFree - 1
        BY <1>1, <1>5 DEF closeVars
    <2>2. HeardOK'
        BY <1>2, <1>3, <1>5, <2>1, FrameQueued
    <2>3. TurnOK' /\ HandOK' /\ QueueOK' /\ CleanOK' /\ CloseOK'
        BY <1>1, <2>1, Kept
    <2>4. ReadOK'
        <3> DEFINE n == Len(buf[current])
        <3>1. n \in Nat /\ parsed < n
            BY <1>1, <1>2 DEF BufOK
        <3> HIDE DEF n
        <3>2. parsed + 1 \in 0 .. n
            BY <1>2, <3>1
        <3>3. parsed' \in 0 .. Len(buf'[current']) /\ current' \in live' /\ at' = "parse"
            BY <1>1, <1>2, <2>1, <3>2, Zenon DEF n
        <3>4. readable' \subseteq live' /\ writable' \subseteq live'
            BY <1>1, <2>1 DEF ReadOK
        <3> QED
            BY <3>3, <3>4 DEF ReadOK
    <2> QED
        BY <1>4, <2>2, <2>3, <2>4, FactsNext
<1>6. CASE ~(taken /\ Len(recvQueue) < RecvCap)
    <2>1. /\ at' = "work" /\ current' = 0 /\ parsed' = 0 /\ RecvFails(current)
          /\ unheard' \subseteq unheard \cup {current}
          /\ recvQueue' = recvQueue
        BY <1>1, <1>6
    <2>2. recvFree' \in Nat /\ recvFree' <= recvFree
        BY <1>1 DEF HeardOK
    <2>3. HeardOK'
        <3> DEFINE c == Count(recvQueue, Framed)
        <3>1. c \in Nat /\ recvFree \in Nat /\ recvFree + c <= RecvPool
            BY CountMoves DEF HeardOK
        <3>2. recvFree' + c <= RecvPool
            <4> DEFINE f == recvFree'
            <4>1. f \in Nat /\ f <= recvFree
                BY <2>2
            <4> HIDE DEF c, f
            <4>2. f + c <= RecvPool
                BY <4>1, <3>1, Bounds
            <4> QED
                BY <4>2 DEF f
        <3>3. Count(recvQueue', Framed) = c
            BY <2>1
        <3>4. recvFree' + Count(recvQueue', Framed) <= RecvPool
            BY <3>2, <3>3
        <3>5. recvQueue' \in Seq(Notes) /\ Len(recvQueue') <= RecvCap /\ unheard' \subseteq Sids
            BY <1>2, <2>1 DEF HeardOK
        <3> QED
            BY <2>2, <3>4, <3>5 DEF HeardOK
    <2>4. /\ QueueOK' /\ CloseOK' /\ readable' \subseteq live' /\ writable' \subseteq live'
          /\ \A r \in Sids \ live : sendable'[r]
        BY <1>1, <1>2, <2>1, RecvFailsTypes
    <2>5. TurnOK' /\ HandOK' /\ ReadOK' /\ CleanOK'
        BY <1>1, <2>1, <2>4 DEF TurnOK, HandOK, ReadOK, CleanOK
    <2> QED
        BY <1>4, <2>3, <2>4, <2>5, FactsNext
<1> QED
    BY <1>5, <1>6

LEMMA ParseEndsTypes == Types /\ ParseEnds => Types'
<1> SUFFICES ASSUME Types, ParseEnds PROVE Types'
    OBVIOUS
<1> USE Facts
<1>1. /\ at = "parse" /\ at' = "work" /\ current' = 0 /\ parsed' = 0
      /\ readable' = readable \ {current} /\ buf' = [buf EXCEPT ![current] = <<>>]
      /\ UNCHANGED <<done, writable, hand, live, lastId, pool, reconnect, sendable, sendQ>>
      /\ UNCHANGED <<net, kernel, lost, backlog, sent, frames, losses, arrivals, out>>
      /\ UNCHANGED <<recvQueue, recvFree, unheard, closes, late>>
      /\ UNCHANGED <<mainRing, sendRing, refs, sendFree, stray>>
      /\ UNCHANGED <<works, trying, results, asks, connected, filling, got, messages>>
    BY DEF ParseEnds, poolVars, socketVars, boundVars, heardVars, closeVars, packetVars,
           connectVars, mainVars
<1>2. /\ ConnOK' /\ PoolOK' /\ QueueOK' /\ NetOK' /\ HeardOK' /\ CloseOK' /\ RingOK' /\ MainOK'
      /\ RefsOK' /\ HistOK'
    BY <1>1, Kept
<1>3. current \in live /\ current \in Sids
    BY <1>1 DEF ReadOK
<1>4. BufOK' /\ CleanOK'
    BY <1>1, <1>3, Bounds DEF BufOK, CleanOK
<1>5. TurnOK' /\ HandOK' /\ ReadOK'
    BY <1>1 DEF TurnOK, HandOK, ReadOK
<1> QED
    BY <1>2, <1>4, <1>5, FactsNext

LEMMA BecomesSendableTypes ==
    ASSUME Types, NEW s \in Sids, BecomesSendable(s)
    PROVE  Types'
<1> USE Facts
<1>1. /\ at = "work" /\ s \in writable \ readable
      /\ writable' = writable \ {s} /\ sendable' = [sendable EXCEPT ![s] = TRUE]
      /\ UNCHANGED <<at, done, readable, current, parsed, hand>>
      /\ UNCHANGED <<live, lastId, pool, reconnect, sendQ, buf>>
      /\ UNCHANGED <<net, kernel, lost, backlog, sent, frames, losses, arrivals, out>>
      /\ UNCHANGED <<recvQueue, recvFree, unheard, closes, late>>
      /\ UNCHANGED <<mainRing, sendRing, refs, sendFree, stray>>
      /\ UNCHANGED <<works, trying, results, asks, connected, filling, got, messages>>
    BY DEF BecomesSendable, poolVars, socketVars, boundVars, heardVars, closeVars, packetVars,
           connectVars, mainVars
<1>2. /\ TurnOK' /\ ConnOK' /\ PoolOK' /\ HandOK' /\ BufOK' /\ NetOK' /\ HeardOK' /\ CloseOK'
      /\ RingOK' /\ MainOK' /\ RefsOK' /\ HistOK'
    BY <1>1, Kept
<1>3. QueueOK' /\ CleanOK' /\ ReadOK'
    BY <1>1 DEF QueueOK, CleanOK, ReadOK
<1> QED
    BY <1>2, <1>3, FactsNext

-----------------------------------------------------------------------------
(* The last part: SendData.                                                  *)

LEMMA GiveUpTypes ==
    ASSUME Types, NEW s \in live, GiveUp(s)
    PROVE  /\ sendable' \in [Sids -> BOOLEAN] /\ CloseOK'
           /\ \A r \in Sids \ live : sendable'[r]
<1> USE Facts
<1>1. sendable' = [sendable EXCEPT ![s] = FALSE] /\ AddOneCloseSessionWork(s)
    BY DEF GiveUp
<1>2. CloseOK'
    BY <1>1, AddCloseKeeps
<1> QED
    BY <1>1, <1>2 DEF QueueOK, CleanOK

LEMMA SendOneTypes == Types /\ SendOne => Types'
<1> SUFFICES ASSUME Types, SendOne PROVE Types'
    OBVIOUS
<1> USE Facts
<1> DEFINE e == Head(sendRing)
<1> DEFINE s == e.s
<1> DEFINE queues == MustQueue(s)
<1> DEFINE room == Len(sendQ[s]) < QueueCap
<1>1. /\ EventsDone /\ sendRing # <<>> /\ done < Turn /\ sendRing' = Tail(sendRing)
      /\ done' = done + 1
      /\ sendQ' = IF s \in live /\ queues /\ room THEN [sendQ EXCEPT ![s] = Append(@, e)]
                  ELSE sendQ
      /\ stray' = IF s \in live THEN stray ELSE [stray EXCEPT ![e.p] = @ + 1]
      /\ IF s \in live /\ queues /\ ~room THEN Release(e.p, e.p) /\ GiveUp(s)
         ELSE UNCHANGED <<refs, sendFree, sendable, closeVars>>
      /\ IF s \in live /\ sendable[s] /\ (queues => room)
         THEN at' = (IF queues THEN "flush" ELSE "direct") /\ hand' = e
         ELSE UNCHANGED <<at, hand>>
    BY Zenon DEF SendOne
<1>2. /\ UNCHANGED <<readable, writable, current, parsed, live, lastId, pool, reconnect, buf>>
      /\ UNCHANGED <<net, kernel, lost, backlog, sent, frames, losses, arrivals, out>>
      /\ UNCHANGED <<recvQueue, recvFree, unheard, mainRing>>
      /\ UNCHANGED <<works, trying, results, asks, connected, filling, got, messages>>
    BY DEF SendOne, poolVars, socketVars, boundVars, heardVars, connectVars, mainVars
<1>3. /\ at = "work" /\ readable = {} /\ writable = {}
    BY <1>1 DEF EventsDone
<1>4. e \in Entries /\ Tail(sendRing) \in Seq(Entries) /\ Len(Tail(sendRing)) <= SendCap
    <2>1. sendRing \in Seq(Entries) /\ Len(sendRing) <= SendCap
        BY DEF RingOK
    <2>2. e \in Entries /\ Tail(sendRing) \in Seq(Entries)
          /\ Len(Tail(sendRing)) = Len(sendRing) - 1 /\ Len(sendRing) \in Nat
        BY <1>1, <2>1, HeadAndTail
    <2> QED
        BY <2>1, <2>2, Bounds
<1>5. s \in Sids /\ e.p \in Packets
    BY <1>4 DEF Entries
<1> HIDE DEF e, s, queues, room
<1>6. /\ ConnOK' /\ PoolOK' /\ BufOK' /\ NetOK' /\ HeardOK' /\ MainOK' /\ HistOK'
    BY <1>2, Kept
<1>7. RingOK'
    BY <1>1, <1>2, <1>4 DEF RingOK
<1>8. sendQ' \in [Sids -> Seq(Entries)] /\ \A r \in Sids : Len(sendQ'[r]) <= QueueCap
      /\ \A t \in Sids \ live : sendQ'[t] = <<>>
    <2>1. CASE s \in live /\ queues /\ room
        <3> DEFINE q == sendQ[s]
        <3>1. q \in Seq(Entries) /\ Len(q) < QueueCap
            BY <1>5, <2>1 DEF QueueOK, room
        <3>2. sendQ' = [sendQ EXCEPT ![s] = Append(q, e)]
            BY <1>1, <2>1
        <3> HIDE DEF q
        <3> DEFINE x == Append(q, e)
        <3>3. x \in Seq(Entries) /\ Len(x) <= QueueCap
            BY <1>4, <3>1, Bounds
        <3>4. sendQ' = [sendQ EXCEPT ![s] = x]
            BY <3>2
        <3> HIDE DEF x
        <3> QED
            BY <1>5, <2>1, <3>3, <3>4 DEF QueueOK, CleanOK
    <2>2. CASE ~(s \in live /\ queues /\ room)
        BY <1>1, <2>2 DEF QueueOK, CleanOK
    <2> QED
        BY <2>1, <2>2
<1>9. /\ sendable' \in [Sids -> BOOLEAN] /\ CloseOK' /\ \A r \in Sids \ live : sendable'[r]
    <2>1. CASE s \in live /\ queues /\ ~room
        BY <1>1, <2>1, GiveUpTypes
    <2>2. CASE ~(s \in live /\ queues /\ ~room)
        <3>1. UNCHANGED <<sendable, closes, late>>
            BY <1>1, <2>2 DEF closeVars
        <3> QED
            BY <3>1 DEF QueueOK, CleanOK, CloseOK
    <2> QED
        BY <2>1, <2>2
<1>10. RefsOK'
    <2>1. stray' \in [Packets -> Nat]
        <3> DEFINE p == e.p
        <3>1. stray' = stray \/ stray' = [stray EXCEPT ![p] = stray[p] + 1]
            BY <1>1
        <3>2. p \in Packets
            BY <1>5
        <3> HIDE DEF p
        <3> QED
            BY <3>1, <3>2 DEF RefsOK
    <2>2. refs' \in [Packets -> Int] /\ sendFree' \in [Packets -> Int]
        <3> DEFINE p == e.p
        <3>1. Release(p, p) \/ UNCHANGED <<refs, sendFree>>
            BY <1>1
        <3>2. p \in Packets
            BY <1>5
        <3> HIDE DEF p
        <3> QED
            BY <3>1, <3>2 DEF RefsOK, Release
    <2> QED
        BY <2>1, <2>2 DEF RefsOK
<1>11. QueueOK' /\ CleanOK'
    BY <1>2, <1>8, <1>9 DEF QueueOK, CleanOK
<1>12. /\ at' \in {"work", "direct", "flush"} /\ (at' = "work" => hand' = <<>>)
       /\ (at' # "work" => hand' \in Entries /\ hand'.s \in live)
    <2>1. CASE s \in live /\ sendable[s] /\ (queues => room)
        <3>1. at' = (IF queues THEN "flush" ELSE "direct") /\ hand' = e
            BY <1>1, <2>1
        <3> QED
            BY <1>4, <2>1, <3>1 DEF s
    <2>2. CASE ~(s \in live /\ sendable[s] /\ (queues => room))
        <3>1. at' = "work" /\ hand' = hand
            BY <1>1, <1>3, <2>2
        <3> QED
            BY <1>3, <3>1 DEF HandOK
    <2> QED
        BY <2>1, <2>2
<1>13. TurnOK' /\ HandOK'
    <2>1. done' \in 0 .. Turn
        BY <1>1, Bounds DEF TurnOK
    <2> QED
        BY <1>2, <1>12, <2>1 DEF TurnOK, HandOK
<1>14. ReadOK'
    BY <1>2, <1>3, <1>12 DEF ReadOK
<1> QED
    BY <1>6, <1>7, <1>9, <1>10, <1>11, <1>13, <1>14, FactsNext

\* What the socket has taken
LEMMA KernelTypes ==
    ASSUME Types, NEW s \in live, NEW e \in Entries, KernelTakes(s, e), UNCHANGED <<net, sent, lost, live, got>>
    PROVE  NetOK' /\ HistOK' /\ \A r \in Sids \ live : kernel'[r] = 0
<1> USE Facts
<1>1. /\ kernel[s] < KernelCap /\ kernel' = [kernel EXCEPT ![s] = kernel[s] + 1]
      /\ out' = [out EXCEPT ![s] = e.n]
    BY DEF KernelTakes
<1>2. kernel[s] + 1 \in 0 .. KernelCap
    BY <1>1, Bounds DEF NetOK
<1>3. e.n \in Nat
    BY Bounds DEF Entries
<1>4. kernel' \in [Sids -> 0 .. KernelCap]
    BY <1>1, <1>2, Zenon DEF NetOK
<1>5. \A r \in Sids \ live : kernel'[r] = 0
    BY <1>1 DEF NetOK, CleanOK
<1> QED
    BY <1>1, <1>3, <1>4, <1>5 DEF NetOK, HistOK

LEMMA SendDirectTypes == Types /\ SendDirect => Types'
<1> SUFFICES ASSUME Types, SendDirect PROVE Types'
    OBVIOUS
<1> USE Facts
<1>1. /\ at = "direct" /\ at' = "work" /\ hand' = <<>> /\ Release(hand.p, hand.p)
      /\ \/ KernelTakes(hand.s, hand) /\ UNCHANGED <<sendable, closeVars>>
         \/ hand.s \in lost /\ GiveUp(hand.s) /\ UNCHANGED <<kernel, out>>
      /\ UNCHANGED <<done, readable, writable, current, parsed, live, lastId, pool, reconnect>>
      /\ UNCHANGED <<sendQ, buf, net, lost, backlog, sent, frames, losses, arrivals>>
      /\ UNCHANGED <<recvQueue, recvFree, unheard, mainRing, sendRing, stray>>
      /\ UNCHANGED <<works, trying, results, asks, connected, filling, got, messages>>
    BY DEF SendDirect, poolVars, boundVars, heardVars, connectVars, mainVars
<1>2. hand \in Entries /\ hand.s \in live /\ hand.p \in Packets
    BY <1>1 DEF HandOK, Entries
<1>3. /\ ConnOK' /\ PoolOK' /\ BufOK' /\ HeardOK' /\ RingOK' /\ MainOK'
    BY <1>1, Kept
<1>4. RefsOK'
    BY <1>1, <1>2, ReleaseKeeps
<1>5. TurnOK' /\ HandOK' /\ ReadOK'
    BY <1>1 DEF TurnOK, HandOK, ReadOK
<1>6. QueueOK' /\ CloseOK' /\ NetOK' /\ HistOK' /\ CleanOK'
    <2>1. CASE KernelTakes(hand.s, hand) /\ UNCHANGED <<sendable, closeVars>>
        <3>1. NetOK' /\ HistOK' /\ \A r \in Sids \ live : kernel'[r] = 0
            BY <1>1, <1>2, <2>1, KernelTypes
        <3>2. UNCHANGED <<sendable, closes, late>>
            BY <2>1 DEF closeVars
        <3> QED
            BY <1>1, <3>1, <3>2 DEF QueueOK, CloseOK, CleanOK
    <2>2. CASE hand.s \in lost /\ GiveUp(hand.s) /\ UNCHANGED <<kernel, out>>
        <3>1. sendable' \in [Sids -> BOOLEAN] /\ CloseOK' /\ \A r \in Sids \ live : sendable'[r]
            BY <1>2, <2>2, GiveUpTypes
        <3>2. NetOK' /\ HistOK'
            BY <1>1, <2>2, Kept
        <3> QED
            BY <1>1, <2>2, <3>1, <3>2 DEF QueueOK, CleanOK
    <2> QED
        BY <1>1, <2>1, <2>2
<1> QED
    BY <1>3, <1>4, <1>5, <1>6, FactsNext

LEMMA FlushTypes == Types /\ Flush => Types'
<1> SUFFICES ASSUME Types, Flush PROVE Types'
    OBVIOUS
<1> USE Facts
<1>1. /\ at = "flush" /\ sendQ[hand.s] # <<>>
      /\ \/ /\ KernelTakes(hand.s, NextOut(hand.s))
            /\ Release(Head(sendQ[hand.s]).p, hand.p)
            /\ sendQ' = [sendQ EXCEPT ![hand.s] = Tail(@)]
            /\ UNCHANGED <<at, hand, sendable, closeVars>>
         \/ /\ hand.s \in lost /\ GiveUp(hand.s)
            /\ at' = "work" /\ hand' = <<>>
            /\ UNCHANGED <<kernel, out, refs, sendFree, sendQ>>
      /\ UNCHANGED <<done, readable, writable, current, parsed, live, lastId, pool, reconnect>>
      /\ UNCHANGED <<buf, net, lost, backlog, sent, frames, losses, arrivals>>
      /\ UNCHANGED <<recvQueue, recvFree, unheard, mainRing, sendRing, stray>>
      /\ UNCHANGED <<works, trying, results, asks, connected, filling, got, messages>>
    BY DEF Flush, poolVars, boundVars, heardVars, connectVars, mainVars
<1> DEFINE s == hand.s
<1> DEFINE q == sendQ[s]
<1> DEFINE e == Head(q)
<1>2. hand \in Entries /\ s \in live /\ hand.p \in Packets
    BY <1>1 DEF HandOK, Entries
<1>3. /\ e \in Entries /\ Tail(q) \in Seq(Entries) /\ Len(Tail(q)) <= QueueCap /\ e.p \in Packets
    <2>1. q \in Seq(Entries) /\ q # <<>> /\ Len(q) <= QueueCap
        BY <1>1, <1>2 DEF QueueOK
    <2>2. /\ e \in Entries /\ Tail(q) \in Seq(Entries) /\ Len(Tail(q)) = Len(q) - 1
          /\ Len(q) \in Nat
        BY <2>1, HeadAndTail
    <2> QED
        BY <2>1, <2>2, Bounds DEF Entries
<1>4. /\ ConnOK' /\ PoolOK' /\ BufOK' /\ HeardOK' /\ RingOK' /\ MainOK'
    BY <1>1, Kept
<1>5. CASE /\ KernelTakes(s, e) /\ Release(e.p, hand.p) /\ sendQ' = [sendQ EXCEPT ![s] = Tail(q)]
           /\ UNCHANGED <<at, hand, sendable, closeVars>>
    <2> HIDE DEF s, q, e
    <2>1. NetOK' /\ HistOK' /\ \A r \in Sids \ live : kernel'[r] = 0
        BY <1>1, <1>2, <1>3, <1>5, KernelTypes
    <2>2. RefsOK'
        BY <1>1, <1>2, <1>3, <1>5, ReleaseKeeps
    <2>3. QueueOK'
        BY <1>3, <1>5 DEF QueueOK
    <2>4. CleanOK'
        BY <1>1, <1>2, <1>5, <2>1 DEF CleanOK, QueueOK
    <2>5. CloseOK'
        BY <1>5, Kept DEF closeVars
    <2>6. TurnOK' /\ HandOK' /\ ReadOK'
        BY <1>1, <1>5, Kept
    <2> QED
        BY <1>4, <2>1, <2>2, <2>3, <2>4, <2>5, <2>6, FactsNext
<1>6. CASE /\ GiveUp(s) /\ at' = "work" /\ hand' = <<>>
           /\ UNCHANGED <<kernel, out, refs, sendFree, sendQ>>
    <2> HIDE DEF s, q, e
    <2>1. sendable' \in [Sids -> BOOLEAN] /\ CloseOK' /\ \A r \in Sids \ live : sendable'[r]
        BY <1>2, <1>6, GiveUpTypes
    <2>2. NetOK' /\ HistOK' /\ RefsOK'
        BY <1>1, <1>6, Kept
    <2>3. QueueOK' /\ CleanOK' /\ TurnOK' /\ HandOK' /\ ReadOK'
        BY <1>1, <1>6, <2>1 DEF QueueOK, CleanOK, TurnOK, HandOK, ReadOK
    <2> QED
        BY <1>4, <2>1, <2>2, <2>3, FactsNext
<1> QED
    BY <1>1, <1>5, <1>6 DEF NextOut

LEMMA SendEndTypes == Types /\ (FlushEnds \/ SendEnds) => Types'
<1> SUFFICES ASSUME Types, FlushEnds \/ SendEnds PROVE Types'
    OBVIOUS
<1> USE Facts
<1>1. /\ \/ at = "flush" /\ at' = "work" /\ hand' = <<>> /\ done' = done
         \/ /\ at = "work" /\ readable = {} /\ writable = {} /\ at' = "close" /\ done' = 0
            /\ hand' = hand
      /\ UNCHANGED <<readable, writable, current, parsed, live, lastId, pool, reconnect>>
      /\ UNCHANGED <<sendable, sendQ, buf, net, kernel, lost, backlog, sent, frames, losses>>
      /\ UNCHANGED <<arrivals, out, recvQueue, recvFree, unheard, closes, late>>
      /\ UNCHANGED <<mainRing, sendRing, refs, sendFree, stray>>
      /\ UNCHANGED <<works, trying, results, asks, connected, filling, got, messages>>
    BY DEF FlushEnds, SendEnds, EventsDone, poolVars, sessionVars, socketVars, boundVars,
           heardVars, closeVars, packetVars, connectVars, mainVars
<1>2. /\ ConnOK' /\ PoolOK' /\ QueueOK' /\ BufOK' /\ NetOK' /\ CleanOK' /\ HeardOK' /\ CloseOK'
      /\ RingOK' /\ MainOK' /\ RefsOK' /\ HistOK'
    BY <1>1, Kept
<1>3. TurnOK' /\ HandOK' /\ ReadOK'
    BY <1>1, Bounds DEF TurnOK, HandOK, ReadOK
<1> QED
    BY <1>2, <1>3, FactsNext

-----------------------------------------------------------------------------
(* The main thread, the threads that connect, and the peers.                 *)

LEMMA MainTakesTypes == Types /\ MainTakes => Types'
<1> SUFFICES ASSUME Types, MainTakes PROVE Types'
    OBVIOUS
<1> USE Facts
<1> DEFINE m == Head(recvQueue)
<1>1. /\ recvQueue # <<>> /\ recvQueue' = Tail(recvQueue)
      /\ got' = [got EXCEPT ![m.s] = Append(@, m.what)]
      /\ connected' = IF m.what = Up THEN connected \cup {m.s}
                      ELSE IF m.what = Gone THEN connected \ {m.s} ELSE connected
      /\ recvFree' = IF m.what \in {Up, Gone} THEN recvFree ELSE recvFree + 1
    BY Zenon DEF MainTakes
<1>2. /\ UNCHANGED <<at, done, readable, writable, current, parsed, hand>>
      /\ UNCHANGED <<live, lastId, pool, reconnect, sendable, sendQ, buf, net, kernel, lost>>
      /\ UNCHANGED <<backlog, sent, frames, losses, arrivals, out, unheard, closes, late>>
      /\ UNCHANGED <<mainRing, sendRing, refs, sendFree, stray>>
      /\ UNCHANGED <<works, trying, results, asks, filling, messages>>
    BY DEF MainTakes, turnVars, poolVars, sessionVars, socketVars, boundVars, closeVars,
           packetVars, connectVars
<1> DEFINE c == Count(recvQueue, Framed)
<1> DEFINE d == Count(Tail(recvQueue), Framed)
<1>3. /\ m \in Notes /\ Tail(recvQueue) \in Seq(Notes) /\ Len(Tail(recvQueue)) <= RecvCap
      /\ c = d + (IF m \in Framed THEN 1 ELSE 0) /\ c \in Nat /\ d \in Nat
    <2>1. recvQueue \in Seq(Notes) /\ Len(recvQueue) <= RecvCap
        BY DEF HeardOK
    <2>2. /\ m \in Notes /\ Tail(recvQueue) \in Seq(Notes)
          /\ Len(Tail(recvQueue)) = Len(recvQueue) - 1 /\ Len(recvQueue) \in Nat
        BY <1>1, <2>1, HeadAndTail
    <2>3. c = d + (IF m \in Framed THEN 1 ELSE 0) /\ c \in Nat /\ d \in Nat
        BY <1>1, <2>1, CountTaken
    <2> QED
        BY <2>1, <2>2, <2>3, Bounds
<1>4. m.s \in Sids /\ m.what \in Nat \cup {Up, Gone} /\ (m \in Framed <=> m.what \notin {Up, Gone})
    BY <1>3 DEF Notes, Framed
<1> HIDE DEF m, c, d
<1>5. recvFree \in Nat /\ recvFree + c <= RecvPool
    BY DEF HeardOK, c
<1>6. recvFree' \in Nat /\ recvFree' + d <= RecvPool
    BY <1>1, <1>3, <1>4, <1>5, Bounds
<1>7. HeardOK'
    BY <1>1, <1>2, <1>3, <1>6 DEF HeardOK, d
<1>8. HistOK'
    <2> DEFINE q == got[m.s]
    <2>1. q \in Seq(Nat \cup {Up, Gone})
        BY <1>4 DEF HistOK
    <2> HIDE DEF q
    <2> DEFINE x == Append(q, m.what)
    <2>2. x \in Seq(Nat \cup {Up, Gone})
        BY <1>4, <2>1
    <2>3. got' = [got EXCEPT ![m.s] = x]
        BY <1>1 DEF q
    <2> HIDE DEF x
    <2> QED
        BY <1>2, <1>4, <2>2, <2>3 DEF HistOK
<1>9. MainOK'
    BY <1>1, <1>2, <1>4 DEF MainOK
<1>10. /\ TurnOK' /\ ConnOK' /\ PoolOK' /\ ReadOK' /\ HandOK' /\ QueueOK' /\ BufOK' /\ NetOK'
       /\ CleanOK' /\ CloseOK' /\ RingOK' /\ RefsOK'
    BY <1>2, Kept
<1> QED
    BY <1>7, <1>8, <1>9, <1>10, FactsNext

LEMMA MainFillsTypes ==
    ASSUME Types, NEW p \in Packets, NEW S \in (SUBSET connected) \ {{}}, MainFills(p, S)
    PROVE  Types'
<1> USE Facts
<1>1. /\ messages < MaxMessages /\ messages' = messages + 1
      /\ sendFree' = [sendFree EXCEPT ![p] = sendFree[p] - 1]
      /\ filling' = {[s |-> s, p |-> p, n |-> messages + 1] : s \in S}
      /\ UNCHANGED <<at, done, readable, writable, current, parsed, hand>>
      /\ UNCHANGED <<live, lastId, pool, reconnect, sendable, sendQ, buf, net, kernel, lost>>
      /\ UNCHANGED <<backlog, sent, frames, losses, arrivals, out, closes, late>>
      /\ UNCHANGED <<recvQueue, recvFree, unheard, mainRing, sendRing, refs, stray>>
      /\ UNCHANGED <<works, trying, results, asks, connected, got>>
    BY DEF MainFills, turnVars, poolVars, sessionVars, socketVars, boundVars, heardVars,
           closeVars, connectVars
<1>2. messages + 1 \in 1 .. MaxMessages /\ S \subseteq Sids
    BY <1>1, Bounds DEF MainOK
<1>3. MainOK'
    <2>1. filling' \subseteq Entries
        BY <1>1, <1>2 DEF Entries
    <2>2. messages' \in 0 .. MaxMessages
        BY <1>1, <1>2, Bounds
    <2> QED
        BY <1>1, <2>1, <2>2 DEF MainOK
<1>4. RefsOK'
    BY <1>1 DEF RefsOK
<1>5. /\ TurnOK' /\ ConnOK' /\ PoolOK' /\ ReadOK' /\ HandOK' /\ QueueOK' /\ BufOK' /\ NetOK'
      /\ CleanOK' /\ HeardOK' /\ CloseOK' /\ RingOK' /\ HistOK'
    BY <1>1, Kept
<1> QED
    BY <1>3, <1>4, <1>5, FactsNext

LEMMA AddOneSendPacketTypes ==
    ASSUME Types, NEW e \in filling, AddOneSendPacket(e)
    PROVE  Types'
<1> USE Facts
<1>1. /\ filling' = filling \ {e} /\ refs' = [refs EXCEPT ![e.p] = refs[e.p] + 1]
      /\ IF Len(mainRing) < MainCap
         THEN mainRing' = Append(mainRing, e) /\ UNCHANGED sendRing /\ UNCHANGED stray
         ELSE stray' = [stray EXCEPT ![e.p] = stray[e.p] + 1] /\ UNCHANGED <<mainRing, sendRing>>
      /\ UNCHANGED <<at, done, readable, writable, current, parsed, hand>>
      /\ UNCHANGED <<live, lastId, pool, reconnect, sendable, sendQ, buf, net, kernel, lost>>
      /\ UNCHANGED <<backlog, sent, frames, losses, arrivals, out, closes, late>>
      /\ UNCHANGED <<recvQueue, recvFree, unheard, sendFree>>
      /\ UNCHANGED <<works, trying, results, asks, connected, got, messages>>
    BY DEF AddOneSendPacket, AddToMainRing, turnVars, poolVars, sessionVars, socketVars,
           boundVars, heardVars, closeVars, connectVars
<1>2. e \in Entries /\ e.p \in Packets
    BY DEF MainOK, Entries
<1>3. RingOK'
    <2>1. CASE Len(mainRing) < MainCap
        <3>1. mainRing' = Append(mainRing, e) /\ sendRing' = sendRing
            BY <1>1, <2>1
        <3>2. mainRing' \in Seq(Entries) /\ Len(mainRing') <= MainCap
            BY <1>2, <2>1, <3>1, Bounds DEF RingOK
        <3> QED
            BY <3>1, <3>2 DEF RingOK
    <2>2. CASE ~(Len(mainRing) < MainCap)
        <3>1. mainRing' = mainRing /\ sendRing' = sendRing
            BY <1>1, <2>2
        <3> QED
            BY <3>1 DEF RingOK
    <2> QED
        BY <2>1, <2>2
<1>4. RefsOK'
    <2> DEFINE p == e.p
    <2>1. p \in Packets /\ refs' = [refs EXCEPT ![p] = refs[p] + 1] /\ sendFree' = sendFree
        BY <1>1, <1>2
    <2>2. stray' = stray \/ stray' = [stray EXCEPT ![p] = stray[p] + 1]
        BY <1>1
    <2> HIDE DEF p
    <2> QED
        BY <2>1, <2>2 DEF RefsOK
<1>5. MainOK'
    BY <1>1 DEF MainOK
<1>6. /\ TurnOK' /\ ConnOK' /\ PoolOK' /\ ReadOK' /\ HandOK' /\ QueueOK' /\ BufOK' /\ NetOK'
      /\ CleanOK' /\ HeardOK' /\ CloseOK' /\ HistOK'
    BY <1>1, Kept
<1> QED
    BY <1>3, <1>4, <1>5, <1>6, FactsNext

\* What PostAllSendPacket moves from one ring to the other
LEMMA PostMoves ==
    ASSUME RingOK, NEW n \in 1 .. Len(mainRing), Len(sendRing) + n <= SendCap
    PROVE  /\ sendRing \o SubSeq(mainRing, 1, n) \in Seq(Entries)
           /\ Len(sendRing \o SubSeq(mainRing, 1, n)) <= SendCap
           /\ SubSeq(mainRing, n + 1, Len(mainRing)) \in Seq(Entries)
           /\ Len(SubSeq(mainRing, n + 1, Len(mainRing))) <= MainCap
           /\ (sendRing \o SubSeq(mainRing, 1, n)) \o SubSeq(mainRing, n + 1, Len(mainRing))
              = sendRing \o mainRing
<1> DEFINE f == SubSeq(mainRing, 1, n)
<1> DEFINE g == SubSeq(mainRing, n + 1, Len(mainRing))
<1>1. /\ mainRing \in Seq(Entries) /\ sendRing \in Seq(Entries) /\ Len(mainRing) <= MainCap
      /\ Len(mainRing) \in Nat /\ n \in 0 .. Len(mainRing)
    BY DEF RingOK
<1>2. /\ f \in Seq(Entries) /\ Len(f) = n /\ g \in Seq(Entries) /\ Len(g) = Len(mainRing) - n
      /\ f \o g = mainRing
    BY <1>1, FrontAndRest
<1> HIDE DEF f, g
<1>3. sendRing \o f \in Seq(Entries) /\ Len(sendRing \o f) <= SendCap /\ Len(g) <= MainCap
    BY <1>1, <1>2, Bounds
<1>4. (sendRing \o f) \o g = sendRing \o mainRing
    <2>1. sendRing \in Seq(Entries) /\ f \in Seq(Entries) /\ g \in Seq(Entries)
        BY <1>1, <1>2
    <2>2. (sendRing \o f) \o g = sendRing \o (f \o g)
        BY <2>1, Regrouped
    <2> QED
        BY <1>2, <2>2, Zenon
<1> QED
    BY <1>2, <1>3, <1>4 DEF f, g

LEMMA MainPostsTypes == Types /\ MainPosts => Types'
<1> SUFFICES ASSUME Types, MainPosts PROVE Types'
    OBVIOUS
<1> USE Facts
<1>1. /\ \E n \in 1 .. Len(mainRing) :
            /\ Len(sendRing) + n <= SendCap
            /\ sendRing' = sendRing \o SubSeq(mainRing, 1, n)
            /\ mainRing' = SubSeq(mainRing, n + 1, Len(mainRing))
      /\ UNCHANGED <<at, done, readable, writable, current, parsed, hand>>
      /\ UNCHANGED <<live, lastId, pool, reconnect, sendable, sendQ, buf, net, kernel, lost>>
      /\ UNCHANGED <<backlog, sent, frames, losses, arrivals, out, closes, late>>
      /\ UNCHANGED <<recvQueue, recvFree, unheard, refs, sendFree, stray>>
      /\ UNCHANGED <<works, trying, results, asks, connected, filling, got, messages>>
    BY DEF MainPosts, turnVars, poolVars, sessionVars, socketVars, boundVars, heardVars,
           closeVars, connectVars, mainVars
<1>2. RingOK'
    <2>1. PICK n \in 1 .. Len(mainRing) :
            /\ Len(sendRing) + n <= SendCap
            /\ sendRing' = sendRing \o SubSeq(mainRing, 1, n)
            /\ mainRing' = SubSeq(mainRing, n + 1, Len(mainRing))
        BY <1>1
    <2>2. /\ sendRing \o SubSeq(mainRing, 1, n) \in Seq(Entries)
          /\ Len(sendRing \o SubSeq(mainRing, 1, n)) <= SendCap
          /\ SubSeq(mainRing, n + 1, Len(mainRing)) \in Seq(Entries)
          /\ Len(SubSeq(mainRing, n + 1, Len(mainRing))) <= MainCap
        BY <2>1, PostMoves
    <2> QED
        BY <2>1, <2>2, Zenon DEF RingOK
<1>3. /\ TurnOK' /\ ConnOK' /\ PoolOK' /\ ReadOK' /\ HandOK' /\ QueueOK' /\ BufOK' /\ NetOK'
      /\ CleanOK' /\ HeardOK' /\ CloseOK' /\ MainOK' /\ RefsOK' /\ HistOK'
    BY <1>1, Kept
<1> QED
    BY <1>2, <1>3, FactsNext

\* What the threads that connect change is in ConnOK alone.
LEMMA ConnectThreadsKeep ==
    ASSUME Types, ConnOK',
           UNCHANGED <<turnVars, poolVars, sessionVars, socketVars, heardVars, closeVars,
                       packetVars, mainVars>>
    PROVE  Types'
<1>1. /\ UNCHANGED <<at, done, readable, writable, current, parsed, hand>>
      /\ UNCHANGED <<live, lastId, pool, reconnect, sendable, sendQ, buf, net, kernel, lost>>
      /\ UNCHANGED <<backlog, sent, frames, losses, arrivals, out, closes, late>>
      /\ UNCHANGED <<recvQueue, recvFree, unheard, mainRing, sendRing, refs, sendFree, stray>>
      /\ UNCHANGED <<connected, filling, got, messages>>
    BY DEF turnVars, poolVars, sessionVars, socketVars, boundVars, heardVars, closeVars,
           packetVars, mainVars
<1>2. /\ TurnOK' /\ PoolOK' /\ ReadOK' /\ HandOK' /\ QueueOK' /\ BufOK' /\ NetOK' /\ CleanOK'
      /\ HeardOK' /\ CloseOK' /\ RingOK' /\ MainOK' /\ RefsOK' /\ HistOK'
    BY <1>1, Facts, Kept
<1> QED
    BY <1>2, FactsNext

\* The sum of ConnOK when one more is asked for, and when a connect goes from hand to hand
LEMMA Shifts ==
    ASSUME NEW l \in Nat, NEW b \in Nat, NEW c \in Nat, NEW d \in Nat, NEW t \in Nat, NEW u \in Nat,
           NEW r \in Nat, NEW x \in Nat, NEW a \in Nat, NEW k \in Nat,
           l + b + c + t + r <= a + k
    PROVE  /\ d <= c + 1 => l + b + d + t + r <= a + (k + 1)
           /\ d + u + x <= c + t + r => l + b + d + u + x <= a + k
OBVIOUS

LEMMA AddOneConnectWorkTypes == Types /\ AddOneConnectWork => Types'
<1> SUFFICES ASSUME Types, AddOneConnectWork PROVE Types'
    OBVIOUS
<1>1. /\ asks < MaxAsks /\ asks' = asks + 1 /\ AddConnectWork(There) /\ There \in BOOLEAN
      /\ UNCHANGED <<turnVars, poolVars, sessionVars, socketVars, heardVars, closeVars,
                     packetVars, mainVars>>
      /\ UNCHANGED <<trying, results, lastId, backlog, arrivals>>
    BY DEF AddOneConnectWork, poolVars, socketVars, boundVars, There
<1> DEFINE c == Count(works, {There})
<1> DEFINE d == Count(works', {There})
<1> DEFINE t == trying[There]
<1>2. /\ lastId \in Nat /\ backlog \in Nat /\ results \in Nat /\ arrivals \in Nat /\ asks \in Nat
      /\ t \in Nat /\ c \in Nat /\ lastId + backlog + c + t + results <= arrivals + asks
    BY Numbers
<1>3. works' \in Seq(BOOLEAN) /\ Len(works') <= WorkCap /\ d \in Nat /\ d <= c + 1
    <2>1. works \in Seq(BOOLEAN) /\ Len(works) <= WorkCap
        BY Facts DEF ConnOK
    <2> QED
        BY <1>1, <2>1, AddWorkKeeps
<1> HIDE DEF c, d, t
<1>4. lastId + backlog + d + t + results <= arrivals + (asks + 1)
    BY <1>2, <1>3, Shifts
<1>5. lastId' + backlog' + d + trying'[There] + results' <= arrivals' + asks'
    BY <1>1, <1>4 DEF t
<1>6. asks' \in 0 .. MaxAsks
    BY <1>1, <1>2, Bounds
<1>7. ConnOK'
    BY <1>1, <1>3, <1>5, <1>6, Facts DEF ConnOK, d
<1> QED
    BY <1>1, <1>7, ConnectThreadsKeep

LEMMA StartConnectTypes == Types /\ StartConnect => Types'
<1> SUFFICES ASSUME Types, StartConnect PROVE Types'
    OBVIOUS
<1> DEFINE w == Head(works)
<1>1. /\ works # <<>> /\ works' = Tail(works) /\ trying' = [trying EXCEPT ![w] = trying[w] + 1]
      /\ UNCHANGED <<turnVars, poolVars, sessionVars, socketVars, heardVars, closeVars,
                     packetVars, mainVars>>
      /\ UNCHANGED <<asks, results, lastId, backlog, arrivals>>
    BY DEF StartConnect, poolVars, socketVars, boundVars
<1> DEFINE c == Count(works, {There})
<1> DEFINE d == Count(works', {There})
<1> DEFINE t == trying[There]
<1> DEFINE u == trying'[There]
<1>2. /\ lastId \in Nat /\ backlog \in Nat /\ results \in Nat /\ arrivals \in Nat /\ asks \in Nat
      /\ t \in Nat /\ c \in Nat /\ lastId + backlog + c + t + results <= arrivals + asks
    BY Numbers
<1>3. /\ w \in BOOLEAN /\ works' \in Seq(BOOLEAN) /\ Len(works') <= WorkCap /\ d \in Nat
      /\ c = d + (IF w = There THEN 1 ELSE 0)
    <2>1. works \in Seq(BOOLEAN) /\ Len(works) <= WorkCap
        BY Facts DEF ConnOK
    <2>2. w \in BOOLEAN /\ Tail(works) \in Seq(BOOLEAN) /\ Len(Tail(works)) = Len(works) - 1
          /\ Len(works) \in Nat
        BY <1>1, <2>1, HeadAndTail
    <2>3. /\ Count(Tail(works), {There}) \in Nat
          /\ c = Count(Tail(works), {There}) + (IF w \in {There} THEN 1 ELSE 0)
        BY <1>1, <2>1, CountTaken
    <2>4. Len(Tail(works)) <= WorkCap
        BY <2>1, <2>2, Bounds
    <2> QED
        BY <1>1, <2>2, <2>3, <2>4
<1> HIDE DEF w
<1>4. /\ trying' \in [BOOLEAN -> Nat] /\ u \in Nat
      /\ u = t + (IF w = There THEN 1 ELSE 0)
    <2> DEFINE k == trying[w]
    <2>1. trying \in [BOOLEAN -> Nat] /\ There \in BOOLEAN /\ trying' = [trying EXCEPT ![w] = k + 1]
        BY <1>1, Facts DEF ConnOK, There
    <2>2. k \in Nat
        BY <1>3, <2>1
    <2> DEFINE j == k + 1
    <2>3. j \in Nat /\ trying' = [trying EXCEPT ![w] = j]
        BY <2>1, <2>2
    <2> HIDE DEF k, j
    <2>4. trying' \in [BOOLEAN -> Nat] /\ u = (IF w = There THEN j ELSE t)
        BY <1>3, <2>1, <2>3, Zenon
    <2>5. w = There => k = t
        BY DEF k
    <2>6. u \in Nat
        BY <2>1, <2>4, Zenon
    <2> HIDE DEF u, t
    <2>7. u = t + (IF w = There THEN 1 ELSE 0)
        BY <1>2, <2>4, <2>5 DEF j
    <2> QED
        BY <2>4, <2>6, <2>7
<1> HIDE DEF c, d, t, u
<1>5. d + u + results <= c + t + results
    BY <1>2, <1>3, <1>4
<1>6. lastId + backlog + d + u + results <= arrivals + asks
    BY <1>2, <1>3, <1>4, <1>5, Shifts
<1>7. lastId' + backlog' + d + u + results' <= arrivals' + asks'
    BY <1>1, <1>6
<1>8. ConnOK'
    BY <1>1, <1>3, <1>4, <1>7, Facts DEF ConnOK, d, u
<1> QED
    BY <1>1, <1>8, ConnectThreadsKeep

LEMMA CompleteConnectWorkTypes ==
    ASSUME Types, NEW w \in BOOLEAN, NEW success \in BOOLEAN, CompleteConnectWork(w, success)
    PROVE  Types'
<1>1. /\ trying[w] > 0 /\ trying' = [trying EXCEPT ![w] = trying[w] - 1]
      /\ success => w = There
      /\ IF success
         THEN results' = (IF results < WorkCap THEN results + 1 ELSE results) /\ works' = works
         ELSE AddConnectWork(w) /\ results' = results
      /\ UNCHANGED <<turnVars, poolVars, sessionVars, socketVars, heardVars, closeVars,
                     packetVars, mainVars>>
      /\ UNCHANGED <<asks, lastId, backlog, arrivals>>
    BY DEF CompleteConnectWork, poolVars, socketVars, boundVars
<1> DEFINE c == Count(works, {There})
<1> DEFINE d == Count(works', {There})
<1> DEFINE t == trying[There]
<1> DEFINE u == trying'[There]
<1>2. /\ lastId \in Nat /\ backlog \in Nat /\ results \in Nat /\ arrivals \in Nat /\ asks \in Nat
      /\ t \in Nat /\ c \in Nat /\ lastId + backlog + c + t + results <= arrivals + asks
    BY Numbers
<1>3. /\ trying' \in [BOOLEAN -> Nat] /\ u \in Nat
      /\ u = t - (IF w = There THEN 1 ELSE 0)
    <2> DEFINE k == trying[w]
    <2>1. trying \in [BOOLEAN -> Nat] /\ There \in BOOLEAN /\ trying' = [trying EXCEPT ![w] = k - 1]
        BY <1>1, Facts DEF ConnOK, There
    <2>2. k \in Nat /\ k > 0
        BY <1>1, <2>1
    <2> DEFINE j == k - 1
    <2>3. j \in Nat /\ trying' = [trying EXCEPT ![w] = j]
        BY <2>1, <2>2
    <2> HIDE DEF k, j
    <2>4. trying' \in [BOOLEAN -> Nat] /\ u = (IF w = There THEN j ELSE t)
        BY <2>1, <2>3, Zenon
    <2>5. w = There => k = t
        BY DEF k
    <2>6. u \in Nat
        BY <2>1, <2>4, Zenon
    <2> HIDE DEF u, t
    <2>7. u = t - (IF w = There THEN 1 ELSE 0)
        BY <1>2, <2>4, <2>5 DEF j
    <2> QED
        BY <2>4, <2>6, <2>7
<1>4. /\ works' \in Seq(BOOLEAN) /\ Len(works') <= WorkCap /\ d \in Nat
      /\ results' \in 0 .. WorkCap
      /\ d + u + results' <= c + t + results
    <2>1. works \in Seq(BOOLEAN) /\ Len(works) <= WorkCap /\ results \in 0 .. WorkCap
        BY Facts DEF ConnOK
    <2>2. CASE success
        <3>1. /\ works' = works /\ w = There /\ d = c
              /\ results' = (IF results < WorkCap THEN results + 1 ELSE results)
            BY <1>1, <2>2
        <3>2. results' \in 0 .. WorkCap /\ results' <= results + 1
            BY <2>1, <3>1, Bounds
        <3> DEFINE x == results'
        <3>3. x \in Nat /\ x <= results + 1 /\ u = t - 1
            BY <1>3, <3>1, <3>2, Bounds
        <3> HIDE DEF c, d, t, u, x
        <3>4. d + u + x <= c + t + results
            BY <1>2, <3>1, <3>3
        <3> QED
            BY <1>2, <2>1, <3>1, <3>2, <3>4 DEF x
    <2>3. CASE ~success
        <3>1. AddConnectWork(w) /\ results' = results
            BY <1>1, <2>3
        <3>2. /\ works' \in Seq(BOOLEAN) /\ Len(works') <= WorkCap /\ d \in Nat
              /\ d <= c + (IF w = There THEN 1 ELSE 0)
            BY <2>1, <3>1, AddWorkKeeps
        <3> HIDE DEF c, d, t, u
        <3>3. d + u + results <= c + t + results
            <4>1. PICK x \in {0, 1} : u = t - x /\ d <= c + x
                BY <1>3, <3>2
            <4>2. c \in Nat /\ d \in Nat /\ t \in Nat /\ results \in Nat
                BY <1>2, <3>2
            <4> QED
                BY <4>1, <4>2
        <3> QED
            BY <2>1, <3>1, <3>2, <3>3
    <2> QED
        BY <2>2, <2>3
<1> DEFINE x == results'
<1>5. x \in Nat /\ d + u + x <= c + t + results
    BY <1>4, Bounds
<1> HIDE DEF c, d, t, u, x
<1>6. lastId + backlog + d + u + x <= arrivals + asks
    BY <1>2, <1>3, <1>4, <1>5, Shifts
<1>7. lastId' + backlog' + d + u + x <= arrivals' + asks'
    BY <1>1, <1>6
<1>8. ConnOK'
    BY <1>1, <1>3, <1>4, <1>7, Facts DEF ConnOK, d, u, x
<1> QED
    BY <1>1, <1>8, ConnectThreadsKeep

LEMMA PeerConnectsTypes == Types /\ PeerConnects => Types'
<1> SUFFICES ASSUME Types, PeerConnects PROVE Types'
    OBVIOUS
<1>1. /\ arrivals < MaxArrivals /\ arrivals' = arrivals + 1 /\ backlog' = backlog + 1
      /\ UNCHANGED <<at, done, readable, writable, current, parsed, hand>>
      /\ UNCHANGED <<live, lastId, pool, reconnect, sendable, sendQ, buf, net, kernel, lost>>
      /\ UNCHANGED <<sent, frames, losses, out, closes, late>>
      /\ UNCHANGED <<recvQueue, recvFree, unheard, mainRing, sendRing, refs, sendFree, stray>>
      /\ UNCHANGED <<works, trying, results, asks, connected, filling, got, messages>>
    BY DEF PeerConnects, turnVars, poolVars, sessionVars, heardVars, closeVars, packetVars,
           connectVars, mainVars
<1> DEFINE c == Count(works, {There})
<1> DEFINE t == trying[There]
<1>2. /\ lastId \in Nat /\ backlog \in Nat /\ results \in Nat /\ arrivals \in Nat /\ asks \in Nat
      /\ t \in Nat /\ c \in Nat /\ lastId + backlog + c + t + results <= arrivals + asks
      /\ backlog <= arrivals
    BY Numbers
<1> HIDE DEF c, t
<1>3. /\ lastId + (backlog + 1) + c + t + results <= (arrivals + 1) + asks
      /\ backlog + 1 \in 0 .. arrivals + 1 /\ arrivals + 1 \in 0 .. MaxArrivals
    BY <1>1, <1>2, Bounds
<1>4. /\ lastId' + backlog' + c + t + results' <= arrivals' + asks'
      /\ backlog' \in 0 .. arrivals' /\ arrivals' \in 0 .. MaxArrivals
    BY <1>1, <1>3
<1>5. ConnOK'
    BY <1>1, <1>4, Facts DEF ConnOK, c, t
<1>6. /\ TurnOK' /\ PoolOK' /\ ReadOK' /\ HandOK' /\ QueueOK' /\ BufOK' /\ NetOK' /\ CleanOK'
      /\ HeardOK' /\ CloseOK' /\ RingOK' /\ MainOK' /\ RefsOK' /\ HistOK'
    BY <1>1, Facts, Kept
<1> QED
    BY <1>5, <1>6, FactsNext

\* What a peer changes is in NetOK alone.
LEMMA PeersKeep ==
    ASSUME Types, NetOK', NEW s \in live, \A r \in Sids \ {s} : net'[r] = net[r],
           \A r \in Sids \ {s} : kernel'[r] = kernel[r],
           UNCHANGED <<turnVars, poolVars, sessionVars, backlog, arrivals, out, heardVars,
                       closeVars, packetVars, connectVars, mainVars>>
    PROVE  Types'
<1>1. /\ UNCHANGED <<at, done, readable, writable, current, parsed, hand>>
      /\ UNCHANGED <<live, lastId, pool, reconnect, sendable, sendQ, buf>>
      /\ UNCHANGED <<backlog, arrivals, out, closes, late>>
      /\ UNCHANGED <<recvQueue, recvFree, unheard, mainRing, sendRing, refs, sendFree, stray>>
      /\ UNCHANGED <<works, trying, results, asks, connected, filling, got, messages>>
    BY DEF turnVars, poolVars, sessionVars, heardVars, closeVars, packetVars, connectVars,
           mainVars
<1>2. /\ TurnOK' /\ ConnOK' /\ PoolOK' /\ ReadOK' /\ HandOK' /\ QueueOK' /\ BufOK'
      /\ HeardOK' /\ CloseOK' /\ RingOK' /\ MainOK' /\ RefsOK' /\ HistOK'
    BY <1>1, Facts, Kept
<1>3. CleanOK'
    BY <1>1, Facts DEF CleanOK
<1> QED
    BY <1>2, <1>3, FactsNext

LEMMA PeersTypes ==
    ASSUME Types, NEW s \in Sids, PeerSends(s) \/ PeerReads(s) \/ PeerGoes(s)
    PROVE  Types'
<1> USE Facts
<1>1. CASE PeerSends(s)
    <2>1. PICK frame \in {Bad, sent[s] + 1} : net' = [net EXCEPT ![s] = Append(net[s], frame)]
        BY <1>1, Zenon DEF PeerSends
    <2>2. /\ s \in live \ lost /\ sent' = [sent EXCEPT ![s] = sent[s] + 1]
          /\ kernel' = kernel /\ lost' = lost /\ live' = live
          /\ UNCHANGED <<turnVars, poolVars, sessionVars, backlog, arrivals, out, heardVars,
                         closeVars, packetVars, connectVars, mainVars>>
        BY <1>1 DEF PeerSends, poolVars
    <2>3. frame \in Nat /\ sent' \in [Sids -> Nat]
        BY <2>2 DEF NetOK, Bad
    <2> DEFINE x == Append(net[s], frame)
    <2>4. x \in Seq(Nat)
        BY <2>3 DEF NetOK
    <2>5. net' = [net EXCEPT ![s] = x]
        BY <2>1
    <2> HIDE DEF x
    <2>6. NetOK' /\ \A r \in Sids \ {s} : net'[r] = net[r] /\ kernel'[r] = kernel[r]
        BY <2>2, <2>3, <2>4, <2>5 DEF NetOK
    <2> QED
        BY <2>2, <2>6, PeersKeep
<1>2. CASE PeerReads(s)
    <2>1. /\ s \in live \ lost /\ kernel[s] > 0 /\ kernel' = [kernel EXCEPT ![s] = kernel[s] - 1]
          /\ net' = net /\ lost' = lost /\ live' = live /\ sent' = sent
          /\ UNCHANGED <<turnVars, poolVars, sessionVars, backlog, arrivals, out, heardVars,
                         closeVars, packetVars, connectVars, mainVars>>
        BY <1>2 DEF PeerReads, poolVars, boundVars
    <2>2. kernel[s] - 1 \in 0 .. KernelCap
        BY <2>1, Bounds DEF NetOK
    <2>3. kernel' \in [Sids -> 0 .. KernelCap]
        BY <2>1, <2>2, Zenon DEF NetOK
    <2>4. NetOK' /\ \A r \in Sids \ {s} : net'[r] = net[r] /\ kernel'[r] = kernel[r]
        BY <2>1, <2>3 DEF NetOK
    <2> QED
        BY <2>1, <2>4, PeersKeep
<1>3. CASE PeerGoes(s)
    <2>1. PICK n \in 0 .. Len(net[s]) : net' = [net EXCEPT ![s] = SubSeq(net[s], 1, n)]
        BY <1>3, Zenon DEF PeerGoes
    <2>2. /\ s \in live \ lost /\ lost' = lost \cup {s} /\ kernel' = kernel /\ live' = live
          /\ sent' = sent
          /\ UNCHANGED <<turnVars, poolVars, sessionVars, backlog, arrivals, out, heardVars,
                         closeVars, packetVars, connectVars, mainVars>>
        BY <1>3 DEF PeerGoes, poolVars
    <2> DEFINE x == SubSeq(net[s], 1, n)
    <2>3. x \in Seq(Nat)
        <3>1. net[s] \in Seq(Nat)
            BY DEF NetOK
        <3> QED
            BY <3>1, FrontAndRest
    <2>4. net' = [net EXCEPT ![s] = x]
        BY <2>1
    <2> HIDE DEF x
    <2>5. NetOK' /\ \A r \in Sids \ {s} : net'[r] = net[r] /\ kernel'[r] = kernel[r]
        BY <2>2, <2>3, <2>4 DEF NetOK
    <2> QED
        BY <2>2, <2>5, PeersKeep
<1> QED
    BY <1>1, <1>2, <1>3

-----------------------------------------------------------------------------
LEMMA InitTypes == Init => Types
<1> SUFFICES ASSUME Init PROVE Types
    OBVIOUS
<1>1. TurnOK /\ ReadOK /\ HandOK
    BY Bounds DEF Init, TurnOK, ReadOK, HandOK
<1>2. ConnOK
    <2>1. works = <<>> /\ Count(<<>>, {There}) = 0
        BY CountOne DEF Init
    <2>2. Count(works, {There}) = 0
        BY <2>1
    <2>3. trying \in [BOOLEAN -> Nat] /\ trying[There] = 0
        BY DEF Init, There
    <2>4. lastId = 0 /\ backlog = 0 /\ results = 0 /\ arrivals = 0 /\ asks = 0
        BY DEF Init
    <2>5. lastId + backlog + Count(works, {There}) + trying[There] + results <= arrivals + asks
        BY <2>2, <2>3, <2>4
    <2>6. works \in Seq(BOOLEAN) /\ Len(works) <= WorkCap
        BY <2>1, Bounds
    <2> QED
        BY <2>3, <2>4, <2>5, <2>6, Bounds DEF ConnOK
<1>3. PoolOK
    <2>1. /\ pool = [i \in 1 .. PoolSize |-> FALSE] /\ live = {} /\ lastId = 0
          /\ reconnect \in [Sids -> BOOLEAN]
        BY DEF Init
    <2>2. pool \in Seq(BOOLEAN) /\ Len(pool) = PoolSize
        BY <2>1, Bounds
    <2>3. Cardinality(live) = 0
        BY <2>1, FS_EmptySet
    <2> QED
        BY <2>1, <2>2, <2>3, Bounds DEF PoolOK
<1>4. QueueOK /\ BufOK /\ NetOK /\ CleanOK
    BY Bounds DEF Init, QueueOK, BufOK, NetOK, CleanOK
<1>5. HeardOK
    <2>1. recvQueue = <<>> /\ Count(<<>>, Framed) = 0 /\ recvFree = RecvPool /\ unheard = {}
        BY CountOne DEF Init
    <2>2. Count(recvQueue, Framed) = 0
        BY <2>1
    <2>3. recvQueue \in Seq(Notes) /\ Len(recvQueue) <= RecvCap
        BY <2>1, Bounds
    <2> QED
        BY <2>1, <2>2, <2>3, Bounds DEF HeardOK
<1>6. CloseOK /\ RingOK /\ MainOK /\ RefsOK /\ HistOK
    BY Bounds DEF Init, CloseOK, RingOK, MainOK, RefsOK, HistOK
<1> QED
    BY <1>1, <1>2, <1>3, <1>4, <1>5, <1>6, Zenon DEF Types

LEMMA NextTypes == Types /\ [Next]_vars => Types'
<1> SUFFICES ASSUME Types, [Next]_vars PROVE Types'
    OBVIOUS
<1>1. CASE NetThread
    BY <1>1, CloseOneTypes, CloseEndsTypes, ConnectedOneTypes, SelectTypes, SessionRecvTypes,
       ParsePacketTypes, ParseEndsTypes, BecomesSendableTypes, SendOneTypes, SendDirectTypes,
       FlushTypes, SendEndTypes, Zenon DEF NetThread
<1>2. CASE MainThread
    BY <1>2, MainTakesTypes, MainPostsTypes, MainFillsTypes, AddOneSendPacketTypes, Zenon
       DEF MainThread
<1>3. CASE ConnectThreads
    BY <1>3, AddOneConnectWorkTypes, StartConnectTypes, CompleteConnectWorkTypes, Zenon
       DEF ConnectThreads
<1>4. CASE Peers
    BY <1>4, PeerConnectsTypes, PeersTypes, Zenon DEF Peers
<1>5. CASE UNCHANGED vars
    <2>1. /\ UNCHANGED <<at, done, readable, writable, current, parsed, hand>>
          /\ UNCHANGED <<live, lastId, pool, reconnect, sendable, sendQ, buf>>
          /\ UNCHANGED <<net, kernel, lost, backlog, sent, arrivals, out, closes, late>>
          /\ UNCHANGED <<recvQueue, recvFree, unheard, mainRing, sendRing, refs, sendFree>>
          /\ UNCHANGED <<stray, works, trying, results, asks, connected, filling, got, messages>>
        BY <1>5 DEF vars, turnVars, poolVars, sessionVars, socketVars, boundVars, heardVars,
                    closeVars, packetVars, connectVars, mainVars
    <2>2. /\ TurnOK' /\ ConnOK' /\ PoolOK' /\ ReadOK' /\ HandOK' /\ QueueOK' /\ BufOK' /\ NetOK'
          /\ CleanOK' /\ HeardOK' /\ CloseOK' /\ RingOK' /\ MainOK' /\ RefsOK' /\ HistOK'
        BY <2>1, Facts, Kept
    <2> QED
        BY <2>2, FactsNext
<1> QED
    BY <1>1, <1>2, <1>3, <1>4, <1>5 DEF Next

LEMMA AlwaysTypes == Spec => []Types
BY InitTypes, NextTypes, PTL DEF Spec

\* The rings, pools, queues and buffers of the select server keep to their sizes, every
\* session object is in the pool or in use, ids and connects do not outrun what was asked
\* for, a session the thread reads, parses or sends for is one of the live ones, and one
\* that is not live has nothing left (src/NetWork/LSelectServer.cpp).
THEOREM TypeCorrect == Spec => []TypeOK
<1>1. Types => TypeOK
    <2> SUFFICES ASSUME Types PROVE TypeOK
        OBVIOUS
    <2> USE Facts
    <2>1. /\ at \in {"close", "connected", "work", "parse", "direct", "flush"}
          /\ done \in 0 .. Turn /\ readable \subseteq live /\ writable \subseteq live
          /\ at = "parse" => current \in live /\ parsed \in 0 .. Len(buf[current])
          /\ IF at \in {"direct", "flush"} THEN hand \in Entries /\ hand.s \in live
             ELSE hand = <<>>
        BY DEF TurnOK, ReadOK, HandOK
    <2>2. /\ live \subseteq 1 .. lastId /\ lastId \in 0 .. MaxArrivals + MaxAsks
          /\ pool \in Seq(BOOLEAN) /\ Len(pool) + Cardinality(live) = PoolSize
          /\ reconnect \in [Sids -> BOOLEAN] /\ sendable \in [Sids -> BOOLEAN]
        BY DEF PoolOK, QueueOK
    <2>3. \A s \in Sids :
            /\ Len(sendQ[s]) <= QueueCap /\ Len(buf[s]) <= BufCap /\ kernel[s] \in 0 .. KernelCap
            /\ s \notin live =>
                sendable[s] /\ sendQ[s] = <<>> /\ buf[s] = <<>> /\ net[s] = <<>> /\ kernel[s] = 0
        BY DEF QueueOK, BufOK, NetOK, CleanOK
    <2>4. backlog \in 0 .. MaxArrivals /\ lost \subseteq live
        BY Numbers, Bounds DEF NetOK
    <2>5. recvFree \in 0 .. RecvPool
        <3> DEFINE c == Count(recvQueue, Framed)
        <3>1. c \in Nat /\ recvFree \in Nat /\ recvFree + c <= RecvPool
            BY CountMoves DEF HeardOK
        <3> HIDE DEF c
        <3> QED
            BY <3>1, Bounds
    <2>6. /\ Len(recvQueue) <= RecvCap /\ Len(closes) <= CloseCap /\ Len(mainRing) <= MainCap
          /\ Len(sendRing) <= SendCap /\ Len(works) <= WorkCap /\ results \in 0 .. WorkCap
        BY DEF HeardOK, CloseOK, RingOK, ConnOK
    <2> QED
        BY <2>1, <2>2, <2>3, <2>4, <2>5, <2>6, Zenon DEF TypeOK
<1> QED
    BY <1>1, AlwaysTypes, PTL

-----------------------------------------------------------------------------
(* The order in which messages leave.  What the main thread posted to a       *)
(* session is in one line: what its socket has taken, what its queue holds    *)
(* or the thread is about to send, what is in the two rings, and what the     *)
(* main thread still makes entries for.                                       *)

Rings == sendRing \o mainRing

\* All that has left the rings for s is older than message k.
Before(s, k) ==
    /\ out[s] < k
    /\ \A i \in DOMAIN sendQ[s] : sendQ[s][i].n < k
    /\ at = "direct" /\ hand.s = s => hand.n < k

RingsInOrder ==
    \A i \in DOMAIN Rings :
        /\ Rings[i].n <= messages /\ Before(Rings[i].s, Rings[i].n)
        /\ \A j \in DOMAIN Rings : i < j /\ Rings[j].s = Rings[i].s => Rings[i].n < Rings[j].n

QueuesInOrder ==
    \A s \in Sids : \A i \in DOMAIN sendQ[s] :
        /\ sendQ[s][i].s = s /\ out[s] < sendQ[s][i].n /\ sendQ[s][i].n <= messages
        /\ \A j \in DOMAIN sendQ[s] : i < j => sendQ[s][i].n < sendQ[s][j].n

HandInOrder ==
    at = "direct" => sendQ[hand.s] = <<>> /\ out[hand.s] < hand.n /\ hand.n <= messages

FillingInOrder ==
    /\ \A e \in filling :
        /\ e.n = messages /\ Before(e.s, e.n)
        /\ \A i \in DOMAIN Rings : Rings[i].s = e.s => Rings[i].n < e.n
    /\ \A e, f \in filling : e.s = f.s => e = f

OutInOrder == \A s \in Sids : out[s] <= messages

Ordered == RingsInOrder /\ QueuesInOrder /\ HandInOrder /\ FillingInOrder /\ OutInOrder

LEMMA RingsFacts ==
    ASSUME Types
    PROVE  /\ Rings \in Seq(Entries) /\ Len(Rings) \in Nat /\ DOMAIN Rings = 1 .. Len(Rings)
           /\ \A i \in DOMAIN Rings : Rings[i] \in Entries /\ Rings[i].s \in Sids /\ Rings[i].n \in Nat
           /\ \A e \in filling : e \in Entries /\ e.s \in Sids /\ e.n \in Nat
           /\ \A s \in Sids : /\ sendQ[s] \in Seq(Entries) /\ out[s] \in Nat
                              /\ \A i \in DOMAIN sendQ[s] : sendQ[s][i].n \in Nat
           /\ messages \in Nat
           /\ at = "direct" => hand \in Entries /\ hand.s \in Sids /\ hand.n \in Nat
<1> USE Facts
<1>0. \A e \in Entries : e.s \in Sids /\ e.n \in Nat
    BY Bounds DEF Entries
<1>1. Rings \in Seq(Entries)
    BY DEF RingOK, Rings
<1>2. Len(Rings) \in Nat /\ DOMAIN Rings = 1 .. Len(Rings) /\ \A i \in DOMAIN Rings : Rings[i] \in Entries
    BY <1>1
<1>3. \A e \in filling : e \in Entries
    BY DEF MainOK
<1>4. \A s \in Sids : /\ sendQ[s] \in Seq(Entries) /\ out[s] \in Nat
                      /\ \A i \in DOMAIN sendQ[s] : sendQ[s][i] \in Entries
    BY DEF QueueOK, HistOK
<1>5. messages \in Nat /\ (at = "direct" => hand \in Entries)
    BY Bounds DEF MainOK, HandOK
<1> QED
    BY <1>0, <1>1, <1>2, <1>3, <1>4, <1>5

\* Nothing that has left the rings becomes younger: the rings and what is being filled keep
\* their order.
LEMMA OrderedAhead ==
    ASSUME Types, Ordered, UNCHANGED <<sendRing, mainRing, filling, messages>>,
           \A t \in Sids, k \in Nat : Before(t, k) => Before(t, k)',
           QueuesInOrder', HandInOrder', OutInOrder'
    PROVE  Ordered'
<1>1. Rings' = Rings
    BY DEF Rings
<1>2. RingsInOrder'
    BY <1>1, RingsFacts DEF RingsInOrder, Ordered
<1>3. FillingInOrder'
    BY <1>1, RingsFacts DEF FillingInOrder, Ordered
<1> QED
    BY <1>2, <1>3 DEF Ordered

LEMMA OrderedSame ==
    ASSUME Ordered, UNCHANGED <<sendRing, mainRing, filling, messages, out, sendQ, hand>>,
           at' = "direct" <=> at = "direct"
    PROVE  Ordered'
<1>1. Rings' = Rings
    BY DEF Rings
<1>2. \A t, k : Before(t, k)' <=> Before(t, k)
    BY DEF Before
<1>3. RingsInOrder'
    BY <1>1, <1>2 DEF RingsInOrder, Ordered
<1>4. FillingInOrder'
    BY <1>1, <1>2 DEF FillingInOrder, Ordered
<1>5. QueuesInOrder' /\ HandInOrder' /\ OutInOrder'
    BY DEF QueuesInOrder, HandInOrder, OutInOrder, Ordered
<1> QED
    BY <1>3, <1>4, <1>5 DEF Ordered

\* The first of the rings is taken, and one is put behind the last.
LEMMA RingsMove ==
    ASSUME NEW a \in Seq(Entries), NEW b \in Seq(Entries)
    PROVE  /\ Len(a \o b) \in Nat
           /\ a # <<>> =>
                /\ Len(a \o b) # 0 /\ (a \o b)[1] = Head(a)
                /\ Len(Tail(a) \o b) = Len(a \o b) - 1
                /\ \A i \in 1 .. Len(a \o b) - 1 : (Tail(a) \o b)[i] = (a \o b)[i + 1]
           /\ \A e \in Entries :
                /\ Len(a \o Append(b, e)) = Len(a \o b) + 1
                /\ \A i \in 1 .. Len(a \o b) : (a \o Append(b, e))[i] = (a \o b)[i]
                /\ (a \o Append(b, e))[Len(a \o b) + 1] = e
<1> DEFINE l == Len(a)
<1> DEFINE m == Len(b)
<1> DEFINE c == a \o b
<1>1. /\ l \in Nat /\ m \in Nat /\ Len(c) = l + m
      /\ \A i \in 1 .. l + m : c[i] = IF i <= l THEN a[i] ELSE b[i - l]
    BY ConcatProperties
<1>2. ASSUME a # <<>>
      PROVE  /\ Len(c) # 0 /\ c[1] = Head(a) /\ Len(Tail(a) \o b) = Len(c) - 1
             /\ \A i \in 1 .. Len(c) - 1 : (Tail(a) \o b)[i] = c[i + 1]
    <2> DEFINE t == Tail(a)
    <2> DEFINE d == t \o b
    <2>1. /\ t \in Seq(Entries) /\ Len(t) = l - 1 /\ l # 0 /\ Head(a) = a[1]
          /\ \A i \in 1 .. l - 1 : t[i] = a[i + 1]
        BY <1>2
    <2> HIDE DEF t
    <2>2. /\ Len(d) = Len(t) + m
          /\ \A i \in 1 .. Len(t) + m : d[i] = IF i <= Len(t) THEN t[i] ELSE b[i - Len(t)]
        BY <2>1, ConcatProperties
    <2> HIDE DEF l, m, c, d
    <2>3. Len(c) # 0 /\ c[1] = Head(a) /\ Len(d) = Len(c) - 1
        BY <1>1, <2>1, <2>2
    <2>4. ASSUME NEW i \in 1 .. Len(c) - 1 PROVE d[i] = c[i + 1]
        <3>1. i \in 1 .. Len(t) + m /\ i + 1 \in 1 .. l + m
            BY <1>1, <2>1
        <3>2. CASE i <= l - 1
            <4>1. d[i] = t[i] /\ t[i] = a[i + 1] /\ c[i + 1] = a[i + 1]
                BY <1>1, <2>1, <2>2, <3>1, <3>2
            <4> QED
                BY <4>1
        <3>3. CASE ~(i <= l - 1)
            <4>1. d[i] = b[i - (l - 1)] /\ c[i + 1] = b[i + 1 - l] /\ i - (l - 1) = i + 1 - l
                BY <1>1, <2>1, <2>2, <3>1, <3>3
            <4> QED
                BY <4>1
        <3> QED
            BY <3>2, <3>3
    <2> QED
        BY <2>3, <2>4 DEF d, t
<1>3. ASSUME NEW e \in Entries
      PROVE  /\ Len(a \o Append(b, e)) = Len(c) + 1
             /\ \A i \in 1 .. Len(c) : (a \o Append(b, e))[i] = c[i]
             /\ (a \o Append(b, e))[Len(c) + 1] = e
    <2> DEFINE t == Append(b, e)
    <2> DEFINE d == a \o t
    <2>1. /\ t \in Seq(Entries) /\ Len(t) = m + 1 /\ t[m + 1] = e
          /\ \A i \in 1 .. m : t[i] = b[i]
        OBVIOUS
    <2> HIDE DEF t
    <2>2. /\ Len(d) = l + Len(t)
          /\ \A i \in 1 .. l + Len(t) : d[i] = IF i <= l THEN a[i] ELSE t[i - l]
        BY <2>1, ConcatProperties
    <2> HIDE DEF l, m, c, d
    <2>3. Len(d) = Len(c) + 1
        BY <1>1, <2>1, <2>2
    <2>4. d[Len(c) + 1] = e
        <3> DEFINE k == Len(c) + 1
        <3>1. k \in 1 .. l + Len(t) /\ ~(k <= l) /\ k - l = m + 1
            BY <1>1, <2>1
        <3> HIDE DEF k
        <3>2. d[k] = t[k - l]
            BY <2>2, <3>1
        <3>3. d[k] = e
            BY <2>1, <3>1, <3>2
        <3> QED
            BY <3>3 DEF k
    <2>5. ASSUME NEW i \in 1 .. Len(c) PROVE d[i] = c[i]
        <3>1. i \in 1 .. l + m /\ i \in 1 .. l + Len(t)
            BY <1>1, <2>1
        <3>2. CASE i <= l
            BY <1>1, <2>2, <3>1, <3>2
        <3>3. CASE ~(i <= l)
            <4>1. i - l \in 1 .. m
                BY <1>1, <3>1, <3>3
            <4> QED
                BY <1>1, <2>1, <2>2, <3>1, <3>3, <4>1
        <3> QED
            BY <3>2, <3>3
    <2> QED
        BY <2>3, <2>4, <2>5 DEF d, t
<1>4. Len(c) \in Nat
    BY <1>1
<1> HIDE DEF l, m
<1> QED
    BY <1>2, <1>3, <1>4

\* A closed session has no queue; what its socket took stays where it is.
LEMMA CloseOneOrdered ==
    ASSUME Types, Types', Ordered, CloseOne
    PROVE  Ordered'
<1> USE RingsFacts
<1>1. /\ at = "close" /\ at' = "close"
      /\ UNCHANGED <<hand, out, sendRing, mainRing, filling, messages>>
      /\ sendQ' = sendQ \/ sendQ' = [sendQ EXCEPT ![Head(closes)] = <<>>]
    BY DEF CloseOne, CloseSession, mainVars, sessionVars
<1>2. \A t \in Sids : sendQ'[t] = sendQ[t] \/ sendQ'[t] = <<>>
    BY <1>1, Facts DEF QueueOK
<1>3. \A t \in Sids, k \in Nat : Before(t, k) => Before(t, k)'
    BY <1>1, <1>2 DEF Before
<1>4. QueuesInOrder'
    BY <1>1, <1>2 DEF QueuesInOrder, Ordered
<1>5. HandInOrder' /\ OutInOrder'
    BY <1>1 DEF HandInOrder, OutInOrder, Ordered
<1> QED
    BY <1>1, <1>3, <1>4, <1>5, OrderedAhead

\* What the socket takes is the oldest that has left the rings for the session.
LEMMA SendDirectOrdered ==
    ASSUME Types, Types', Ordered, SendDirect
    PROVE  Ordered' /\ \A s \in Sids : kernel'[s] > kernel[s] => out'[s] > out[s]
<1> USE RingsFacts
<1> DEFINE h == hand.s
<1>1. /\ at = "direct" /\ at' = "work" /\ UNCHANGED <<sendQ, sendRing, mainRing, filling, messages>>
      /\ \/ /\ kernel' = [kernel EXCEPT ![h] = kernel[h] + 1] /\ out' = [out EXCEPT ![h] = hand.n]
         \/ kernel' = kernel /\ out' = out
    BY DEF SendDirect, KernelTakes, mainVars
<1>2. h \in Sids /\ sendQ[h] = <<>> /\ out[h] < hand.n /\ hand.n <= messages /\ hand.n \in Nat
    BY <1>1 DEF HandInOrder, Ordered
<1>3. out \in [Sids -> Nat] /\ kernel \in [Sids -> 0 .. KernelCap]
    BY Facts DEF HistOK, NetOK
<1>4. \A t \in Sids : out'[t] = out[t] \/ (t = h /\ out'[t] = hand.n)
    BY <1>1, <1>3
<1> HIDE DEF h
<1>5. \A t \in Sids, k \in Nat : Before(t, k) => Before(t, k)'
    BY <1>1, <1>4 DEF Before, h
<1>6. QueuesInOrder'
    <2>1. \A t \in Sids : \A i \in DOMAIN sendQ[t] : out'[t] = out[t]
        BY <1>2, <1>4
    <2> QED
        BY <1>1, <2>1 DEF QueuesInOrder, Ordered
<1>7. HandInOrder' /\ OutInOrder'
    BY <1>1, <1>2, <1>4 DEF HandInOrder, OutInOrder, Ordered
<1>8. Ordered'
    BY <1>1, <1>5, <1>6, <1>7, OrderedAhead
<1>9. \A s \in Sids : kernel'[s] > kernel[s] => out'[s] > out[s]
    <2>1. ASSUME NEW s \in Sids, kernel'[s] > kernel[s] PROVE out'[s] > out[s]
        <3>1. kernel[s] \in Nat
            BY <1>3, Bounds
        <3>2. kernel' # kernel
            BY <2>1, <3>1
        <3>3. kernel' = [kernel EXCEPT ![h] = kernel[h] + 1] /\ out' = [out EXCEPT ![h] = hand.n]
            BY <1>1, <3>2 DEF h
        <3>4. s = h
            BY <1>3, <2>1, <3>1, <3>3
        <3> QED
            BY <1>2, <1>3, <3>3, <3>4
    <2> QED
        BY <2>1
<1> QED
    BY <1>8, <1>9

LEMMA FlushOrdered ==
    ASSUME Types, Types', Ordered, Flush
    PROVE  Ordered' /\ \A s \in Sids : kernel'[s] > kernel[s] => out'[s] > out[s]
<1> USE RingsFacts
<1> DEFINE h == hand.s
<1> DEFINE q == sendQ[h]
<1> DEFINE e == Head(q)
<1>1. /\ at = "flush" /\ q # <<>> /\ at' \in {"flush", "work"}
      /\ UNCHANGED <<sendRing, mainRing, filling, messages>>
      /\ \/ /\ kernel' = [kernel EXCEPT ![h] = kernel[h] + 1] /\ out' = [out EXCEPT ![h] = e.n]
            /\ sendQ' = [sendQ EXCEPT ![h] = Tail(q)]
         \/ kernel' = kernel /\ out' = out /\ sendQ' = sendQ
    BY DEF Flush, KernelTakes, NextOut, mainVars
<1>2. h \in Sids
    BY <1>1, Facts DEF HandOK, Entries
<1>3. /\ out \in [Sids -> Nat] /\ kernel \in [Sids -> 0 .. KernelCap]
      /\ sendQ \in [Sids -> Seq(Entries)]
    BY Facts DEF HistOK, NetOK, QueueOK
<1> DEFINE l == Len(q)
<1> DEFINE t == Tail(q)
<1>4. /\ q \in Seq(Entries) /\ l \in Nat /\ l # 0 /\ DOMAIN q = 1 .. l /\ e = q[1]
      /\ t \in Seq(Entries) /\ DOMAIN t = 1 .. l - 1 /\ \A i \in 1 .. l - 1 : t[i] = q[i + 1]
    BY <1>1, <1>2, <1>3
<1> HIDE DEF h, q, e, l, t
<1>5. \A i \in 1 .. l : /\ q[i].s = h /\ out[h] < q[i].n /\ q[i].n <= messages /\ q[i].n \in Nat
                        /\ \A j \in 1 .. l : i < j => q[i].n < q[j].n
    BY <1>2, <1>4 DEF QueuesInOrder, Ordered, q
<1>6. e.n \in Nat /\ out[h] < e.n /\ e.n <= messages /\ \A i \in 2 .. l : e.n < q[i].n
    BY <1>4, <1>5
<1>7. CASE kernel' = kernel /\ out' = out /\ sendQ' = sendQ
    <2>1. \A r \in Sids, k \in Nat : Before(r, k) => Before(r, k)'
        BY <1>1, <1>7 DEF Before
    <2>2. QueuesInOrder' /\ HandInOrder' /\ OutInOrder'
        BY <1>1, <1>7 DEF QueuesInOrder, HandInOrder, OutInOrder, Ordered
    <2>3. Ordered'
        BY <1>1, <2>1, <2>2, OrderedAhead
    <2>4. \A s \in Sids : ~(kernel'[s] > kernel[s])
        <3>1. \A s \in Sids : kernel[s] \in Nat
            BY <1>3, Bounds
        <3> QED
            BY <1>7, <3>1
    <2> QED
        BY <2>3, <2>4
<1>8. CASE /\ kernel' = [kernel EXCEPT ![h] = kernel[h] + 1] /\ out' = [out EXCEPT ![h] = e.n]
           /\ sendQ' = [sendQ EXCEPT ![h] = t]
    <2>1. /\ \A r \in Sids \ {h} : out'[r] = out[r] /\ sendQ'[r] = sendQ[r]
          /\ out'[h] = e.n /\ sendQ'[h] = t
        BY <1>2, <1>3, <1>8
    <2>2. \A r \in Sids, k \in Nat : Before(r, k) => Before(r, k)'
        <3>1. ASSUME NEW r \in Sids, NEW k \in Nat, Before(r, k) PROVE Before(r, k)'
            <4>1. CASE r # h
                BY <1>1, <2>1, <3>1, <4>1 DEF Before
            <4>2. CASE r = h
                <5>1. \A i \in 1 .. l : q[i].n < k
                    BY <1>4, <3>1, <4>2 DEF Before, q
                <5>2. e.n < k /\ \A i \in 1 .. l - 1 : t[i].n < k
                    <6>1. 1 \in 1 .. l /\ \A i \in 1 .. l - 1 : i + 1 \in 1 .. l
                        BY <1>4
                    <6>2. \A i \in 1 .. l - 1 : q[i + 1].n < k /\ t[i] = q[i + 1]
                        BY <1>4, <5>1, <6>1
                    <6> QED
                        BY <1>4, <5>1, <6>1, <6>2
                <5> QED
                    BY <1>1, <1>4, <2>1, <4>2, <5>2 DEF Before
            <4> QED
                BY <4>1, <4>2
        <3> QED
            BY <3>1
    <2>3. QueuesInOrder'
        <3>1. ASSUME NEW r \in Sids, NEW i \in DOMAIN sendQ'[r]
              PROVE  /\ sendQ'[r][i].s = r /\ out'[r] < sendQ'[r][i].n
                     /\ sendQ'[r][i].n <= messages'
                     /\ \A j \in DOMAIN sendQ'[r] : i < j => sendQ'[r][i].n < sendQ'[r][j].n
            <4>1. CASE r # h
                BY <1>1, <2>1, <3>1, <4>1 DEF QueuesInOrder, Ordered
            <4>2. CASE r = h
                <5>1. i \in 1 .. l - 1 /\ sendQ'[r] = t /\ out'[r] = e.n /\ messages' = messages
                    BY <1>1, <1>4, <2>1, <3>1, <4>2
                <5>2. i + 1 \in 2 .. l /\ i + 1 \in 1 .. l /\ t[i] = q[i + 1]
                    BY <1>4, <5>1
                <5>3. t[i].s = h /\ e.n < t[i].n /\ t[i].n <= messages
                    BY <1>5, <1>6, <5>2
                <5>4. ASSUME NEW j \in 1 .. l - 1, i < j PROVE t[i].n < t[j].n
                    <6>1. j + 1 \in 1 .. l /\ i + 1 < j + 1 /\ t[j] = q[j + 1]
                        BY <1>4, <5>1, <5>4
                    <6> DEFINE a == i + 1
                    <6> DEFINE b == j + 1
                    <6>2. a \in 1 .. l /\ b \in 1 .. l /\ a < b /\ t[i] = q[a] /\ t[j] = q[b]
                        BY <5>2, <6>1
                    <6> HIDE DEF a, b
                    <6> QED
                        BY <1>5, <6>2
                <5> QED
                    BY <1>4, <4>2, <5>1, <5>3, <5>4
            <4> QED
                BY <4>1, <4>2
        <3> QED
            BY <3>1 DEF QueuesInOrder
    <2>4. HandInOrder' /\ OutInOrder'
        BY <1>1, <1>6, <2>1 DEF HandInOrder, OutInOrder, Ordered
    <2>5. Ordered'
        BY <1>1, <2>2, <2>3, <2>4, OrderedAhead
    <2>6. ASSUME NEW s \in Sids, kernel'[s] > kernel[s] PROVE out'[s] > out[s]
        <3>1. kernel[s] \in Nat
            BY <1>3, Bounds
        <3>2. s = h
            BY <1>3, <1>8, <2>6, <3>1
        <3> QED
            BY <1>2, <1>3, <1>6, <2>1, <3>2
    <2> QED
        BY <2>5, <2>6
<1> QED
    BY <1>1, <1>7, <1>8 DEF h, q, e, t

\* The first of the rings is the oldest of its session there, and younger than all that
\* has left them.
LEMMA SendOneOrdered ==
    ASSUME Types, Types', Ordered, SendOne
    PROVE  Ordered'
<1> USE RingsFacts
<1> DEFINE e == Head(sendRing)
<1> DEFINE s == e.s
<1> DEFINE queues == MustQueue(s)
<1> DEFINE room == Len(sendQ[s]) < QueueCap
<1>1. /\ sendRing # <<>> /\ sendRing' = Tail(sendRing)
      /\ sendQ' = IF s \in live /\ queues /\ room THEN [sendQ EXCEPT ![s] = Append(@, e)]
                  ELSE sendQ
      /\ IF s \in live /\ sendable[s] /\ (queues => room)
         THEN at' = (IF queues THEN "flush" ELSE "direct") /\ hand' = e
         ELSE UNCHANGED <<at, hand>>
    BY Zenon DEF SendOne
<1>2. at = "work" /\ UNCHANGED <<out, mainRing, filling, messages>>
    BY DEF SendOne, EventsDone, socketVars, mainVars
<1>3. /\ Len(Rings) # 0 /\ Rings[1] = e /\ Len(Rings') = Len(Rings) - 1
      /\ \A i \in 1 .. Len(Rings) - 1 : Rings'[i] = Rings[i + 1]
    <2>1. sendRing \in Seq(Entries) /\ mainRing \in Seq(Entries)
        BY Facts DEF RingOK
    <2>2. Rings = sendRing \o mainRing /\ Rings' = Tail(sendRing) \o mainRing
        BY <1>1, <1>2 DEF Rings
    <2> QED
        BY <1>1, <2>1, <2>2, RingsMove
<1> DEFINE l == Len(Rings)
<1>4. /\ l \in Nat /\ l # 0 /\ DOMAIN Rings = 1 .. l /\ DOMAIN Rings' = 1 .. l - 1
      /\ \A i \in 1 .. l - 1 : Rings'[i] = Rings[i + 1]
    BY <1>3
<1>5. e \in Entries /\ s \in Sids /\ e.n \in Nat /\ e.n <= messages /\ Before(s, e.n)
    <2>1. 1 \in DOMAIN Rings
        BY <1>4
    <2> QED
        BY <1>3, <2>1 DEF RingsInOrder, Ordered
<1> HIDE DEF e, s, queues, room, l
<1>6. \A i \in 1 .. l : /\ Rings[i] \in Entries /\ Rings[i].s \in Sids /\ Rings[i].n \in Nat
                        /\ Rings[i].n <= messages /\ Before(Rings[i].s, Rings[i].n)
                        /\ \A j \in 1 .. l :
                              i < j /\ Rings[j].s = Rings[i].s => Rings[i].n < Rings[j].n
    BY <1>4 DEF RingsInOrder, Ordered
<1>7. \A i \in 2 .. l : Rings[i].s = s => e.n < Rings[i].n
    <2>1. ASSUME NEW i \in 2 .. l, Rings[i].s = s PROVE e.n < Rings[i].n
        <3>1. 1 \in 1 .. l /\ i \in 1 .. l /\ 1 < i /\ Rings[1].s = s /\ Rings[1].n = e.n
            BY <1>3, <1>4 DEF s
        <3> QED
            BY <1>6, <2>1, <3>1
    <2> QED
        BY <2>1
<1>8. /\ \A t \in Sids, k \in Nat : Before(t, k) /\ (t = s => e.n < k) => Before(t, k)'
      /\ QueuesInOrder' /\ HandInOrder'
    <2>1. CASE s \in live /\ queues /\ room
        <3>1. sendQ' = [sendQ EXCEPT ![s] = Append(sendQ[s], e)] /\ at' # "direct"
            BY <1>1, <1>2, <2>1
        <3> DEFINE q == sendQ[s]
        <3> DEFINE m == Len(q)
        <3> DEFINE x == Append(q, e)
        <3>2. q \in Seq(Entries) /\ sendQ \in [Sids -> Seq(Entries)]
            BY <1>5, Facts DEF QueueOK
        <3>3. /\ m \in Nat /\ DOMAIN q = 1 .. m /\ DOMAIN x = 1 .. m + 1 /\ x[m + 1] = e
              /\ \A i \in 1 .. m : x[i] = q[i]
            BY <1>5, <3>2
        <3>4. sendQ'[s] = x /\ \A r \in Sids \ {s} : sendQ'[r] = sendQ[r]
            BY <1>5, <3>1, <3>2
        <3> HIDE DEF m, x, q
        <3>5. \A i \in 1 .. m : /\ q[i].s = s /\ out[s] < q[i].n /\ q[i].n <= messages
                                /\ q[i].n < e.n
                                /\ \A j \in 1 .. m : i < j => q[i].n < q[j].n
            BY <1>5, <3>3 DEF QueuesInOrder, Ordered, Before, q
        <3>6. out[s] < e.n
            BY <1>5 DEF Before
        <3>7. \A t \in Sids, k \in Nat : Before(t, k) /\ (t = s => e.n < k) => Before(t, k)'
            <4>1. ASSUME NEW t \in Sids, NEW k \in Nat, Before(t, k), t = s => e.n < k
                  PROVE  Before(t, k)'
                <5>1. CASE t # s
                    BY <1>2, <3>1, <3>4, <4>1, <5>1 DEF Before
                <5>2. CASE t = s
                    <6>1. \A i \in 1 .. m : q[i].n < k
                        BY <3>3, <4>1, <5>2 DEF Before, q
                    <6>2. \A i \in 1 .. m + 1 : x[i].n < k
                        <7>1. ASSUME NEW i \in 1 .. m + 1 PROVE x[i].n < k
                            <8>1. CASE i = m + 1
                                BY <3>3, <4>1, <5>2, <8>1
                            <8>2. CASE i # m + 1
                                <9>1. i \in 1 .. m
                                    BY <3>3, <8>2
                                <9> QED
                                    BY <3>3, <6>1, <9>1
                            <8> QED
                                BY <8>1, <8>2
                        <7> QED
                            BY <7>1
                    <6> QED
                        BY <1>2, <3>1, <3>3, <3>4, <4>1, <5>2, <6>2 DEF Before
                <5> QED
                    BY <5>1, <5>2
            <4> QED
                BY <4>1
        <3>8. QueuesInOrder'
            <4>1. ASSUME NEW r \in Sids, NEW i \in DOMAIN sendQ'[r]
                  PROVE  /\ sendQ'[r][i].s = r /\ out'[r] < sendQ'[r][i].n
                         /\ sendQ'[r][i].n <= messages'
                         /\ \A j \in DOMAIN sendQ'[r] : i < j => sendQ'[r][i].n < sendQ'[r][j].n
                <5>1. CASE r # s
                    BY <1>2, <3>4, <4>1, <5>1 DEF QueuesInOrder, Ordered
                <5>2. CASE r = s
                    <6>1. i \in 1 .. m + 1 /\ sendQ'[r] = x /\ out'[r] = out[s] /\ messages' = messages
                        BY <1>2, <3>3, <3>4, <4>1, <5>2
                    <6>2. CASE i = m + 1
                        <7>1. x[i] = e /\ \A j \in 1 .. m + 1 : ~(i < j)
                            BY <3>3, <6>2
                        <7> QED
                            BY <1>5, <3>3, <3>6, <5>2, <6>1, <7>1 DEF s
                    <6>3. CASE i # m + 1
                        <7>1. i \in 1 .. m /\ x[i] = q[i]
                            BY <3>3, <6>1, <6>3
                        <7>2. x[i].s = s /\ out[s] < x[i].n /\ x[i].n <= messages /\ x[i].n < e.n
                            BY <3>5, <7>1
                        <7>3. ASSUME NEW j \in 1 .. m + 1, i < j PROVE x[i].n < x[j].n
                            <8>1. CASE j = m + 1
                                BY <3>3, <7>2, <8>1
                            <8>2. CASE j # m + 1
                                <9>1. j \in 1 .. m /\ x[j] = q[j]
                                    BY <3>3, <8>2
                                <9> QED
                                    BY <3>5, <7>1, <7>3, <9>1
                            <8> QED
                                BY <8>1, <8>2
                        <7> QED
                            BY <3>3, <5>2, <6>1, <7>2, <7>3
                    <6> QED
                        BY <6>2, <6>3
                <5> QED
                    BY <5>1, <5>2
            <4> QED
                BY <4>1 DEF QueuesInOrder
        <3>9. HandInOrder'
            BY <3>1 DEF HandInOrder
        <3> QED
            BY <3>7, <3>8, <3>9
    <2>2. CASE ~(s \in live /\ queues /\ room)
        <3>1. sendQ' = sendQ
            BY <1>1, <2>2
        <3>2. at' = "direct" => hand' = e /\ ~queues
            BY <1>1, <1>2
        <3>3. at' = "direct" => sendQ[s] = <<>>
            BY <3>2 DEF queues, MustQueue
        <3>4. \A t \in Sids, k \in Nat : Before(t, k) /\ (t = s => e.n < k) => Before(t, k)'
            BY <1>2, <3>1, <3>2 DEF Before, s
        <3>5. QueuesInOrder'
            BY <1>2, <3>1 DEF QueuesInOrder, Ordered
        <3>6. HandInOrder'
            BY <1>2, <1>5, <3>1, <3>2, <3>3 DEF HandInOrder, Before, s
        <3> QED
            BY <3>4, <3>5, <3>6
    <2> QED
        BY <2>1, <2>2
<1>9. RingsInOrder'
    <2>1. ASSUME NEW i \in DOMAIN Rings'
          PROVE  /\ Rings'[i].n <= messages' /\ Before(Rings[i].s, Rings[i].n)'
                 /\ \A j \in DOMAIN Rings' :
                       i < j /\ Rings'[j].s = Rings'[i].s => Rings'[i].n < Rings'[j].n
        <3> DEFINE a == i + 1
        <3>1. i \in 1 .. l - 1 /\ a \in 1 .. l /\ a \in 2 .. l /\ Rings'[i] = Rings[a]
            BY <1>4
        <3> HIDE DEF a
        <3>2. \A t \in Sids, k \in Nat : t = Rings[a].s /\ k = Rings[a].n => Before(t, k)'
            BY <1>6, <1>7, <1>8, <3>1
        <3>3. Rings[a].s \in Sids /\ Rings[a].n \in Nat
            BY <1>6, <3>1
        <3>4. Before(Rings[i].s, Rings[i].n)'
            BY <3>1, <3>2, <3>3 DEF Before
        <3>5. Rings'[i].n <= messages'
            BY <1>2, <1>6, <3>1
        <3>6. ASSUME NEW j \in DOMAIN Rings', i < j, Rings'[j].s = Rings'[i].s
              PROVE  Rings'[i].n < Rings'[j].n
            <4> DEFINE b == j + 1
            <4>1. b \in 1 .. l /\ Rings'[j] = Rings[b] /\ a < b
                BY <1>4, <3>1, <3>6 DEF a
            <4> HIDE DEF b
            <4> QED
                BY <1>6, <3>1, <3>6, <4>1
        <3> QED
            BY <3>4, <3>5, <3>6
    <2> QED
        BY <2>1 DEF RingsInOrder
<1>10. FillingInOrder'
    <2>1. ASSUME NEW f \in filling
          PROVE  /\ f.n = messages' /\ Before(f.s, f.n)'
                 /\ \A i \in DOMAIN Rings' : Rings'[i].s = f.s => Rings'[i].n < f.n
        <3>1. /\ f.s \in Sids /\ f.n \in Nat /\ f.n = messages /\ Before(f.s, f.n)
              /\ \A i \in 1 .. l : Rings[i].s = f.s => Rings[i].n < f.n
            BY <1>4 DEF FillingInOrder, Ordered
        <3>2. f.s = s => e.n < f.n
            <4>1. 1 \in 1 .. l /\ Rings[1].s = s /\ Rings[1].n = e.n
                BY <1>3, <1>4 DEF s
            <4> QED
                BY <3>1, <4>1
        <3>3. Before(f.s, f.n)'
            BY <1>8, <3>1, <3>2
        <3>4. \A i \in DOMAIN Rings' : i + 1 \in 1 .. l /\ Rings'[i] = Rings[i + 1]
            BY <1>4
        <3> QED
            BY <1>2, <3>1, <3>3, <3>4
    <2>2. filling' = filling /\ \A f, g \in filling : f.s = g.s => f = g
        BY <1>2 DEF FillingInOrder, Ordered
    <2> QED
        BY <2>1, <2>2 DEF FillingInOrder
<1>11. OutInOrder'
    BY <1>2 DEF OutInOrder, Ordered
<1> QED
    BY <1>8, <1>9, <1>10, <1>11 DEF Ordered

\* A new message is younger than all there is.
LEMMA MainFillsOrdered ==
    ASSUME Types, Types', Ordered, NEW p \in Packets, NEW S \in (SUBSET connected) \ {{}},
           MainFills(p, S)
    PROVE  Ordered'
<1> USE RingsFacts
<1>1. /\ messages' = messages + 1
      /\ filling' = {[s |-> s, p |-> p, n |-> messages + 1] : s \in S}
      /\ UNCHANGED <<at, hand, out, sendQ, sendRing, mainRing>>
    BY DEF MainFills, turnVars, socketVars, sessionVars
<1>2. Rings' = Rings
    BY <1>1 DEF Rings
<1>3. S \subseteq Sids
    BY Facts DEF MainOK
<1>4. \A t, k : Before(t, k)' <=> Before(t, k)
    BY <1>1 DEF Before
<1>5. RingsInOrder'
    BY <1>1, <1>2, <1>4 DEF RingsInOrder, Ordered
<1>6. QueuesInOrder'
    BY <1>1 DEF QueuesInOrder, Ordered
<1>7. HandInOrder' /\ OutInOrder'
    BY <1>1 DEF HandInOrder, OutInOrder, Ordered
<1>8. \A t \in Sids : Before(t, messages + 1)
    <2>1. ASSUME NEW t \in Sids PROVE Before(t, messages + 1)
        <3>1. out[t] < messages + 1
            BY DEF OutInOrder, Ordered
        <3>2. \A i \in DOMAIN sendQ[t] : sendQ[t][i].n < messages + 1
            BY DEF QueuesInOrder, Ordered
        <3>3. at = "direct" => hand.n < messages + 1
            BY DEF HandInOrder, Ordered
        <3> QED
            BY <3>1, <3>2, <3>3 DEF Before
    <2> QED
        BY <2>1
<1>9. \A i \in DOMAIN Rings : Rings[i].n < messages + 1
    BY DEF RingsInOrder, Ordered
<1>10. FillingInOrder'
    <2>1. \A e \in filling' : e.s \in Sids /\ e.n = messages + 1
        BY <1>1, <1>3
    <2>2. \A e, f \in filling' : e.s = f.s => e = f
        BY <1>1
    <2> QED
        BY <1>1, <1>2, <1>4, <1>8, <1>9, <2>1, <2>2 DEF FillingInOrder
<1> QED
    BY <1>5, <1>6, <1>7, <1>10 DEF Ordered

LEMMA AddOneSendPacketOrdered ==
    ASSUME Types, Types', Ordered, NEW e \in filling, AddOneSendPacket(e)
    PROVE  Ordered'
<1> USE RingsFacts
<1>1. /\ filling' = filling \ {e} /\ UNCHANGED <<at, hand, out, sendQ, messages>>
      /\ \/ mainRing' = Append(mainRing, e) /\ sendRing' = sendRing
         \/ mainRing' = mainRing /\ sendRing' = sendRing
    BY DEF AddOneSendPacket, AddToMainRing, turnVars, socketVars, sessionVars
<1> DEFINE l == Len(Rings)
<1>2. l \in Nat /\ DOMAIN Rings = 1 .. l
    OBVIOUS
<1>3. /\ e \in Entries /\ e.s \in Sids /\ e.n \in Nat /\ e.n = messages /\ Before(e.s, e.n)
      /\ \A i \in 1 .. l : Rings[i].s = e.s => Rings[i].n < e.n
    BY <1>2 DEF FillingInOrder, Ordered
<1>4. \/ Rings' = Rings
      \/ /\ DOMAIN Rings' = 1 .. l + 1 /\ Rings'[l + 1] = e
         /\ \A i \in 1 .. l : Rings'[i] = Rings[i]
    <2>1. CASE mainRing' = mainRing /\ sendRing' = sendRing
        BY <2>1 DEF Rings
    <2>2. CASE mainRing' = Append(mainRing, e) /\ sendRing' = sendRing
        <3>1. sendRing \in Seq(Entries) /\ mainRing \in Seq(Entries)
            BY Facts DEF RingOK
        <3>2. Rings = sendRing \o mainRing /\ Rings' = sendRing \o Append(mainRing, e)
            BY <2>2 DEF Rings
        <3>3. /\ Len(Rings') = l + 1 /\ Rings'[l + 1] = e
              /\ \A i \in 1 .. l : Rings'[i] = Rings[i]
            BY <1>3, <3>1, <3>2, RingsMove
        <3>4. DOMAIN Rings' = 1 .. Len(Rings')
            BY RingsFacts
        <3> QED
            BY <3>3, <3>4
    <2> QED
        BY <1>1, <2>1, <2>2
<1> HIDE DEF l
<1>5. \A t, k : Before(t, k)' <=> Before(t, k)
    BY <1>1 DEF Before
<1>6. \A i \in 1 .. l : /\ Rings[i].n \in Nat /\ Rings[i].s \in Sids
                        /\ Rings[i].n <= messages /\ Before(Rings[i].s, Rings[i].n)
                        /\ \A j \in 1 .. l :
                              i < j /\ Rings[j].s = Rings[i].s => Rings[i].n < Rings[j].n
    BY <1>2 DEF RingsInOrder, Ordered
<1>7. RingsInOrder'
    <2>1. CASE Rings' = Rings
        BY <1>1, <1>5, <2>1 DEF RingsInOrder, Ordered
    <2>2. CASE /\ DOMAIN Rings' = 1 .. l + 1 /\ Rings'[l + 1] = e
               /\ \A i \in 1 .. l : Rings'[i] = Rings[i]
        <3>1. ASSUME NEW i \in 1 .. l + 1
              PROVE  /\ Rings'[i].n <= messages' /\ Before(Rings[i].s, Rings[i].n)'
                     /\ \A j \in 1 .. l + 1 :
                           i < j /\ Rings'[j].s = Rings'[i].s => Rings'[i].n < Rings'[j].n
            <4>1. CASE i = l + 1
                <5>1. Rings'[i] = e /\ \A j \in 1 .. l + 1 : ~(i < j)
                    BY <1>2, <2>2, <4>1
                <5>2. Before(Rings[i].s, Rings[i].n)'
                    BY <1>3, <1>5, <5>1 DEF Before
                <5> QED
                    BY <1>1, <1>3, <5>1, <5>2
            <4>2. CASE i # l + 1
                <5>1. i \in 1 .. l /\ Rings'[i] = Rings[i]
                    BY <1>2, <2>2, <4>2
                <5>2. Before(Rings[i].s, Rings[i].n)'
                    BY <1>5, <1>6, <5>1 DEF Before
                <5>3. ASSUME NEW j \in 1 .. l + 1, i < j, Rings'[j].s = Rings'[i].s
                      PROVE  Rings'[i].n < Rings'[j].n
                    <6>1. CASE j = l + 1
                        BY <1>3, <2>2, <5>1, <5>3, <6>1
                    <6>2. CASE j # l + 1
                        <7>1. j \in 1 .. l /\ Rings'[j] = Rings[j]
                            BY <1>2, <2>2, <6>2
                        <7> QED
                            BY <1>6, <5>1, <5>3, <7>1
                    <6> QED
                        BY <6>1, <6>2
                <5>4. Rings'[i].n <= messages'
                    BY <1>1, <1>6, <5>1
                <5> QED
                    BY <5>2, <5>3, <5>4
            <4> QED
                BY <4>1, <4>2
        <3> QED
            BY <2>2, <3>1 DEF RingsInOrder
    <2> QED
        BY <1>4, <2>1, <2>2
<1>8. FillingInOrder'
    <2>1. ASSUME NEW f \in filling'
          PROVE  /\ f.n = messages' /\ Before(f.s, f.n)'
                 /\ \A i \in DOMAIN Rings' : Rings'[i].s = f.s => Rings'[i].n < f.n
        <3>1. f \in filling /\ f # e
            BY <1>1
        <3>2. /\ f.n = messages /\ Before(f.s, f.n) /\ f.s # e.s
              /\ \A i \in 1 .. l : Rings[i].s = f.s => Rings[i].n < f.n
            BY <1>2, <3>1 DEF FillingInOrder, Ordered
        <3>3. \A i \in DOMAIN Rings' : Rings'[i].s = f.s => Rings'[i].n < f.n
            <4>1. CASE Rings' = Rings
                BY <1>2, <3>2, <4>1
            <4>2. CASE /\ DOMAIN Rings' = 1 .. l + 1 /\ Rings'[l + 1] = e
                       /\ \A i \in 1 .. l : Rings'[i] = Rings[i]
                <5>1. \A i \in 1 .. l + 1 : i = l + 1 \/ i \in 1 .. l
                    BY <1>2
                <5> QED
                    BY <3>2, <4>2, <5>1
            <4> QED
                BY <1>4, <4>1, <4>2
        <3> QED
            BY <1>1, <1>5, <3>2, <3>3
    <2>2. \A f, g \in filling' : f.s = g.s => f = g
        BY <1>1 DEF FillingInOrder, Ordered
    <2> QED
        BY <2>1, <2>2 DEF FillingInOrder
<1>9. QueuesInOrder' /\ HandInOrder' /\ OutInOrder'
    BY <1>1 DEF QueuesInOrder, HandInOrder, OutInOrder, Ordered
<1> QED
    BY <1>7, <1>8, <1>9 DEF Ordered

\* The rings together stay as they are when entries go from one to the other.
LEMMA MainPostsOrdered ==
    ASSUME Types, Types', Ordered, MainPosts
    PROVE  Ordered'
<1> USE RingsFacts
<1>1. UNCHANGED <<at, hand, out, sendQ, filling, messages>>
    BY DEF MainPosts, turnVars, socketVars, sessionVars, mainVars
<1>2. Rings' = Rings
    <2>1. PICK n \in 1 .. Len(mainRing) :
            /\ Len(sendRing) + n <= SendCap
            /\ sendRing' = sendRing \o SubSeq(mainRing, 1, n)
            /\ mainRing' = SubSeq(mainRing, n + 1, Len(mainRing))
        BY DEF MainPosts
    <2>2. (sendRing \o SubSeq(mainRing, 1, n)) \o SubSeq(mainRing, n + 1, Len(mainRing))
          = sendRing \o mainRing
        BY <2>1, Facts, PostMoves
    <2> QED
        BY <2>1, <2>2, Zenon DEF Rings
<1>3. \A t, k : Before(t, k)' <=> Before(t, k)
    BY <1>1 DEF Before
<1>4. RingsInOrder'
    BY <1>1, <1>2, <1>3 DEF RingsInOrder, Ordered
<1>5. FillingInOrder'
    BY <1>1, <1>2, <1>3 DEF FillingInOrder, Ordered
<1>6. QueuesInOrder' /\ HandInOrder' /\ OutInOrder'
    BY <1>1 DEF QueuesInOrder, HandInOrder, OutInOrder, Ordered
<1> QED
    BY <1>4, <1>5, <1>6 DEF Ordered

LEMMA InitOrdered == Init => Ordered
<1> SUFFICES ASSUME Init PROVE Ordered
    OBVIOUS
<1>1. /\ sendRing = <<>> /\ mainRing = <<>> /\ filling = {} /\ at = "close" /\ messages = 0
      /\ sendQ = [s \in Sids |-> <<>>] /\ out = [s \in Sids |-> 0]
    BY DEF Init
<1>2. Rings = <<>>
    BY <1>1 DEF Rings
<1>3. RingsInOrder
    BY <1>2 DEF RingsInOrder
<1>4. QueuesInOrder /\ HandInOrder /\ OutInOrder
    BY <1>1 DEF QueuesInOrder, HandInOrder, OutInOrder
<1>5. FillingInOrder
    BY <1>1 DEF FillingInOrder
<1> QED
    BY <1>3, <1>4, <1>5 DEF Ordered

\* A step that moves no message
LEMMA StillOrdered ==
    ASSUME Types, Types', Ordered,
           UNCHANGED <<kernel, sendRing, mainRing, filling, messages, out, sendQ, hand>>,
           at' = "direct" <=> at = "direct"
    PROVE  Ordered' /\ \A s \in Sids : ~(kernel'[s] > kernel[s])
<1>1. \A s \in Sids : kernel[s] \in Nat
    BY Facts, Bounds DEF NetOK
<1>2. Ordered'
    BY OrderedSame
<1> QED
    BY <1>1, <1>2

LEMMA NextOrdered ==
    ASSUME Types, Types', Ordered, [Next]_vars
    PROVE  Ordered' /\ \A s \in Sids : kernel'[s] > kernel[s] => out'[s] > out[s]
<1>0. /\ \A s \in Sids : kernel[s] \in Nat
      /\ UNCHANGED kernel => \A s \in Sids : ~(kernel'[s] > kernel[s])
    <2>1. \A s \in Sids : kernel[s] \in Nat
        BY Facts, Bounds DEF NetOK
    <2> QED
        BY <2>1
<1>1. CASE \/ CloseEnds \/ ConnectedOne \/ Select \/ ParsePacket \/ ParseEnds \/ FlushEnds
           \/ SendEnds \/ \E s \in Sids : SessionRecv(s) \/ BecomesSendable(s)
    <2>1. /\ UNCHANGED <<kernel, sendRing, mainRing, filling, messages, out, sendQ>>
          /\ at # "direct" /\ at' # "direct"
        BY <1>1 DEF CloseEnds, ConnectedOne, Select, ParsePacket, ParseEnds, FlushEnds, SendEnds,
                    SessionRecv, BecomesSendable, EventsDone, socketVars, packetVars, mainVars,
                    sessionVars
    <2>2. \A t \in Sids, k \in Nat : Before(t, k) => Before(t, k)'
        BY <2>1 DEF Before
    <2>3. QueuesInOrder' /\ HandInOrder' /\ OutInOrder'
        BY <2>1 DEF QueuesInOrder, HandInOrder, OutInOrder, Ordered
    <2>4. Ordered'
        BY <2>1, <2>2, <2>3, OrderedAhead
    <2> QED
        BY <1>0, <2>1, <2>4
<1>2. CASE CloseOne
    <2>1. kernel' = kernel \/ kernel' = [kernel EXCEPT ![Head(closes)] = 0]
        BY <1>2 DEF CloseOne, CloseSession
    <2>2. \A s \in Sids : kernel'[s] = kernel[s] \/ kernel'[s] = 0
        BY <2>1, Facts DEF NetOK
    <2>3. \A s \in Sids : ~(kernel'[s] > kernel[s])
        BY <1>0, <2>2
    <2> QED
        BY <1>2, <2>3, CloseOneOrdered
<1>3. CASE SendDirect
    BY <1>3, SendDirectOrdered
<1>4. CASE Flush
    BY <1>4, FlushOrdered
<1>5. CASE SendOne
    <2>1. kernel' = kernel
        BY <1>5 DEF SendOne, socketVars
    <2> QED
        BY <1>0, <1>5, <2>1, SendOneOrdered
<1>6. CASE MainThread
    <2>1. kernel' = kernel
        BY <1>6 DEF MainThread, MainTakes, MainPosts, MainFills, AddOneSendPacket, socketVars
    <2>2. CASE MainTakes
        <3>1. UNCHANGED <<kernel, sendRing, mainRing, filling, messages, out, sendQ, hand, at>>
            BY <2>2 DEF MainTakes, turnVars, socketVars, packetVars, sessionVars
        <3> QED
            BY <3>1, StillOrdered
    <2>3. CASE MainPosts
        BY <1>0, <2>1, <2>3, MainPostsOrdered
    <2>4. ASSUME NEW p \in Packets, NEW S \in (SUBSET connected) \ {{}}, MainFills(p, S)
          PROVE  Ordered'
        BY <2>4, MainFillsOrdered
    <2>5. ASSUME NEW e \in filling, AddOneSendPacket(e) PROVE Ordered'
        BY <2>5, AddOneSendPacketOrdered
    <2> QED
        BY <1>0, <1>6, <2>1, <2>2, <2>3, <2>4, <2>5 DEF MainThread
<1>7. CASE ConnectThreads
    <2>1. UNCHANGED <<kernel, sendRing, mainRing, filling, messages, out, sendQ, hand, at>>
        BY <1>7 DEF ConnectThreads, AddOneConnectWork, StartConnect, CompleteConnectWork,
                    turnVars, socketVars, packetVars, sessionVars, mainVars
    <2> QED
        BY <2>1, StillOrdered
<1>8. CASE Peers
    <2>1. UNCHANGED <<sendRing, mainRing, filling, messages, out, sendQ, hand, at>>
        BY <1>8 DEF Peers, PeerConnects, PeerSends, PeerReads, PeerGoes, turnVars, packetVars,
                    sessionVars, mainVars
    <2>2. kernel' = kernel \/ \E r \in Sids : kernel' = [kernel EXCEPT ![r] = kernel[r] - 1]
        BY <1>8 DEF Peers, PeerConnects, PeerSends, PeerReads, PeerGoes
    <2>3. \A s \in Sids : kernel'[s] = kernel[s] \/ kernel'[s] = kernel[s] - 1
        BY <2>2, Facts DEF NetOK
    <2>4. \A s \in Sids : ~(kernel'[s] > kernel[s])
        BY <1>0, <2>3
    <2> QED
        BY <2>1, <2>4, OrderedSame
<1>9. CASE UNCHANGED vars
    <2>1. UNCHANGED <<kernel, sendRing, mainRing, filling, messages, out, sendQ, hand, at>>
        BY <1>9 DEF vars, turnVars, socketVars, packetVars, sessionVars, mainVars
    <2> QED
        BY <2>1, StillOrdered
<1> QED
    BY <1>1, <1>2, <1>3, <1>4, <1>5, <1>6, <1>7, <1>8, <1>9 DEF Next, NetThread

\* What the main thread sends to a session is taken by its socket in the order it was
\* sent and once, through the two rings, the session's queue and the packet in hand,
\* whatever is closed, refused or resumed meanwhile (SendData, SessionSend).
THEOREM SentInTheOrderPosted == Spec => SentInOrder
<1>1. Types /\ Types' /\ Ordered /\ [Next]_vars
      => Ordered' /\ [\A s \in Sids : kernel'[s] > kernel[s] => out'[s] > out[s]]_vars
    BY NextOrdered
<1>2. Spec => [](Types /\ Ordered)
    BY AlwaysTypes, InitOrdered, <1>1, PTL DEF Spec
<1> QED
    BY <1>1, <1>2, PTL DEF SentInOrder, Spec

-----------------------------------------------------------------------------
(* The references of a packet.                                                *)

With(p) == {e \in Entries : e.p = p}

LEMMA CountIs ==
    ASSUME NEW p, NEW q \in Seq(Entries)
    PROVE  /\ {i \in DOMAIN q : q[i].p = p} = Holding(q, With(p))
           /\ CountOf(p, q) = Count(q, With(p)) /\ CountOf(p, q) \in Nat
<1>1. \A i \in DOMAIN q : q[i] \in Entries
    OBVIOUS
<1>2. {i \in DOMAIN q : q[i].p = p} = Holding(q, With(p))
    BY <1>1 DEF Holding, With
<1>3. CountOf(p, q) = Count(q, With(p))
    BY <1>2, Zenon DEF CountOf, Count
<1> QED
    BY <1>2, <1>3, HoldingFinite

\* What queues Q hold of a packet
Cells(Q, p) == UNION {{s} \X {i \in DOMAIN Q[s] : Q[s][i].p = p} : s \in Sids}

LEMMA SidsFinite == IsFiniteSet(Sids)
<1>1. MaxArrivals + MaxAsks \in Int /\ 1 \in Int
    BY Bounds
<1> QED
    BY <1>1, FS_Interval DEF Sids

LEMMA CellsFinite ==
    ASSUME NEW Q \in [Sids -> Seq(Entries)], \A s \in Sids : Len(Q[s]) <= QueueCap, NEW p
    PROVE  IsFiniteSet(Cells(Q, p)) /\ Cardinality(Cells(Q, p)) \in Nat
<1>1. IsFiniteSet(Sids \X (1 .. QueueCap))
    <2>1. IsFiniteSet(1 .. QueueCap)
        <3>1. 1 \in Int /\ QueueCap \in Int
            BY Bounds
        <3> QED
            BY <3>1, FS_Interval
    <2> QED
        BY <2>1, SidsFinite, FS_Product
<1>2. Cells(Q, p) \subseteq Sids \X (1 .. QueueCap)
    <2>1. ASSUME NEW s \in Sids PROVE DOMAIN Q[s] \subseteq 1 .. QueueCap
        <3>1. Q[s] \in Seq(Entries) /\ Len(Q[s]) <= QueueCap
            OBVIOUS
        <3>2. Len(Q[s]) \in Nat /\ DOMAIN Q[s] = 1 .. Len(Q[s])
            BY <3>1
        <3> QED
            BY <3>1, <3>2, Bounds
    <2> QED
        BY <2>1 DEF Cells
<1> QED
    BY <1>1, <1>2, FS_Subset, FS_CardinalityType

\* One queue becomes x.
LEMMA CellsMove ==
    ASSUME NEW Q \in [Sids -> Seq(Entries)], \A t \in Sids : Len(Q[t]) <= QueueCap,
           NEW s \in Sids, NEW x \in Seq(Entries), Len(x) <= QueueCap, NEW p
    PROVE  /\ Cardinality(Cells([Q EXCEPT ![s] = x], p)) + CountOf(p, Q[s])
              = Cardinality(Cells(Q, p)) + CountOf(p, x)
           /\ Cardinality(Cells(Q, p)) \in Nat /\ CountOf(p, Q[s]) \in Nat /\ CountOf(p, x) \in Nat
           /\ Cardinality(Cells([Q EXCEPT ![s] = x], p)) \in Nat
<1> DEFINE R == [Q EXCEPT ![s] = x]
<1> DEFINE Row(q) == {s} \X {i \in DOMAIN q : q[i].p = p}
<1> DEFINE Rest == UNION {{t} \X {i \in DOMAIN Q[t] : Q[t][i].p = p} : t \in Sids \ {s}}
<1>1. ASSUME NEW q \in Seq(Entries)
      PROVE  IsFiniteSet(Row(q)) /\ Cardinality(Row(q)) = CountOf(p, q) /\ CountOf(p, q) \in Nat
    <2> DEFINE H == {i \in DOMAIN q : q[i].p = p}
    <2>1. IsFiniteSet(H) /\ Cardinality(H) = CountOf(p, q) /\ CountOf(p, q) \in Nat
        <3>1. H = Holding(q, With(p)) /\ CountOf(p, q) \in Nat
            BY CountIs
        <3>2. IsFiniteSet(Holding(q, With(p)))
            BY HoldingFinite
        <3> QED
            BY <3>1, <3>2 DEF CountOf
    <2>2. IsFiniteSet({s}) /\ Cardinality({s}) = 1
        BY FS_Singleton
    <2> HIDE DEF H
    <2>3. IsFiniteSet({s} \X H) /\ Cardinality({s} \X H) = Cardinality({s}) * Cardinality(H)
        BY <2>1, <2>2, FS_Product
    <2>4. Cardinality({s} \X H) = CountOf(p, q)
        BY <2>1, <2>2, <2>3
    <2> QED
        BY <2>1, <2>3, <2>4 DEF H
<1>2. /\ R \in [Sids -> Seq(Entries)] /\ R[s] = x /\ \A t \in Sids \ {s} : R[t] = Q[t]
      /\ \A t \in Sids : Len(R[t]) <= QueueCap
    OBVIOUS
<1>3. Q[s] \in Seq(Entries)
    OBVIOUS
<1> HIDE DEF R
<1>4. Cells(Q, p) = Rest \cup Row(Q[s])
    BY DEF Cells
<1>5. Cells(R, p) = Rest \cup Row(x)
    BY <1>2 DEF Cells
<1>6. \A q : Rest \cap Row(q) = {}
    OBVIOUS
<1>7. IsFiniteSet(Cells(Q, p)) /\ Cardinality(Cells(Q, p)) \in Nat
    BY CellsFinite
<1>8. IsFiniteSet(Cells(R, p)) /\ Cardinality(Cells(R, p)) \in Nat
    BY <1>2, CellsFinite
<1>9. IsFiniteSet(Rest) /\ Cardinality(Rest) \in Nat
    BY <1>4, <1>7, FS_Subset, FS_CardinalityType
<1> HIDE DEF Row, Rest
<1>10. ASSUME NEW q \in Seq(Entries)
       PROVE  Cardinality(Rest \cup Row(q)) = Cardinality(Rest) + CountOf(p, q)
    <2>1. Cardinality(Rest \cup Row(q))
          = Cardinality(Rest) + Cardinality(Row(q)) - Cardinality(Rest \cap Row(q))
        BY <1>1, <1>9, FS_Union
    <2>2. Cardinality(Rest \cap Row(q)) = 0
        BY <1>6, FS_EmptySet
    <2> QED
        BY <1>1, <1>9, <2>1, <2>2
<1>11. /\ Cardinality(Cells(Q, p)) = Cardinality(Rest) + CountOf(p, Q[s])
       /\ Cardinality(Cells(R, p)) = Cardinality(Rest) + CountOf(p, x)
    BY <1>3, <1>4, <1>5, <1>10
<1>12. Cardinality(Cells(R, p)) + CountOf(p, Q[s]) = Cardinality(Cells(Q, p)) + CountOf(p, x)
    BY <1>1, <1>3, <1>9, <1>11
<1> QED
    BY <1>1, <1>3, <1>7, <1>8, <1>12 DEF R

\* Who holds a packet, and how often
InMain(p) == CountOf(p, mainRing)
InSend(p) == CountOf(p, sendRing)
InQueues(p) == Cardinality(QueuedFor(p))
InHand(p) == IF at = "direct" /\ hand.p = p THEN 1 ELSE 0
Filled(p) == \E e \in filling : e.p = p

\* A packet with r references that is f times in the pool: m in the main thread's ring, o in
\* the other one, q in queues, h in hand and t astray.  One that is being filled has left the
\* main thread for nobody.
Sound(r, f, m, o, q, h, t, filled) ==
    /\ r = m + o + q + h + t
    /\ f = IF r = 0 /\ ~filled THEN 1 ELSE 0
    /\ filled => o = 0 /\ q = 0 /\ h = 0

Fair(p) ==
    Sound(refs[p], sendFree[p], InMain(p), InSend(p), InQueues(p), InHand(p), stray[p], Filled(p))

\* Nobody who sends at once has a queue, so the thread flushes none.
Straight == at # "flush" /\ \A s \in Sids : sendable[s] => sendQ[s] = <<>>

OnePacket == \A e, f \in filling : e.p = f.p

Balanced == ~resumed => Straight /\ OnePacket /\ \A p \in Packets : Fair(p)

LEMMA HoldersTypes ==
    ASSUME Types, NEW p \in Packets
    PROVE  /\ InMain(p) \in Nat /\ InSend(p) \in Nat /\ InQueues(p) \in Nat /\ InHand(p) \in Nat
           /\ stray[p] \in Nat /\ refs[p] \in Int /\ sendFree[p] \in Int /\ Filled(p) \in BOOLEAN
<1> USE Facts
<1>1. InMain(p) \in Nat /\ InSend(p) \in Nat
    BY CountIs DEF InMain, InSend, RingOK
<1>2. InQueues(p) \in Nat
    <2>1. QueuedFor(p) = Cells(sendQ, p)
        BY DEF QueuedFor, Cells
    <2> QED
        BY <2>1, CellsFinite DEF QueueOK, InQueues
<1>3. /\ InHand(p) \in Nat /\ stray[p] \in Nat /\ refs[p] \in Int /\ sendFree[p] \in Int
      /\ Filled(p) \in BOOLEAN
    BY DEF InHand, RefsOK, Filled
<1> QED
    BY <1>1, <1>2, <1>3

LEMMA PostedSound ==
    ASSUME NEW r \in Int, NEW f \in Int, NEW m \in Nat, NEW o \in Nat, NEW q \in Nat, NEW h \in Nat,
           NEW t \in Nat, Sound(r, f, m, o, q, h, t, FALSE), NEW m1 \in Nat, NEW o1 \in Nat,
           m1 + o1 = m + o
    PROVE  Sound(r, f, m1, o1, q, h, t, FALSE)
BY DEF Sound

\* The packet is taken from the pool.
LEMMA TakenSound ==
    ASSUME NEW r \in Int, NEW f \in Int, NEW m \in Nat, NEW o \in Nat, NEW q \in Nat, NEW h \in Nat,
           NEW t \in Nat, NEW b \in BOOLEAN, Sound(r, f, m, o, q, h, t, b), f > 0
    PROVE  Sound(r, f - 1, m, o, q, h, t, TRUE)
<1>1. r = m + o + q + h + t /\ r = 0 /\ f = 1
    BY DEF Sound
<1>2. m = 0 /\ o = 0 /\ q = 0 /\ h = 0 /\ t = 0
    BY <1>1
<1> QED
    BY <1>1, <1>2 DEF Sound

\* A step that moves no packet
LEMMA SameHolders ==
    ASSUME Balanced, resumed' = resumed, ~resumed => Straight',
           UNCHANGED <<refs, sendFree, stray, mainRing, sendRing, sendQ, filling>>,
           \A p \in Packets : InHand(p)' = InHand(p)
    PROVE  Balanced'
<1>1. ASSUME NEW p \in Packets PROVE Fair(p)' <=> Fair(p)
    <2>1. /\ InMain(p)' = InMain(p) /\ InSend(p)' = InSend(p) /\ InQueues(p)' = InQueues(p)
          /\ InHand(p)' = InHand(p) /\ (Filled(p)' <=> Filled(p))
          /\ refs'[p] = refs[p] /\ sendFree'[p] = sendFree[p] /\ stray'[p] = stray[p]
        BY DEF InMain, InSend, InQueues, QueuedFor, CountOf, Filled
    <2> QED
        BY <2>1 DEF Fair, Sound
<1>2. OnePacket' <=> OnePacket
    BY DEF OnePacket
<1> QED
    BY <1>1, <1>2, Zenon DEF Balanced

\* The same for a step that leaves the thread neither sending nor flushing
LEMMA StillHeld ==
    ASSUME Balanced, resumed' = resumed, at # "direct", at' # "direct", at' # "flush",
           UNCHANGED <<refs, sendFree, stray, mainRing, sendRing, sendQ, filling>>,
           \A s \in Sids : sendable'[s] => sendable[s] \/ sendQ[s] = <<>>
    PROVE  Balanced'
<1>1. \A p \in Packets : InHand(p)' = InHand(p)
    BY DEF InHand
<1>2. ~resumed => Straight'
    BY DEF Balanced, Straight
<1> QED
    BY <1>1, <1>2, SameHolders

LEMMA HoldersTypesNext ==
    ASSUME Types', NEW p \in Packets
    PROVE  /\ InMain(p)' \in Nat /\ InSend(p)' \in Nat /\ InQueues(p)' \in Nat /\ InHand(p)' \in Nat
           /\ stray'[p] \in Nat /\ refs'[p] \in Int /\ sendFree'[p] \in Int /\ Filled(p)' \in BOOLEAN
<1>1. /\ mainRing' \in Seq(Entries) /\ sendRing' \in Seq(Entries)
      /\ sendQ' \in [Sids -> Seq(Entries)] /\ \A s \in Sids : Len(sendQ'[s]) <= QueueCap
      /\ stray'[p] \in Nat /\ refs'[p] \in Int /\ sendFree'[p] \in Int
    BY DEF Types, RingOK, QueueOK, RefsOK
<1>2. InMain(p)' \in Nat /\ InSend(p)' \in Nat
    <2>1. InMain(p)' = CountOf(p, mainRing') /\ InSend(p)' = CountOf(p, sendRing')
        BY DEF InMain, InSend
    <2> QED
        BY <1>1, <2>1, CountIs
<1>3. InQueues(p)' \in Nat
    <2>1. InQueues(p)' = Cardinality(Cells(sendQ', p))
        BY DEF InQueues, QueuedFor, Cells
    <2> QED
        BY <1>1, <2>1, CellsFinite
<1>4. InHand(p)' \in Nat /\ Filled(p)' \in BOOLEAN
    BY DEF InHand, Filled
<1> QED
    BY <1>1, <1>2, <1>3, <1>4

\* The step gives k references of p back, and leaves j entries astray.
Settles(p, k, j) ==
    /\ InSend(p)' + InQueues(p)' + InHand(p)' + j + k = InSend(p) + InQueues(p) + InHand(p)
    /\ InMain(p)' = InMain(p) /\ (Filled(p)' <=> Filled(p)) /\ stray'[p] = stray[p] + j
    /\ refs'[p] = refs[p] - k
    /\ sendFree'[p] = sendFree[p] + (IF refs[p] > 0 /\ refs'[p] <= 0 THEN 1 ELSE 0)

LEMMA FairSettles ==
    ASSUME Types, Types', NEW p \in Packets, Fair(p), NEW k \in Nat, NEW j \in Nat,
           Settles(p, k, j)
    PROVE  Fair(p)'
<1> DEFINE r == refs[p]
<1> DEFINE f == sendFree[p]
<1> DEFINE m == InMain(p)
<1> DEFINE o == InSend(p)
<1> DEFINE q == InQueues(p)
<1> DEFINE h == InHand(p)
<1> DEFINE t == stray[p]
<1> DEFINE b == Filled(p)
<1> DEFINE r1 == refs'[p]
<1> DEFINE f1 == sendFree'[p]
<1> DEFINE o1 == InSend(p)'
<1> DEFINE q1 == InQueues(p)'
<1> DEFINE h1 == InHand(p)'
<1>1. /\ m \in Nat /\ o \in Nat /\ q \in Nat /\ h \in Nat /\ t \in Nat /\ r \in Int /\ f \in Int
      /\ b \in BOOLEAN
    BY HoldersTypes
<1>2. o1 \in Nat /\ q1 \in Nat /\ h1 \in Nat /\ r1 \in Int /\ f1 \in Int
    BY HoldersTypesNext
<1>3. /\ o1 + q1 + h1 + j + k = o + q + h /\ r1 = r - k
      /\ f1 = f + (IF r > 0 /\ r1 <= 0 THEN 1 ELSE 0)
    BY DEF Settles
<1>4. Sound(r, f, m, o, q, h, t, b)
    BY DEF Fair
<1>5. Fair(p)' <=> Sound(r1, f1, m, o1, q1, h1, t + j, b)
    BY DEF Fair, Settles, Sound
<1> HIDE DEF r, f, m, o, q, h, t, b, r1, f1, o1, q1, h1
<1>6. r = m + o + q + h + t /\ f = (IF r = 0 /\ ~b THEN 1 ELSE 0)
    BY <1>4 DEF Sound
<1>7. r1 = m + o1 + q1 + h1 + (t + j)
    BY <1>1, <1>2, <1>3, <1>6
<1>8. CASE b
    <2>1. o = 0 /\ q = 0 /\ h = 0 /\ f = 0
        BY <1>4, <1>6, <1>8 DEF Sound
    <2>2. o1 = 0 /\ q1 = 0 /\ h1 = 0 /\ k = 0 /\ j = 0
        BY <1>2, <1>3, <2>1
    <2>3. f1 = 0
        BY <1>1, <1>3, <2>1, <2>2
    <2>4. Sound(r1, f1, m, o1, q1, h1, t + j, b)
        BY <1>7, <1>8, <2>2, <2>3 DEF Sound
    <2> QED
        BY <1>5, <2>4
<1>9. CASE ~b
    <2>1. f = (IF r = 0 THEN 1 ELSE 0) /\ r >= 0 /\ r1 >= 0
        BY <1>1, <1>2, <1>6, <1>7, <1>9
    <2>2. f1 = IF r1 = 0 THEN 1 ELSE 0
        BY <1>1, <1>2, <1>3, <2>1
    <2>3. Sound(r1, f1, m, o1, q1, h1, t + j, b)
        BY <1>7, <1>9, <2>2 DEF Sound
    <2> QED
        BY <1>5, <2>3
<1> QED
    BY <1>8, <1>9

\* ReleaseAllPacketInSendQueue gives back what the closed session's queue holds.
LEMMA CloseOneBalanced ==
    ASSUME Types, Types', Balanced, CloseOne
    PROVE  Balanced'
<1> DEFINE s == Head(closes)
<1>1. /\ at = "close" /\ at' = "close" /\ closes # <<>> /\ resumed' = resumed
      /\ UNCHANGED <<stray, mainRing, sendRing, filling>>
      /\ IF s \in live
         THEN /\ sendable' = [sendable EXCEPT ![s] = TRUE]
              /\ sendQ' = [sendQ EXCEPT ![s] = <<>>] /\ ReleaseAll(sendQ[s])
         ELSE UNCHANGED <<sendable, sendQ, refs, sendFree>>
    BY DEF CloseOne, CloseSession, sessionVars, mainVars
<1>2. /\ sendQ \in [Sids -> Seq(Entries)] /\ sendable \in [Sids -> BOOLEAN]
      /\ \A t \in Sids : Len(sendQ[t]) <= QueueCap
      /\ s \in live => s \in Sids
    BY Facts DEF QueueOK
<1> HIDE DEF s
<1>3. CASE s \notin live
    <2>1. UNCHANGED <<sendable, sendQ, refs, sendFree>>
        BY <1>1, <1>3
    <2> QED
        BY <1>1, <2>1, StillHeld
<1>4. CASE s \in live
    <2>1. /\ sendable' = [sendable EXCEPT ![s] = TRUE] /\ sendQ' = [sendQ EXCEPT ![s] = <<>>]
          /\ ReleaseAll(sendQ[s]) /\ s \in Sids
        BY <1>1, <1>2, <1>4
    <2>2. ASSUME ~resumed PROVE Straight'
        BY <1>1, <1>2, <2>1, <2>2 DEF Balanced, Straight
    <2>3. OnePacket' <=> OnePacket
        BY <1>1 DEF OnePacket
    <2>4. ASSUME NEW p \in Packets, Fair(p) PROVE Fair(p)'
        <3> DEFINE k == CountOf(p, sendQ[s])
        <3> DEFINE j == 0
        <3>1. /\ refs'[p] = refs[p] - k
              /\ sendFree'[p] = sendFree[p] + (IF refs[p] > 0 /\ refs'[p] <= 0 THEN 1 ELSE 0)
            BY <2>1 DEF ReleaseAll
        <3>2. InQueues(p)' + k = InQueues(p) /\ k \in Nat /\ InQueues(p)' \in Nat
            <4> DEFINE x == <<>>
            <4>1. x \in Seq(Entries) /\ Len(x) <= QueueCap /\ CountOf(p, x) = 0
                <5>1. CountOf(p, x) = 0
                    BY FS_EmptySet DEF CountOf
                <5> QED
                    BY <5>1, Bounds
            <4>2. sendQ' = [sendQ EXCEPT ![s] = x]
                BY <2>1
            <4> HIDE DEF x
            <4>3. /\ Cardinality(Cells([sendQ EXCEPT ![s] = x], p)) + k
                     = Cardinality(Cells(sendQ, p)) + CountOf(p, x)
                  /\ Cardinality(Cells(sendQ, p)) \in Nat /\ k \in Nat
                  /\ Cardinality(Cells([sendQ EXCEPT ![s] = x], p)) \in Nat
                BY <1>2, <2>1, <4>1, CellsMove
            <4>4. QueuedFor(p) = Cells(sendQ, p)
                BY DEF QueuedFor, Cells
            <4>5. QueuedFor(p)' = Cells([sendQ EXCEPT ![s] = x], p)
                BY <4>2 DEF QueuedFor, Cells
            <4> QED
                BY <4>1, <4>3, <4>4, <4>5 DEF InQueues
        <3>3. /\ InMain(p)' = InMain(p) /\ InSend(p)' = InSend(p) /\ InHand(p)' = InHand(p)
              /\ (Filled(p)' <=> Filled(p)) /\ stray'[p] = stray[p]
            BY <1>1 DEF InMain, InSend, InHand, Filled, CountOf
        <3>4. InSend(p) \in Nat /\ InQueues(p) \in Nat /\ InHand(p) \in Nat /\ stray[p] \in Nat
            BY HoldersTypes
        <3>5. j \in Nat /\ stray[p] = stray[p] + j
            BY <3>4
        <3> HIDE DEF k
        <3>6. InSend(p) + InQueues(p)' + InHand(p) + j + k = InSend(p) + InQueues(p) + InHand(p)
            BY <3>2, <3>4
        <3> HIDE DEF j
        <3>7. Settles(p, k, j)
            BY <3>1, <3>3, <3>5, <3>6 DEF Settles
        <3> QED
            BY <2>4, <3>2, <3>5, <3>7, FairSettles
    <2> QED
        BY <1>1, <2>2, <2>3, <2>4, Zenon DEF Balanced
<1> QED
    BY <1>3, <1>4

\* Whether e is an entry of p
One(e, p) == IF e.p = p THEN 1 ELSE 0

\* A reference is given back, and the packet it was of goes to the pool if it was the last.
LEMMA ReleaseIs ==
    ASSUME Types, NEW e \in Entries, Release(e.p, e.p), NEW p \in Packets
    PROVE  /\ refs'[p] = refs[p] - One(e, p)
           /\ sendFree'[p] = sendFree[p] + (IF refs[p] > 0 /\ refs'[p] <= 0 THEN 1 ELSE 0)
<1> DEFINE d == e.p
<1>1. /\ d \in Packets /\ refs \in [Packets -> Int] /\ sendFree \in [Packets -> Int]
    BY Facts DEF RefsOK, Entries
<1>2. /\ refs' = [refs EXCEPT ![d] = @ - 1]
      /\ sendFree' = IF refs[d] = 1 THEN [sendFree EXCEPT ![d] = @ + 1] ELSE sendFree
      /\ One(e, p) = IF d = p THEN 1 ELSE 0
    BY DEF Release, One
<1> HIDE DEF d
<1>3. CASE d = p
    BY <1>1, <1>2, <1>3
<1>4. CASE d # p
    BY <1>1, <1>2, <1>4
<1> QED
    BY <1>3, <1>4

\* Its type, and where it goes: an entry is the first of a ring, or is put behind a queue.
LEMMA OneMoves ==
    ASSUME NEW q \in Seq(Entries), NEW p
    PROVE  /\ \A e \in Entries : /\ One(e, p) \in {0, 1}
                                 /\ CountOf(p, Append(q, e)) = CountOf(p, q) + One(e, p)
           /\ q # <<>> => CountOf(p, q) = CountOf(p, Tail(q)) + One(Head(q), p)
           /\ CountOf(p, q) \in Nat
<1>1. \A e \in Entries : One(e, p) = (IF e \in With(p) THEN 1 ELSE 0) /\ One(e, p) \in {0, 1}
    BY DEF One, With
<1>2. ASSUME NEW e \in Entries PROVE CountOf(p, Append(q, e)) = CountOf(p, q) + One(e, p)
    <2> DEFINE a == Append(q, e)
    <2>1. a \in Seq(Entries) /\ Count(a, With(p)) = Count(q, With(p)) + (IF e \in With(p) THEN 1 ELSE 0)
        BY CountMoves
    <2> HIDE DEF a
    <2>2. CountOf(p, a) = CountOf(p, q) + One(e, p)
        BY <1>1, <2>1, CountIs
    <2> QED
        BY <2>2 DEF a
<1>3. ASSUME q # <<>> PROVE CountOf(p, q) = CountOf(p, Tail(q)) + One(Head(q), p)
    <2> DEFINE t == Tail(q)
    <2> DEFINE h == Head(q)
    <2>1. t \in Seq(Entries) /\ h \in Entries
        BY <1>3
    <2>2. Count(q, With(p)) = Count(t, With(p)) + (IF h \in With(p) THEN 1 ELSE 0)
        BY <1>3, CountTaken
    <2> HIDE DEF t, h
    <2>3. CountOf(p, q) = CountOf(p, t) + One(h, p)
        BY <1>1, <2>1, <2>2, CountIs
    <2> QED
        BY <2>3 DEF t, h
<1> QED
    BY <1>1, <1>2, <1>3, CountIs

\* Every packet settles in its own way.
LEMMA AllSettled ==
    ASSUME Types, Types', Balanced, resumed' = resumed, filling' = filling,
           ~resumed => Straight',
           ~resumed => \A p \in Packets : \E k, j \in Nat : Settles(p, k, j)
    PROVE  Balanced'
<1>1. ASSUME ~resumed, NEW p \in Packets, Fair(p) PROVE Fair(p)'
    <2>1. PICK k \in Nat, j \in Nat : Settles(p, k, j)
        BY <1>1
    <2> QED
        BY <1>1, <2>1, FairSettles
<1>2. OnePacket' <=> OnePacket
    BY DEF OnePacket
<1> QED
    BY <1>1, <1>2, Zenon DEF Balanced

\* What SendOne does to whom, when nobody is flushed
LEMMA SendOneEither ==
    ASSUME Types, Straight, SendOne, NEW e, e = Head(sendRing)
    PROVE  /\ e \in Entries /\ sendRing # <<>> /\ sendRing' = Tail(sendRing) /\ at = "work"
           /\ UNCHANGED <<mainRing, filling, resumed>>
           /\ \/ /\ stray' = [stray EXCEPT ![e.p] = @ + 1]
                 /\ UNCHANGED <<refs, sendFree, sendQ, sendable, at, hand>>
              \/ /\ ~sendable[e.s] /\ Len(sendQ[e.s]) < QueueCap
                 /\ sendQ' = [sendQ EXCEPT ![e.s] = Append(sendQ[e.s], e)]
                 /\ UNCHANGED <<refs, sendFree, stray, sendable, at, hand>>
              \/ /\ Release(e.p, e.p) /\ sendable' = [sendable EXCEPT ![e.s] = FALSE]
                 /\ UNCHANGED <<stray, sendQ, at, hand>>
              \/ /\ at' = "direct" /\ hand' = e
                 /\ UNCHANGED <<refs, sendFree, stray, sendQ, sendable>>
<1>1. e \in Entries /\ sendRing # <<>> /\ sendRing' = Tail(sendRing) /\ at = "work"
    BY Facts DEF SendOne, EventsDone, RingOK
<1>2. UNCHANGED <<mainRing, filling, resumed>>
    BY DEF SendOne, mainVars
<1> DEFINE s == e.s
<1> DEFINE queues == MustQueue(s)
<1> DEFINE room == Len(sendQ[s]) < QueueCap
<1>3. /\ sendQ' = (IF s \in live /\ queues /\ room THEN [sendQ EXCEPT ![s] = Append(@, e)]
                   ELSE sendQ)
      /\ stray' = (IF s \in live THEN stray ELSE [stray EXCEPT ![e.p] = @ + 1])
      /\ IF s \in live /\ queues /\ ~room THEN Release(e.p, e.p) /\ GiveUp(s)
         ELSE UNCHANGED <<refs, sendFree, sendable, closeVars>>
      /\ IF s \in live /\ sendable[s] /\ (queues => room)
         THEN at' = (IF queues THEN "flush" ELSE "direct") /\ hand' = e
         ELSE UNCHANGED <<at, hand>>
    BY Zenon DEF SendOne
<1>4. queues <=> ~sendable[s]
    <2>1. s \in Sids
        BY <1>1 DEF Entries
    <2> QED
        BY <2>1 DEF Straight, MustQueue
<1>5. sendQ \in [Sids -> Seq(Entries)] /\ s \in Sids
    BY <1>1, Facts DEF QueueOK, Entries
<1>6. ASSUME Release(e.p, e.p), GiveUp(s)
      PROVE  Release(e.p, e.p) /\ sendable' = [sendable EXCEPT ![s] = FALSE]
    BY <1>6, Zenon DEF GiveUp
<1>7. [sendQ EXCEPT ![s] = Append(@, e)] = [sendQ EXCEPT ![s] = Append(sendQ[s], e)]
    BY <1>5
<1> HIDE DEF queues, room
<1>8. CASE s \notin live
    <2>1. stray' = [stray EXCEPT ![e.p] = @ + 1] /\ UNCHANGED <<refs, sendFree, sendQ, sendable, at, hand>>
        BY <1>3, <1>8
    <2> QED
        BY <1>1, <1>2, <2>1, Zenon
<1>9. CASE s \in live /\ queues /\ room
    <2>1. /\ ~sendable[s] /\ sendQ' = [sendQ EXCEPT ![s] = Append(sendQ[s], e)]
          /\ UNCHANGED <<refs, sendFree, stray, sendable, at, hand>>
        BY <1>3, <1>4, <1>7, <1>9
    <2> QED
        BY <1>1, <1>2, <1>9, <2>1, Zenon DEF room
<1>10. CASE s \in live /\ queues /\ ~room
    <2>1. Release(e.p, e.p) /\ GiveUp(s)
        BY <1>3, <1>10
    <2>2. UNCHANGED <<stray, sendQ, at, hand>>
        BY <1>3, <1>10
    <2> QED
        BY <1>1, <1>2, <1>6, <2>1, <2>2, Zenon
<1>11. CASE s \in live /\ ~queues
    <2>1. at' = "direct" /\ hand' = e /\ UNCHANGED <<refs, sendFree, stray, sendQ, sendable>>
        BY <1>3, <1>4, <1>11
    <2> QED
        BY <1>1, <1>2, <2>1, Zenon
<1> QED
    BY <1>8, <1>9, <1>10, <1>11

\* The first entry of the ring changes hands, or its reference is given back, or it goes astray.
LEMMA SendOneBalanced ==
    ASSUME Types, Types', Balanced, SendOne
    PROVE  Balanced'
<1>1. UNCHANGED <<resumed, filling>>
    BY DEF SendOne, mainVars
<1> DEFINE e == Head(sendRing)
<1>2. /\ sendRing \in Seq(Entries) /\ stray \in [Packets -> Nat]
      /\ sendQ \in [Sids -> Seq(Entries)] /\ \A t \in Sids : Len(sendQ[t]) <= QueueCap
      /\ sendQ' \in [Sids -> Seq(Entries)] /\ \A t \in Sids : Len(sendQ'[t]) <= QueueCap
    <2>1. QueueOK'
        BY DEF Types
    <2> QED
        BY <2>1, Facts DEF RingOK, RefsOK, QueueOK
<1>3. ASSUME ~resumed
      PROVE  Straight' /\ \A p \in Packets : \E k, j \in Nat : Settles(p, k, j)
    <2>1. Straight
        BY <1>3 DEF Balanced
    <2> DEFINE Astray ==
            /\ stray' = [stray EXCEPT ![e.p] = @ + 1]
            /\ UNCHANGED <<refs, sendFree, sendQ, sendable, at, hand>>
    <2> DEFINE Queued ==
            /\ ~sendable[e.s] /\ Len(sendQ[e.s]) < QueueCap
            /\ sendQ' = [sendQ EXCEPT ![e.s] = Append(sendQ[e.s], e)]
            /\ UNCHANGED <<refs, sendFree, stray, sendable, at, hand>>
    <2> DEFINE Refused ==
            /\ Release(e.p, e.p) /\ sendable' = [sendable EXCEPT ![e.s] = FALSE]
            /\ UNCHANGED <<stray, sendQ, at, hand>>
    <2> DEFINE Handed ==
            /\ at' = "direct" /\ hand' = e
            /\ UNCHANGED <<refs, sendFree, stray, sendQ, sendable>>
    <2>2. /\ e \in Entries /\ sendRing # <<>> /\ sendRing' = Tail(sendRing) /\ at = "work"
          /\ UNCHANGED <<mainRing, filling, resumed>>
          /\ Astray \/ Queued \/ Refused \/ Handed
        BY <2>1, SendOneEither
    <2>3. e.s \in Sids /\ e.p \in Packets
        BY <2>2 DEF Entries
    <2> HIDE DEF e
    <2>4. Straight'
        <3>1. CASE Astray \/ Handed
            BY <2>1, <2>2, <3>1 DEF Straight
        <3>2. CASE Queued
            BY <1>2, <2>1, <2>2, <2>3, <3>2 DEF Straight
        <3>3. CASE Refused
            <4>1. sendable \in [Sids -> BOOLEAN]
                BY Facts DEF QueueOK
            <4> QED
                BY <2>1, <2>2, <2>3, <3>3, <4>1 DEF Straight
        <3> QED
            BY <2>2, <3>1, <3>2, <3>3
    <2>5. ASSUME NEW p \in Packets PROVE \E k, j \in Nat : Settles(p, k, j)
        <3> DEFINE c == One(e, p)
        <3> DEFINE z == 0
        <3>1. c \in Nat /\ InSend(p) = InSend(p)' + c /\ z \in Nat
            <4>1. CountOf(p, sendRing) = CountOf(p, Tail(sendRing)) + One(e, p)
                BY <1>2, <2>2, OneMoves DEF e
            <4>2. c \in Nat
                BY DEF One
            <4> QED
                BY <2>2, <4>1, <4>2 DEF InSend
        <3>2. InHand(p) = 0 /\ InMain(p)' = InMain(p) /\ (Filled(p)' <=> Filled(p))
            BY <2>2 DEF InHand, InMain, Filled, CountOf
        <3>3. /\ InSend(p) \in Nat /\ InQueues(p) \in Nat /\ stray[p] \in Nat
              /\ refs[p] \in Int /\ sendFree[p] \in Int
            BY HoldersTypes
        <3>4. InSend(p)' \in Nat
            BY HoldersTypesNext
        <3>5. at' # "direct" => InHand(p)' = 0
            BY DEF InHand
        <3>6. sendQ' = sendQ => InQueues(p)' = InQueues(p)
            BY DEF InQueues, QueuedFor
        <3>7. UNCHANGED <<refs, sendFree>> =>
                  /\ refs'[p] = refs[p] - z
                  /\ sendFree'[p] = sendFree[p] + (IF refs[p] > 0 /\ refs'[p] <= 0 THEN 1 ELSE 0)
            BY <3>3
        <3> HIDE DEF c
        <3>8. CASE Astray
            <4>1. stray'[p] = stray[p] + c
                BY <1>2, <2>3, <3>8 DEF c, One
            <4>2. InSend(p)' + InQueues(p)' + InHand(p)' + c + z = InSend(p) + InQueues(p) + InHand(p)
                BY <2>2, <3>1, <3>2, <3>3, <3>4, <3>5, <3>6, <3>8
            <4>3. /\ refs'[p] = refs[p] - z
                  /\ sendFree'[p] = sendFree[p] + (IF refs[p] > 0 /\ refs'[p] <= 0 THEN 1 ELSE 0)
                BY <3>7, <3>8
            <4> HIDE DEF z
            <4>4. Settles(p, z, c)
                BY <3>2, <4>1, <4>2, <4>3 DEF Settles
            <4> QED
                BY <3>1, <4>4
        <3>9. CASE Queued
            <4> DEFINE s == e.s
            <4> DEFINE x == Append(sendQ[s], e)
            <4>1. /\ s \in Sids /\ sendQ[s] \in Seq(Entries) /\ x \in Seq(Entries)
                  /\ Len(x) = Len(sendQ[s]) + 1 /\ Len(sendQ[s]) \in Nat
                BY <1>2, <2>2, <2>3
            <4>2. Len(x) <= QueueCap
                BY <3>9, <4>1, Bounds
            <4>3. CountOf(p, x) = CountOf(p, sendQ[s]) + c
                BY <2>2, <4>1, OneMoves DEF c
            <4>4. sendQ' = [sendQ EXCEPT ![s] = x]
                BY <3>9
            <4>5. InQueues(p) = Cardinality(Cells(sendQ, p))
                BY DEF InQueues, QueuedFor, Cells
            <4> HIDE DEF x, s
            <4>6. InQueues(p)' = Cardinality(Cells([sendQ EXCEPT ![s] = x], p))
                BY <4>4 DEF InQueues, QueuedFor, Cells
            <4>7. /\ Cardinality(Cells([sendQ EXCEPT ![s] = x], p)) + CountOf(p, sendQ[s])
                     = Cardinality(Cells(sendQ, p)) + CountOf(p, x)
                  /\ CountOf(p, sendQ[s]) \in Nat
                  /\ Cardinality(Cells([sendQ EXCEPT ![s] = x], p)) \in Nat
                <5>1. sendQ \in [Sids -> Seq(Entries)] /\ \A t \in Sids : Len(sendQ[t]) <= QueueCap
                    BY <1>2
                <5>2. s \in Sids /\ x \in Seq(Entries) /\ Len(x) <= QueueCap
                    BY <4>1, <4>2
                <5> QED
                    BY <5>1, <5>2, CellsMove, Zenon
            <4>8. InQueues(p)' = InQueues(p) + c
                BY <3>1, <3>3, <4>3, <4>5, <4>6, <4>7
            <4>9. InHand(p)' = 0 /\ stray'[p] = stray[p] + z
                BY <2>2, <3>3, <3>5, <3>9
            <4>10. InSend(p)' + InQueues(p)' + InHand(p)' + z + z = InSend(p) + InQueues(p) + InHand(p)
                BY <3>1, <3>2, <3>3, <3>4, <4>8, <4>9
            <4>11. /\ refs'[p] = refs[p] - z
                   /\ sendFree'[p] = sendFree[p] + (IF refs[p] > 0 /\ refs'[p] <= 0 THEN 1 ELSE 0)
                BY <3>7, <3>9
            <4> HIDE DEF z
            <4>12. Settles(p, z, z)
                BY <3>2, <4>9, <4>10, <4>11 DEF Settles
            <4> QED
                BY <3>1, <4>12
        <3>10. CASE Refused
            <4>1. /\ refs'[p] = refs[p] - c
                  /\ sendFree'[p] = sendFree[p] + (IF refs[p] > 0 /\ refs'[p] <= 0 THEN 1 ELSE 0)
                BY <2>2, <3>10, ReleaseIs DEF c
            <4>2. stray'[p] = stray[p] + z
                BY <3>3, <3>10
            <4>3. InSend(p)' + InQueues(p)' + InHand(p)' + z + c = InSend(p) + InQueues(p) + InHand(p)
                BY <2>2, <3>1, <3>2, <3>3, <3>4, <3>5, <3>6, <3>10
            <4> HIDE DEF z
            <4>4. Settles(p, c, z)
                BY <3>2, <4>1, <4>2, <4>3 DEF Settles
            <4> QED
                BY <3>1, <4>4
        <3>11. CASE Handed
            <4>1. InHand(p)' = c
                BY <3>11 DEF InHand, c, One
            <4>2. stray'[p] = stray[p] + z
                BY <3>3, <3>11
            <4>3. InSend(p)' + InQueues(p)' + InHand(p)' + z + z = InSend(p) + InQueues(p) + InHand(p)
                BY <3>1, <3>2, <3>3, <3>4, <3>6, <3>11, <4>1
            <4>4. /\ refs'[p] = refs[p] - z
                  /\ sendFree'[p] = sendFree[p] + (IF refs[p] > 0 /\ refs'[p] <= 0 THEN 1 ELSE 0)
                BY <3>7, <3>11
            <4> HIDE DEF z
            <4>5. Settles(p, z, z)
                BY <3>2, <4>2, <4>3, <4>4 DEF Settles
            <4> QED
                BY <3>1, <4>5
        <3> QED
            BY <2>2, <3>8, <3>9, <3>10, <3>11
    <2> QED
        BY <2>4, <2>5
<1> QED
    BY <1>1, <1>3, AllSettled

\* The packet in hand is sent, or given up with its connection.
LEMMA SendDirectBalanced ==
    ASSUME Types, Types', Balanced, SendDirect
    PROVE  Balanced'
<1>1. /\ UNCHANGED <<resumed, filling, mainRing, sendRing, sendQ, stray>>
      /\ at = "direct" /\ at' = "work" /\ Release(hand.p, hand.p)
      /\ sendable' = sendable \/ sendable' = [sendable EXCEPT ![hand.s] = FALSE]
    BY DEF SendDirect, GiveUp, mainVars
<1>2. hand \in Entries /\ hand.s \in Sids /\ sendable \in [Sids -> BOOLEAN]
    <2>1. hand \in Entries /\ sendable \in [Sids -> BOOLEAN]
        BY <1>1, Facts DEF HandOK, QueueOK
    <2> QED
        BY <2>1 DEF Entries
<1>3. ASSUME ~resumed PROVE Straight'
    BY <1>1, <1>2, <1>3 DEF Balanced, Straight
<1>4. ASSUME NEW p \in Packets PROVE \E k, j \in Nat : Settles(p, k, j)
    <2> DEFINE c == One(hand, p)
    <2> DEFINE z == 0
    <2>1. c \in Nat /\ InHand(p) = c /\ InHand(p)' = 0
        BY <1>1 DEF InHand, One
    <2>2. /\ InSend(p)' = InSend(p) /\ InQueues(p)' = InQueues(p) /\ InMain(p)' = InMain(p)
          /\ (Filled(p)' <=> Filled(p)) /\ stray'[p] = stray[p]
        BY <1>1 DEF InSend, InQueues, QueuedFor, InMain, Filled, CountOf
    <2>3. InSend(p) \in Nat /\ InQueues(p) \in Nat /\ stray[p] \in Nat
        BY HoldersTypes
    <2>4. /\ refs'[p] = refs[p] - c
          /\ sendFree'[p] = sendFree[p] + (IF refs[p] > 0 /\ refs'[p] <= 0 THEN 1 ELSE 0)
        BY <1>1, <1>2, ReleaseIs
    <2> HIDE DEF c
    <2>5. /\ InSend(p)' + InQueues(p)' + InHand(p)' + z + c = InSend(p) + InQueues(p) + InHand(p)
          /\ stray'[p] = stray[p] + z /\ z \in Nat
        BY <2>1, <2>2, <2>3
    <2> HIDE DEF z
    <2>6. Settles(p, c, z)
        BY <2>2, <2>4, <2>5 DEF Settles
    <2> QED
        BY <2>1, <2>5, <2>6
<1> QED
    BY <1>1, <1>3, <1>4, AllSettled

\* The main thread takes a packet that nobody refers to.
LEMMA MainFillsBalanced ==
    ASSUME Types, Types', Balanced, NEW d \in Packets, NEW S \in (SUBSET connected) \ {{}},
           MainFills(d, S)
    PROVE  Balanced'
<1>1. /\ filling = {} /\ sendFree[d] > 0 /\ sendFree' = [sendFree EXCEPT ![d] = @ - 1]
      /\ filling' = {[s |-> s, p |-> d, n |-> messages + 1] : s \in S}
      /\ UNCHANGED <<at, hand, sendable, sendQ, mainRing, sendRing, refs, stray, resumed>>
    BY DEF MainFills, turnVars, sessionVars
<1>2. sendFree \in [Packets -> Int]
    BY Facts DEF RefsOK
<1>3. OnePacket' /\ (Straight => Straight')
    BY <1>1 DEF OnePacket, Straight
<1>4. ASSUME NEW p \in Packets, Fair(p) PROVE Fair(p)'
    <2>1. /\ InMain(p)' = InMain(p) /\ InSend(p)' = InSend(p) /\ InQueues(p)' = InQueues(p)
          /\ InHand(p)' = InHand(p) /\ refs'[p] = refs[p] /\ stray'[p] = stray[p]
        BY <1>1 DEF InMain, InSend, InQueues, QueuedFor, InHand, CountOf
    <2>2. CASE p # d
        <3>1. ~Filled(p) /\ ~Filled(p)' /\ sendFree'[p] = sendFree[p]
            BY <1>1, <1>2, <2>2 DEF Filled
        <3> QED
            BY <1>4, <2>1, <3>1 DEF Fair, Sound
    <2>3. CASE p = d
        <3>1. Filled(p)' /\ sendFree'[p] = sendFree[p] - 1
            <4>1. PICK s : s \in S
                OBVIOUS
            <4> DEFINE e == [s |-> s, p |-> d, n |-> messages + 1]
            <4>2. e \in filling' /\ e.p = p
                BY <1>1, <2>3, <4>1
            <4> HIDE DEF e
            <4>3. Filled(p)'
                BY <4>2 DEF Filled
            <4> QED
                BY <1>1, <1>2, <2>3, <4>3
        <3> DEFINE f1 == sendFree[p] - 1
        <3>2. Sound(refs[p], f1, InMain(p), InSend(p), InQueues(p), InHand(p), stray[p], TRUE)
            <4>1. /\ refs[p] \in Int /\ sendFree[p] \in Int /\ InMain(p) \in Nat /\ InSend(p) \in Nat
                  /\ InQueues(p) \in Nat /\ InHand(p) \in Nat /\ stray[p] \in Nat /\ sendFree[p] > 0
                BY <1>1, <2>3, HoldersTypes
            <4>2. Filled(p) \in BOOLEAN
                BY DEF Filled
            <4>3. Sound(refs[p], sendFree[p], InMain(p), InSend(p), InQueues(p), InHand(p), stray[p],
                        Filled(p))
                BY <1>4 DEF Fair
            <4> HIDE DEF f1
            <4> QED
                BY <4>1, <4>2, <4>3, TakenSound DEF f1
        <3>3. sendFree'[p] = f1
            BY <3>1
        <3> HIDE DEF f1
        <3> QED
            BY <2>1, <3>1, <3>2, <3>3 DEF Fair, Sound
    <2> QED
        BY <2>2, <2>3
<1> QED
    BY <1>1, <1>3, <1>4, Zenon DEF Balanced

\* It makes an entry of the packet, and puts it into its ring or leaves it astray.
LEMMA AddOneBalanced ==
    ASSUME Types, Types', Balanced, NEW e \in filling, AddOneSendPacket(e)
    PROVE  Balanced'
<1>1. /\ filling' = filling \ {e} /\ refs' = [refs EXCEPT ![e.p] = @ + 1]
      /\ UNCHANGED <<at, hand, sendable, sendQ, sendRing, sendFree, resumed>>
      /\ \/ mainRing' = Append(mainRing, e) /\ stray' = stray
         \/ mainRing' = mainRing /\ stray' = [stray EXCEPT ![e.p] = @ + 1]
    BY DEF AddOneSendPacket, AddToMainRing, turnVars, sessionVars
<1>2. /\ e \in Entries /\ e.p \in Packets /\ mainRing \in Seq(Entries)
      /\ refs \in [Packets -> Int] /\ stray \in [Packets -> Nat]
    <2>1. e \in Entries
        BY Facts DEF MainOK
    <2> QED
        BY <2>1, Facts DEF RingOK, RefsOK, Entries
<1>3. Straight => Straight'
    BY <1>1 DEF Straight
<1>4. OnePacket => OnePacket'
    BY <1>1 DEF OnePacket
<1>5. ASSUME OnePacket, NEW p \in Packets, Fair(p) PROVE Fair(p)'
    <2>1. /\ InSend(p)' = InSend(p) /\ InQueues(p)' = InQueues(p) /\ InHand(p)' = InHand(p)
          /\ sendFree'[p] = sendFree[p]
        BY <1>1 DEF InSend, InQueues, QueuedFor, InHand, CountOf
    <2> DEFINE c == One(e, p)
    <2>2. /\ c \in {0, 1} /\ c = (IF e.p = p THEN 1 ELSE 0)
          /\ CountOf(p, Append(mainRing, e)) = CountOf(p, mainRing) + c
        BY <1>2, OneMoves DEF One
    <2>3. /\ InMain(p) \in Nat /\ InSend(p) \in Nat /\ InQueues(p) \in Nat /\ InHand(p) \in Nat
          /\ stray[p] \in Nat /\ refs[p] \in Int /\ sendFree[p] \in Int
        BY HoldersTypes
    <2>4. InMain(p)' \in Nat /\ stray'[p] \in Nat /\ Filled(p)' \in BOOLEAN
        BY HoldersTypesNext
    <2>5. InMain(p)' = CountOf(p, mainRing') /\ InMain(p) = CountOf(p, mainRing)
        BY DEF InMain, CountOf
    <2> HIDE DEF c
    <2>6. CASE e.p # p
        <3>1. ~Filled(p) /\ ~Filled(p)'
            BY <1>1, <1>5, <2>6 DEF Filled, OnePacket
        <3>2. stray'[p] = stray[p] /\ refs'[p] = refs[p]
            BY <1>1, <1>2, <2>6
        <3>3. InMain(p)' = InMain(p)
            <4> DEFINE n == InMain(p)
            <4>1. n \in Nat /\ c = 0
                BY <2>2, <2>3, <2>6
            <4>2. CountOf(p, Append(mainRing, e)) = n + c /\ CountOf(p, mainRing) = n
                BY <2>2, <2>5
            <4> HIDE DEF n
            <4>3. n + c = n
                BY <4>1
            <4>4. CountOf(p, Append(mainRing, e)) = n
                BY <4>2, <4>3
            <4>5. InMain(p)' = n
                BY <1>1, <2>5, <4>2, <4>4
            <4> QED
                BY <4>5 DEF n
        <3> QED
            BY <1>5, <2>1, <3>1, <3>2, <3>3 DEF Fair, Sound
    <2>7. CASE e.p = p
        <3>1. Filled(p)
            BY <2>7 DEF Filled
        <3>2. InMain(p)' + stray'[p] = InMain(p) + stray[p] + 1 /\ refs'[p] = refs[p] + 1
            <4>1. CASE mainRing' = Append(mainRing, e) /\ stray' = stray
                BY <1>1, <1>2, <2>2, <2>3, <2>5, <2>7, <4>1
            <4>2. CASE mainRing' = mainRing /\ stray' = [stray EXCEPT ![e.p] = @ + 1]
                BY <1>1, <1>2, <2>2, <2>3, <2>5, <2>7, <4>2
            <4> QED
                BY <1>1, <4>1, <4>2
        <3> DEFINE m1 == InMain(p)'
        <3> DEFINE t1 == stray'[p]
        <3> DEFINE b1 == Filled(p)'
        <3> DEFINE m == InMain(p)
        <3> DEFINE t == stray[p]
        <3> DEFINE r == refs[p]
        <3> DEFINE r1 == refs[p] + 1
        <3>3. /\ m1 \in Nat /\ t1 \in Nat /\ b1 \in BOOLEAN /\ m \in Nat /\ t \in Nat /\ r \in Int
              /\ m1 + t1 = m + t + 1 /\ r1 = r + 1
            BY <2>3, <2>4, <3>2
        <3>4. Sound(r, sendFree[p], m, InSend(p), InQueues(p), InHand(p), t, TRUE)
            BY <1>5, <3>1 DEF Fair, Sound
        <3>5. refs'[p] = r1
            BY <3>2
        <3>6. ASSUME Sound(r1, sendFree[p], m1, InSend(p), InQueues(p), InHand(p), t1, b1)
              PROVE  Fair(p)'
            BY <2>1, <3>5, <3>6 DEF Fair, Sound
        <3> HIDE DEF m1, t1, b1, m, t, r, r1
        <3>7. Sound(r1, sendFree[p], m1, InSend(p), InQueues(p), InHand(p), t1, b1)
            <4> DEFINE o == InSend(p)
            <4> DEFINE q == InQueues(p)
            <4> DEFINE h == InHand(p)
            <4> DEFINE f == sendFree[p]
            <4>1. Sound(r, f, m, o, q, h, t, TRUE) /\ o \in Nat /\ q \in Nat /\ h \in Nat /\ f \in Int
                BY <2>3, <3>4
            <4> HIDE DEF o, q, h, f
            <4>2. r = m + t /\ f = 0 /\ o = 0 /\ q = 0 /\ h = 0
                BY <3>3, <4>1 DEF Sound
            <4>3. r1 = m1 + o + q + h + t1 /\ r1 # 0
                BY <3>3, <4>2
            <4>4. Sound(r1, f, m1, o, q, h, t1, b1)
                BY <4>2, <4>3 DEF Sound
            <4> QED
                BY <4>4 DEF o, q, h, f
        <3> QED
            BY <3>6, <3>7
    <2> QED
        BY <2>6, <2>7
<1> QED
    BY <1>1, <1>3, <1>4, <1>5, Zenon DEF Balanced

\* It posts what it has put there.
LEMMA MainPostsBalanced ==
    ASSUME Types, Types', Balanced, MainPosts
    PROVE  Balanced'
<1>1. /\ filling = {} /\ UNCHANGED <<at, hand, sendable, sendQ, refs, sendFree, stray, filling, resumed>>
      /\ \E n \in 1 .. Len(mainRing) :
            /\ sendRing' = sendRing \o SubSeq(mainRing, 1, n)
            /\ mainRing' = SubSeq(mainRing, n + 1, Len(mainRing))
    BY DEF MainPosts, turnVars, sessionVars, mainVars
<1>2. PICK n \in 1 .. Len(mainRing) :
            /\ sendRing' = sendRing \o SubSeq(mainRing, 1, n)
            /\ mainRing' = SubSeq(mainRing, n + 1, Len(mainRing))
    BY <1>1
<1>3. mainRing \in Seq(Entries) /\ sendRing \in Seq(Entries) /\ n \in 0 .. Len(mainRing)
    BY Facts DEF RingOK
<1> DEFINE a == SubSeq(mainRing, 1, n)
<1> DEFINE b == SubSeq(mainRing, n + 1, Len(mainRing))
<1>4. /\ a \in Seq(Entries) /\ b \in Seq(Entries) /\ a \o b = mainRing
      /\ sendRing' = sendRing \o a /\ mainRing' = b
    BY <1>2, <1>3, FrontAndRest
<1> HIDE DEF a, b
<1>5. (OnePacket => OnePacket') /\ (Straight => Straight')
    BY <1>1 DEF OnePacket, Straight
<1>6. ASSUME NEW p \in Packets, Fair(p) PROVE Fair(p)'
    <2>1. /\ InQueues(p)' = InQueues(p) /\ InHand(p)' = InHand(p) /\ refs'[p] = refs[p]
          /\ stray'[p] = stray[p] /\ sendFree'[p] = sendFree[p] /\ ~Filled(p) /\ ~Filled(p)'
        BY <1>1 DEF InQueues, QueuedFor, InHand, Filled
    <2>2. InMain(p)' + InSend(p)' = InMain(p) + InSend(p)
        <3>1. /\ CountOf(p, sendRing \o a) = CountOf(p, sendRing) + CountOf(p, a)
              /\ CountOf(p, a \o b) = CountOf(p, a) + CountOf(p, b)
              /\ CountOf(p, sendRing) \in Nat /\ CountOf(p, a) \in Nat /\ CountOf(p, b) \in Nat
            <4> DEFINE sa == sendRing \o a
            <4> DEFINE ab == a \o b
            <4>1. /\ sa \in Seq(Entries) /\ ab \in Seq(Entries)
                  /\ Count(sa, With(p)) = Count(sendRing, With(p)) + Count(a, With(p))
                  /\ Count(ab, With(p)) = Count(a, With(p)) + Count(b, With(p))
                <5>1. sa \in Seq(Entries) /\ ab \in Seq(Entries)
                    BY <1>3, <1>4
                <5>2. Count(sa, With(p)) = Count(sendRing, With(p)) + Count(a, With(p))
                    BY <1>3, <1>4, CountBehind
                <5>3. Count(ab, With(p)) = Count(a, With(p)) + Count(b, With(p))
                    BY <1>4, CountBehind
                <5> QED
                    BY <5>1, <5>2, <5>3
            <4> HIDE DEF sa, ab
            <4>2. /\ CountOf(p, sa) = CountOf(p, sendRing) + CountOf(p, a)
                  /\ CountOf(p, ab) = CountOf(p, a) + CountOf(p, b)
                  /\ CountOf(p, sendRing) \in Nat /\ CountOf(p, a) \in Nat /\ CountOf(p, b) \in Nat
                BY <1>3, <1>4, <4>1, CountIs
            <4> QED
                BY <4>2 DEF sa, ab
        <3>2. InMain(p)' = CountOf(p, mainRing') /\ InSend(p)' = CountOf(p, sendRing')
            BY DEF InMain, InSend, CountOf
        <3> QED
            BY <1>4, <3>1, <3>2 DEF InMain, InSend
    <2>3. InMain(p)' \in Nat /\ InSend(p)' \in Nat
        BY HoldersTypesNext
    <2> DEFINE m1 == InMain(p)'
    <2> DEFINE o1 == InSend(p)'
    <2>4. m1 \in Nat /\ o1 \in Nat /\ m1 + o1 = InMain(p) + InSend(p)
        BY <2>2, <2>3
    <2>5. ASSUME Sound(refs[p], sendFree[p], m1, o1, InQueues(p), InHand(p), stray[p], FALSE)
          PROVE  Fair(p)'
        BY <2>1, <2>5 DEF Fair, Sound
    <2> HIDE DEF m1, o1
    <2>6. Sound(refs[p], sendFree[p], InMain(p), InSend(p), InQueues(p), InHand(p), stray[p], FALSE)
        BY <1>6, <2>1 DEF Fair, Sound
    <2>7. Sound(refs[p], sendFree[p], m1, o1, InQueues(p), InHand(p), stray[p], FALSE)
        BY <2>4, <2>6, HoldersTypes, PostedSound
    <2> QED
        BY <2>5, <2>7
<1> QED
    BY <1>1, <1>5, <1>6, Zenon DEF Balanced

LEMMA InitBalanced ==
    ASSUME Init
    PROVE  Balanced
<1>1. /\ at = "close" /\ filling = {} /\ mainRing = <<>> /\ sendRing = <<>>
      /\ sendQ = [s \in Sids |-> <<>>] /\ stray = [p \in Packets |-> 0]
      /\ refs = [p \in Packets |-> 0] /\ sendFree = [p \in Packets |-> 1]
    BY DEF Init
<1>2. Straight /\ OnePacket
    BY <1>1 DEF Straight, OnePacket
<1>3. ASSUME NEW p \in Packets PROVE Fair(p)
    <2>1. InMain(p) = 0 /\ InSend(p) = 0
        <3>1. CountOf(p, <<>>) = 0
            BY FS_EmptySet DEF CountOf
        <3> QED
            BY <1>1, <3>1 DEF InMain, InSend
    <2>2. InQueues(p) = 0
        <3>1. QueuedFor(p) = {}
            BY <1>1 DEF QueuedFor
        <3> QED
            BY <3>1, FS_EmptySet DEF InQueues
    <2>3. InHand(p) = 0 /\ ~Filled(p) /\ stray[p] = 0 /\ refs[p] = 0 /\ sendFree[p] = 1
        BY <1>1 DEF InHand, Filled
    <2> QED
        BY <2>1, <2>2, <2>3 DEF Fair, Sound
<1> QED
    BY <1>2, <1>3 DEF Balanced

\* A session is never made sendable by a read.
LEMMA ReadsSendable ==
    ASSUME Types, NEW s, RecvFails(s)
    PROVE  \A t \in Sids : sendable'[t] => sendable[t]
BY Facts DEF RecvFails, QueueOK

LEMMA NextBalanced ==
    ASSUME Types, Types', Balanced, [Next]_vars
    PROVE  Balanced'
<1>1. CASE CloseEnds \/ ConnectedOne \/ Select \/ ParseEnds \/ SendEnds
    <2>1. /\ UNCHANGED <<refs, sendFree, stray, mainRing, sendRing, sendQ, filling, sendable,
                         resumed>>
          /\ at # "direct" /\ at' # "direct" /\ at' # "flush"
        BY <1>1 DEF CloseEnds, ConnectedOne, Select, ParseEnds, SendEnds, EventsDone, packetVars,
                    mainVars, sessionVars
    <2> QED
        BY <2>1, StillHeld
<1>2. CASE ParsePacket \/ \E s \in Sids : SessionRecv(s)
    <2>1. /\ UNCHANGED <<refs, sendFree, stray, mainRing, sendRing, sendQ, filling, resumed>>
          /\ at # "direct" /\ at' # "direct" /\ at' # "flush"
        BY <1>2 DEF ParsePacket, SessionRecv, packetVars, mainVars
    <2>2. sendable' = sendable \/ \E s : RecvFails(s)
        BY <1>2 DEF ParsePacket, SessionRecv
    <2>3. \A t \in Sids : sendable'[t] => sendable[t]
        BY <2>2, ReadsSendable
    <2> QED
        BY <2>1, <2>3, StillHeld
<1>3. CASE \E s \in Sids : BecomesSendable(s)
    BY <1>3 DEF BecomesSendable, Balanced
<1>4. CASE Flush \/ FlushEnds
    <2>1. at = "flush" /\ resumed' = resumed
        BY <1>4 DEF Flush, FlushEnds
    <2> QED
        BY <2>1 DEF Balanced, Straight
<1>5. CASE CloseOne
    BY <1>5, CloseOneBalanced
<1>6. CASE SendOne
    BY <1>6, SendOneBalanced
<1>7. CASE SendDirect
    BY <1>7, SendDirectBalanced
<1>8. CASE MainThread
    <2>1. CASE MainTakes
        <3>1. UNCHANGED <<refs, sendFree, stray, mainRing, sendRing, sendQ, filling, sendable,
                          resumed, at, hand>>
            BY <2>1 DEF MainTakes, turnVars, packetVars, sessionVars
        <3> QED
            BY <3>1, SameHolders DEF InHand, Straight, Balanced
    <2>2. CASE MainPosts
        BY <2>2, MainPostsBalanced
    <2>3. ASSUME NEW p \in Packets, NEW S \in (SUBSET connected) \ {{}}, MainFills(p, S)
          PROVE  Balanced'
        BY <2>3, MainFillsBalanced
    <2>4. ASSUME NEW e \in filling, AddOneSendPacket(e) PROVE Balanced'
        BY <2>4, AddOneBalanced
    <2> QED
        BY <1>8, <2>1, <2>2, <2>3, <2>4 DEF MainThread
<1>9. CASE ConnectThreads \/ Peers \/ UNCHANGED vars
    <2>1. UNCHANGED <<refs, sendFree, stray, mainRing, sendRing, sendQ, filling, sendable,
                      resumed, at, hand>>
        <3>1. CASE ConnectThreads
            BY <3>1 DEF ConnectThreads, AddOneConnectWork, StartConnect, CompleteConnectWork,
                        turnVars, packetVars, sessionVars, mainVars
        <3>2. CASE Peers
            BY <3>2 DEF Peers, PeerConnects, PeerSends, PeerReads, PeerGoes, turnVars, packetVars,
                        sessionVars, mainVars
        <3>3. CASE UNCHANGED vars
            BY <3>3 DEF vars, turnVars, packetVars, sessionVars, mainVars
        <3> QED
            BY <1>9, <3>1, <3>2, <3>3
    <2> QED
        BY <2>1, SameHolders DEF InHand, Straight, Balanced
<1> QED
    BY <1>1, <1>2, <1>3, <1>4, <1>5, <1>6, <1>7, <1>8, <1>9 DEF Next, NetThread

\* As long as no session that is to be closed was made sendable again, the reference count of
\* a packet is the number of entries of it that wait in a ring or a queue, or are being sent,
\* and of those that were dropped; and it is in the pool once, exactly when that number is 0
\* and the main thread does not fill it (AddOneSendPacket, SendData, SessionSend and
\* ReleaseAllPacketInSendQueue of src/NetWork/LSelectServer.cpp).
THEOREM ReferencesStay == Spec => []ReferencesCounted
<1>1. Types /\ Balanced => ReferencesCounted
    <2> SUFFICES ASSUME Types, Balanced, ~resumed, NEW p \in Packets
                 PROVE  /\ refs[p] = HeldBy(p) + stray[p]
                        /\ sendFree[p] = IF refs[p] = 0 /\ p \notin {e.p : e \in filling}
                                         THEN 1 ELSE 0
        BY Zenon DEF ReferencesCounted
    <2>1. Sound(refs[p], sendFree[p], InMain(p), InSend(p), InQueues(p), InHand(p), stray[p],
                Filled(p))
        BY DEF Balanced, Fair
    <2>2. HeldBy(p) = InMain(p) + InSend(p) + InQueues(p) + InHand(p)
        BY Zenon DEF HeldBy, InMain, InSend, InQueues, InHand
    <2>3. p \notin {e.p : e \in filling} <=> ~Filled(p)
        BY DEF Filled
    <2>4. refs[p] = HeldBy(p) + stray[p]
        BY <2>1, <2>2 DEF Sound
    <2> QED
        BY <2>1, <2>3, <2>4 DEF Sound
<1>2. Types /\ Types' /\ Balanced /\ [Next]_vars => Balanced'
    BY NextBalanced
<1>3. Spec => [](Types /\ Balanced)
    BY AlwaysTypes, InitBalanced, <1>2, PTL DEF Spec
<1> QED
    BY <1>1, <1>3, PTL

-----------------------------------------------------------------------------
(* What the main thread hears of a session.  The place of a thing said in the *)
(* receive queue is a count of earlier places, which stays when something is  *)
(* put behind it and when the main thread takes the first.                    *)

\* The places of a session in a queue, and those before place i
Places(q, s) == {i \in DOMAIN q : q[i].s = s}
Earlier(q, s, i) == {j \in Places(q, s) : j < i}

LEMMA EarlierFinite ==
    ASSUME NEW S, NEW q \in Seq(S), NEW s, NEW i \in Int
    PROVE  /\ IsFiniteSet(Places(q, s)) /\ IsFiniteSet(Earlier(q, s, i))
           /\ Cardinality(Places(q, s)) \in Nat /\ Cardinality(Earlier(q, s, i)) \in Nat
<1>1. Len(q) \in Nat /\ Places(q, s) \subseteq 1 .. Len(q)
    BY DEF Places
<1>2. IsFiniteSet(1 .. Len(q))
    BY <1>1, FS_Interval
<1>3. IsFiniteSet(Places(q, s)) /\ Earlier(q, s, i) \subseteq Places(q, s)
    BY <1>1, <1>2, FS_Subset DEF Earlier
<1> QED
    BY <1>3, FS_Subset, FS_CardinalityType

\* Behind the last place is the number of all.
LEMMA EarlierAll ==
    ASSUME NEW S, NEW q \in Seq(S), NEW s
    PROVE  Earlier(q, s, Len(q) + 1) = Places(q, s) /\ Earlier(q, s, 1) = {}
BY DEF Earlier, Places

\* An element put behind a queue
LEMMA PlacesBehind ==
    ASSUME NEW S, NEW q \in Seq(S), NEW e \in S, NEW s
    PROVE  /\ Places(Append(q, e), s) =
                 Places(q, s) \cup (IF e.s = s THEN {Len(q) + 1} ELSE {})
           /\ \A i \in 1 .. Len(q) + 1 : Earlier(Append(q, e), s, i) = Earlier(q, s, i)
           /\ Cardinality(Places(Append(q, e), s)) =
                 Cardinality(Places(q, s)) + (IF e.s = s THEN 1 ELSE 0)
<1> DEFINE t == Append(q, e)
<1> DEFINE n == Len(q)
<1>1. /\ n \in Nat /\ DOMAIN q = 1 .. n /\ DOMAIN t = 1 .. n + 1 /\ t[n + 1] = e
      /\ \A i \in 1 .. n : t[i] = q[i]
    OBVIOUS
<1> HIDE DEF t, n
<1>2. Places(t, s) = Places(q, s) \cup (IF e.s = s THEN {n + 1} ELSE {})
    BY <1>1 DEF Places
<1>3. \A i \in 1 .. n + 1 : Earlier(t, s, i) = Earlier(q, s, i)
    BY <1>1 DEF Places, Earlier
<1>4. IsFiniteSet(Places(q, s)) /\ Cardinality(Places(q, s)) \in Nat /\ n + 1 \notin Places(q, s)
    <2>1. n + 1 \notin Places(q, s)
        BY <1>1 DEF Places
    <2>2. 1 \in Int
        OBVIOUS
    <2> QED
        BY <2>1, <2>2, EarlierFinite, Zenon
<1>5. Cardinality(Places(t, s)) = Cardinality(Places(q, s)) + (IF e.s = s THEN 1 ELSE 0)
    <2>1. CASE e.s = s
        BY <1>2, <1>4, <2>1, FS_AddElement
    <2>2. CASE e.s # s
        BY <1>2, <1>4, <2>2
    <2> QED
        BY <2>1, <2>2
<1> QED
    BY <1>2, <1>3, <1>5 DEF t, n

\* The first element is taken: what was at place i + 1 is at place i.
LEMMA PlacesTaken ==
    ASSUME NEW S, NEW q \in Seq(S), q # <<>>, NEW s
    PROVE  /\ \A i \in Nat \ {0} : i \in Places(Tail(q), s) <=> i + 1 \in Places(q, s)
           /\ \A i \in 1 .. Len(q) : Cardinality(Earlier(q, s, i + 1)) =
                 Cardinality(Earlier(Tail(q), s, i)) + (IF Head(q).s = s THEN 1 ELSE 0)
           /\ Cardinality(Places(q, s)) =
                 Cardinality(Places(Tail(q), s)) + (IF Head(q).s = s THEN 1 ELSE 0)
<1> DEFINE t == Tail(q)
<1> DEFINE n == Len(q)
<1> DEFINE h == Head(q)
<1>1. /\ n \in Nat \ {0} /\ DOMAIN q = 1 .. n /\ DOMAIN t = 1 .. n - 1 /\ h = q[1] /\ t \in Seq(S)
      /\ \A i \in 1 .. n - 1 : t[i] = q[i + 1]
      /\ Len(t) = n - 1
    OBVIOUS
<1> HIDE DEF t, n, h
<1>2. ASSUME NEW i \in Nat \ {0} PROVE i \in Places(t, s) <=> i + 1 \in Places(q, s)
    BY <1>1 DEF Places
<1>3. ASSUME NEW i \in 1 .. n
      PROVE  Cardinality(Earlier(q, s, i + 1)) =
                 Cardinality(Earlier(t, s, i)) + (IF h.s = s THEN 1 ELSE 0)
    <2> DEFINE B == Earlier(t, s, i)
    <2> DEFINE C == {j \in Earlier(q, s, i + 1) : j # 1}
    <2> DEFINE f == [j \in B |-> j + 1]
    <2>1. /\ \A j \in B : j \in Nat \ {0} /\ j + 1 \in C
          /\ \A j \in C : j \in Nat /\ j - 1 \in B /\ (j - 1) + 1 = j
        BY <1>1 DEF Places, Earlier
    <2> HIDE DEF B, C
    <2>2. f \in [B -> C] /\ DOMAIN f = B /\ \A j \in B : f[j] = j + 1
        BY <2>1
    <2>3. \A j, k \in B : f[j] = f[k] => j = k
        BY <2>1
    <2>4. \A k \in C : k - 1 \in B /\ f[k - 1] = k
        BY <2>1, <2>2
    <2> HIDE DEF f
    <2>5. \A k \in C : \E j \in B : f[j] = k
        BY <2>4
    <2>6. IsInjective(f)
        BY <2>2, <2>3, Zenon DEF IsInjective
    <2>7. f \in Bijection(B, C)
        BY <2>2, <2>5, <2>6, Zenon DEF Bijection, Injection, Surjection
    <2>8. IsFiniteSet(B) /\ Cardinality(B) \in Nat
        BY <1>1, EarlierFinite DEF B
    <2>9. IsFiniteSet(C) /\ Cardinality(C) = Cardinality(B)
        BY <2>7, <2>8, FS_Bijection DEF ExistsBijection
    <2>10. CASE h.s = s
        <3>1. Earlier(q, s, i + 1) = C \cup {1} /\ 1 \notin C
            BY <1>1, <2>10 DEF C, Earlier, Places
        <3>2. Cardinality(C \cup {1}) = Cardinality(C) + 1
            BY <2>9, <3>1, FS_AddElement
        <3> QED
            BY <2>9, <2>10, <3>1, <3>2 DEF B
    <2>11. CASE h.s # s
        <3>1. Earlier(q, s, i + 1) = C
            BY <1>1, <2>11 DEF C, Earlier, Places
        <3> QED
            BY <2>8, <2>9, <2>11, <3>1 DEF B
    <2> QED
        BY <2>10, <2>11
<1>4. Cardinality(Places(q, s)) = Cardinality(Places(t, s)) + (IF h.s = s THEN 1 ELSE 0)
    <2>1. n \in 1 .. n /\ (n - 1) + 1 = n
        BY <1>1
    <2>2. Cardinality(Earlier(q, s, n + 1)) = Cardinality(Earlier(t, s, n)) + (IF h.s = s THEN 1 ELSE 0)
        BY <1>3, <2>1
    <2>3. Earlier(q, s, n + 1) = Places(q, s)
        BY EarlierAll DEF n
    <2>4. Earlier(t, s, n) = Places(t, s)
        BY <1>1, <2>1, EarlierAll
    <2> QED
        BY <2>2, <2>3, <2>4
<1> QED
    BY <1>2, <1>3, <1>4 DEF t, n, h

\* What there is of a session: what was taken and what waits
Total(s, g, q) == Len(g) + Cardinality(Places(q, s))

\* What HeardInOrder says of one session, of which g was taken and q holds the rest
Story(s, g, q, up, known) ==
    /\ \A i \in DOMAIN g : InPlace(i - 1, g[i])
    /\ \A i \in Places(q, s) : InPlace(Len(g) + Cardinality(Earlier(q, s, i)), q[i].what)
    /\ \A i \in DOMAIN g : g[i] = Gone => ~up /\ i = Len(g) /\ Places(q, s) = {}
    /\ \A i \in Places(q, s) : q[i].what = Gone => ~up /\ \A j \in Places(q, s) : j <= i
    /\ known => Total(s, g, q) > 0

Said == Nat \cup {Up, Gone}

LEMMA TotalType ==
    ASSUME NEW s, NEW g \in Seq(Said), NEW q \in Seq(Notes)
    PROVE  Total(s, g, q) \in Nat /\ Cardinality(Places(q, s)) \in Nat
<1>1. 1 \in Int /\ Len(g) \in Nat
    OBVIOUS
<1>2. Cardinality(Places(q, s)) \in Nat
    BY <1>1, EarlierFinite, Zenon
<1> QED
    BY <1>1, <1>2 DEF Total

\* Something is said of another session.
LEMMA StoryOther ==
    ASSUME NEW s, NEW g, NEW q \in Seq(Notes), NEW e \in Notes, e.s # s, NEW up, NEW known,
           NEW up1, NEW known1, Story(s, g, q, up, known), up1 => up, known1 => known
    PROVE  Story(s, g, Append(q, e), up1, known1) /\ Total(s, g, Append(q, e)) = Total(s, g, q)
<1> DEFINE t == Append(q, e)
<1>1. /\ Places(t, s) = Places(q, s)
      /\ \A i \in 1 .. Len(q) + 1 : Earlier(t, s, i) = Earlier(q, s, i)
    <2>1. /\ Places(t, s) = Places(q, s) \cup (IF e.s = s THEN {Len(q) + 1} ELSE {})
          /\ \A i \in 1 .. Len(q) + 1 : Earlier(t, s, i) = Earlier(q, s, i)
        BY PlacesBehind
    <2>2. Places(q, s) \cup (IF e.s = s THEN {Len(q) + 1} ELSE {}) = Places(q, s)
        OBVIOUS
    <2> QED
        BY <2>1, <2>2
<1>2. \A i \in Places(q, s) : i \in 1 .. Len(q) /\ i \in 1 .. Len(q) + 1 /\ t[i] = q[i]
    BY DEF Places
<1> HIDE DEF t
<1>3. Places(t, s) = Places(q, s) /\ Total(s, g, t) = Total(s, g, q)
    BY <1>1 DEF Total
<1>4. \A i \in Places(q, s) : Earlier(t, s, i) = Earlier(q, s, i) /\ t[i] = q[i]
    BY <1>1, <1>2
<1>5. Story(s, g, t, up1, known1)
    BY <1>3, <1>4 DEF Story
<1> QED
    BY <1>3, <1>5 DEF t

\* What comes next is said of a session, as long as its end is not announced.
LEMMA StoryNext ==
    ASSUME NEW s, NEW g \in Seq(Said), NEW q \in Seq(Notes), NEW what \in Said, Told(s, what) \in Notes,
           NEW known, Story(s, g, q, TRUE, known), InPlace(Total(s, g, q), what),
           NEW up1, NEW known1, what = Gone => ~up1
    PROVE  /\ Story(s, g, Append(q, Told(s, what)), up1, known1)
           /\ Total(s, g, Append(q, Told(s, what))) = Total(s, g, q) + 1
<1> DEFINE e == Told(s, what)
<1> DEFINE t == Append(q, e)
<1> DEFINE n == Len(q)
<1>1. e.s = s /\ e.what = what /\ n \in Nat /\ t[n + 1] = e
    BY DEF Told
<1>2. \A i \in Places(q, s) : i \in 1 .. n /\ t[i] = q[i]
    BY DEF Places
<1>3. /\ Places(t, s) = Places(q, s) \cup {n + 1}
      /\ \A i \in 1 .. n + 1 : Earlier(t, s, i) = Earlier(q, s, i)
      /\ Cardinality(Places(t, s)) = Cardinality(Places(q, s)) + 1
    BY <1>1, PlacesBehind
<1>4. Earlier(q, s, n + 1) = Places(q, s)
    BY EarlierAll
<1> HIDE DEF e, t, n
<1>5. Total(s, g, t) = Total(s, g, q) + 1 /\ Total(s, g, t) > 0
    <2> DEFINE a == Len(g)
    <2> DEFINE b == Cardinality(Places(q, s))
    <2>1. a \in Nat /\ b \in Nat
        BY TotalType
    <2>2. Total(s, g, t) = a + (b + 1) /\ Total(s, g, q) = a + b
        BY <1>3 DEF Total
    <2> HIDE DEF a, b
    <2> QED
        BY <2>1, <2>2
<1>6. /\ \A i \in DOMAIN g : InPlace(i - 1, g[i]) /\ g[i] # Gone
      /\ \A i \in Places(q, s) :
            /\ InPlace(Len(g) + Cardinality(Earlier(q, s, i)), q[i].what)
            /\ q[i].what # Gone
    BY DEF Story
<1>7. Earlier(t, s, n + 1) = Places(q, s)
    <2>1. n + 1 \in 1 .. n + 1
        BY <1>1
    <2> QED
        BY <1>3, <1>4, <2>1
<1>8. \A i \in Places(q, s) : Earlier(t, s, i) = Earlier(q, s, i) /\ t[i] = q[i] /\ i <= n + 1
    <2>1. \A i \in 1 .. n : i \in 1 .. n + 1 /\ i <= n + 1
        BY <1>1
    <2> QED
        BY <1>2, <1>3, <2>1
<1>9. ASSUME NEW i \in Places(t, s)
      PROVE  /\ InPlace(Len(g) + Cardinality(Earlier(t, s, i)), t[i].what)
             /\ t[i].what = Gone => ~up1 /\ \A j \in Places(t, s) : j <= i
    <2>1. CASE i \in Places(q, s)
        BY <1>6, <1>8, <2>1
    <2>2. CASE i = n + 1
        <3>1. InPlace(Len(g) + Cardinality(Earlier(t, s, i)), t[i].what)
            BY <1>1, <1>7, <2>2 DEF Total
        <3>2. \A j \in Places(t, s) : j <= i
            BY <1>1, <1>3, <1>8, <2>2
        <3> QED
            BY <1>1, <2>2, <3>1, <3>2
    <2> QED
        BY <1>3, <2>1, <2>2
<1>10. Story(s, g, t, up1, known1)
    BY <1>5, <1>6, <1>9 DEF Story
<1> QED
    BY <1>5, <1>10 DEF e, t

\* The main thread takes the first thing, and it is of the session.
LEMMA StoryTaken ==
    ASSUME NEW s, NEW g \in Seq(Said), NEW q \in Seq(Notes), q # <<>>, Head(q).s = s,
           NEW up, NEW known
    PROVE  /\ Total(s, Append(g, Head(q).what), Tail(q)) = Total(s, g, q) /\ Places(q, s) # {}
           /\ Story(s, g, q, up, known) => Story(s, Append(g, Head(q).what), Tail(q), up, known)
<1> DEFINE h == Head(q)
<1> DEFINE t == Tail(q)
<1> DEFINE n == Len(q)
<1> DEFINE g1 == Append(g, h.what)
<1> DEFINE l == Len(g)
<1>1. /\ n \in Nat \ {0} /\ h = q[1] /\ h \in Notes /\ t \in Seq(Notes) /\ Len(t) = n - 1
      /\ DOMAIN q = 1 .. n /\ DOMAIN t = 1 .. n - 1
      /\ \A i \in 1 .. n - 1 : t[i] = q[i + 1]
    OBVIOUS
<1>2. h.what \in Said
    BY <1>1 DEF Notes, Said
<1>3. /\ l \in Nat /\ Len(g1) = l + 1 /\ g1[l + 1] = h.what /\ \A i \in 1 .. l : g1[i] = g[i]
      /\ DOMAIN g = 1 .. l /\ DOMAIN g1 = 1 .. l + 1 /\ g1 \in Seq(Said)
    BY <1>2
<1>4. /\ \A i \in Nat \ {0} : i \in Places(t, s) <=> i + 1 \in Places(q, s)
      /\ \A i \in 1 .. n : Cardinality(Earlier(q, s, i + 1)) = Cardinality(Earlier(t, s, i)) + 1
      /\ Cardinality(Places(q, s)) = Cardinality(Places(t, s)) + 1
    BY PlacesTaken
<1>5. 1 \in Places(q, s)
    BY <1>1 DEF Places
<1>6. Earlier(q, s, 1) = {}
    BY EarlierAll
<1> HIDE DEF h, t, n, g1, l
<1>7. Cardinality(Earlier(q, s, 1)) = 0
    BY <1>6, FS_EmptySet
<1>8. Total(s, g1, t) = Total(s, g, q)
    <2> DEFINE b == Cardinality(Places(t, s))
    <2>1. b \in Nat
        BY <1>1, <1>3, TotalType
    <2>2. Total(s, g1, t) = (l + 1) + b /\ Total(s, g, q) = l + (b + 1)
        BY <1>3, <1>4 DEF Total, l
    <2> HIDE DEF b
    <2> QED
        BY <1>3, <2>1, <2>2
<1>9. \A i \in Places(t, s) : i \in 1 .. n - 1 /\ i + 1 \in Places(q, s) /\ t[i] = q[i + 1]
    <2>1. ASSUME NEW i \in Places(t, s)
          PROVE  i \in 1 .. n - 1 /\ i + 1 \in Places(q, s) /\ t[i] = q[i + 1]
        <3>1. i \in 1 .. n - 1
            BY <1>1 DEF Places
        <3>2. i \in Nat \ {0}
            BY <1>1, <3>1
        <3> QED
            BY <1>1, <1>4, <3>1, <3>2
    <2> QED
        BY <2>1
<1>10. \A i \in Places(t, s) :
           Len(g1) + Cardinality(Earlier(t, s, i)) = l + Cardinality(Earlier(q, s, i + 1))
    <2>1. ASSUME NEW i \in Places(t, s)
          PROVE  Len(g1) + Cardinality(Earlier(t, s, i)) = l + Cardinality(Earlier(q, s, i + 1))
        <3>1. i \in 1 .. n - 1 /\ i \in 1 .. n /\ i \in Int
            BY <1>1, <1>9
        <3> DEFINE c == Cardinality(Earlier(t, s, i))
        <3>2. c \in Nat
            BY <1>1, <3>1, EarlierFinite, Zenon
        <3>3. Cardinality(Earlier(q, s, i + 1)) = c + 1
            BY <1>4, <3>1
        <3> HIDE DEF c
        <3>4. (l + 1) + c = l + (c + 1)
            BY <1>3, <3>2
        <3> QED
            BY <1>3, <3>3, <3>4 DEF c
    <2> QED
        BY <2>1
<1>11. ASSUME Story(s, g, q, up, known) PROVE Story(s, g1, t, up, known)
    <2>1. /\ \A i \in 1 .. l : InPlace(i - 1, g[i])
          /\ \A i \in Places(q, s) : InPlace(l + Cardinality(Earlier(q, s, i)), q[i].what)
          /\ \A i \in 1 .. l : g[i] = Gone => ~up /\ i = l /\ Places(q, s) = {}
          /\ \A i \in Places(q, s) : q[i].what = Gone => ~up /\ \A j \in Places(q, s) : j <= i
          /\ known => Total(s, g, q) > 0
        BY <1>3, <1>11 DEF Story, l
    <2>2. \A i \in Places(t, s) : InPlace(Len(g1) + Cardinality(Earlier(t, s, i)), t[i].what)
        BY <1>9, <1>10, <2>1
    <2>3. InPlace(l, h.what)
        <3>1. InPlace(l + Cardinality(Earlier(q, s, 1)), q[1].what)
            BY <1>5, <2>1
        <3>2. l + Cardinality(Earlier(q, s, 1)) = l
            BY <1>3, <1>7
        <3> QED
            BY <1>1, <3>1, <3>2
    <2>4. \A i \in DOMAIN g1 : i \in 1 .. l \/ (i = l + 1 /\ i - 1 = l)
        BY <1>3
    <2>5. \A i \in DOMAIN g1 : InPlace(i - 1, g1[i])
        BY <1>3, <2>1, <2>3, <2>4
    <2>6. ASSUME NEW i \in DOMAIN g1, g1[i] = Gone
          PROVE  ~up /\ i = Len(g1) /\ Places(t, s) = {}
        <3>1. i = l + 1
            BY <1>3, <1>5, <2>1, <2>4, <2>6
        <3>2. ~up /\ \A j \in Places(q, s) : j <= 1
            BY <1>1, <1>3, <1>5, <2>1, <2>6, <3>1
        <3>3. ~\E j \in Places(t, s) : TRUE
            <4>1. ASSUME NEW j \in Places(t, s) PROVE FALSE
                <5>1. j + 1 \in Places(q, s) /\ j \in 1 .. n - 1
                    BY <1>9
                <5>2. j + 1 <= 1
                    BY <3>2, <5>1
                <5> QED
                    BY <1>1, <5>1, <5>2
            <4> QED
                BY <4>1
        <3> QED
            BY <1>3, <3>1, <3>2, <3>3
    <2>7. ASSUME NEW i \in Places(t, s), t[i].what = Gone
          PROVE  ~up /\ \A j \in Places(t, s) : j <= i
        <3>1. i + 1 \in Places(q, s) /\ i \in 1 .. n - 1 /\ q[i + 1].what = Gone
            BY <1>9, <2>7
        <3>2. ~up /\ \A j \in Places(q, s) : j <= i + 1
            BY <2>1, <3>1
        <3>3. ASSUME NEW j \in Places(t, s) PROVE j <= i
            <4>1. j + 1 \in Places(q, s) /\ j \in 1 .. n - 1
                BY <1>9
            <4>2. j + 1 <= i + 1
                BY <3>2, <4>1
            <4> QED
                BY <1>1, <3>1, <4>1, <4>2
        <3> QED
            BY <3>2, <3>3
    <2>8. known => Total(s, g1, t) > 0
        BY <1>8, <2>1
    <2> QED
        BY <2>2, <2>5, <2>6, <2>7, <2>8 DEF Story
<1> QED
    BY <1>5, <1>8, <1>11 DEF h, t, g1

\* It is of another session.
LEMMA StoryPassed ==
    ASSUME NEW s, NEW g \in Seq(Said), NEW q \in Seq(Notes), q # <<>>, Head(q).s # s, NEW up, NEW known
    PROVE  /\ Total(s, g, Tail(q)) = Total(s, g, q)
           /\ Places(q, s) = {} => Places(Tail(q), s) = {}
           /\ Story(s, g, q, up, known) => Story(s, g, Tail(q), up, known)
<1> DEFINE t == Tail(q)
<1> DEFINE n == Len(q)
<1>1. /\ n \in Nat \ {0} /\ t \in Seq(Notes) /\ DOMAIN q = 1 .. n /\ DOMAIN t = 1 .. n - 1
      /\ \A i \in 1 .. n - 1 : t[i] = q[i + 1]
    OBVIOUS
<1>2. /\ \A i \in Nat \ {0} : i \in Places(t, s) <=> i + 1 \in Places(q, s)
      /\ \A i \in 1 .. n : Cardinality(Earlier(q, s, i + 1)) = Cardinality(Earlier(t, s, i)) + 0
      /\ Cardinality(Places(q, s)) = Cardinality(Places(t, s)) + 0
    BY PlacesTaken
<1> HIDE DEF t, n
<1>3. Cardinality(Places(q, s)) = Cardinality(Places(t, s))
    <2> DEFINE b == Cardinality(Places(t, s))
    <2>1. b \in Nat
        BY <1>1, TotalType
    <2> HIDE DEF b
    <2>2. b + 0 = b
        BY <2>1
    <2> QED
        BY <1>2, <2>2 DEF b
<1>4. Total(s, g, t) = Total(s, g, q)
    BY <1>3 DEF Total
<1>5. \A i \in Places(t, s) : i \in 1 .. n - 1 /\ i + 1 \in Places(q, s) /\ t[i] = q[i + 1]
    <2>1. ASSUME NEW i \in Places(t, s)
          PROVE  i \in 1 .. n - 1 /\ i + 1 \in Places(q, s) /\ t[i] = q[i + 1]
        <3>1. i \in 1 .. n - 1
            BY <1>1 DEF Places
        <3>2. i \in Nat \ {0}
            BY <1>1, <3>1
        <3> QED
            BY <1>1, <1>2, <3>1, <3>2
    <2> QED
        BY <2>1
<1>6. \A i \in Places(t, s) : Cardinality(Earlier(t, s, i)) = Cardinality(Earlier(q, s, i + 1))
    <2>1. ASSUME NEW i \in Places(t, s)
          PROVE  Cardinality(Earlier(t, s, i)) = Cardinality(Earlier(q, s, i + 1))
        <3>1. i \in 1 .. n - 1 /\ i \in 1 .. n /\ i \in Int
            BY <1>1, <1>5
        <3> DEFINE c == Cardinality(Earlier(t, s, i))
        <3>2. c \in Nat
            BY <1>1, <3>1, EarlierFinite, Zenon
        <3>3. Cardinality(Earlier(q, s, i + 1)) = c + 0
            BY <1>2, <3>1
        <3> HIDE DEF c
        <3>4. c + 0 = c
            BY <3>2
        <3> QED
            BY <3>3, <3>4 DEF c
    <2> QED
        BY <2>1
<1>7. Places(q, s) = {} => Places(t, s) = {}
    BY <1>5
<1>8. ASSUME Story(s, g, q, up, known) PROVE Story(s, g, t, up, known)
    <2>1. /\ \A i \in DOMAIN g : InPlace(i - 1, g[i])
          /\ \A i \in Places(q, s) : InPlace(Len(g) + Cardinality(Earlier(q, s, i)), q[i].what)
          /\ \A i \in DOMAIN g : g[i] = Gone => ~up /\ i = Len(g) /\ Places(q, s) = {}
          /\ \A i \in Places(q, s) : q[i].what = Gone => ~up /\ \A j \in Places(q, s) : j <= i
          /\ known => Total(s, g, q) > 0
        BY <1>8, Zenon DEF Story
    <2>2. \A i \in Places(t, s) : InPlace(Len(g) + Cardinality(Earlier(t, s, i)), t[i].what)
        BY <1>5, <1>6, <2>1
    <2>3. ASSUME NEW i \in Places(t, s), t[i].what = Gone
          PROVE  ~up /\ \A j \in Places(t, s) : j <= i
        <3>1. i + 1 \in Places(q, s) /\ i \in 1 .. n - 1 /\ q[i + 1].what = Gone
            BY <1>5, <2>3
        <3>2. ~up /\ \A j \in Places(q, s) : j <= i + 1
            BY <2>1, <3>1
        <3>3. ASSUME NEW j \in Places(t, s) PROVE j <= i
            <4>1. j + 1 \in Places(q, s) /\ j \in 1 .. n - 1
                BY <1>5
            <4>2. j + 1 <= i + 1
                BY <3>2, <4>1
            <4> QED
                BY <1>1, <3>1, <4>1, <4>2
        <3> QED
            BY <3>2, <3>3
    <2>4. \A i \in DOMAIN g : g[i] = Gone => ~up /\ i = Len(g) /\ Places(t, s) = {}
        BY <1>7, <2>1
    <2>5. known => Total(s, g, t) > 0
        BY <1>4, <2>1
    <2>6. \A i \in DOMAIN g : InPlace(i - 1, g[i])
        BY <2>1
    <2> QED
        BY <2>2, <2>3, <2>4, <2>5, <2>6, Zenon DEF Story
<1> QED
    BY <1>4, <1>7, <1>8 DEF t

\* What is still to come of a session: the frames in its buffer and in its socket carry on
\* from the last one said, and the peer has sent no others.
Numbered(q, f) == \A k \in 1 .. Len(q) : q[k] \in {Bad, f + k}
Course(t, b, n, c, broken, parsing, k) ==
    /\ Numbered(b, t - 1 - k) /\ Numbered(n, t - 1 - k + Len(b))
    /\ ~broken => t - 1 - k + Len(b) + Len(n) = c
    /\ ~parsing => b = <<>> /\ k = 0

LEMMA CourseNew == Course(1, <<>>, <<>>, 0, FALSE, FALSE, 0)
BY DEF Course, Numbered

\* Frames are read into the buffer, which is empty.
LEMMA CourseRead ==
    ASSUME NEW t \in Nat, NEW b, NEW n \in Seq(Nat), NEW c \in Nat, NEW broken \in BOOLEAN,
           NEW k, Course(t, b, n, c, broken, FALSE, k), NEW m \in 0 .. Len(n)
    PROVE  Course(t, b \o SubSeq(n, 1, m), SubSeq(n, m + 1, Len(n)), c, broken, TRUE, 0)
<1> DEFINE x == SubSeq(n, 1, m)
<1> DEFINE y == SubSeq(n, m + 1, Len(n))
<1> DEFINE l == Len(n)
<1>1. /\ l \in Nat /\ x \in Seq(Nat) /\ Len(x) = m /\ y \in Seq(Nat) /\ Len(y) = l - m
    BY FrontAndRest
<1>2. \A j \in 1 .. m : x[j] = n[j]
    OBVIOUS
<1>3. \A j \in 1 .. l - m : y[j] = n[m + j]
    OBVIOUS
<1>4. b = <<>> /\ k = 0 /\ Len(b) = 0
    BY DEF Course
<1>5. b \o x = x
    BY <1>1, <1>4
<1>6. \A j \in 1 .. l : n[j] \in {Bad, t - 1 + j}
    BY <1>4 DEF Course, Numbered, l
<1>7. ~broken => t - 1 + l = c
    BY <1>1, <1>4 DEF Course, l
<1> HIDE DEF x, y, l
<1>8. Numbered(x, t - 1 - 0)
    <2>1. ASSUME NEW j \in 1 .. m PROVE x[j] \in {Bad, t - 1 - 0 + j}
        <3>1. j \in 1 .. l /\ t - 1 - 0 + j = t - 1 + j
            BY <1>1 DEF l
        <3> QED
            BY <1>2, <1>6, <3>1
    <2> QED
        BY <1>1, <2>1 DEF Numbered
<1>9. Numbered(y, t - 1 - 0 + Len(x))
    <2>1. ASSUME NEW j \in 1 .. l - m PROVE y[j] \in {Bad, t - 1 - 0 + m + j}
        <3>1. m + j \in 1 .. l /\ t - 1 - 0 + m + j = t - 1 + (m + j)
            BY <1>1 DEF l
        <3>2. n[m + j] \in {Bad, t - 1 + (m + j)}
            BY <1>6, <3>1
        <3> QED
            BY <1>3, <3>1, <3>2
    <2> QED
        BY <1>1, <2>1 DEF Numbered
<1>10. ~broken => t - 1 - 0 + Len(x) + Len(y) = c
    <2>1. t - 1 - 0 + m + (l - m) = t - 1 + l
        BY <1>1 DEF l
    <2> QED
        BY <1>1, <1>7, <2>1
<1>11. Course(t, x, y, c, broken, TRUE, 0)
    BY <1>8, <1>9, <1>10 DEF Course
<1> QED
    BY <1>5, <1>11 DEF x, y, l

\* ParsePacket says the next of them.
LEMMA CourseParsed ==
    ASSUME NEW t \in Nat, NEW b, NEW n, NEW c, NEW broken, NEW k \in Nat,
           Course(t, b, n, c, broken, TRUE, k), k + 1 \in 1 .. Len(b)
    PROVE  b[k + 1] \in {Bad, t} /\ Course(t + 1, b, n, c, broken, TRUE, k + 1)
<1> DEFINE k1 == k + 1
<1> DEFINE t1 == t + 1
<1>1. b[k1] \in {Bad, t - 1 - k + k1}
    BY DEF Course, Numbered
<1>2. t - 1 - k + k1 = t /\ t1 - 1 - k1 = t - 1 - k
    OBVIOUS
<1> HIDE DEF k1, t1
<1>3. b[k1] \in {Bad, t} /\ Course(t1, b, n, c, broken, TRUE, k1)
    BY <1>1, <1>2 DEF Course
<1> QED
    BY <1>3 DEF k1, t1

\* All are said, and the buffer is emptied.
LEMMA CourseEmptied ==
    ASSUME NEW t \in Nat, NEW b \in Seq(Nat), NEW n \in Seq(Nat), NEW c \in Nat,
           NEW broken \in BOOLEAN, Course(t, b, n, c, broken, TRUE, Len(b))
    PROVE  Course(t, <<>>, n, c, broken, FALSE, 0)
<1> DEFINE l == Len(b)
<1> DEFINE m == Len(n)
<1>1. l \in Nat /\ m \in Nat /\ Numbered(n, t - 1 - l + l) /\ (~broken => t - 1 - l + l + m = c)
    BY DEF Course
<1> HIDE DEF l, m
<1>2. t - 1 - l + l = t - 1 - 0 + 0
    BY <1>1
<1>3. Numbered(n, t - 1 - 0 + 0) /\ (~broken => t - 1 - 0 + 0 + m = c)
    BY <1>1, <1>2
<1>4. Numbered(<<>>, t - 1 - 0) /\ Len(<<>>) = 0
    BY DEF Numbered
<1> QED
    BY <1>3, <1>4 DEF Course, m

\* The peer sends a frame.
LEMMA CourseSent ==
    ASSUME NEW t \in Nat, NEW b \in Seq(Nat), NEW n \in Seq(Nat), NEW c \in Nat,
           NEW parsing \in BOOLEAN, NEW k \in Nat, Course(t, b, n, c, FALSE, parsing, k),
           NEW e \in {Bad, c + 1}
    PROVE  Course(t, b, Append(n, e), c + 1, FALSE, parsing, k)
<1> DEFINE l == Len(b)
<1> DEFINE m == Len(n)
<1> DEFINE x == Append(n, e)
<1>1. /\ l \in Nat /\ m \in Nat /\ e \in Nat
      /\ Len(x) = m + 1 /\ x[m + 1] = e /\ \A j \in 1 .. m : x[j] = n[j]
    BY DEF Bad
<1>2. /\ Numbered(b, t - 1 - k) /\ \A j \in 1 .. m : n[j] \in {Bad, t - 1 - k + l + j}
      /\ t - 1 - k + l + m = c /\ (~parsing => b = <<>> /\ k = 0)
    BY DEF Course, Numbered
<1> HIDE DEF l, m, x
<1>3. ASSUME NEW j \in 1 .. m + 1 PROVE x[j] \in {Bad, t - 1 - k + l + j}
    <2>1. CASE j \in 1 .. m
        BY <1>1, <1>2, <2>1
    <2>2. CASE j = m + 1
        <3>1. t - 1 - k + l + j = c + 1
            BY <1>1, <1>2, <2>2
        <3> QED
            BY <1>1, <2>2, <3>1
    <2> QED
        BY <1>1, <2>1, <2>2
<1>4. Numbered(x, t - 1 - k + l) /\ t - 1 - k + l + Len(x) = c + 1
    BY <1>1, <1>2, <1>3 DEF Numbered
<1> QED
    BY <1>2, <1>4 DEF Course, l, x

\* It goes, and frames are lost.
LEMMA CourseLost ==
    ASSUME NEW t \in Nat, NEW b \in Seq(Nat), NEW n \in Seq(Nat), NEW c, NEW broken,
           NEW parsing \in BOOLEAN, NEW k \in Nat, Course(t, b, n, c, broken, parsing, k),
           NEW m \in 0 .. Len(n), NEW c1
    PROVE  Course(t, b, SubSeq(n, 1, m), c1, TRUE, parsing, k)
<1> DEFINE x == SubSeq(n, 1, m)
<1> DEFINE f == t - 1 - k + Len(b)
<1>1. Len(n) \in Nat /\ Len(x) = m /\ 1 .. m \subseteq 1 .. Len(n) /\ \A j \in 1 .. m : x[j] = n[j]
    OBVIOUS
<1>2. \A j \in 1 .. Len(n) : n[j] \in {Bad, f + j}
    BY DEF Course, Numbered
<1> HIDE DEF x, f
<1>3. Numbered(x, f)
    BY <1>1, <1>2 DEF Numbered
<1> QED
    BY <1>3 DEF Course, x, f

-----------------------------------------------------------------------------
(* The invariant behind HeardInOrder.  A session that is not to be closed has *)
(* its frames in order all the way from the peer; one that is has left the    *)
(* sockets to be read, and one whose number is not given yet has nothing.     *)

Asked == {closes[i] : i \in DOMAIN closes}
Parsing(s) == at = "parse" /\ current = s
Delivered(s) == IF Parsing(s) THEN parsed ELSE 0

HeardOf(s) == Story(s, got[s], recvQueue, s \in live, s <= lastId)
CourseOf(s) ==
    Course(Total(s, got[s], recvQueue), buf[s], net[s], sent[s], s \in lost, Parsing(s), Delivered(s))
Coming(s) == s \in live /\ s \notin Asked => CourseOf(s)
PassedOver(s) == s \in Asked => s \notin readable /\ ~Parsing(s) /\ at # "connected"
Fresh(s) == s > lastId => got[s] = <<>> /\ Places(recvQueue, s) = {} /\ sent[s] = 0 /\ s \notin Asked

Good(s) == HeardOf(s) /\ Coming(s) /\ PassedOver(s) /\ Fresh(s)
InTurn ==
    /\ at \notin {"work", "parse"} => readable = {}
    /\ \A s \in Sids \ (late \cup unheard) : Good(s)

\* What is known of a session
LEMMA SessionTypes ==
    ASSUME Types, NEW s \in Sids
    PROVE  /\ recvQueue \in Seq(Notes) /\ got[s] \in Seq(Said) /\ Total(s, got[s], recvQueue) \in Nat
           /\ buf[s] \in Seq(Nat) /\ net[s] \in Seq(Nat) /\ sent[s] \in Nat
           /\ Parsing(s) \in BOOLEAN /\ Delivered(s) \in Nat /\ (Parsing(s) => parsed \in 0 .. Len(buf[s]))
           /\ s \in Nat /\ lastId \in Nat /\ live \subseteq 1 .. lastId /\ lost \subseteq live
<1>1. recvQueue \in Seq(Notes) /\ got[s] \in Seq(Said)
    BY Facts DEF HeardOK, HistOK, Said
<1>2. Total(s, got[s], recvQueue) \in Nat
    BY <1>1, TotalType
<1>3. buf[s] \in Seq(Nat) /\ net[s] \in Seq(Nat) /\ sent[s] \in Nat /\ lost \subseteq live
    BY Facts DEF BufOK, NetOK
<1>4. Parsing(s) \in BOOLEAN
    BY DEF Parsing
<1>5. Parsing(s) => parsed \in 0 .. Len(buf[s])
    BY Facts DEF ReadOK, Parsing
<1>6. Delivered(s) \in Nat
    BY <1>3, <1>5 DEF Delivered
<1>7. s \in Nat /\ lastId \in Nat /\ live \subseteq 1 .. lastId
    BY Facts, Bounds DEF PoolOK
<1> QED
    BY <1>1, <1>2, <1>3, <1>4, <1>5, <1>6, <1>7

\* The parts of a session after a step, put together again
LEMMA StoryHolds ==
    ASSUME NEW s, NEW g, NEW q, NEW up, NEW known, got'[s] = g, recvQueue' = q,
           (s \in live') = up, (s <= lastId') = known, Story(s, g, q, up, known)
    PROVE  HeardOf(s)'
BY Zenon DEF HeardOf, Story, Total

LEMMA CourseHolds ==
    ASSUME NEW s, NEW t, NEW b, NEW n, NEW c, NEW broken, NEW parsing, NEW k,
           Total(s, got'[s], recvQueue') = t, buf'[s] = b, net'[s] = n, sent'[s] = c,
           (s \in lost') = broken, Parsing(s)' = parsing, Delivered(s)' = k,
           Course(t, b, n, c, broken, parsing, k)
    PROVE  CourseOf(s)'
BY DEF CourseOf, Course, Total

LEMMA CourseKept ==
    ASSUME NEW s, CourseOf(s), Total(s, got'[s], recvQueue') = Total(s, got[s], recvQueue),
           buf'[s] = buf[s], net'[s] = net[s], sent'[s] = sent[s], (s \in lost') = (s \in lost),
           Parsing(s)' = Parsing(s), Delivered(s)' = Delivered(s)
    PROVE  CourseOf(s)'
BY CourseHolds DEF CourseOf

LEMMA GoodHolds ==
    ASSUME NEW s, HeardOf(s)', s \in live' /\ s \notin Asked' => CourseOf(s)', PassedOver(s)',
           s > lastId' => got'[s] = <<>> /\ Places(recvQueue', s) = {} /\ sent'[s] = 0 /\ s \notin Asked'
    PROVE  Good(s)'
<1>1. Coming(s)'
    BY Zenon DEF Coming
<1>2. Fresh(s)'
    BY DEF Fresh, Places
<1> QED
    BY <1>1, <1>2, Zenon DEF Good

-----------------------------------------------------------------------------
(* What a step does to a session.                                          *)

\* Nothing that is said, read or sent changes.
LEMMA QuietGood ==
    ASSUME NEW s, Good(s), UNCHANGED <<got, recvQueue, live, lastId, buf, net, sent, lost>>,
           Parsing(s)' = Parsing(s), Delivered(s)' = Delivered(s),
           s \in live /\ s \in Asked => s \in Asked', PassedOver(s)', s > lastId => s \notin Asked'
    PROVE  Good(s)'
<1>1. HeardOf(s)'
    BY StoryHolds DEF Good, HeardOf
<1>2. s \in live' /\ s \notin Asked' => CourseOf(s)'
    BY CourseKept DEF Good, Coming, Total
<1>3. s > lastId' => got'[s] = <<>> /\ Places(recvQueue', s) = {} /\ sent'[s] = 0 /\ s \notin Asked'
    BY DEF Good, Fresh
<1> QED
    BY <1>1, <1>2, <1>3, GoodHolds

\* Something is said of another session.
LEMMA AnnounceOther ==
    ASSUME Types, NEW r \in Sids, NEW what \in Said, Announce(r, what), NEW s \in Sids, s # r,
           got'[s] = got[s], HeardOf(s), s \in live' => s \in live, s <= lastId' => s <= lastId
    PROVE  /\ HeardOf(s)' /\ Total(s, got'[s], recvQueue') = Total(s, got[s], recvQueue)
           /\ Places(recvQueue, s) = {} => Places(recvQueue', s) = {}
<1> DEFINE e == Told(r, what)
<1>1. recvQueue \in Seq(Notes) /\ e \in Notes /\ e.s # s
    BY SessionTypes DEF Told, Notes, Said
<1>2. CASE recvQueue' = recvQueue
    <2>1. Story(s, got[s], recvQueue, s \in live', s <= lastId')
        BY DEF HeardOf, Story
    <2> QED
        BY <1>2, <2>1, StoryHolds
<1>3. CASE recvQueue' = Append(recvQueue, e)
    <2>1. /\ Story(s, got[s], Append(recvQueue, e), s \in live', s <= lastId')
          /\ Total(s, got[s], Append(recvQueue, e)) = Total(s, got[s], recvQueue)
        BY <1>1, StoryOther DEF HeardOf
    <2>2. Places(recvQueue, s) = {} => Places(Append(recvQueue, e), s) = {}
        BY <1>1 DEF Places
    <2> HIDE DEF e
    <2> QED
        BY <1>3, <2>1, <2>2, StoryHolds
<1> QED
    BY <1>2, <1>3 DEF Announce

\* It is said of this one.
LEMMA AnnounceNext ==
    ASSUME Types, NEW s \in Sids, NEW what \in Said, recvQueue' = Append(recvQueue, Told(s, what)),
           got'[s] = got[s], NEW known, Story(s, got[s], recvQueue, TRUE, known),
           InPlace(Total(s, got[s], recvQueue), what), what = Gone => s \notin live'
    PROVE  HeardOf(s)' /\ Total(s, got'[s], recvQueue') = Total(s, got[s], recvQueue) + 1
<1> DEFINE e == Told(s, what)
<1>1. recvQueue \in Seq(Notes) /\ got[s] \in Seq(Said) /\ e \in Notes
    BY SessionTypes DEF Told, Notes, Said
<1>2. /\ Story(s, got[s], Append(recvQueue, e), s \in live', s <= lastId')
      /\ Total(s, got[s], Append(recvQueue, e)) = Total(s, got[s], recvQueue) + 1
    BY <1>1, StoryNext
<1> HIDE DEF e
<1>3. recvQueue' = Append(recvQueue, e)
    BY DEF e
<1> QED
    BY <1>2, <1>3, StoryHolds

\* Whoever asks for a close, and what it changes for the others
LEMMA AskMoves ==
    ASSUME NEW r \in Sids, AddOneCloseSessionWork(r), closes \in Seq(Sids)
    PROVE  /\ Asked \subseteq Asked' /\ late \subseteq late'
           /\ \A s : s \in Asked' => s \in Asked \/ s = r
           /\ r \in Asked' \/ r \in late'
<1>1. CASE closes' = Append(closes, r) /\ late' = late
    <2> DEFINE n == Len(closes)
    <2> DEFINE t == Append(closes, r)
    <2>1. /\ n \in Nat /\ DOMAIN closes = 1 .. n /\ DOMAIN t = 1 .. n + 1 /\ t[n + 1] = r
          /\ \A i \in 1 .. n : t[i] = closes[i]
        OBVIOUS
    <2> HIDE DEF n, t
    <2>2. Asked = {closes[i] : i \in 1 .. n}
        BY <2>1 DEF Asked
    <2>3. Asked' = {t[i] : i \in 1 .. n + 1}
        <3>1. Asked' = {t[i] : i \in DOMAIN t}
            BY <1>1 DEF Asked, t
        <3> QED
            BY <2>1, <3>1
    <2> QED
        BY <1>1, <2>1, <2>2, <2>3
<1>2. CASE closes' = closes /\ late' = late \cup {r}
    BY <1>2 DEF Asked
<1> QED
    BY <1>1, <1>2 DEF AddOneCloseSessionWork

LEMMA TakenAsked ==
    ASSUME closes \in Seq(Sids), closes # <<>>, closes' = Tail(closes)
    PROVE  /\ Asked' \subseteq Asked
           /\ \A s \in Asked : s # Head(closes) => s \in Asked'
<1> DEFINE n == Len(closes)
<1> DEFINE t == Tail(closes)
<1>1. /\ n \in Nat \ {0} /\ DOMAIN closes = 1 .. n /\ DOMAIN t = 1 .. n - 1 /\ Head(closes) = closes[1]
      /\ \A i \in 1 .. n - 1 : t[i] = closes[i + 1]
    OBVIOUS
<1>2. t = closes'
    OBVIOUS
<1> HIDE DEF n, t
<1>3. Asked = {closes[i] : i \in 1 .. n} /\ Asked' = {t[i] : i \in 1 .. n - 1}
    BY <1>1, <1>2 DEF Asked
<1>4. ASSUME NEW i \in 1 .. n - 1 PROVE t[i] \in Asked
    <2>1. i + 1 \in 1 .. n
        BY <1>1
    <2> QED
        BY <1>1, <1>3, <2>1
<1>5. ASSUME NEW i \in 1 .. n, i # 1 PROVE closes[i] \in Asked'
    <2> DEFINE j == i - 1
    <2>1. j \in 1 .. n - 1 /\ j + 1 = i
        BY <1>1, <1>5
    <2> HIDE DEF j
    <2>2. t[j] = closes[i]
        BY <1>1, <2>1
    <2> QED
        BY <1>3, <2>1, <2>2
<1> QED
    BY <1>1, <1>3, <1>4, <1>5

\* A session is opened, in the place of the close of the results or before the reads.
LEMMA OpenGood ==
    ASSUME Types, Types', NEW flag, OpenSession(flag), UNCHANGED <<got, buf, net, sent, lost, closes>>,
           at = "connected", at' \in {"connected", "work"}, NEW s \in Sids \ unheard', Good(s)
    PROVE  Good(s)'
<1> DEFINE r == lastId + 1
<1>1. /\ live' = live \cup {r} /\ lastId' = r /\ Announce(r, Up)
      /\ recvQueue' = Append(recvQueue, Told(r, Up)) \/ (recvQueue' = recvQueue /\ r \in unheard')
    BY DEF OpenSession, Announce
<1>2. /\ s \in Nat /\ lastId \in Nat /\ live \subseteq 1 .. lastId /\ lost \subseteq live
      /\ s <= lastId' => s <= lastId \/ s = r
    BY <1>1, SessionTypes
<1>3. r \in Sids
    <2>1. r \in 0 .. MaxArrivals + MaxAsks
        BY <1>1, FactsNext, Facts DEF Types, PoolOK
    <2> QED
        BY <1>2, <2>1, Bounds
<1>4. HeardOf(s) /\ Coming(s) /\ PassedOver(s) /\ Fresh(s) /\ s \notin Asked /\ s \notin Asked'
    BY DEF Good, PassedOver, Asked
<1>5. Parsing(s) = FALSE /\ Parsing(s)' = FALSE /\ Delivered(s) = 0 /\ Delivered(s)' = 0
    BY DEF Parsing, Delivered
<1>6. PassedOver(s)'
    BY <1>4 DEF PassedOver
<1>7. Up \in Said
    BY DEF Said
<1>8. CASE s # r
    <2>1. (s \in live' => s \in live) /\ (s <= lastId' => s <= lastId)
        BY <1>1, <1>2, <1>8
    <2> HIDE DEF r
    <2>2. /\ HeardOf(s)' /\ Total(s, got'[s], recvQueue') = Total(s, got[s], recvQueue)
          /\ Places(recvQueue, s) = {} => Places(recvQueue', s) = {}
        BY <1>1, <1>3, <1>4, <1>7, <1>8, <2>1, AnnounceOther
    <2>3. s \in live' /\ s \notin Asked' => CourseOf(s)'
        <3>1. ASSUME s \in live, s \notin Asked PROVE CourseOf(s)'
            <4>1. CourseOf(s)
                BY <1>4, <3>1 DEF Coming
            <4> QED
                BY <1>5, <2>2, <4>1, CourseKept
        <3> QED
            BY <1>4, <2>1, <3>1
    <2>4. s > lastId' => got'[s] = <<>> /\ Places(recvQueue', s) = {} /\ sent'[s] = 0 /\ s \notin Asked'
        <3>1. s > lastId' => s > lastId
            BY <1>1, <1>2 DEF r
        <3> QED
            BY <1>4, <2>2, <3>1 DEF Fresh
    <2> QED
        BY <1>6, <2>2, <2>3, <2>4, GoodHolds
<1>9. CASE s = r
    <2>1. got[s] = <<>> /\ Places(recvQueue, s) = {} /\ sent[s] = 0 /\ s \notin live /\ s \notin lost
        BY <1>2, <1>4, <1>9 DEF Fresh
    <2>2. buf[s] = <<>> /\ net[s] = <<>>
        BY <2>1, Facts DEF CleanOK
    <2>3. recvQueue' = Append(recvQueue, Told(s, Up))
        BY <1>1, <1>9
    <2>4. Total(s, got[s], recvQueue) = 0
        BY <2>1, FS_EmptySet DEF Total
    <2>5. Story(s, got[s], recvQueue, TRUE, FALSE)
        BY <2>1 DEF Story
    <2>6. InPlace(Total(s, got[s], recvQueue), Up) /\ Up # Gone
        BY <2>4 DEF InPlace, Up, Gone
    <2>7. HeardOf(s)' /\ Total(s, got'[s], recvQueue') = Total(s, got[s], recvQueue) + 1
        BY <1>7, <2>3, <2>5, <2>6, AnnounceNext
    <2>8. CourseOf(s)'
        <3>1. Total(s, got'[s], recvQueue') = 1
            BY <2>4, <2>7
        <3>2. buf'[s] = <<>> /\ net'[s] = <<>> /\ sent'[s] = 0 /\ (s \in lost') = FALSE
            BY <2>1, <2>2
        <3> QED
            BY <1>5, <3>1, <3>2, CourseNew, CourseHolds
    <2>9. ~(s > lastId')
        BY <1>1, <1>2, <1>9
    <2> QED
        BY <1>6, <2>7, <2>8, <2>9, GoodHolds
<1> QED
    BY <1>8, <1>9

\* A session is closed, in the first part of a turn.
LEMMA CloseGood ==
    ASSUME Types, Types', NEW r \in live, CloseSession(r), closes # <<>>, r = Head(closes),
           closes' = Tail(closes), UNCHANGED <<at, readable, current, parsed, got, sent>>,
           at = "close", NEW s \in Sids \ unheard', Good(s)
    PROVE  Good(s)'
<1>1. /\ live' = live \ {r} /\ lastId' = lastId /\ Announce(r, Gone) /\ lost' = lost \ {r}
      /\ buf' = [buf EXCEPT ![r] = <<>>] /\ net' = [net EXCEPT ![r] = <<>>]
      /\ recvQueue' = Append(recvQueue, Told(r, Gone)) \/ (recvQueue' = recvQueue /\ r \in unheard')
    BY DEF CloseSession, Announce
<1>2. /\ s \in Nat /\ lastId \in Nat /\ live \subseteq 1 .. lastId /\ lost \subseteq live
      /\ r \in Sids /\ r <= lastId /\ closes \in Seq(Sids)
      /\ buf \in [Sids -> Seq(Nat)] /\ net \in [Sids -> Seq(Nat)]
    <2>1. s \in Nat /\ lastId \in Nat /\ live \subseteq 1 .. lastId /\ lost \subseteq live
        BY SessionTypes
    <2>2. r \in Sids /\ closes \in Seq(Sids) /\ buf \in [Sids -> Seq(Nat)] /\ net \in [Sids -> Seq(Nat)]
        BY Facts DEF CloseOK, BufOK, NetOK
    <2> QED
        BY <2>1, <2>2
<1>3. HeardOf(s) /\ Coming(s) /\ PassedOver(s) /\ Fresh(s)
    BY DEF Good
<1>4. Asked' \subseteq Asked /\ (s # r /\ s \in Asked => s \in Asked')
    BY <1>2, TakenAsked
<1>5. Parsing(s) = FALSE /\ Parsing(s)' = FALSE /\ Delivered(s) = 0 /\ Delivered(s)' = 0
    BY DEF Parsing, Delivered
<1>6. PassedOver(s)'
    BY <1>3, <1>4, <1>5 DEF PassedOver
<1>7. Gone \in Said
    BY DEF Said
<1>8. CASE s # r
    <2>1. /\ HeardOf(s)' /\ Total(s, got'[s], recvQueue') = Total(s, got[s], recvQueue)
          /\ Places(recvQueue, s) = {} => Places(recvQueue', s) = {}
        BY <1>1, <1>2, <1>3, <1>7, <1>8, AnnounceOther
    <2>2. ASSUME s \in live' /\ s \notin Asked' PROVE CourseOf(s)'
        <3>1. CourseOf(s)
            BY <1>1, <1>3, <1>4, <1>8, <2>2 DEF Coming
        <3>2. buf'[s] = buf[s] /\ net'[s] = net[s] /\ (s \in lost') = (s \in lost)
            BY <1>1, <1>2, <1>8
        <3> QED
            BY <1>5, <2>1, <3>1, <3>2, CourseKept
    <2>3. s > lastId' => got'[s] = <<>> /\ Places(recvQueue', s) = {} /\ sent'[s] = 0 /\ s \notin Asked'
        BY <1>1, <1>3, <1>4, <2>1 DEF Fresh
    <2> QED
        BY <1>6, <2>1, <2>2, <2>3, GoodHolds
<1>9. CASE s = r
    <2>1. recvQueue' = Append(recvQueue, Told(s, Gone)) /\ s \notin live' /\ s <= lastId
        BY <1>1, <1>2, <1>9
    <2>2. Story(s, got[s], recvQueue, TRUE, TRUE)
        BY <1>3, <1>9, <2>1, Zenon DEF HeardOf, Story
    <2>3. Total(s, got[s], recvQueue) > 0 /\ Total(s, got[s], recvQueue) \in Nat
        BY <2>2, SessionTypes DEF Story
    <2>4. InPlace(Total(s, got[s], recvQueue), Gone)
        BY <2>3 DEF InPlace
    <2>5. HeardOf(s)'
        BY <1>7, <2>1, <2>2, <2>4, AnnounceNext
    <2>6. ~(s > lastId')
        BY <1>1, <1>2, <1>9
    <2> QED
        BY <1>6, <2>1, <2>5, <2>6, GoodHolds
<1> QED
    BY <1>8, <1>9

\* A session is to be closed: it asks, and is not read again.
LEMMA AskGood ==
    ASSUME Types, NEW r \in live, AddOneCloseSessionWork(r),
           UNCHANGED <<got, recvQueue, live, lastId, buf, net, sent, lost>>,
           NEW s \in Sids \ late', Good(s),
           at' # "connected", readable' \subseteq readable, r \notin readable', ~Parsing(r)',
           s # r => Parsing(s)' = Parsing(s) /\ Delivered(s)' = Delivered(s)
    PROVE  Good(s)'
<1>1. /\ Asked \subseteq Asked' /\ late \subseteq late' /\ (s \in Asked' => s \in Asked \/ s = r)
      /\ r \in Asked' \/ r \in late' 
      /\ r \in Sids
    <2>1. r \in Sids /\ closes \in Seq(Sids)
        BY Facts DEF CloseOK
    <2> QED
        BY <2>1, AskMoves
<1>2. HeardOf(s) /\ Coming(s) /\ PassedOver(s) /\ Fresh(s)
    BY DEF Good
<1>3. s \in Nat /\ lastId \in Nat /\ live \subseteq 1 .. lastId
    BY SessionTypes
<1>4. CASE s # r
    <2>1. PassedOver(s)'
        BY <1>1, <1>2, <1>4 DEF PassedOver
    <2>2. s > lastId => s \notin Asked'
        BY <1>1, <1>2, <1>4 DEF Fresh
    <2> QED
        BY <1>1, <1>4, <2>1, <2>2, QuietGood
<1>5. CASE s = r
    <2>1. s \in Asked' /\ ~(s > lastId')
        BY <1>1, <1>3, <1>5
    <2>2. HeardOf(s)'
        BY <1>2, StoryHolds DEF HeardOf
    <2>3. PassedOver(s)'
        BY <1>5 DEF PassedOver
    <2> QED
        BY <2>1, <2>2, <2>3, GoodHolds
<1> QED
    BY <1>4, <1>5

\* A socket is read: the session was not to be closed.
LEMMA SessionRecvGood ==
    ASSUME Types, NEW r \in Sids, SessionRecv(r), NEW s \in Sids \ late', Good(s)
    PROVE  Good(s)'
<1>1. /\ at = "work" /\ r \in readable /\ r \in live
      /\ UNCHANGED <<got, recvQueue, live, lastId, sent, lost>>
    BY Facts DEF SessionRecv, ReadOK, poolVars, boundVars, heardVars, mainVars
<1>2. CASE RecvFails(r) /\ UNCHANGED <<at, current, parsed, net, buf>>
    <2>1. AddOneCloseSessionWork(r) /\ readable' = readable \ {r}
        BY <1>2 DEF RecvFails
    <2>2. ~Parsing(r)' /\ Parsing(s)' = Parsing(s) /\ Delivered(s)' = Delivered(s) /\ at' # "connected"
        BY <1>1, <1>2 DEF Parsing, Delivered
    <2> QED
        BY <1>1, <1>2, <2>1, <2>2, AskGood
<1>3. CASE /\ buf' = [buf EXCEPT ![r] = @ \o SubSeq(net[r], 1, FitsBuffer(r))]
           /\ net' = [net EXCEPT ![r] = SubSeq(@, FitsBuffer(r) + 1, Len(@))]
           /\ at' = "parse" /\ current' = r /\ parsed' = 0
           /\ UNCHANGED <<closes, readable>>
    <2>1. /\ buf \in [Sids -> Seq(Nat)] /\ net \in [Sids -> Seq(Nat)] /\ Len(buf[r]) <= BufCap
          /\ BufCap \in Nat
        BY Facts, Bounds DEF BufOK, NetOK
    <2>2. Asked' = Asked /\ HeardOf(s) /\ Coming(s) /\ PassedOver(s) /\ Fresh(s)
        BY <1>3 DEF Good, Asked
    <2>3. s > lastId => s \notin Asked'
        BY <2>2 DEF Fresh
    <2>4. Parsing(s) = FALSE /\ Delivered(s) = 0
        BY <1>1 DEF Parsing, Delivered
    <2>5. CASE s # r
        <3>1. Parsing(s)' = FALSE /\ Delivered(s)' = 0
            BY <1>3, <2>5 DEF Parsing, Delivered
        <3>2. buf'[s] = buf[s] /\ net'[s] = net[s]
            BY <1>3, <2>1, <2>5
        <3>3. PassedOver(s)'
            BY <1>3, <2>2, <3>1 DEF PassedOver
        <3>4. HeardOf(s)'
            BY <1>1, <2>2, StoryHolds DEF HeardOf
        <3>5. s \in live' /\ s \notin Asked' => CourseOf(s)'
            BY <1>1, <2>2, <2>4, <3>1, <3>2, CourseKept DEF Coming
        <3>6. s > lastId' => got'[s] = <<>> /\ Places(recvQueue', s) = {} /\ sent'[s] = 0 /\ s \notin Asked'
            BY <1>1, <2>2 DEF Fresh
        <3> QED
            BY <3>3, <3>4, <3>5, <3>6, GoodHolds
    <2>6. CASE s = r
        <3>1. s \notin Asked /\ s \in live
            BY <1>1, <2>2, <2>6 DEF PassedOver
        <3>2. PassedOver(s)'
            BY <2>2, <3>1 DEF PassedOver
        <3>3. HeardOf(s)'
            BY <1>1, <2>2, StoryHolds DEF HeardOf
        <3> DEFINE t == Total(s, got[s], recvQueue)
        <3> DEFINE b == buf[s]
        <3> DEFINE n == net[s]
        <3> DEFINE m == FitsBuffer(s)
        <3>4. m \in 0 .. Len(n)
            BY <2>1, <2>6 DEF FitsBuffer
        <3>5. Course(t, b, n, sent[s], s \in lost, FALSE, 0)
            BY <2>2, <2>4, <3>1 DEF Coming, CourseOf
        <3>6. t \in Nat /\ n \in Seq(Nat) /\ sent[s] \in Nat /\ (s \in lost) \in BOOLEAN
            BY SessionTypes
        <3>7. /\ buf'[s] = b \o SubSeq(n, 1, m) /\ net'[s] = SubSeq(n, m + 1, Len(n))
              /\ Total(s, got'[s], recvQueue') = t /\ sent'[s] = sent[s] /\ (s \in lost') = (s \in lost)
              /\ Parsing(s)' = TRUE /\ Delivered(s)' = 0
            BY <1>1, <1>3, <2>1, <2>6 DEF Parsing, Delivered
        <3> HIDE DEF t, b, n, m
        <3>8. Course(t, b \o SubSeq(n, 1, m), SubSeq(n, m + 1, Len(n)), sent[s], s \in lost, TRUE, 0)
            BY <3>4, <3>5, <3>6, CourseRead
        <3>9. CourseOf(s)'
            BY <3>7, <3>8, CourseHolds
        <3>10. s > lastId' => got'[s] = <<>> /\ Places(recvQueue', s) = {} /\ sent'[s] = 0 /\ s \notin Asked'
            BY <1>1, <2>2 DEF Fresh
        <3> QED
            BY <3>2, <3>3, <3>9, <3>10, GoodHolds
    <2> QED
        BY <2>5, <2>6
<1> QED
    BY <1>2, <1>3 DEF SessionRecv, closeVars

\* The next frame of the buffer is said, or the session is to be closed.
LEMMA ParsePacketGood ==
    ASSUME Types, ParsePacket, NEW s \in Sids \ (late' \cup unheard'), Good(s)
    PROVE  Good(s)'
<1>0. PICK r : r = current
    OBVIOUS
<1> DEFINE frame == buf[current][parsed + 1]
<1>1. /\ at = "parse" /\ r \in live /\ r \in Sids /\ parsed \in 0 .. Len(buf[r]) /\ parsed < Len(buf[r])
      /\ UNCHANGED <<got, live, lastId, buf, net, sent, lost>>
    BY <1>0, Facts DEF ParsePacket, ReadOK, poolVars, socketVars, boundVars, mainVars
<1>2. HeardOf(s) /\ Coming(s) /\ PassedOver(s) /\ Fresh(s)
    BY DEF Good
<1>3. CASE /\ at' = "work" /\ current' = 0 /\ parsed' = 0 /\ RecvFails(r) /\ recvQueue' = recvQueue
    <2>1. AddOneCloseSessionWork(r) /\ readable' = readable \ {r}
        BY <1>3 DEF RecvFails
    <2>2. ~Parsing(r)' /\ at' # "connected"
        BY <1>3 DEF Parsing
    <2>3. s # r => Parsing(s)' = Parsing(s) /\ Delivered(s)' = Delivered(s)
        BY <1>0, <1>1, <1>3 DEF Parsing, Delivered
    <2> QED
        BY <1>1, <1>3, <2>1, <2>2, <2>3, AskGood
<1>4. CASE /\ frame # Bad /\ recvQueue' = Append(recvQueue, Told(r, frame)) /\ parsed' = parsed + 1
           /\ UNCHANGED <<at, current, closes, readable>>
    <2>1. Asked' = Asked
        BY <1>4 DEF Asked
    <2>2. Parsing(s)' = Parsing(s) /\ Parsing(s) = (s = r)
        BY <1>0, <1>1, <1>4 DEF Parsing
    <2>3. PassedOver(s)'
        BY <1>2, <1>4, <2>1, <2>2 DEF PassedOver
    <2>4. frame \in Nat
        <3>1. buf[r] \in Seq(Nat)
            BY <1>1, SessionTypes
        <3> QED
            BY <1>0, <1>1, <3>1
    <2>5. CASE s # r
        <3>1. Story(s, got[s], Append(recvQueue, Told(r, frame)), s \in live, s <= lastId)
              /\ Total(s, got[s], Append(recvQueue, Told(r, frame))) = Total(s, got[s], recvQueue)
            <4>1. Told(r, frame) \in Notes /\ Told(r, frame).s # s
                BY <1>1, <2>4, <2>5 DEF Told, Notes
            <4> QED
                BY <1>2, <4>1, SessionTypes, StoryOther DEF HeardOf
        <3>2. HeardOf(s)' /\ Total(s, got'[s], recvQueue') = Total(s, got[s], recvQueue)
            BY <1>1, <1>4, <3>1, StoryHolds
        <3>3. Delivered(s)' = Delivered(s)
            BY <2>2, <2>5 DEF Delivered
        <3>4. s \in live' /\ s \notin Asked' => CourseOf(s)'
            BY <1>1, <1>2, <2>1, <2>2, <3>2, <3>3, CourseKept DEF Coming
        <3>5. Places(recvQueue, s) = {} => Places(recvQueue', s) = {}
            <4>1. recvQueue \in Seq(Notes) /\ Told(r, frame).s # s
                BY <2>5, SessionTypes DEF Told
            <4> QED
                BY <1>4, <4>1 DEF Places
        <3>6. s > lastId' => got'[s] = <<>> /\ Places(recvQueue', s) = {} /\ sent'[s] = 0 /\ s \notin Asked'
            BY <1>1, <1>2, <2>1, <3>5 DEF Fresh
        <3> QED
            BY <2>3, <3>2, <3>4, <3>6, GoodHolds
    <2>6. CASE s = r
        <3>1. s \notin Asked /\ s \in live /\ s <= lastId /\ ~(s > lastId')
            <4>1. s \in live /\ s \in Nat /\ lastId \in Nat /\ live \subseteq 1 .. lastId
                BY <1>0, <1>1, <2>6, SessionTypes
            <4>2. s \notin Asked
                BY <1>2, <2>2, <2>6 DEF PassedOver
            <4> QED
                BY <1>1, <4>1, <4>2
        <3> DEFINE t == Total(s, got[s], recvQueue)
        <3> DEFINE b == buf[s]
        <3> DEFINE n == net[s]
        <3> DEFINE k == parsed
        <3>2. Course(t, b, n, sent[s], s \in lost, TRUE, k)
            BY <1>2, <2>2, <2>6, <3>1 DEF Coming, CourseOf, Delivered
        <3>3. /\ t \in Nat /\ b \in Seq(Nat) /\ n \in Seq(Nat) /\ sent[s] \in Nat
              /\ (s \in lost) \in BOOLEAN /\ k \in Nat /\ k < Len(b)
            BY <1>0, <1>1, <2>6, SessionTypes
        <3>4. t > 0 /\ Story(s, got[s], recvQueue, TRUE, TRUE)
            BY <1>2, <3>1 DEF HeardOf, Story
        <3>5. frame = b[k + 1] /\ recvQueue' = Append(recvQueue, Told(s, frame))
            BY <1>0, <1>4, <2>6
        <3> HIDE DEF t, b, n, k, frame
        <3>6. frame \in {Bad, t} /\ Course(t + 1, b, n, sent[s], s \in lost, TRUE, k + 1)
            <4>1. k + 1 \in 1 .. Len(b)
                BY <3>3
            <4>2. b[k + 1] \in {Bad, t} /\ Course(t + 1, b, n, sent[s], s \in lost, TRUE, k + 1)
                BY <3>2, <3>3, <4>1, CourseParsed
            <4> QED
                BY <3>5, <4>2
        <3>7. frame = t
            BY <1>4, <3>6
        <3>8. InPlace(t, frame) /\ frame # Gone /\ frame \in Said
            BY <3>3, <3>4, <3>7 DEF InPlace, Gone, Said
        <3>9. HeardOf(s)' /\ Total(s, got'[s], recvQueue') = t + 1
            BY <1>1, <3>4, <3>5, <3>8, AnnounceNext DEF t
        <3>10. /\ buf'[s] = b /\ net'[s] = n /\ sent'[s] = sent[s] /\ (s \in lost') = (s \in lost)
               /\ Parsing(s)' = TRUE /\ Delivered(s)' = k + 1
            BY <1>1, <1>4, <2>2, <2>6 DEF Delivered, b, n, k
        <3>11. CourseOf(s)'
            BY <3>6, <3>9, <3>10, CourseHolds
        <3> QED
            BY <2>3, <3>1, <3>9, <3>11, GoodHolds
    <2> QED
        BY <2>5, <2>6
<1> QED
    BY <1>0, <1>3, <1>4 DEF ParsePacket, closeVars

\* The buffer is emptied behind the last of them.
LEMMA ParseEndsGood ==
    ASSUME Types, ParseEnds, NEW s \in Sids, Good(s)
    PROVE  Good(s)'
<1> DEFINE r == current
<1>1. /\ at = "parse" /\ r \in live /\ r \in Sids /\ parsed = Len(buf[r]) /\ buf \in [Sids -> Seq(Nat)]
      /\ UNCHANGED <<got, recvQueue, live, lastId, net, sent, lost, closes>>
      /\ at' = "work" /\ readable' = readable \ {r} /\ buf' = [buf EXCEPT ![r] = <<>>]
    BY Facts DEF ParseEnds, ReadOK, BufOK, poolVars, socketVars, heardVars, closeVars, boundVars, mainVars
<1>2. HeardOf(s) /\ Coming(s) /\ PassedOver(s) /\ Fresh(s) /\ Asked' = Asked
    BY <1>1 DEF Good, Asked
<1>3. Parsing(s)' = FALSE /\ Delivered(s)' = 0 /\ Parsing(s) = (s = r)
    BY <1>1 DEF Parsing, Delivered
<1>4. PassedOver(s)' /\ HeardOf(s)'
    <2>1. PassedOver(s)'
        BY <1>1, <1>2, <1>3 DEF PassedOver
    <2> QED
        BY <1>1, <1>2, <2>1, StoryHolds DEF HeardOf
<1>5. s > lastId' => got'[s] = <<>> /\ Places(recvQueue', s) = {} /\ sent'[s] = 0 /\ s \notin Asked'
    BY <1>1, <1>2 DEF Fresh
<1>6. ASSUME s \in live', s \notin Asked' PROVE CourseOf(s)'
    <2>1. CourseOf(s)
        BY <1>1, <1>2, <1>6 DEF Coming
    <2>2. CASE s # r
        <3>1. buf'[s] = buf[s] /\ Delivered(s) = 0 /\ Parsing(s) = FALSE
            BY <1>1, <1>3, <2>2 DEF Delivered
        <3> QED
            BY <1>1, <1>3, <2>1, <3>1, CourseKept
    <2>3. CASE s = r
        <3> DEFINE t == Total(s, got[s], recvQueue)
        <3> DEFINE b == buf[s]
        <3> DEFINE n == net[s]
        <3>1. Course(t, b, n, sent[s], s \in lost, TRUE, Len(b))
            BY <1>1, <1>3, <2>1, <2>3 DEF CourseOf, Delivered
        <3>2. t \in Nat /\ b \in Seq(Nat) /\ n \in Seq(Nat) /\ sent[s] \in Nat /\ (s \in lost) \in BOOLEAN
            BY SessionTypes
        <3>3. /\ Total(s, got'[s], recvQueue') = t /\ buf'[s] = <<>> /\ net'[s] = n /\ sent'[s] = sent[s]
              /\ (s \in lost') = (s \in lost)
            BY <1>1, <2>3
        <3> HIDE DEF t, b, n
        <3>4. Course(t, <<>>, n, sent[s], s \in lost, FALSE, 0)
            BY <3>1, <3>2, CourseEmptied
        <3> QED
            BY <1>3, <3>3, <3>4, CourseHolds
    <2> QED
        BY <2>2, <2>3
<1> QED
    BY <1>4, <1>5, <1>6, GoodHolds

\* The main thread takes the first thing.
LEMMA MainTakesGood ==
    ASSUME Types, MainTakes, NEW s \in Sids, Good(s)
    PROVE  Good(s)'
<1> DEFINE q == recvQueue
<1> DEFINE h == Head(recvQueue)
<1>1. /\ q # <<>> /\ recvQueue' = Tail(q) /\ got' = [got EXCEPT ![h.s] = Append(@, h.what)]
      /\ UNCHANGED <<at, current, parsed, readable, closes, live, lastId, buf, net, sent, lost>>
    BY DEF MainTakes, turnVars, poolVars, sessionVars, socketVars, boundVars, closeVars
<1>2. /\ q \in Seq(Notes) /\ h \in Notes /\ h.s \in Sids /\ got \in [Sids -> Seq(Said)] /\ got[s] \in Seq(Said)
    <2>1. q \in Seq(Notes) /\ got \in [Sids -> Seq(Said)]
        BY Facts DEF HeardOK, HistOK, Said
    <2>2. h \in Notes
        BY <1>1, <2>1, HeadAndTail
    <2> QED
        BY <2>1, <2>2 DEF Notes
<1>3. Asked' = Asked /\ Parsing(s)' = Parsing(s) /\ Delivered(s)' = Delivered(s)
    BY <1>1 DEF Asked, Parsing, Delivered
<1>4. HeardOf(s) /\ Coming(s) /\ PassedOver(s) /\ Fresh(s)
    BY DEF Good
<1>5. PassedOver(s)'
    BY <1>1, <1>3, <1>4 DEF PassedOver
<1> HIDE DEF q, h
<1>6. /\ HeardOf(s)' /\ Total(s, got'[s], recvQueue') = Total(s, got[s], recvQueue)
      /\ got[s] = <<>> /\ Places(recvQueue, s) = {} => got'[s] = <<>> /\ Places(recvQueue', s) = {}
    <2>1. CASE h.s = s
        <3> DEFINE g1 == Append(got[s], h.what)
        <3>1. got'[s] = g1
            BY <1>1, <1>2, <2>1
        <3>2. /\ Total(s, g1, Tail(q)) = Total(s, got[s], q) /\ Places(q, s) # {}
              /\ Story(s, g1, Tail(q), s \in live, s <= lastId)
            <4>1. Story(s, got[s], q, s \in live, s <= lastId) /\ Head(q).s = s
                BY <1>4, <2>1 DEF HeardOf, q, h
            <4> QED
                BY <1>1, <1>2, <4>1, StoryTaken DEF h, q
        <3> HIDE DEF g1
        <3>3. HeardOf(s)'
            BY <1>1, <3>1, <3>2, StoryHolds
        <3> QED
            BY <1>1, <3>1, <3>2, <3>3 DEF q
    <2>2. CASE h.s # s
        <3>1. got'[s] = got[s]
            BY <1>1, <1>2, <2>2
        <3>2. /\ Total(s, got[s], Tail(q)) = Total(s, got[s], q)
              /\ Places(q, s) = {} => Places(Tail(q), s) = {}
              /\ Story(s, got[s], Tail(q), s \in live, s <= lastId)
            <4>1. Story(s, got[s], q, s \in live, s <= lastId) /\ Head(q).s # s
                BY <1>4, <2>2 DEF HeardOf, q, h
            <4> QED
                BY <1>1, <1>2, <4>1, StoryPassed
        <3>3. HeardOf(s)'
            BY <1>1, <3>1, <3>2, StoryHolds
        <3> QED
            BY <1>1, <3>1, <3>2, <3>3 DEF q
    <2> QED
        BY <2>1, <2>2
<1>7. s \in live' /\ s \notin Asked' => CourseOf(s)'
    <2>1. ASSUME CourseOf(s) PROVE CourseOf(s)'
        BY <1>1, <1>3, <1>6, <2>1, CourseKept
    <2> QED
        BY <1>1, <1>3, <1>4, <2>1 DEF Coming
<1>8. s > lastId' => got'[s] = <<>> /\ Places(recvQueue', s) = {} /\ sent'[s] = 0 /\ s \notin Asked'
    BY <1>1, <1>3, <1>4, <1>6 DEF Fresh
<1> QED
    BY <1>5, <1>6, <1>7, <1>8, GoodHolds

\* A peer sends a frame, or goes with some of what it has sent.
LEMMA PeerGood ==
    ASSUME Types, NEW r \in Sids, PeerSends(r) \/ PeerGoes(r), NEW s \in Sids, Good(s)
    PROVE  Good(s)'
<1>1. /\ r \in live /\ r \notin lost
      /\ UNCHANGED <<at, current, parsed, readable, closes, live, lastId, buf, got, recvQueue>>
    BY DEF PeerSends, PeerGoes, turnVars, poolVars, sessionVars, heardVars, closeVars, mainVars
<1>2. Asked' = Asked /\ Parsing(s)' = Parsing(s) /\ Delivered(s)' = Delivered(s)
    BY <1>1 DEF Asked, Parsing, Delivered
<1>3. HeardOf(s) /\ Coming(s) /\ PassedOver(s) /\ Fresh(s)
    BY DEF Good
<1>4. /\ s \in Nat /\ lastId \in Nat /\ live \subseteq 1 .. lastId /\ lost \subseteq live
      /\ net \in [Sids -> Seq(Nat)] /\ sent \in [Sids -> Nat]
    BY SessionTypes, Facts DEF NetOK
<1>5. PassedOver(s)' /\ HeardOf(s)'
    <2>1. PassedOver(s)'
        BY <1>1, <1>2, <1>3 DEF PassedOver
    <2> QED
        BY <1>1, <1>3, <2>1, StoryHolds DEF HeardOf
<1>6. CASE s # r
    <2>1. net'[s] = net[s] /\ sent'[s] = sent[s] /\ (s \in lost') = (s \in lost)
        BY <1>1, <1>4, <1>6 DEF PeerSends, PeerGoes
    <2>2. ASSUME CourseOf(s) PROVE CourseOf(s)'
        BY <1>1, <1>2, <2>1, <2>2, CourseKept
    <2>3. s > lastId' => got'[s] = <<>> /\ Places(recvQueue', s) = {} /\ sent'[s] = 0 /\ s \notin Asked'
        BY <1>1, <1>2, <1>3, <2>1 DEF Fresh
    <2> QED
        BY <1>1, <1>2, <1>3, <1>5, <2>2, <2>3, GoodHolds DEF Coming
<1>7. CASE s = r
    <2>1. ~(s > lastId')
        BY <1>1, <1>4, <1>7
    <2>2. ASSUME CourseOf(s) PROVE CourseOf(s)'
        <3> DEFINE t == Total(s, got[s], recvQueue)
        <3> DEFINE b == buf[s]
        <3> DEFINE n == net[s]
        <3> DEFINE c == sent[s]
        <3> DEFINE p == Parsing(s)
        <3> DEFINE k == Delivered(s)
        <3>1. Course(t, b, n, c, FALSE, p, k)
            <4>1. (s \in lost) = FALSE
                BY <1>1, <1>7
            <4> QED
                BY <2>2, <4>1 DEF CourseOf
        <3>2. /\ t \in Nat /\ b \in Seq(Nat) /\ n \in Seq(Nat) /\ c \in Nat /\ p \in BOOLEAN /\ k \in Nat
            BY SessionTypes
        <3>3. /\ Total(s, got'[s], recvQueue') = t /\ buf'[s] = b
              /\ Parsing(s)' = p /\ Delivered(s)' = k
            BY <1>1, <1>2
        <3>4. CASE PeerSends(r)
            <4>1. PICK e \in {Bad, c + 1} : net' = [net EXCEPT ![r] = Append(@, e)]
                BY <1>7, <3>4 DEF PeerSends
            <4>2. net'[s] = Append(n, e) /\ sent'[s] = c + 1 /\ (s \in lost') = FALSE
                BY <1>1, <1>4, <1>7, <3>4, <4>1 DEF PeerSends
            <4> HIDE DEF t, b, n, c, p, k
            <4>3. Course(t, b, Append(n, e), c + 1, FALSE, p, k)
                BY <3>1, <3>2, CourseSent
            <4> QED
                BY <3>3, <4>2, <4>3, CourseHolds
        <3>5. CASE PeerGoes(r)
            <4>1. PICK m \in 0 .. Len(net[r]) : net' = [net EXCEPT ![r] = SubSeq(@, 1, m)]
                BY <3>5 DEF PeerGoes
            <4>2. /\ net'[s] = SubSeq(n, 1, m) /\ (s \in lost') = TRUE /\ m \in 0 .. Len(n)
                BY <1>1, <1>4, <1>7, <3>5, <4>1 DEF PeerGoes
            <4> HIDE DEF t, b, n, c, p, k
            <4>3. Course(t, b, SubSeq(n, 1, m), sent'[s], TRUE, p, k)
                BY <3>1, <3>2, <4>2, CourseLost
            <4> QED
                BY <3>3, <4>2, <4>3, CourseHolds
        <3> QED
            BY <3>4, <3>5
    <2> QED
        BY <1>1, <1>2, <1>3, <1>5, <2>1, <2>2, GoodHolds DEF Coming
<1> QED
    BY <1>6, <1>7

\* Everything else leaves alone what is said, read and sent.
LEMMA QuietTurn ==
    ASSUME UNCHANGED <<got, recvQueue, live, lastId, buf, net, sent, lost, closes, readable>>,
           at' # "connected" \/ at' = at, NEW s, Good(s),
           Parsing(s)' = Parsing(s), Delivered(s)' = Delivered(s)
    PROVE  Good(s)'
<1>1. Asked' = Asked /\ PassedOver(s) /\ Fresh(s)
    BY DEF Good, Asked
<1>2. PassedOver(s)'
    BY <1>1 DEF PassedOver
<1>3. s > lastId => s \notin Asked'
    BY <1>1 DEF Fresh
<1> QED
    BY <1>1, <1>2, <1>3, QuietGood

\* A packet is sent: the session may be given up.
LEMMA SendGood ==
    ASSUME Types, at \notin {"work", "parse"} => readable = {}, SendOne \/ SendDirect \/ Flush,
           NEW s \in Sids \ late', Good(s)
    PROVE  Good(s)'
<1>1. /\ UNCHANGED <<got, recvQueue, live, lastId, buf, net, sent, lost, readable>>
      /\ readable = {} /\ at \notin {"parse", "connected"} /\ at' \notin {"parse", "connected"}
    BY DEF SendOne, SendDirect, Flush, EventsDone, poolVars, boundVars, heardVars, mainVars, socketVars
<1>2. ASSUME NEW r \in Sids PROVE Parsing(r)' = FALSE /\ Parsing(r) = FALSE /\ Delivered(r)' = Delivered(r)
    BY <1>1 DEF Parsing, Delivered
<1>3. UNCHANGED closes \/ \E r \in live : AddOneCloseSessionWork(r)
    <2>1. CASE SendOne
        BY <2>1 DEF SendOne, GiveUp, closeVars
    <2>2. CASE SendDirect
        BY <2>2, Facts DEF SendDirect, GiveUp, closeVars, HandOK
    <2>3. CASE Flush
        BY <2>3, Facts DEF Flush, GiveUp, closeVars, HandOK
    <2> QED
        BY <2>1, <2>2, <2>3
<1>4. CASE UNCHANGED closes
    BY <1>1, <1>2, <1>4, QuietTurn
<1>5. ASSUME NEW r \in live, AddOneCloseSessionWork(r) PROVE Good(s)'
    <2>1. r \in Sids
        BY Facts
    <2>2. ~Parsing(r)' /\ Parsing(s)' = Parsing(s) /\ Delivered(s)' = Delivered(s)
        BY <1>2, <2>1
    <2>3. at' # "connected" /\ readable' \subseteq readable /\ r \notin readable'
        BY <1>1
    <2> QED
        BY <1>1, <1>5, <2>2, <2>3, AskGood
<1> QED
    BY <1>3, <1>4, <1>5

\* A step of the net thread that opens, closes or marks sessions
LEMMA NetTurnGood ==
    ASSUME Types, Types', CloseOne \/ CloseEnds \/ ConnectedOne \/ Select,
           NEW s \in Sids \ (late' \cup unheard'), Good(s)
    PROVE  Good(s)'
<1>1. CASE CloseOne
    <2>1. /\ at = "close" /\ closes # <<>> /\ closes' = Tail(closes)
          /\ UNCHANGED <<at, readable, current, parsed, got, sent>>
        BY <1>1 DEF CloseOne, boundVars, mainVars
    <2>2. CASE Head(closes) \in live
        <3>1. PICK r \in live : r = Head(closes)
            BY <2>2
        <3>2. CloseSession(r)
            BY <1>1, <3>1 DEF CloseOne
        <3> QED
            BY <2>1, <3>1, <3>2, CloseGood
    <2>3. CASE Head(closes) \notin live
        <3>1. UNCHANGED <<got, recvQueue, live, lastId, buf, net, sent, lost>>
            BY <1>1, <2>1, <2>3 DEF CloseOne, poolVars, sessionVars
        <3>2. closes \in Seq(Sids)
            BY Facts DEF CloseOK
        <3>3. Asked' \subseteq Asked /\ \A r \in Asked : r # Head(closes) => r \in Asked'
            BY <2>1, <3>2, TakenAsked
        <3>4. Parsing(s)' = Parsing(s) /\ Delivered(s)' = Delivered(s)
            BY <2>1 DEF Parsing, Delivered
        <3>5. PassedOver(s)' /\ (s > lastId => s \notin Asked')
            <4>1. PassedOver(s) /\ Fresh(s)
                BY DEF Good
            <4>2. PassedOver(s)'
                BY <2>1, <3>3, <3>4, <4>1 DEF PassedOver
            <4> QED
                BY <3>3, <4>1, <4>2 DEF Fresh
        <3>6. s \in live /\ s \in Asked => s \in Asked'
            BY <2>3, <3>3
        <3> QED
            BY <3>1, <3>4, <3>5, <3>6, QuietGood
    <2> QED
        BY <2>2, <2>3
<1>2. CASE CloseEnds
    <2>1. /\ UNCHANGED <<got, recvQueue, live, lastId, buf, net, sent, lost, closes>>
          /\ at = "close" /\ at' = "connected" /\ late' = late \cup Asked
        BY <1>2 DEF CloseEnds, Asked, poolVars, sessionVars, socketVars, boundVars, heardVars, mainVars
    <2>2. Asked' = Asked /\ s \notin Asked
        BY <2>1 DEF Asked
    <2>3. Parsing(s)' = Parsing(s) /\ Delivered(s)' = Delivered(s) /\ PassedOver(s)'
        BY <2>1, <2>2 DEF Parsing, Delivered, PassedOver
    <2> QED
        BY <2>1, <2>2, <2>3, QuietGood
<1>3. CASE ConnectedOne \/ Select
    <2>1. /\ at = "connected" /\ at' \in {"connected", "work"}
          /\ UNCHANGED <<got, buf, net, sent, lost, closes>>
          /\ UNCHANGED <<live, lastId, recvQueue>> \/ \E flag : OpenSession(flag)
        BY <1>3 DEF ConnectedOne, Select, poolVars, sessionVars, socketVars, boundVars, closeVars, mainVars
    <2>2. CASE UNCHANGED <<live, lastId, recvQueue>>
        <3>1. Asked' = Asked /\ s \notin Asked
            BY <2>1 DEF Good, PassedOver, Asked
        <3>2. Parsing(s)' = Parsing(s) /\ Delivered(s)' = Delivered(s) /\ PassedOver(s)'
            BY <2>1, <3>1 DEF Parsing, Delivered, PassedOver
        <3> QED
            BY <2>1, <2>2, <3>1, <3>2, QuietGood
    <2>3. ASSUME NEW flag, OpenSession(flag) PROVE Good(s)'
        BY <2>1, <2>3, OpenGood
    <2> QED
        BY <2>1, <2>2, <2>3
<1> QED
    BY <1>1, <1>2, <1>3

\* A step that touches neither the closes nor what is read and heard
LEMMA StillGood ==
    ASSUME \/ \E t \in Sids : BecomesSendable(t)
           \/ FlushEnds \/ SendEnds \/ MainPosts
           \/ \E p \in Packets, S \in (SUBSET connected) \ {{}} : MainFills(p, S)
           \/ \E e \in filling : AddOneSendPacket(e)
           \/ ConnectThreads \/ PeerConnects \/ (\E t \in Sids : PeerReads(t)) \/ UNCHANGED vars,
           NEW s, Good(s)
    PROVE  Good(s)'
<1>1. CASE FlushEnds \/ SendEnds \/ \E t \in Sids : BecomesSendable(t)
    <2>1. /\ UNCHANGED <<got, recvQueue, live, lastId, buf, net, sent, lost, closes, current, parsed>>
          /\ readable' = readable /\ at # "parse" /\ at' \notin {"parse", "connected"}
        BY <1>1 DEF FlushEnds, SendEnds, BecomesSendable, EventsDone, poolVars, sessionVars, socketVars,
                    boundVars, heardVars, closeVars, mainVars
    <2>2. Parsing(s)' = Parsing(s) /\ Delivered(s)' = Delivered(s)
        BY <2>1 DEF Parsing, Delivered
    <2> QED
        BY <2>1, <2>2, QuietTurn
<1>2. CASE ~(FlushEnds \/ SendEnds \/ \E t \in Sids : BecomesSendable(t))
    <2>1. UNCHANGED <<got, recvQueue, live, lastId, buf, net, sent, lost, closes, readable, at, current, parsed>>
        <3>1. CASE MainPosts
            BY <3>1 DEF MainPosts, turnVars, poolVars, sessionVars, socketVars, boundVars, heardVars,
                        closeVars, mainVars
        <3>2. CASE \E p \in Packets, S \in (SUBSET connected) \ {{}} : MainFills(p, S)
            BY <3>2 DEF MainFills, turnVars, poolVars, sessionVars, socketVars, boundVars, heardVars,
                        closeVars
        <3>3. CASE \E e \in filling : AddOneSendPacket(e)
            BY <3>3 DEF AddOneSendPacket, turnVars, poolVars, sessionVars, socketVars, boundVars,
                        heardVars, closeVars
        <3>4. CASE ConnectThreads
            BY <3>4 DEF ConnectThreads, AddOneConnectWork, StartConnect, CompleteConnectWork, turnVars,
                        poolVars, sessionVars, socketVars, boundVars, heardVars, closeVars, mainVars
        <3>5. CASE PeerConnects \/ \E t \in Sids : PeerReads(t)
            BY <3>5 DEF PeerConnects, PeerReads, turnVars, poolVars, sessionVars, boundVars, heardVars,
                        closeVars, mainVars
        <3>6. CASE UNCHANGED vars
            BY <3>6 DEF vars, turnVars, poolVars, sessionVars, socketVars, boundVars, heardVars,
                        closeVars, mainVars
        <3> QED
            BY <1>2, <3>1, <3>2, <3>3, <3>4, <3>5, <3>6
    <2>2. Parsing(s)' = Parsing(s) /\ Delivered(s)' = Delivered(s)
        BY <2>1 DEF Parsing, Delivered
    <2> QED
        BY <2>1, <2>2, QuietTurn
<1> QED
    BY <1>1, <1>2

\* Nothing is left to be read when the thread sends, closes and opens.
LEMMA NextReads ==
    ASSUME Types', at \notin {"work", "parse"} => readable = {}, [Next]_vars
    PROVE  at' \notin {"work", "parse"} => readable' = {}
<1>1. CASE at' \in {"close", "connected", "work", "parse"}
    BY <1>1, FactsNext DEF Types, ReadOK
<1>2. CASE at' \notin {"close", "connected", "work", "parse"}
    <2>1. SendOne \/ UNCHANGED <<at, readable>>
        <3>1. CASE NetThread
            BY <1>2, <3>1 DEF NetThread, CloseOne, CloseEnds, ConnectedOne, Select, ParsePacket,
                ParseEnds, SendDirect, Flush, FlushEnds, SendEnds, SessionRecv, BecomesSendable,
                EventsDone
        <3>2. CASE MainThread
            BY <3>2 DEF MainThread, MainTakes, MainPosts, MainFills, AddOneSendPacket, turnVars
        <3>3. CASE ConnectThreads \/ Peers \/ UNCHANGED vars
            BY <3>3 DEF ConnectThreads, AddOneConnectWork, StartConnect, CompleteConnectWork, Peers,
                PeerConnects, PeerSends, PeerReads, PeerGoes, vars, turnVars
        <3> QED
            BY <3>1, <3>2, <3>3 DEF Next
    <2>2. SendOne => readable' = {}
        BY DEF SendOne, EventsDone
    <2> QED
        BY <1>2, <2>1, <2>2
<1> QED
    BY <1>1, <1>2

\* What was refused or put off stays so.
LEMMA ExcusedGrow ==
    ASSUME Types, [Next]_vars
    PROVE  late \subseteq late' /\ unheard \subseteq unheard'
<1>1. CASE NetThread
    <2>1. CASE CloseOne
        BY <2>1 DEF CloseOne, CloseSession, Announce
    <2>2. CASE CloseEnds \/ ParseEnds \/ FlushEnds \/ SendEnds \/ \E s \in Sids : BecomesSendable(s)
        BY <2>2 DEF CloseEnds, ParseEnds, FlushEnds, SendEnds, BecomesSendable, heardVars, closeVars
    <2>3. CASE ConnectedOne \/ Select
        BY <2>3 DEF ConnectedOne, Select, OpenSession, Announce, closeVars
    <2>4. CASE ParsePacket
        BY <2>4 DEF ParsePacket, RecvFails, AddOneCloseSessionWork, closeVars
    <2>5. CASE \E s \in Sids : SessionRecv(s)
        BY <2>5 DEF SessionRecv, RecvFails, AddOneCloseSessionWork, closeVars, heardVars
    <2>6. CASE SendOne
        BY <2>6 DEF SendOne, GiveUp, AddOneCloseSessionWork, closeVars, heardVars
    <2>7. CASE SendDirect \/ Flush
        BY <2>7 DEF SendDirect, Flush, GiveUp, AddOneCloseSessionWork, closeVars, heardVars
    <2> QED
        BY <1>1, <2>1, <2>2, <2>3, <2>4, <2>5, <2>6, <2>7 DEF NetThread
<1>2. CASE MainThread
    BY <1>2 DEF MainThread, MainTakes, MainPosts, MainFills, AddOneSendPacket, closeVars, heardVars
<1>3. CASE ConnectThreads \/ Peers \/ UNCHANGED vars
    BY <1>3 DEF ConnectThreads, AddOneConnectWork, StartConnect, CompleteConnectWork, Peers,
        PeerConnects, PeerSends, PeerReads, PeerGoes, vars, closeVars, heardVars
<1> QED
    BY <1>1, <1>2, <1>3 DEF Next

LEMMA NextInTurn ==
    ASSUME Types, Types', InTurn, [Next]_vars
    PROVE  InTurn'
<1>1. at' \notin {"work", "parse"} => readable' = {}
    BY NextReads DEF InTurn
<1>2. ASSUME NEW s \in Sids, s \notin late', s \notin unheard' PROVE Good(s)'
    <2>1. Good(s) /\ s \in Sids \ late' /\ s \in Sids \ unheard' /\ s \in Sids \ (late' \cup unheard')
        BY <1>2, ExcusedGrow DEF InTurn
    <2>2. CASE CloseOne \/ CloseEnds \/ ConnectedOne \/ Select
        BY <2>1, <2>2, NetTurnGood
    <2>3. CASE ParsePacket
        BY <2>1, <2>3, ParsePacketGood
    <2>4. CASE ParseEnds
        BY <2>1, <2>4, ParseEndsGood
    <2>5. ASSUME NEW r \in Sids, SessionRecv(r) PROVE Good(s)'
        BY <2>1, <2>5, SessionRecvGood
    <2>6. CASE SendOne \/ SendDirect \/ Flush
        BY <2>1, <2>6, SendGood DEF InTurn
    <2>7. CASE MainTakes
        BY <2>1, <2>7, MainTakesGood
    <2>8. ASSUME NEW r \in Sids, PeerSends(r) \/ PeerGoes(r) PROVE Good(s)'
        BY <2>1, <2>8, PeerGood
    <2>9. \/ CloseOne \/ CloseEnds \/ ConnectedOne \/ Select \/ ParsePacket \/ ParseEnds
          \/ (\E r \in Sids : SessionRecv(r)) \/ SendOne \/ SendDirect \/ Flush \/ MainTakes
          \/ (\E r \in Sids : PeerSends(r) \/ PeerGoes(r))
          \/ (\E t \in Sids : BecomesSendable(t))
          \/ FlushEnds \/ SendEnds \/ MainPosts
          \/ (\E p \in Packets, S \in (SUBSET connected) \ {{}} : MainFills(p, S))
          \/ (\E e \in filling : AddOneSendPacket(e))
          \/ ConnectThreads \/ PeerConnects \/ (\E t \in Sids : PeerReads(t)) \/ UNCHANGED vars
        BY Zenon DEF Next, NetThread, MainThread, Peers
    <2> QED
        BY <2>1, <2>2, <2>3, <2>4, <2>5, <2>6, <2>7, <2>8, <2>9, StillGood
<1>3. \A s \in (Sids \ (late \cup unheard))' : Good(s)'
    BY <1>2 DEF Sids
<1> QED
    BY <1>1, <1>3 DEF InTurn, Sids

LEMMA InitInTurn ==
    ASSUME Init
    PROVE  InTurn
<1>1. /\ at = "close" /\ readable = {} /\ live = {} /\ lastId = 0 /\ recvQueue = <<>> /\ closes = <<>>
      /\ got = [s \in Sids |-> <<>>] /\ sent = [s \in Sids |-> 0]
    BY DEF Init
<1>2. ASSUME NEW s \in Sids PROVE Good(s)
    <2>1. Places(recvQueue, s) = {} /\ got[s] = <<>> /\ sent[s] = 0 /\ s \notin Asked /\ ~(s <= lastId)
        BY <1>1, Bounds DEF Places, Asked
    <2>2. HeardOf(s)
        BY <2>1 DEF HeardOf, Story
    <2>3. Coming(s) /\ PassedOver(s) /\ Fresh(s)
        BY <1>1, <2>1 DEF Coming, PassedOver, Fresh
    <2> QED
        BY <2>2, <2>3 DEF Good
<1> QED
    BY <1>1, <1>2 DEF InTurn

\* Unless the receive queue had no room for something of it, or it was read again after its
\* close was requested, the main thread hears of a session in order: that it is there, the
\* frames the peer sent, each once and none left out, and that it is gone, after which nothing
\* follows; and a session that was opened is heard of (SessionRecv, ParsePacket, CloseSession
\* and AddOneRecvedPacket of src/NetWork/LSelectServer.cpp).
THEOREM HeardInTheOrderSent == Spec => []HeardInOrder
<1>1. Types /\ InTurn => HeardInOrder
    <2> SUFFICES ASSUME Types, InTurn, NEW s \in Sids \ (late \cup unheard)
                 PROVE  /\ \A i \in DOMAIN got[s] : InPlace(i - 1, got[s][i])
                        /\ \A i \in WaitingOf(s) : InPlace(HeardBefore(s, i), recvQueue[i].what)
                        /\ \A i \in DOMAIN got[s] : got[s][i] = Gone =>
                                s \notin live /\ i = Len(got[s]) /\ WaitingOf(s) = {}
                        /\ \A i \in WaitingOf(s) : recvQueue[i].what = Gone =>
                                s \notin live /\ \A j \in WaitingOf(s) : j <= i
                        /\ s <= lastId => HeardCount(s) > 0
        BY Zenon DEF HeardInOrder
    <2>1. Story(s, got[s], recvQueue, s \in live, s <= lastId)
        BY DEF InTurn, Good, HeardOf
    <2>2. WaitingOf(s) = Places(recvQueue, s) /\ HeardCount(s) = Total(s, got[s], recvQueue)
        BY DEF WaitingOf, Places, HeardCount, Total
    <2>3. \A i : HeardBefore(s, i) = Len(got[s]) + Cardinality(Earlier(recvQueue, s, i))
        BY <2>2, Zenon DEF HeardBefore, Earlier
    <2> QED
        BY <2>1, <2>2, <2>3 DEF Story
<1>2. Types /\ Types' /\ InTurn /\ [Next]_vars => InTurn'
    BY NextInTurn
<1>3. Spec => [](Types /\ InTurn)
    BY AlwaysTypes, InitInTurn, <1>2, PTL DEF Spec
<1> QED
    BY <1>1, <1>3, PTL

-----------------------------------------------------------------------------
(* To the main thread the server is a SessionView.                           *)

\* What the main thread knows of a session of which it took g, and its frames
News(g) == IF g = <<>> THEN "none" ELSE IF g[Len(g)] = Gone THEN "gone" ELSE "up"
FramesOf(g) == SubSeq(g, 2, IF g # <<>> /\ g[Len(g)] = Gone THEN Len(g) - 1 ELSE Len(g))

Excused == late \cup unheard
HeardView == [s \in Sids |-> IF s \in Excused THEN "lost" ELSE News(got[s])]
GivenView == [s \in Sids |-> IF s \in Excused THEN <<>> ELSE FramesOf(got[s])]

\* The view's actions on these two
BeginSeen(s) == HeardView[s] = "none" /\ HeardView' = [HeardView EXCEPT ![s] = "up"] /\ GivenView' = GivenView
FrameSeen(s) ==
    /\ HeardView[s] = "up" /\ HeardView' = HeardView
    /\ GivenView' = [GivenView EXCEPT ![s] = Append(@, Len(@) + 1)]
EndSeen(s) == HeardView[s] = "up" /\ HeardView' = [HeardView EXCEPT ![s] = "gone"] /\ GivenView' = GivenView

LEMMA ViewSteps ==
    /\ \A s \in Sids : BeginSeen(s) \/ FrameSeen(s) \/ EndSeen(s) => View!Next
    /\ HeardView' = HeardView /\ GivenView' = GivenView => UNCHANGED View!vars
<1>1. ASSUME NEW s \in Sids, BeginSeen(s) PROVE View!Begin(s)
    BY <1>1 DEF View!Begin, BeginSeen, HeardView, GivenView, News, FramesOf, Excused, Ended
<1>2. ASSUME NEW s \in Sids, FrameSeen(s) PROVE View!Frame(s)
    BY <1>2 DEF View!Frame, FrameSeen, HeardView, GivenView, News, FramesOf, Excused, Ended
<1>3. ASSUME NEW s \in Sids, EndSeen(s) PROVE View!End(s)
    BY <1>3 DEF View!End, EndSeen, HeardView, GivenView, News, FramesOf, Excused, Ended
<1>4. HeardView' = HeardView /\ GivenView' = GivenView => UNCHANGED View!vars
    BY DEF View!vars, HeardView, GivenView, News, FramesOf, Excused, Ended
<1> QED
    BY <1>1, <1>2, <1>3, <1>4 DEF View!Next

LEMMA ViewLoses ==
    ASSUME NEW S,
           HeardView' = [s \in Sids |-> IF s \in S THEN "lost" ELSE HeardView[s]],
           GivenView' = [s \in Sids |-> IF s \in S THEN <<>> ELSE GivenView[s]]
    PROVE  View!Lose(S)
BY DEF View!Lose, HeardView, GivenView, News, FramesOf, Excused, Ended

\* One thing more is taken of a session: its beginning, its next frame or its end.
LEMMA NewsTaken ==
    ASSUME NEW g \in Seq(Said), NEW what \in Said,
           \A i \in DOMAIN Append(g, what) : InPlace(i - 1, Append(g, what)[i]),
           \A i \in DOMAIN Append(g, what) : Append(g, what)[i] = Gone => i = Len(Append(g, what))
    PROVE  \/ /\ News(g) = "none" /\ News(Append(g, what)) = "up"
              /\ FramesOf(Append(g, what)) = FramesOf(g)
           \/ /\ News(g) = "up" /\ News(Append(g, what)) = "up"
              /\ FramesOf(Append(g, what)) = Append(FramesOf(g), Len(FramesOf(g)) + 1)
           \/ /\ News(g) = "up" /\ News(Append(g, what)) = "gone"
              /\ FramesOf(Append(g, what)) = FramesOf(g)
<1> DEFINE h == Append(g, what)
<1> DEFINE n == Len(g)
<1>1. /\ n \in Nat /\ Len(h) = n + 1 /\ DOMAIN h = 1 .. n + 1 /\ DOMAIN g = 1 .. n
      /\ h[n + 1] = what /\ \A i \in 1 .. n : h[i] = g[i]
      /\ h \in Seq(Said) /\ h # <<>>
    OBVIOUS
<1>2. InPlace(n, what) /\ \A i \in 1 .. n : InPlace(i - 1, g[i]) /\ g[i] # Gone
    <2>1. InPlace(n + 1 - 1, h[n + 1])
        BY <1>1
    <2>2. \A i \in 1 .. n : InPlace(i - 1, h[i]) /\ (h[i] = Gone => i = n + 1)
        BY <1>1
    <2> QED
        BY <1>1, <2>1, <2>2
<1> HIDE DEF h
<1>3. CASE n = 0
    <2>1. g = <<>> /\ what = Up
        BY <1>1, <1>2, <1>3 DEF InPlace
    <2>2. News(g) = "none" /\ News(h) = "up"
        BY <1>1, <1>3, <2>1 DEF News, Up, Gone
    <2>3. FramesOf(g) = <<>> /\ FramesOf(h) = <<>>
        BY <1>1, <1>3, <2>1 DEF FramesOf, Up, Gone
    <2> QED
        BY <2>2, <2>3 DEF h
<1>4. CASE n > 0
    <2>1. g # <<>> /\ g[n] # Gone /\ what \in {n, Gone}
        BY <1>1, <1>2, <1>4 DEF InPlace
    <2>2. News(g) = "up" /\ FramesOf(g) = SubSeq(g, 2, n)
        BY <2>1 DEF News, FramesOf
    <2>3. FramesOf(g) \in Seq(Said) /\ Len(FramesOf(g)) = n - 1
          /\ \A i \in 1 .. n - 1 : FramesOf(g)[i] = g[i + 1]
        BY <1>1, <1>4, <2>2
    <2>4. CASE what = Gone
        <3>1. News(h) = "gone" /\ FramesOf(h) = SubSeq(h, 2, n)
            BY <1>1, <2>4 DEF News, FramesOf
        <3>2. SubSeq(h, 2, n) = SubSeq(g, 2, n)
            BY <1>1, <1>4
        <3> QED
            BY <2>2, <3>1, <3>2 DEF h
    <2>5. CASE what = n
        <3>1. n # Gone /\ h[Len(h)] # Gone
            BY <1>1, <2>5 DEF Gone
        <3>2. News(h) = "up" /\ FramesOf(h) = SubSeq(h, 2, n + 1)
            BY <1>1, <3>1 DEF News, FramesOf
        <3>3. SubSeq(h, 2, n + 1) = Append(SubSeq(g, 2, n), n)
            BY <1>1, <1>4, <2>5
        <3>4. Len(FramesOf(g)) + 1 = n
            BY <1>1, <2>3
        <3> QED
            BY <2>2, <3>2, <3>3, <3>4 DEF h
    <2> QED
        BY <2>1, <2>4, <2>5
<1> QED
    BY <1>1, <1>3, <1>4

\* What the main thread takes of a session the server is sure of.
LEMMA ViewTakes ==
    ASSUME Types, InTurn, MainTakes
    PROVE  [View!Next]_(View!vars)
<1> PICK s \in Sids, what \in Said : s = Head(recvQueue).s /\ what = Head(recvQueue).what
    <2>1. recvQueue \in Seq(Notes) /\ recvQueue # <<>>
        BY DEF Types, MainTakes, HeardOK
    <2>2. Head(recvQueue) \in Notes
        BY <2>1, HeadAndTail
    <2> QED
        BY <2>2 DEF Notes, Said
<1>1. got' = [got EXCEPT ![s] = Append(@, what)] /\ late' = late /\ unheard' = unheard
    BY DEF MainTakes, closeVars
<1>2. got \in [Sids -> Seq(Said)]
    BY DEF Types, HistOK, Said
<1>3. /\ got'[s] = Append(got[s], what)
      /\ \A r \in Sids : r # s => got'[r] = got[r]
    BY <1>1, <1>2
<1>4. CASE s \in Excused
    <2>1. HeardView' = HeardView /\ GivenView' = GivenView
        BY <1>1, <1>3, <1>4 DEF HeardView, GivenView, Sids, Excused
    <2> QED
        BY <2>1, ViewSteps
<1>5. CASE s \notin Excused
    <2> DEFINE g == got[s]
    <2> DEFINE h == Append(g, what)
    <2>1. Story(s, got[s], recvQueue, s \in live, s <= lastId)'
        <3>1. Good(s)'
            <4>1. Good(s)
                BY <1>2, <1>5 DEF InTurn, Excused
            <4> QED
                BY <1>2, <4>1, MainTakesGood
        <3> QED
            BY <3>1 DEF Good, HeardOf
    <2>2. /\ \A i \in DOMAIN h : InPlace(i - 1, h[i])
          /\ \A i \in DOMAIN h : h[i] = Gone => i = Len(h)
        <3>1. /\ \A i \in DOMAIN got'[s] : InPlace(i - 1, got'[s][i])
              /\ \A i \in DOMAIN got'[s] : got'[s][i] = Gone => i = Len(got'[s])
            BY <2>1 DEF Story
        <3> QED
            BY <1>3, <3>1 DEF g
    <2>3. g \in Seq(Said)
        BY <1>2
    <2> HIDE DEF g, h
    <2>4. /\ HeardView[s] = News(g) /\ HeardView' = [HeardView EXCEPT ![s] = News(h)]
          /\ GivenView[s] = FramesOf(g) /\ GivenView' = [GivenView EXCEPT ![s] = FramesOf(h)]
        BY <1>1, <1>2, <1>3, <1>5 DEF HeardView, GivenView, Sids, g, h, Excused
    <2>5. \/ News(g) = "none" /\ News(h) = "up" /\ FramesOf(h) = FramesOf(g)
          \/ /\ News(g) = "up" /\ News(h) = "up"
             /\ FramesOf(h) = Append(FramesOf(g), Len(FramesOf(g)) + 1)
          \/ News(g) = "up" /\ News(h) = "gone" /\ FramesOf(h) = FramesOf(g)
        BY <1>2, <2>2, <2>3, NewsTaken DEF h
    <2>6. /\ FramesOf(h) = FramesOf(g) => GivenView' = GivenView
          /\ News(h) = News(g) => HeardView' = HeardView
        <3>1. /\ GivenView = [GivenView EXCEPT ![s] = GivenView[s]]
              /\ HeardView = [HeardView EXCEPT ![s] = HeardView[s]]
            BY DEF HeardView, GivenView
        <3> QED
            BY <2>4, <3>1, Zenon
    <2>7. BeginSeen(s) \/ FrameSeen(s) \/ EndSeen(s)
        <3>1. CASE News(g) = "none" /\ News(h) = "up" /\ FramesOf(h) = FramesOf(g)
            BY <2>4, <2>6, <3>1 DEF BeginSeen
        <3>2. CASE /\ News(g) = "up" /\ News(h) = "up"
                   /\ FramesOf(h) = Append(FramesOf(g), Len(FramesOf(g)) + 1)
            BY <2>4, <2>6, <3>2 DEF FrameSeen
        <3>3. CASE News(g) = "up" /\ News(h) = "gone" /\ FramesOf(h) = FramesOf(g)
            BY <2>4, <2>6, <3>3 DEF EndSeen
        <3> QED
            BY <2>5, <3>1, <3>2, <3>3
    <2> QED
        BY <1>2, <2>7, ViewSteps
<1> QED
    BY <1>4, <1>5

\* Every other step takes nothing, and may leave the server less sure.
LEMMA ViewElse ==
    ASSUME Types, Types', [Next]_vars, ~MainTakes
    PROVE  [View!Next]_(View!vars)
<1>1. got' = got
    <2>1. CASE NetThread
        BY <2>1 DEF NetThread, CloseOne, CloseEnds, ConnectedOne, Select, ParsePacket, ParseEnds,
            SendOne, SendDirect, Flush, FlushEnds, SendEnds, SessionRecv, BecomesSendable, mainVars
    <2>2. CASE MainThread
        BY <2>2 DEF MainThread, MainPosts, MainFills, AddOneSendPacket, mainVars
    <2>3. CASE ConnectThreads \/ Peers \/ UNCHANGED vars
        BY <2>3 DEF ConnectThreads, AddOneConnectWork, StartConnect, CompleteConnectWork, Peers,
            PeerConnects, PeerSends, PeerReads, PeerGoes, vars, mainVars
    <2> QED
        BY <2>1, <2>2, <2>3 DEF Next
<1>2. Excused \subseteq Excused' /\ Excused' \subseteq Sids
    <2>1. late' \subseteq Sids' /\ unheard' \subseteq Sids'
        BY DEF Types, HeardOK, CloseOK
    <2> QED
        BY <2>1, ExcusedGrow DEF Excused, Sids
<1>3. /\ HeardView' = [s \in Sids |-> IF s \in Excused' THEN "lost" ELSE HeardView[s]]
      /\ GivenView' = [s \in Sids |-> IF s \in Excused' THEN <<>> ELSE GivenView[s]]
    <2>1. \A s \in Sids : s \in Excused => s \in Excused'
        BY <1>2
    <2> QED
        BY <1>1, <2>1 DEF HeardView, GivenView, Sids
<1>4. PICK S \in SUBSET Sids : S = Excused'
    BY <1>2
<1>5. /\ HeardView' = [s \in Sids |-> IF s \in S THEN "lost" ELSE HeardView[s]]
      /\ GivenView' = [s \in Sids |-> IF s \in S THEN <<>> ELSE GivenView[s]]
    BY <1>3, <1>4
<1>6. View!Lose(S)
    BY <1>5, ViewLoses
<1> QED
    BY <1>6 DEF View!Next

LEMMA ViewInit == Init => View!Init
<1> SUFFICES ASSUME Init PROVE View!Init
    OBVIOUS
<1>1. late = {} /\ unheard = {} /\ got = [s \in Sids |-> <<>>]
    BY DEF Init
<1>2. \A s \in Sids : SubSeq(got[s], 2, Len(got[s])) = <<>> /\ got[s] = <<>>
    BY <1>1
<1> QED
    BY <1>1, <1>2 DEF View!Init, Ended

\* To the main thread the server keeps the promise of SessionView: of a session it was not
\* forced to give up it is told the beginning, then the frames in the order they were sent,
\* each once, then the end, and nothing behind it
\* (src/MultiClientUseSelectModel/SelectServerMainLogicThread.cpp takes the packets as they come).
THEOREM ImplementsView == Spec => ViewSpec
<1>1. Types /\ InTurn /\ Types' /\ [Next]_vars => [View!Next]_(View!vars)
    BY ViewTakes, ViewElse
<1>2. Types /\ Types' /\ InTurn /\ [Next]_vars => InTurn'
    BY NextInTurn
<1> QED
    BY <1>1, <1>2, AlwaysTypes, InitInTurn, ViewInit, PTL DEF Spec, ViewSpec, View!Spec
=============================================================================
