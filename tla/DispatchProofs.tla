--------------------------- MODULE DispatchProofs ---------------------------
(***************************************************************************)
(* The caches and rings between epoll_wait and the main thread, for every  *)
(* number of connections, every size of a ring and of a pool, and every    *)
(* number of frames.                                                       *)
(***************************************************************************)
EXTENDS Dispatch, FiniteSetTheorems, SequenceTheorems, TLAPS

USE DispatchAssumption

Packets == [c : Conns, n : -1 .. MaxFrames]
Events == [c : Conns, E : SUBSET {"in", "out"}]

-----------------------------------------------------------------------------
(* The inductive invariant.                                                *)

\* What the receive thread has in hand; the frames it counts are frames that were sent.
RecvOK ==
    /\ recvAt = "take" => at = None /\ todo = 0
    /\ recvAt # "take" => at \in Conns /\ processed < CommitEvery
    /\ recvAt = "frame" => todo > 0
    /\ \A c \in Conns : handed[c] + (IF at = c THEN todo ELSE 0) <= sent[c]
    /\ epollAt = "wait" => batch = <<>>

\* A session is announced before it can have an event, and a packet other than the
\* announcement is about an announced session; frames come from the receive thread alone.
Known == {c \in Conns : life[c] \in {"announced", "open", "closed"}}
Heard == {c \in Conns : heard[c] # "none"}

Ups(q) == {q[i].c : i \in {j \in DOMAIN q : q[j].n = Up}}
Follows(q, S) == \A i \in DOMAIN q : q[i].n # Up => q[i].c \in S
NoFrame(q) == \A i \in DOMAIN q : q[i].n <= 0

Announcements ==
    /\ Known \subseteq Heard \cup Ups(queue)
    /\ Follows(queue, Known) /\ Follows(local, Known)
    /\ Follows(acceptLocal, Known) /\ Follows(closeLocal, Known)
    /\ NoFrame(acceptLocal) /\ NoFrame(closeLocal)
    /\ at \in Conns => at \in Known
    /\ asked \subseteq Known

\* An event of a connection that waits, somewhere, or one the full cache was thrown away with
Awaited ==
    \A c \in Conns : Usable(c) /\ "in" \notin armed[c] /\ c \notin deaf =>
        InFlight(c) \/ c \in dropped

\* All the read events there are: the sockets registered for one, those that are yet to be,
\* and the events under way.  Only a stalled send makes one more.
ReadEvents(q) == Cardinality({i \in DOMAIN q : "in" \in q[i].E})
Registered == {c \in Conns : "in" \in armed[c]}
Unopened == {c \in Conns : life[c] \notin {"open", "closed"}}

UnderWay == ReadEvents(batch) + Len(cache) + Len(ring) + IF at \in Conns THEN 1 ELSE 0

Counted ==
    /\ UnderWay + Cardinality(Registered) + Cardinality(Unopened) <= Cardinality(Conns) + stalls
    /\ BigRing => dropped = {}

IInv == /\ TypeOK /\ RecvOK /\ Announcements /\ ConnectFirst /\ FramesInOrder
        /\ PacketsConserved /\ Awaited /\ Counted

-----------------------------------------------------------------------------
(* Counting the places of a queue, and the numbers that stand in them.     *)

\* The places of q that hold a member of P
Holding(q, P) == {i \in DOMAIN q : q[i] \in P}

LEMMA HoldingFinite ==
    ASSUME NEW S, NEW q \in Seq(S), NEW P
    PROVE  /\ IsFiniteSet(Holding(q, P)) /\ Cardinality(Holding(q, P)) \in Nat
           /\ Cardinality(Holding(q, P)) <= Len(q)
<1>1. Len(q) \in Nat /\ Holding(q, P) \subseteq 1 .. Len(q)
    BY DEF Holding
<1>2. IsFiniteSet(1 .. Len(q)) /\ Cardinality(1 .. Len(q)) = Len(q)
    <2>1. 1 \in Int /\ Len(q) \in Int /\ (1 > Len(q) => Len(q) = 0) /\ Len(q) - 1 + 1 = Len(q)
        BY <1>1
    <2> QED
        BY <2>1, FS_Interval, Zenon
<1>3. IsFiniteSet(Holding(q, P)) /\ Cardinality(Holding(q, P)) <= Cardinality(1 .. Len(q))
    BY <1>1, <1>2, FS_Subset
<1> QED
    BY <1>2, <1>3, FS_CardinalityType

LEMMA HoldingBehind ==
    ASSUME NEW S, NEW q \in Seq(S), NEW r \in Seq(S), NEW P
    PROVE  Cardinality(Holding(q \o r, P)) = Cardinality(Holding(q, P)) + Cardinality(Holding(r, P))
<1> DEFINE t == q \o r
<1> DEFINE A == Holding(q, P)
<1> DEFINE B == Holding(r, P)
<1> DEFINE C == {i \in Len(q) + 1 .. Len(q) + Len(r) : r[i - Len(q)] \in P}
<1>1. /\ t \in Seq(S) /\ Len(q) \in Nat /\ Len(r) \in Nat
      /\ DOMAIN q = 1 .. Len(q) /\ DOMAIN r = 1 .. Len(r) /\ DOMAIN t = 1 .. Len(q) + Len(r)
      /\ \A i \in 1 .. Len(q) : t[i] = q[i]
      /\ \A i \in Len(q) + 1 .. Len(q) + Len(r) : t[i] = r[i - Len(q)]
    OBVIOUS
<1>2. Holding(t, P) = A \cup C /\ A \cap C = {}
    <2> HIDE DEF t
    <2> QED
        BY <1>1 DEF Holding
<1>3. IsFiniteSet(A) /\ IsFiniteSet(B) /\ Cardinality(A) \in Nat /\ Cardinality(B) \in Nat
    BY HoldingFinite
<1>4. [i \in B |-> i + Len(q)] \in Bijection(B, C)
    <2> DEFINE f == [i \in B |-> i + Len(q)]
    <2>1. \A i \in B : i \in 1 .. Len(r) /\ r[i] \in P /\ i + Len(q) - Len(q) = i
        BY <1>1 DEF Holding
    <2>2. f \in [B -> C]
        BY <1>1, <2>1
    <2>3. \A i, j \in B : f[i] = f[j] => i = j
        BY <1>1, <2>1
    <2>4. \A k \in C : k - Len(q) \in B /\ f[k - Len(q)] = k
        BY <1>1 DEF Holding
    <2> HIDE DEF f, B, C
    <2>5. \A k \in C : \E i \in B : f[i] = k
        BY <2>4
    <2>6. DOMAIN f = B
        BY <2>2
    <2>7. IsInjective(f)
        BY <2>3, <2>6, Zenon DEF IsInjective
    <2>8. f \in Bijection(B, C)
        BY <2>2, <2>5, <2>7, Zenon DEF Bijection, Injection, Surjection
    <2> QED
        BY <2>8 DEF f
<1>5. IsFiniteSet(C) /\ Cardinality(C) = Cardinality(B)
    BY <1>3, <1>4, FS_Bijection DEF ExistsBijection
<1>6. Cardinality(A \cup C) = Cardinality(A) + Cardinality(C)
    <2> HIDE DEF A, C
    <2>1. Cardinality(A \cup C) = Cardinality(A) + Cardinality(C) - Cardinality(A \cap C)
        BY <1>3, <1>5, FS_Union
    <2>2. Cardinality(A \cap C) = 0
        BY <1>2, FS_EmptySet
    <2> QED
        BY <1>2, <1>3, <1>5, <2>1, <2>2
<1> QED
    BY <1>2, <1>5, <1>6

LEMMA HoldingOne ==
    ASSUME NEW e, NEW P
    PROVE  /\ Cardinality(Holding(<<>>, P)) = 0
           /\ Cardinality(Holding(<<e>>, P)) = IF e \in P THEN 1 ELSE 0
<1>1. Holding(<<>>, P) = {}
    BY DEF Holding
<1>2. Holding(<<e>>, P) = IF e \in P THEN {1} ELSE {}
    BY DEF Holding
<1> QED
    BY <1>1, <1>2, FS_EmptySet, FS_Singleton

\* The frames of c in a queue, by their numbers
Nums(q, c) == {q[i].n : i \in Places(q, c)}
Rising(q, c) == \A i, j \in Places(q, c) : i < j => q[i].n < q[j].n

LEMMA NumsBehind ==
    ASSUME NEW q \in Seq(Packets), NEW r \in Seq(Packets), NEW c
    PROVE  /\ Nums(q \o r, c) = Nums(q, c) \cup Nums(r, c)
           /\ Rising(q \o r, c) <=> /\ Rising(q, c) /\ Rising(r, c)
                                    /\ \A m \in Nums(q, c), n \in Nums(r, c) : m < n
<1> DEFINE t == q \o r
<1>1. /\ t \in Seq(Packets) /\ Len(q) \in Nat /\ Len(r) \in Nat
      /\ DOMAIN q = 1 .. Len(q) /\ DOMAIN r = 1 .. Len(r) /\ DOMAIN t = 1 .. Len(q) + Len(r)
      /\ \A i \in 1 .. Len(q) : t[i] = q[i]
      /\ \A i \in Len(q) + 1 .. Len(q) + Len(r) : t[i] = r[i - Len(q)]
      /\ \A i \in 1 .. Len(r) : t[i + Len(q)] = r[i]
    OBVIOUS
<1> HIDE DEF t
<1>2. \A i \in Places(t, c) : \/ i \in Places(q, c) /\ t[i] = q[i]
                              \/ i - Len(q) \in Places(r, c) /\ t[i] = r[i - Len(q)]
    BY <1>1 DEF Places
<1>3. /\ \A i \in Places(q, c) : i \in Places(t, c) /\ t[i] = q[i] /\ i \in 1 .. Len(q)
      /\ \A i \in Places(r, c) : /\ i + Len(q) \in Places(t, c) /\ t[i + Len(q)] = r[i]
                                 /\ i \in 1 .. Len(r)
    BY <1>1 DEF Places
<1>4. Nums(t, c) = Nums(q, c) \cup Nums(r, c)
    BY <1>2, <1>3 DEF Nums
<1>5. ASSUME Rising(t, c)
      PROVE  /\ Rising(q, c) /\ Rising(r, c)
             /\ \A m \in Nums(q, c), n \in Nums(r, c) : m < n
    <2>1. Rising(q, c)
        BY <1>3, <1>5 DEF Rising
    <2>2. Rising(r, c)
        <3> SUFFICES ASSUME NEW i \in Places(r, c), NEW j \in Places(r, c), i < j
                     PROVE  r[i].n < r[j].n
            BY DEF Rising
        <3>1. i + Len(q) < j + Len(q)
            BY <1>1, <1>3
        <3> QED
            BY <1>3, <1>5, <3>1 DEF Rising
    <2>3. ASSUME NEW i \in Places(q, c), NEW j \in Places(r, c) PROVE q[i].n < r[j].n
        <3>1. i < j + Len(q)
            BY <1>1, <1>3
        <3> QED
            BY <1>3, <1>5, <3>1 DEF Rising
    <2> QED
        BY <2>1, <2>2, <2>3 DEF Nums
<1>6. ASSUME Rising(q, c), Rising(r, c), \A m \in Nums(q, c), n \in Nums(r, c) : m < n,
             NEW i \in Places(t, c), NEW j \in Places(t, c), i < j
      PROVE  t[i].n < t[j].n
    <2>1. i \in 1 .. Len(q) + Len(r) /\ j \in 1 .. Len(q) + Len(r)
        BY <1>1 DEF Places
    <2>2. CASE j <= Len(q)
        <3>1. i \in Places(q, c) /\ j \in Places(q, c) /\ t[i] = q[i] /\ t[j] = q[j]
            BY <1>1, <1>6, <2>1, <2>2 DEF Places
        <3> QED
            BY <1>6, <3>1 DEF Rising
    <2>3. CASE i <= Len(q) /\ j > Len(q)
        <3>1. i \in Places(q, c) /\ j - Len(q) \in Places(r, c)
              /\ t[i] = q[i] /\ t[j] = r[j - Len(q)]
            BY <1>1, <1>6, <2>1, <2>3 DEF Places
        <3> QED
            BY <1>6, <3>1 DEF Nums
    <2>4. CASE i > Len(q)
        <3>1. /\ i - Len(q) \in Places(r, c) /\ j - Len(q) \in Places(r, c)
              /\ t[i] = r[i - Len(q)] /\ t[j] = r[j - Len(q)] /\ i - Len(q) < j - Len(q)
            BY <1>1, <1>6, <2>1, <2>4 DEF Places
        <3> QED
            BY <1>6, <3>1 DEF Rising
    <2> QED
        BY <1>1, <1>6, <2>1, <2>2, <2>3, <2>4
<1> QED
    BY <1>4, <1>5, <1>6 DEF t, Rising

LEMMA NumsOne ==
    ASSUME NEW p \in Packets, NEW c
    PROVE  /\ Nums(<<p>>, c) = IF p.c = c /\ p.n > 0 THEN {p.n} ELSE {}
           /\ Nums(<<>>, c) = {} /\ Rising(<<p>>, c) /\ Rising(<<>>, c)
<1>1. Places(<<>>, c) = {} /\ Places(<<p>>, c) = IF p.c = c /\ p.n > 0 THEN {1} ELSE {}
    BY DEF Places
<1> QED
    BY <1>1 DEF Nums, Rising

LEMMA NoFrameMeans ==
    ASSUME NEW q \in Seq(Packets), NoFrame(q), NEW i \in DOMAIN q
    PROVE  ~(q[i].n > 0)
<1>1. q[i] \in Packets
    BY ElementOfSeq, LenProperties
<1> QED
    BY <1>1 DEF Packets, NoFrame

LEMMA NumsNone ==
    ASSUME NEW q \in Seq(Packets), NoFrame(q), NEW c
    PROVE  Nums(q, c) = {} /\ Rising(q, c)
<1>1. Places(q, c) = {}
    BY NoFrameMeans DEF Places
<1> QED
    BY <1>1 DEF Nums, Rising

\* The frames there are in a queue
Framed == {p \in Packets : p.n > 0}

LEMMA FramesCounted ==
    ASSUME NEW q \in Seq(Packets)
    PROVE  Frames(q) = Cardinality(Holding(q, Framed)) /\ Frames(q) \in Nat
<1>1. {i \in DOMAIN q : q[i].n > 0} = Holding(q, Framed)
    BY DEF Holding, Framed
<1> QED
    BY <1>1, HoldingFinite DEF Frames

LEMMA FramesBehind ==
    ASSUME NEW q \in Seq(Packets), NEW r \in Seq(Packets)
    PROVE  q \o r \in Seq(Packets) /\ Frames(q \o r) = Frames(q) + Frames(r)
<1>1. q \o r \in Seq(Packets)
    OBVIOUS
<1>2. /\ Frames(q) = Cardinality(Holding(q, Framed)) /\ Frames(r) = Cardinality(Holding(r, Framed))
      /\ Frames(q \o r) = Cardinality(Holding(q \o r, Framed))
    BY <1>1, FramesCounted
<1>3. Cardinality(Holding(q \o r, Framed))
        = Cardinality(Holding(q, Framed)) + Cardinality(Holding(r, Framed))
    BY HoldingBehind
<1> QED
    BY <1>1, <1>2, <1>3, Zenon

LEMMA FramesOne ==
    ASSUME NEW p \in Packets
    PROVE  Frames(<<>>) = 0 /\ Frames(<<p>>) = IF p.n > 0 THEN 1 ELSE 0
<1>1. <<>> \in Seq(Packets) /\ <<p>> \in Seq(Packets) /\ (p \in Framed <=> p.n > 0)
    BY DEF Framed
<1> QED
    BY <1>1, FramesCounted, HoldingOne

LEMMA FramesNone ==
    ASSUME NEW q \in Seq(Packets), NoFrame(q)
    PROVE  Frames(q) = 0
<1>1. {i \in DOMAIN q : q[i].n > 0} = {}
    BY NoFrameMeans
<1> QED
    BY <1>1, FS_EmptySet DEF Frames

\* What is moved and what is left
LEMMA Parted ==
    ASSUME NEW S, NEW q \in Seq(S), NEW n \in 0 .. Len(q)
    PROVE  /\ First(q, n) \in Seq(S) /\ Rest(q, n) \in Seq(S) /\ First(q, n) \o Rest(q, n) = q
           /\ Len(First(q, n)) = n /\ Len(Rest(q, n)) = Len(q) - n
           /\ \A i \in DOMAIN First(q, n) : i \in DOMAIN q /\ First(q, n)[i] = q[i]
           /\ \A i \in DOMAIN Rest(q, n) : i + n \in DOMAIN q /\ Rest(q, n)[i] = q[i + n]
<1>1. /\ First(q, n) \in Seq(S) /\ Rest(q, n) \in Seq(S)
      /\ Len(First(q, n)) = n /\ Len(Rest(q, n)) = Len(q) - n
      /\ \A i \in DOMAIN First(q, n) : i \in DOMAIN q /\ First(q, n)[i] = q[i]
      /\ \A i \in DOMAIN Rest(q, n) : i + n \in DOMAIN q /\ Rest(q, n)[i] = q[i + n]
    BY DEF First, Rest
<1>2. First(q, n) \o Rest(q, n) = q
    <2> DEFINE f == First(q, n)
    <2> DEFINE r == Rest(q, n)
    <2>1. /\ f \in Seq(S) /\ r \in Seq(S) /\ Len(f) = n /\ Len(r) = Len(q) - n
          /\ Len(q) \in Nat /\ n \in Nat
          /\ \A i \in 1 .. n : f[i] = q[i]
          /\ \A i \in 1 .. Len(q) - n : r[i] = q[i + n]
        <3>1. DOMAIN f = 1 .. n /\ DOMAIN r = 1 .. Len(q) - n
            BY <1>1, LenProperties
        <3>2. Len(q) \in Nat /\ n \in Nat
            OBVIOUS
        <3>3. /\ \A i \in 1 .. n : f[i] = q[i]
              /\ \A i \in 1 .. Len(q) - n : r[i] = q[i + n]
            BY <1>1, <3>1, Zenon
        <3> QED
            BY <1>1, <3>2, <3>3
    <2> HIDE DEF f, r
    <2>2. /\ f \o r \in Seq(S) /\ Len(f \o r) = Len(q)
          /\ \A i \in 1 .. Len(q) : (f \o r)[i] = IF i <= n THEN f[i] ELSE r[i - n]
        BY <2>1, ConcatProperties
    <2>3. ASSUME NEW i \in 1 .. Len(q) PROVE (f \o r)[i] = q[i]
        <3>1. CASE i <= n
            BY <2>1, <2>2, <3>1
        <3>2. CASE i > n
            <4> DEFINE k == i - n
            <4>1. k \in 1 .. Len(q) - n /\ k + n = i /\ ~(i <= n)
                BY <2>1, <3>2
            <4>2. (f \o r)[i] = r[k]
                BY <2>2, <4>1
            <4> HIDE DEF k
            <4>3. r[k] = q[k + n]
                BY <2>1, <4>1, Zenon
            <4> QED
                BY <4>1, <4>2, <4>3
        <3> QED
            BY <2>1, <3>1, <3>2
    <2> QED
        BY <2>2, <2>3, SeqEqual DEF f, r
<1> QED
    BY <1>1, <1>2

-----------------------------------------------------------------------------
(* Queues of packets: what the main thread is told first, and the order of   *)
(* the frames.                                                               *)

\* Each packet of q that is not an announcement is about a member of S or comes behind
\* the announcement of its connection.
Introduced(q, S) ==
    \A i \in DOMAIN q : q[i].n # Up =>
        q[i].c \in S \/ \E j \in 1 .. i - 1 : q[j] = Packet(q[i].c, Up)

LEMMA ConnectFirstMeans ==
    ASSUME queue \in Seq(Packets) PROVE ConnectFirst <=> Introduced(queue, Heard)
<1>1. ASSUME NEW i \in DOMAIN queue PROVE queue[i].c \in Conns
    <2>1. queue[i] \in Packets
        BY ElementOfSeq, LenProperties
    <2> QED
        BY <2>1 DEF Packets
<1> QED
    BY <1>1 DEF ConnectFirst, Introduced, Heard

LEMMA IntroducedBehind ==
    ASSUME NEW q \in Seq(Packets), NEW p \in Seq(Packets), NEW S,
           Introduced(q, S), Follows(p, S \cup Ups(q))
    PROVE  Introduced(q \o p, S)
<1> DEFINE t == q \o p
<1>1. /\ t \in Seq(Packets) /\ Len(q) \in Nat /\ Len(p) \in Nat
      /\ DOMAIN q = 1 .. Len(q) /\ DOMAIN p = 1 .. Len(p) /\ DOMAIN t = 1 .. Len(q) + Len(p)
      /\ \A i \in 1 .. Len(q) : t[i] = q[i] /\ q[i] \in Packets
      /\ \A i \in Len(q) + 1 .. Len(q) + Len(p) : t[i] = p[i - Len(q)]
    OBVIOUS
<1> HIDE DEF t
<1> SUFFICES ASSUME NEW i \in DOMAIN t, t[i].n # Up, t[i].c \notin S
             PROVE  \E j \in 1 .. i - 1 : t[j] = Packet(t[i].c, Up)
    BY DEF Introduced, t
<1>2. CASE i <= Len(q)
    <2>1. i \in DOMAIN q /\ t[i] = q[i]
        BY <1>1, <1>2
    <2>2. PICK j \in 1 .. i - 1 : q[j] = Packet(q[i].c, Up)
        BY <2>1 DEF Introduced
    <2> QED
        BY <1>1, <1>2, <2>1, <2>2
<1>3. CASE i > Len(q)
    <2>1. i - Len(q) \in DOMAIN p /\ t[i] = p[i - Len(q)]
        BY <1>1, <1>3
    <2>2. t[i].c \in Ups(q)
        BY <2>1 DEF Follows
    <2>3. PICK j \in DOMAIN q : q[j].n = Up /\ q[j].c = t[i].c
        BY <2>2 DEF Ups
    <2>4. q[j] = Packet(t[i].c, Up) /\ t[j] = q[j] /\ j \in 1 .. i - 1
        <3>1. j \in 1 .. Len(q) /\ q[j] \in Packets /\ t[j] = q[j]
            BY <1>1, <2>3
        <3>2. q[j] = Packet(q[j].c, q[j].n)
            BY <3>1 DEF Packet, Packets
        <3>3. q[j] = Packet(t[i].c, Up)
            BY <2>3, <3>2, Zenon
        <3>4. i \in Nat /\ Len(q) \in Nat
            BY <1>1
        <3>5. j \in 1 .. i - 1
            BY <1>3, <3>1, <3>4
        <3> QED
            BY <3>1, <3>3, <3>5
    <2> QED
        BY <2>4
<1> QED
    BY <1>1, <1>2, <1>3

LEMMA UpsAndFollows ==
    ASSUME NEW q \in Seq(Packets), NEW p \in Seq(Packets), NEW S
    PROVE  /\ Ups(q \o p) = Ups(q) \cup Ups(p)
           /\ Follows(q \o p, S) <=> Follows(q, S) /\ Follows(p, S)
           /\ NoFrame(q \o p) <=> NoFrame(q) /\ NoFrame(p)
<1> DEFINE t == q \o p
<1>1. /\ t \in Seq(Packets) /\ Len(q) \in Nat /\ Len(p) \in Nat
      /\ DOMAIN q = 1 .. Len(q) /\ DOMAIN p = 1 .. Len(p) /\ DOMAIN t = 1 .. Len(q) + Len(p)
      /\ \A i \in 1 .. Len(q) : t[i] = q[i]
      /\ \A i \in Len(q) + 1 .. Len(q) + Len(p) : t[i] = p[i - Len(q)]
      /\ \A i \in 1 .. Len(p) : t[i + Len(q)] = p[i]
    OBVIOUS
<1> HIDE DEF t
<1>2. ASSUME NEW i \in DOMAIN t
      PROVE  \/ i \in DOMAIN q /\ t[i] = q[i]
             \/ i - Len(q) \in DOMAIN p /\ t[i] = p[i - Len(q)]
    <2>1. CASE i \in 1 .. Len(q)
        BY <1>1, <2>1
    <2>2. CASE i \in Len(q) + 1 .. Len(q) + Len(p)
        <3>1. i - Len(q) \in DOMAIN p
            BY <1>1, <2>2
        <3> QED
            BY <1>1, <2>2, <3>1
    <2> QED
        BY <1>1, <2>1, <2>2
<1>3. /\ \A i \in DOMAIN q : i \in DOMAIN t /\ t[i] = q[i]
      /\ \A i \in DOMAIN p : i + Len(q) \in DOMAIN t /\ t[i + Len(q)] = p[i]
    BY <1>1
<1>4. Ups(t) = Ups(q) \cup Ups(p)
    BY <1>2, <1>3 DEF Ups
<1>5. Follows(t, S) <=> Follows(q, S) /\ Follows(p, S)
    BY <1>2, <1>3 DEF Follows
<1>6. NoFrame(t) <=> NoFrame(q) /\ NoFrame(p)
    BY <1>2, <1>3 DEF NoFrame
<1> QED
    BY <1>4, <1>5, <1>6 DEF t

LEMMA OnePacket ==
    ASSUME NEW p \in Packets, NEW S
    PROVE  /\ <<p>> \in Seq(Packets) /\ Ups(<<p>>) = IF p.n = Up THEN {p.c} ELSE {}
           /\ Follows(<<p>>, S) <=> (p.n # Up => p.c \in S)
           /\ NoFrame(<<p>>) <=> p.n <= 0
BY DEF Ups, Follows, NoFrame

\* A queue is its first packet and those behind it.
LEMMA HeadAndTail ==
    ASSUME NEW S, NEW q \in Seq(S), q # <<>>
    PROVE  Head(q) \in S /\ Tail(q) \in Seq(S) /\ q = <<Head(q)>> \o Tail(q)
<1> DEFINE h == <<Head(q)>>
<1> DEFINE t == Tail(q)
<1>1. /\ h \in Seq(S) /\ Len(h) = 1 /\ h[1] = q[1] /\ t \in Seq(S) /\ Len(t) = Len(q) - 1
      /\ Len(q) \in Nat \ {0}
      /\ \A i \in 1 .. Len(q) - 1 : t[i] = q[i + 1]
    OBVIOUS
<1> HIDE DEF h, t
<1>2. /\ h \o t \in Seq(S) /\ Len(h \o t) = Len(q)
      /\ \A i \in 1 .. Len(q) : (h \o t)[i] = IF i <= 1 THEN h[i] ELSE t[i - 1]
    <2>1. /\ h \o t \in Seq(S) /\ Len(h \o t) = Len(h) + Len(t)
          /\ \A i \in 1 .. Len(h) + Len(t) : (h \o t)[i] = IF i <= Len(h) THEN h[i]
                                                           ELSE t[i - Len(h)]
        BY <1>1, ConcatProperties
    <2>2. Len(h) + Len(t) = Len(q)
        BY <1>1
    <2> QED
        BY <1>1, <2>1, <2>2
<1>3. ASSUME NEW i \in 1 .. Len(q) PROVE (h \o t)[i] = q[i]
    <2>1. CASE i = 1
        BY <1>1, <1>2, <2>1
    <2>2. CASE i # 1
        <3> DEFINE k == i - 1
        <3>1. k \in 1 .. Len(q) - 1 /\ k + 1 = i /\ ~(i <= 1)
            BY <1>1, <2>2
        <3>2. (h \o t)[i] = t[k]
            BY <1>2, <3>1
        <3> HIDE DEF k
        <3>3. t[k] = q[k + 1]
            BY <1>1, <3>1, Zenon
        <3> QED
            BY <3>1, <3>2, <3>3
    <2> QED
        BY <2>1, <2>2
<1>4. h \o t = q
    BY <1>2, <1>3, SeqEqual
<1> QED
    BY <1>1, <1>4 DEF h, t

LEMMA IntroducedTail ==
    ASSUME NEW q \in Seq(Packets), q # <<>>, NEW S, Introduced(q, S)
    PROVE  /\ Head(q).n # Up => Head(q).c \in S
           /\ Introduced(Tail(q), S \cup {Head(q).c})
<1> DEFINE t == Tail(q)
<1>1. /\ t \in Seq(Packets) /\ Len(q) \in Nat \ {0} /\ Head(q) = q[1] /\ 1 \in DOMAIN q
      /\ Len(t) = Len(q) - 1 /\ DOMAIN q = 1 .. Len(q) /\ DOMAIN t = 1 .. Len(q) - 1
      /\ \A i \in 1 .. Len(q) - 1 : t[i] = q[i + 1] /\ i + 1 \in DOMAIN q
    OBVIOUS
<1> HIDE DEF t
<1>2. q[1].n # Up => q[1].c \in S
    BY <1>1 DEF Introduced
<1> SUFFICES ASSUME NEW i \in DOMAIN t, t[i].n # Up, t[i].c \notin S, t[i].c # q[1].c
             PROVE  \E j \in 1 .. i - 1 : t[j] = Packet(t[i].c, Up)
    BY <1>1, <1>2 DEF Introduced, t
<1>3. t[i] = q[i + 1] /\ i + 1 \in DOMAIN q
    BY <1>1
<1>4. PICK j \in 1 .. i : q[j] = Packet(t[i].c, Up)
    BY <1>1, <1>3 DEF Introduced
<1>5. j # 1
    BY <1>4 DEF Packet
<1> DEFINE k == j - 1
<1>6. k \in 1 .. i - 1 /\ k \in 1 .. Len(q) - 1 /\ k + 1 = j
    BY <1>1, <1>5
<1> HIDE DEF k
<1>7. t[k] = q[j]
    BY <1>1, <1>6, Zenon
<1> QED
    BY <1>4, <1>6, <1>7

\* The frames of c in q are those behind the g-th up to the h-th, in order.
InOrder(q, c, g, h) == g <= h /\ Nums(q, c) = g + 1 .. h /\ Rising(q, c)

LEMMA FramesInOrderMeans ==
    FramesInOrder <=> \A c \in Conns : InOrder(queue \o local, c, got[c], handed[c])
BY DEF FramesInOrder, InOrder, Nums, Rising

LEMMA FramesInOrderMeansNext ==
    FramesInOrder' <=> \A c \in Conns : InOrder(queue' \o local', c, got'[c], handed'[c])
BY DEF FramesInOrder, InOrder, Nums, Rising

LEMMA OrderInserted ==
    ASSUME NEW q \in Seq(Packets), NEW p \in Seq(Packets), NEW l \in Seq(Packets), NoFrame(p),
           NEW c, NEW g, NEW h, InOrder(q \o l, c, g, h)
    PROVE  InOrder((q \o p) \o l, c, g, h)
<1>1. q \o p \in Seq(Packets)
    OBVIOUS
<1>2. Nums(p, c) = {} /\ Rising(p, c)
    BY NumsNone
<1>3. Nums(q \o p, c) = Nums(q, c) /\ (Rising(q \o p, c) <=> Rising(q, c))
    <2>1. /\ Nums(q \o p, c) = Nums(q, c) \cup Nums(p, c)
          /\ Rising(q \o p, c) <=> /\ Rising(q, c) /\ Rising(p, c)
                                   /\ \A m \in Nums(q, c), n \in Nums(p, c) : m < n
        BY NumsBehind
    <2> QED
        BY <1>2, <2>1, Zenon
<1>4. Nums((q \o p) \o l, c) = Nums(q \o l, c) /\ (Rising((q \o p) \o l, c) <=> Rising(q \o l, c))
    <2> DEFINE r == q \o p
    <2> HIDE DEF r
    <2>1. r \in Seq(Packets) /\ Nums(r, c) = Nums(q, c) /\ (Rising(r, c) <=> Rising(q, c))
        BY <1>1, <1>3 DEF r
    <2>2. \A s \in {q, r} :
            /\ Nums(s \o l, c) = Nums(s, c) \cup Nums(l, c)
            /\ Rising(s \o l, c) <=> /\ Rising(s, c) /\ Rising(l, c)
                                     /\ \A m \in Nums(s, c), n \in Nums(l, c) : m < n
        BY <2>1, NumsBehind
    <2>3. Nums(r \o l, c) = Nums(q \o l, c) /\ (Rising(r \o l, c) <=> Rising(q \o l, c))
        BY <2>1, <2>2, Zenon
    <2> QED
        BY <2>3 DEF r
<1> QED
    BY <1>4 DEF InOrder

LEMMA OrderAppended ==
    ASSUME NEW q \in Seq(Packets), NEW p \in Packets, p.n > 0, NEW c, NEW g \in Nat, NEW h \in Nat,
           InOrder(q, c, g, h), p.c = c => p.n = h + 1
    PROVE  InOrder(q \o <<p>>, c, g, IF p.c = c THEN h + 1 ELSE h)
<1>1. <<p>> \in Seq(Packets) /\ Rising(<<p>>, c) /\ Rising(q, c) /\ Nums(q, c) = g + 1 .. h /\ g <= h
    <2>1. <<p>> \in Seq(Packets)
        OBVIOUS
    <2>2. Rising(<<p>>, c)
        BY NumsOne
    <2> QED
        BY <2>1, <2>2 DEF InOrder
<1>0. /\ Nums(q \o <<p>>, c) = Nums(q, c) \cup Nums(<<p>>, c)
      /\ Rising(q \o <<p>>, c) <=> /\ Rising(q, c) /\ Rising(<<p>>, c)
                                   /\ \A m \in Nums(q, c), n \in Nums(<<p>>, c) : m < n
    BY <1>1, NumsBehind
<1>2. CASE p.c = c
    <2>1. Nums(<<p>>, c) = {h + 1}
        BY <1>2, NumsOne
    <2>2. Nums(q \o <<p>>, c) = (g + 1 .. h) \cup {h + 1}
        BY <1>0, <1>1, <2>1
    <2>3. (g + 1 .. h) \cup {h + 1} = g + 1 .. h + 1
        BY <1>1
    <2>4. Rising(q \o <<p>>, c)
        <3>1. \A m \in g + 1 .. h : m < h + 1
            OBVIOUS
        <3> QED
            BY <1>0, <1>1, <2>1, <3>1
    <2>5. Nums(q \o <<p>>, c) = g + 1 .. h + 1
        BY <2>2, <2>3, Zenon
    <2>6. g <= h + 1
        BY <1>1
    <2> QED
        BY <1>2, <2>4, <2>5, <2>6 DEF InOrder
<1>3. CASE p.c # c
    <2>1. Nums(<<p>>, c) = {}
        BY <1>3, NumsOne
    <2> QED
        BY <1>0, <1>1, <1>3, <2>1 DEF InOrder
<1> QED
    BY <1>2, <1>3

LEMMA OrderTaken ==
    ASSUME NEW q \in Seq(Packets), NEW p \in Packets, NEW c, NEW g \in Nat, NEW h \in Nat,
           InOrder(<<p>> \o q, c, g, h)
    PROVE  /\ p.n > 0 /\ p.c = c => p.n = g + 1 /\ g < h /\ InOrder(q, c, g + 1, h)
           /\ ~(p.n > 0 /\ p.c = c) => InOrder(q, c, g, h)
<1>1. <<p>> \in Seq(Packets) /\ p.n \in Int /\ Nums(<<p>> \o q, c) = g + 1 .. h /\ g <= h
    BY DEF InOrder, Packets
<1>2. /\ Nums(<<p>>, c) \cup Nums(q, c) = g + 1 .. h /\ Rising(q, c)
      /\ \A m \in Nums(<<p>>, c), n \in Nums(q, c) : m < n
    BY <1>1, NumsBehind DEF InOrder
<1>3. CASE p.n > 0 /\ p.c = c
    <2>1. Nums(<<p>>, c) = {p.n}
        BY <1>3, NumsOne
    <2>2. p.n \in g + 1 .. h /\ \A n \in Nums(q, c) : p.n < n /\ n \in g + 1 .. h
        BY <1>2, <2>1
    <2>3. p.n = g + 1
        <3>1. g + 1 \in g + 1 .. h
            BY <1>1, <2>2
        <3>2. g + 1 = p.n \/ g + 1 \in Nums(q, c)
            BY <1>2, <2>1, <3>1
        <3> QED
            BY <1>1, <2>2, <3>2
    <2>4. Nums(q, c) = g + 1 + 1 .. h
        <3>1. ASSUME NEW n \in g + 1 + 1 .. h PROVE n \in Nums(q, c)
            BY <1>1, <1>2, <2>1, <2>3
        <3>2. ASSUME NEW n \in Nums(q, c) PROVE n \in g + 1 + 1 .. h
            <4>1. n \in g + 1 .. h /\ g + 1 < n
                BY <2>2, <2>3
            <4> QED
                BY <4>1
        <3> QED
            BY <3>1, <3>2
    <2> QED
        BY <1>1, <1>2, <1>3, <2>2, <2>3, <2>4 DEF InOrder
<1>4. CASE ~(p.n > 0 /\ p.c = c)
    <2>1. Nums(<<p>>, c) = {}
        BY <1>4, NumsOne
    <2> QED
        BY <1>1, <1>2, <1>4, <2>1 DEF InOrder
<1> QED
    BY <1>3, <1>4

-----------------------------------------------------------------------------
(* The parts of the type invariant, by what changes together.              *)

SessionOK ==
    /\ life \in [Conns -> {"new", "refused", "announced", "open", "closed"}]
    /\ asked \subseteq Conns /\ full \subseteq Conns
    /\ sent \in [Conns -> 0 .. MaxFrames] /\ armed \in [Conns -> SUBSET {"in", "out"}]
    /\ stalls \in 0 .. MaxStalls

EpollOK ==
    /\ dropped \subseteq Conns /\ epollAt \in {"wait", "loop"} /\ batch \in Seq(Events)
    /\ sum \in 0 .. CacheMax - 1 /\ outSum \in 0 .. CacheMax - 1
    /\ cache \in Seq(Conns) /\ Len(cache) < CacheMax /\ outCache \in Seq(Conns)

RingOK == ring \in Seq(Conns) /\ Len(ring) <= ringCap /\ ringCap \in RingCaps
OutRingOK == outRing \in Seq(Conns) /\ Len(outRing) <= OutCap

ReceiverOK ==
    /\ recvAt \in {"take", "frame", "rearm"} /\ at \in Conns \cup {None}
    /\ todo \in 0 .. MaxFrames /\ handed \in [Conns -> 0 .. MaxFrames]
    /\ processed \in 0 .. CommitEvery

LocalOK(q) == q \in Seq(Packets) /\ Len(q) <= LocalCap
QueueOK == queue \in Seq(Packets) /\ Len(queue) <= queueCap /\ queueCap \in QueueCaps
PoolOK == free \in 0 .. LocalPool /\ shared \in 0 .. GlobalMax /\ deleted \in Nat
MainOK == heard \in [Conns -> {"none", "up", "gone"}] /\ got \in [Conns -> 0 .. MaxFrames]

Types ==
    /\ SessionOK /\ EpollOK /\ RingOK /\ OutRingOK /\ ReceiverOK
    /\ LocalOK(local) /\ LocalOK(acceptLocal) /\ LocalOK(closeLocal) /\ QueueOK
    /\ PoolOK /\ MainOK

LEMMA TypesMean == TypeOK <=> Types
BY Zenon DEF TypeOK, Types, SessionOK, EpollOK, RingOK, OutRingOK, ReceiverOK, LocalOK, QueueOK,
             PoolOK, MainOK, Packets, Events

LEMMA TypesMeanNext == TypeOK' <=> Types'
BY Zenon DEF TypeOK, Types, SessionOK, EpollOK, RingOK, OutRingOK, ReceiverOK, LocalOK, QueueOK,
             PoolOK, MainOK, Packets, Events

LEMMA Facts ==
    ASSUME IInv
    PROVE  /\ Types /\ RecvOK /\ Announcements /\ FramesInOrder /\ PacketsConserved
           /\ Awaited /\ Counted /\ Introduced(queue, Heard)
<1>1. Types /\ queue \in Seq(Packets)
    BY TypesMean DEF IInv, Types, QueueOK
<1>2. Introduced(queue, Heard)
    BY <1>1, ConnectFirstMeans DEF IInv
<1> QED
    BY <1>1, <1>2 DEF IInv

LEMMA FactsNext ==
    ASSUME Types', RecvOK', Announcements', FramesInOrder', PacketsConserved', Awaited', Counted',
           Introduced(queue, Heard)'
    PROVE  IInv'
<1>1. TypeOK' /\ queue' \in Seq(Packets)
    BY TypesMeanNext DEF Types, QueueOK
<1>2. \A i \in DOMAIN queue' : queue'[i].c \in Conns
    <2> SUFFICES ASSUME NEW i \in DOMAIN queue' PROVE queue'[i].c \in Conns
        OBVIOUS
    <2>1. queue'[i] \in Packets
        BY <1>1, ElementOfSeq, LenProperties
    <2> QED
        BY <2>1 DEF Packets
<1>3. ConnectFirst'
    BY <1>2 DEF ConnectFirst, Introduced, Heard
<1> QED
    BY <1>1, <1>3 DEF IInv

\* What a step leaves alone keeps its part.
LEMMA Kept ==
    ASSUME IInv
    PROVE  /\ UNCHANGED <<life, asked, sent, armed, full, stalls>> => SessionOK'
           /\ UNCHANGED <<epollAt, batch, sum, outSum, cache, outCache, dropped>> => EpollOK'
           /\ UNCHANGED <<ring, ringCap>> => RingOK'
           /\ UNCHANGED outRing => OutRingOK'
           /\ UNCHANGED <<recvAt, at, todo, handed, processed>> => ReceiverOK'
           /\ UNCHANGED local => LocalOK(local)'
           /\ UNCHANGED acceptLocal => LocalOK(acceptLocal)'
           /\ UNCHANGED closeLocal => LocalOK(closeLocal)'
           /\ UNCHANGED <<queue, queueCap>> => QueueOK'
           /\ UNCHANGED <<free, shared, deleted>> => PoolOK'
           /\ UNCHANGED mainVars => MainOK'
<1>1. Types
    BY Facts
<1> QED
    BY <1>1 DEF Types, SessionOK, EpollOK, RingOK, OutRingOK, ReceiverOK, LocalOK, QueueOK,
                PoolOK, MainOK, mainVars

LEMMA KeptParts ==
    ASSUME IInv
    PROVE  /\ UNCHANGED <<recvAt, at, todo, processed, handed, sent, epollAt, batch>> => RecvOK'
           /\ UNCHANGED <<life, asked, heard, at, queue, local, acceptLocal, closeLocal>> =>
                Announcements'
           /\ UNCHANGED <<heard, queue>> => Introduced(queue, Heard)'
           /\ UNCHANGED <<queue, local, got, handed>> => FramesInOrder'
           /\ UNCHANGED <<queue, local, free, shared, deleted>> => PacketsConserved'
           /\ UNCHANGED <<life, asked, armed, deaf, batch, cache, ring, at, dropped>> => Awaited'
           /\ UNCHANGED <<life, armed, stalls, batch, cache, ring, at, dropped, ringCap>> => Counted'
<1>1. /\ RecvOK /\ Announcements /\ FramesInOrder /\ PacketsConserved /\ Awaited /\ Counted
      /\ Introduced(queue, Heard)
    BY Facts
<1>2. UNCHANGED <<recvAt, at, todo, processed, handed, sent, epollAt, batch>> => RecvOK'
    BY <1>1 DEF RecvOK
<1>3. UNCHANGED <<life, asked, heard, at, queue, local, acceptLocal, closeLocal>> => Announcements'
    BY <1>1 DEF Announcements, Known, Heard
<1>4. UNCHANGED <<heard, queue>> => Introduced(queue, Heard)'
    BY <1>1 DEF Heard
<1>5. UNCHANGED <<queue, local, got, handed>> => FramesInOrder'
    BY <1>1 DEF FramesInOrder
<1>6. UNCHANGED <<queue, local, free, shared, deleted>> => PacketsConserved'
    BY <1>1 DEF PacketsConserved
<1>7. UNCHANGED <<life, asked, armed, deaf, batch, cache, ring, at, dropped>> => Awaited'
    BY <1>1 DEF Awaited, Usable, InFlight
<1>8. UNCHANGED <<life, armed, stalls, batch, cache, ring, at, dropped, ringCap>> => Counted'
    BY <1>1 DEF Counted, UnderWay, Registered, Unopened, BigRing
<1> QED
    BY <1>2, <1>3, <1>4, <1>5, <1>6, <1>7, <1>8

LEMMA ConnsFinite ==
    /\ Cardinality(Conns) \in Nat
    /\ \A S : S \subseteq Conns =>
            IsFiniteSet(S) /\ Cardinality(S) \in Nat /\ Cardinality(S) <= Cardinality(Conns)
BY FS_CardinalityType, FS_Subset

LEMMA OneMore ==
    ASSUME NEW S, NEW x, IsFiniteSet(S)
    PROVE  /\ Cardinality(S \cup {x}) \in Nat /\ Cardinality(S \cup {x}) <= Cardinality(S) + 1
           /\ x \in S => Cardinality(S \ {x}) = Cardinality(S) - 1
<1>1. Cardinality(S) \in Nat
    BY FS_CardinalityType
<1>2. Cardinality(S \cup {x}) = IF x \in S THEN Cardinality(S) ELSE Cardinality(S) + 1
    BY FS_AddElement
<1>3. x \in S => Cardinality(S \ {x}) = Cardinality(S) - 1
    BY FS_RemoveElement
<1> QED
    BY <1>1, <1>2, <1>3

LEMMA InitOK == Init => IInv
<1> SUFFICES ASSUME Init PROVE IInv
    OBVIOUS
<1>1. LocalOK(<<>>) /\ <<>> \in Seq(Conns) /\ <<>> \in Seq(Events) /\ Len(<<>>) = 0
    BY DEF LocalOK
<1>2. SessionOK
    BY DEF Init, SessionOK
<1>3. EpollOK /\ RingOK /\ OutRingOK
    BY <1>1 DEF Init, EpollOK, RingOK, OutRingOK
<1>4. ReceiverOK
    BY DEF Init, ReceiverOK
<1>5. LocalOK(local) /\ LocalOK(acceptLocal) /\ LocalOK(closeLocal) /\ QueueOK
    BY <1>1 DEF Init, QueueOK, LocalOK
<1>6. PoolOK /\ MainOK
    BY DEF Init, PoolOK, MainOK
<1>7. TypeOK
    BY <1>2, <1>3, <1>4, <1>5, <1>6, TypesMean DEF Types
<1>8. RecvOK
    BY DEF Init, RecvOK
<1>9. Announcements /\ ConnectFirst
    BY DEF Init, Announcements, Known, Heard, Ups, Follows, NoFrame, ConnectFirst
<1>10. FramesInOrder
    BY DEF Init, FramesInOrder, Places
<1>11. PacketsConserved
    <2>1. Frames(<<>>) = 0
        <3>1. {i \in DOMAIN <<>> : <<>>[i].n > 0} = {}
            OBVIOUS
        <3> QED
            BY <3>1, FS_EmptySet DEF Frames
    <2> QED
        BY <2>1 DEF Init, PacketsConserved
<1>12. Awaited
    BY DEF Init, Awaited, Usable
<1>13. Counted
    <2>1. ReadEvents(<<>>) = 0
        <3>1. {i \in DOMAIN <<>> : "in" \in <<>>[i].E} = {}
            OBVIOUS
        <3> QED
            BY <3>1, FS_EmptySet DEF ReadEvents
    <2>2. Registered = {} /\ Unopened = Conns
        BY DEF Init, Registered, Unopened
    <2>3. UnderWay = 0 /\ stalls = 0 /\ dropped = {}
        BY <2>1 DEF Init, UnderWay
    <2> QED
        BY <2>2, <2>3, ConnsFinite, FS_EmptySet DEF Counted
<1> QED
    BY <1>7, <1>8, <1>9, <1>10, <1>11, <1>12, <1>13 DEF IInv

-----------------------------------------------------------------------------
(* A local ring of announcements is committed, or a part of it.            *)

LEMMA FollowsMore ==
    ASSUME NEW q, NEW S, NEW T, S \subseteq T, Follows(q, S)
    PROVE  Follows(q, T)
BY DEF Follows

LEMMA AnnouncedOK ==
    ASSUME NEW q, LocalOK(q), NoFrame(q), NEW S, Follows(q, S),
           NEW p \in Packets, p.n <= 0, p.n # Up => p.c \in S
    PROVE  /\ LocalOK(Announced(q, p)) /\ NoFrame(Announced(q, p)) /\ Follows(Announced(q, p), S)
           /\ Announced(q, p) # q => Announced(q, p) = q \o <<p>>
           /\ Announced(q, p) = q => Len(q) = LocalCap
<1>1. q \in Seq(Packets) /\ Len(q) \in Nat /\ Len(q) <= LocalCap
    BY DEF LocalOK
<1>2. Append(q, p) = q \o <<p>> /\ <<p>> \in Seq(Packets)
    BY <1>1, AppendIsConcat
<1>3. Append(q, p) \in Seq(Packets) /\ Len(Append(q, p)) = Len(q) + 1 /\ Append(q, p) # q
    BY <1>1
<1>4. NoFrame(q \o <<p>>) /\ Follows(q \o <<p>>, S)
    BY <1>1, <1>2, UpsAndFollows, OnePacket
<1>5. CASE Len(q) < LocalCap
    BY <1>1, <1>2, <1>3, <1>4, <1>5 DEF Announced, LocalOK
<1>6. CASE ~(Len(q) < LocalCap)
    BY <1>1, <1>6 DEF Announced
<1> QED
    BY <1>5, <1>6

LEMMA PartMoved ==
    ASSUME NEW p, LocalOK(p), NEW S, Follows(p, S), NEW n \in 0 .. Len(p)
    PROVE  /\ First(p, n) \in Seq(Packets) /\ LocalOK(Rest(p, n))
           /\ Len(First(p, n)) = n /\ First(p, n) \o Rest(p, n) = p
           /\ Follows(First(p, n), S) /\ Follows(Rest(p, n), S)
           /\ NoFrame(p) => NoFrame(First(p, n)) /\ NoFrame(Rest(p, n))
           /\ n = Len(p) => First(p, n) = p
<1>1. p \in Seq(Packets) /\ Len(p) \in Nat /\ n \in Nat /\ Len(p) <= LocalCap
    BY DEF LocalOK
<1>2. /\ First(p, n) \in Seq(Packets) /\ Rest(p, n) \in Seq(Packets)
      /\ First(p, n) \o Rest(p, n) = p /\ Len(First(p, n)) = n /\ Len(Rest(p, n)) = Len(p) - n
    BY <1>1, Parted
<1>3. /\ Follows(First(p, n), S) /\ Follows(Rest(p, n), S)
      /\ NoFrame(p) => NoFrame(First(p, n)) /\ NoFrame(Rest(p, n))
    <2>1. /\ Follows(First(p, n) \o Rest(p, n), S)
                <=> Follows(First(p, n), S) /\ Follows(Rest(p, n), S)
          /\ NoFrame(First(p, n) \o Rest(p, n)) <=> NoFrame(First(p, n)) /\ NoFrame(Rest(p, n))
        BY <1>2, UpsAndFollows
    <2> QED
        BY <1>2, <2>1
<1>4. n = Len(p) => First(p, n) = p
    BY <1>1, SubSeqFull DEF First
<1> QED
    BY <1>1, <1>2, <1>3, <1>4 DEF LocalOK

LEMMA AnnouncementsMoved ==
    ASSUME IInv, NEW p, LocalOK(p), NoFrame(p), Follows(p, Known),
           NEW n \in 0 .. Len(p), Len(queue) + n <= queueCap,
           queue' = queue \o First(p, n),
           \/ acceptLocal' = Rest(p, n) /\ UNCHANGED closeLocal
           \/ closeLocal' = Rest(p, n) /\ UNCHANGED acceptLocal,
           UNCHANGED <<queueCap, heard, got, local, handed, free, shared, deleted, at>>,
           Known \subseteq Known', Known' \subseteq Known \cup Ups(First(p, n)), asked' \subseteq Known'
    PROVE  /\ QueueOK' /\ LocalOK(acceptLocal)' /\ LocalOK(closeLocal)'
           /\ Announcements' /\ Introduced(queue, Heard)' /\ FramesInOrder' /\ PacketsConserved'
<1> DEFINE f == First(p, n)
<1> DEFINE r == Rest(p, n)
<1>1. /\ Types /\ Announcements /\ Introduced(queue, Heard) /\ FramesInOrder /\ PacketsConserved
    BY Facts
<1>2. /\ f \in Seq(Packets) /\ LocalOK(r) /\ NoFrame(f) /\ NoFrame(r) /\ Len(f) = n
      /\ Follows(f, Known) /\ Follows(r, Known)
    BY PartMoved
<1>3. queue \in Seq(Packets) /\ local \in Seq(Packets) /\ queueCap \in QueueCaps
    BY <1>1 DEF Types, QueueOK, LocalOK
<1> HIDE DEF f, r
<1>4. QueueOK'
    <2>1. queue' \in Seq(Packets) /\ Len(queue') = Len(queue) + n
        BY <1>2, <1>3 DEF f
    <2> QED
        BY <1>3, <2>1 DEF QueueOK
<1>5. LocalOK(acceptLocal)' /\ LocalOK(closeLocal)'
    BY <1>1, <1>2 DEF Types, LocalOK, r
<1>6. Ups(queue') = Ups(queue) \cup Ups(f) /\ Follows(queue', Known)
    BY <1>1, <1>2, <1>3, UpsAndFollows DEF Announcements, f
<1>7. Announcements'
    <2>1. Heard' = Heard /\ at' = at /\ (at \in Conns => at \in Known')
        BY <1>1 DEF Heard, Announcements
    <2>2. Known' \subseteq Heard' \cup Ups(queue')
        BY <1>1, <1>6, <2>1 DEF Announcements, f
    <2>3. /\ Follows(queue', Known') /\ Follows(local', Known') /\ Follows(r, Known')
          /\ Follows(acceptLocal, Known') /\ Follows(closeLocal, Known')
        BY <1>1, <1>2, <1>6, FollowsMore DEF Announcements
    <2>4. NoFrame(r) /\ NoFrame(acceptLocal) /\ NoFrame(closeLocal)
        BY <1>1, <1>2 DEF Announcements
    <2>5. /\ NoFrame(acceptLocal') /\ NoFrame(closeLocal')
          /\ Follows(acceptLocal', Known') /\ Follows(closeLocal', Known')
        BY <2>3, <2>4 DEF r
    <2> QED
        BY <2>1, <2>2, <2>3, <2>5 DEF Announcements
<1>8. Introduced(queue, Heard)'
    <2>1. Follows(f, Heard \cup Ups(queue))
        BY <1>1, <1>2, FollowsMore DEF Announcements
    <2>2. Heard' = Heard
        BY DEF Heard
    <2>3. Introduced(queue', Heard)
        BY <1>1, <1>2, <1>3, <2>1, IntroducedBehind DEF f
    <2> QED
        BY <2>2, <2>3
<1>9. FramesInOrder'
    <2>1. \A c \in Conns : InOrder(queue \o local, c, got[c], handed[c])
        BY <1>1, FramesInOrderMeans
    <2>2. \A c \in Conns : InOrder(queue' \o local, c, got[c], handed[c])
        BY <1>2, <1>3, <2>1, OrderInserted DEF f
    <2> QED
        BY <2>2 DEF FramesInOrder, InOrder, Nums, Rising
<1>10. PacketsConserved'
    <2>1. Frames(queue') = Frames(queue) + 0
        BY <1>2, <1>3, FramesBehind, FramesNone DEF f
    <2>2. Frames(queue') = Frames(queue)
        BY <1>3, <2>1, FramesCounted
    <2> QED
        BY <1>1, <2>2 DEF PacketsConserved
<1> QED
    BY <1>4, <1>5, <1>7, <1>8, <1>9, <1>10

-----------------------------------------------------------------------------
(* The steps of the client, the accept thread, the close thread and the rest. *)

\* All the counts are numbers.
LEMMA CountTypes ==
    ASSUME IInv
    PROVE  /\ UnderWay \in Nat /\ ReadEvents(batch) \in Nat /\ stalls \in 0 .. MaxStalls
           /\ Cardinality(Registered) \in Nat /\ Cardinality(Unopened) \in Nat
<1>1. Types
    BY Facts
<1>2. batch \in Seq(Events) /\ cache \in Seq(Conns) /\ ring \in Seq(Conns)
      /\ stalls \in 0 .. MaxStalls
    BY <1>1 DEF Types, SessionOK, EpollOK, RingOK
<1>3. ReadEvents(batch) \in Nat
    <2>1. {i \in DOMAIN batch : "in" \in batch[i].E} = Holding(batch, {e \in Events : "in" \in e.E})
        <3>1. ASSUME NEW i \in DOMAIN batch PROVE batch[i] \in Events
            BY <1>2, ElementOfSeq, LenProperties
        <3> QED
            BY <3>1 DEF Holding
    <2> QED
        BY <1>2, <2>1, HoldingFinite DEF ReadEvents
<1>4. UnderWay \in Nat
    BY <1>2, <1>3 DEF UnderWay
<1> QED
    BY <1>2, <1>3, <1>4, ConnsFinite DEF Registered, Unopened

\* The events under way are the same, and one socket is registered for each that is opened.
LEMMA CountKept ==
    ASSUME IInv, UNCHANGED <<batch, cache, ring, at, stalls, ringCap, dropped>>,
           Cardinality(Registered') + Cardinality(Unopened')
                <= Cardinality(Registered) + Cardinality(Unopened)
    PROVE  Counted'
<1>1. /\ UnderWay \in Nat /\ stalls \in Nat /\ Counted /\ UnderWay' = UnderWay
      /\ Cardinality(Registered) \in Nat /\ Cardinality(Unopened) \in Nat
      /\ Cardinality(Registered') \in Nat /\ Cardinality(Unopened') \in Nat
    BY Facts, CountTypes, ConnsFinite DEF Registered, Unopened, UnderWay
<1> QED
    BY <1>1, ConnsFinite DEF Counted, BigRing

LEMMA ClientSendsStep ==
    ASSUME IInv, NEW c \in Conns, ClientSends(c) PROVE IInv'
<1>1. Types /\ RecvOK
    BY Facts
<1>2. SessionOK'
    BY <1>1 DEF ClientSends, Types, SessionOK, sessionVars
<1>3. Types'
    BY <1>2, Kept DEF ClientSends, Types, sessionVars, epollVars, recvVars, mainVars, capVars
<1>4. RecvOK'
    BY <1>1 DEF ClientSends, RecvOK, Types, SessionOK, ReceiverOK, epollVars, recvVars
<1> QED
    BY <1>3, <1>4, KeptParts, FactsNext
        DEF ClientSends, sessionVars, epollVars, recvVars, mainVars, capVars

LEMMA AcceptAnnounceStep ==
    ASSUME IInv, NEW c \in Conns, AcceptAnnounce(c) PROVE IInv'
<1> DEFINE p == Announced(acceptLocal, Packet(c, Up))
<1>1. Types /\ Announcements /\ Awaited
    BY Facts
<1>2. PICK n \in IF p = acceptLocal THEN {0} ELSE Movable(p) :
            /\ queue' = queue \o First(p, n) /\ acceptLocal' = Rest(p, n)
            /\ life' = [life EXCEPT ![c] = AfterAnnouncing(n = Len(p))]
    BY DEF AcceptAnnounce
<1>3. Packet(c, Up) \in Packets /\ Packet(c, Up).n = Up /\ Packet(c, Up).c = c /\ Up <= 0
    BY DEF Packet, Packets, Up
<1>4. LocalOK(acceptLocal) /\ NoFrame(acceptLocal) /\ Follows(acceptLocal, Known)
      /\ acceptLocal \in Seq(Packets)
    BY <1>1 DEF Types, Announcements, LocalOK
<1>5. /\ LocalOK(p) /\ NoFrame(p) /\ Follows(p, Known)
      /\ p # acceptLocal => p = acceptLocal \o <<Packet(c, Up)>>
      /\ p = acceptLocal => Len(p) = LocalCap
    BY <1>3, <1>4, AnnouncedOK
<1> HIDE DEF p
<1>6. n \in 0 .. Len(p) /\ Len(queue) + n <= queueCap
    <2>1. Len(queue) <= queueCap /\ Len(queue) \in Nat /\ Len(p) \in Nat
        BY <1>1, <1>5 DEF Types, QueueOK, LocalOK
    <2> QED
        BY <1>2, <2>1 DEF Movable
<1>7. n = Len(p) => c \in Ups(First(p, n))
    <2>1. n = Len(p) => First(p, n) = p /\ p # acceptLocal
        BY <1>2, <1>5, <1>6, PartMoved
    <2>2. Ups(acceptLocal \o <<Packet(c, Up)>>) = Ups(acceptLocal) \cup {c}
        BY <1>3, <1>4, UpsAndFollows, OnePacket
    <2> QED
        BY <1>5, <2>1, <2>2
<1>8. /\ Known' = IF n = Len(p) THEN Known \cup {c} ELSE Known
      /\ c \notin Known /\ asked' = asked
    BY <1>1, <1>2 DEF AcceptAnnounce, Types, SessionOK, Known, AfterAnnouncing
<1>9. /\ QueueOK' /\ LocalOK(acceptLocal)' /\ LocalOK(closeLocal)'
      /\ Announcements' /\ Introduced(queue, Heard)' /\ FramesInOrder' /\ PacketsConserved'
    <2>1. Known \subseteq Known' /\ Known' \subseteq Known \cup Ups(First(p, n)) /\ asked' \subseteq Known'
        BY <1>1, <1>7, <1>8 DEF Announcements
    <2> QED
        BY <1>2, <1>5, <1>6, <2>1, AnnouncementsMoved DEF AcceptAnnounce, recvVars, mainVars, capVars
<1>10. SessionOK'
    BY <1>1, <1>2 DEF AcceptAnnounce, Types, SessionOK, AfterAnnouncing
<1>11. Types'
    BY <1>9, <1>10, Kept DEF AcceptAnnounce, Types, epollVars, recvVars, mainVars, capVars
<1>12. Awaited'
    BY <1>1, <1>2 DEF AcceptAnnounce, Types, SessionOK, Awaited, Usable, InFlight, AfterAnnouncing,
                      epollVars, recvVars
<1>13. Counted'
    <2>1. Registered' = Registered /\ Unopened' = Unopened
        BY <1>1, <1>2 DEF AcceptAnnounce, Types, SessionOK, Registered, Unopened, AfterAnnouncing
    <2> QED
        BY <2>1, CountKept, CountTypes DEF AcceptAnnounce, epollVars, recvVars, capVars
<1> QED
    BY <1>9, <1>11, <1>12, <1>13, KeptParts, FactsNext DEF AcceptAnnounce, epollVars, recvVars

LEMMA AcceptPostStep ==
    ASSUME IInv, NEW c \in Conns, AcceptPost(c) PROVE IInv'
<1>1. Types /\ Announcements /\ Awaited
    BY Facts
<1>2. SessionOK'
    BY <1>1 DEF AcceptPost, Types, SessionOK
<1>3. Types'
    BY <1>2, Kept DEF AcceptPost, Types, epollVars, recvVars, mainVars, capVars
<1>4. Announcements'
    <2>1. Known' = Known /\ Heard' = Heard
        BY <1>1 DEF AcceptPost, Types, SessionOK, Known, Heard, mainVars
    <2> QED
        BY <1>1, <2>1 DEF Announcements, AcceptPost, recvVars
<1>5. Awaited'
    BY <1>1 DEF AcceptPost, Types, SessionOK, Awaited, Usable, InFlight, epollVars, recvVars
<1>6. Counted'
    <2>1. Unopened' = Unopened \ {c} /\ c \in Unopened /\ Registered' = Registered \cup {c}
        BY <1>1 DEF AcceptPost, Types, SessionOK, Registered, Unopened
    <2>2. IsFiniteSet(Unopened) /\ IsFiniteSet(Registered)
        BY ConnsFinite DEF Registered, Unopened
    <2>3. /\ Cardinality(Unopened') = Cardinality(Unopened) - 1
          /\ Cardinality(Registered') <= Cardinality(Registered) + 1
        BY <2>1, <2>2, OneMore
    <2>4. Cardinality(Registered') \in Nat
        BY ConnsFinite DEF Registered
    <2> QED
        BY <2>3, <2>4, CountKept, CountTypes DEF AcceptPost, epollVars, recvVars, capVars
<1> QED
    BY <1>3, <1>4, <1>5, <1>6, KeptParts, FactsNext
        DEF AcceptPost, epollVars, recvVars, mainVars

LEMMA AcceptPostFailsStep ==
    ASSUME IInv, NEW c \in Conns, AcceptPostFails(c) PROVE IInv'
<1> DEFINE p == Announced(acceptLocal, Packet(c, Down))
<1>1. Types /\ Announcements /\ Awaited
    BY Facts
<1>2. PICK n \in Movable(p) : queue' = queue \o First(p, n) /\ acceptLocal' = Rest(p, n)
    BY DEF AcceptPostFails
<1>3. c \in Known
    BY DEF AcceptPostFails, Known
<1>4. Packet(c, Down) \in Packets /\ Packet(c, Down).c = c /\ Packet(c, Down).n <= 0
    BY DEF Packet, Packets, Down
<1>5. LocalOK(p) /\ NoFrame(p) /\ Follows(p, Known)
    BY <1>1, <1>3, <1>4, AnnouncedOK DEF Types, Announcements
<1> HIDE DEF p
<1>6. n \in 0 .. Len(p) /\ Len(queue) + n <= queueCap
    BY <1>2 DEF Movable
<1>7. Known' = Known /\ asked' \subseteq Known'
    <2>1. Known' = Known
        BY <1>1 DEF AcceptPostFails, Types, SessionOK, Known
    <2> QED
        BY <1>1, <1>3, <2>1 DEF AcceptPostFails, Announcements
<1>8. /\ QueueOK' /\ LocalOK(acceptLocal)' /\ LocalOK(closeLocal)'
      /\ Announcements' /\ Introduced(queue, Heard)' /\ FramesInOrder' /\ PacketsConserved'
    BY <1>2, <1>5, <1>6, <1>7, AnnouncementsMoved DEF AcceptPostFails, recvVars, mainVars, capVars
<1>9. SessionOK'
    BY <1>1 DEF AcceptPostFails, Types, SessionOK
<1>10. Types'
    BY <1>8, <1>9, Kept DEF AcceptPostFails, Types, epollVars, recvVars, mainVars, capVars
<1>11. Awaited'
    BY <1>1 DEF AcceptPostFails, Types, SessionOK, Awaited, Usable, InFlight, epollVars, recvVars
<1>12. Counted'
    <2>1. Unopened' \subseteq Unopened /\ Registered' = Registered /\ IsFiniteSet(Unopened)
        BY <1>1, ConnsFinite DEF AcceptPostFails, Types, SessionOK, Registered, Unopened
    <2>2. Cardinality(Unopened') <= Cardinality(Unopened) /\ Cardinality(Unopened') \in Nat
        BY <2>1, FS_Subset, FS_CardinalityType
    <2> QED
        BY <2>1, <2>2, CountKept, CountTypes DEF AcceptPostFails, epollVars, recvVars, capVars
<1> QED
    BY <1>8, <1>10, <1>11, <1>12, KeptParts, FactsNext DEF AcceptPostFails, epollVars, recvVars

LEMMA CloseSessionStep ==
    ASSUME IInv, NEW c \in Conns, CloseSession(c) PROVE IInv'
<1> DEFINE p == Announced(closeLocal, Packet(c, Down))
<1>1. Types /\ Announcements /\ Awaited
    BY Facts
<1>2. PICK n \in Disconnects(p) : queue' = queue \o First(p, n) /\ closeLocal' = Rest(p, n)
    BY DEF CloseSession
<1>3. c \in Known
    BY DEF CloseSession, Known
<1>4. Packet(c, Down) \in Packets /\ Packet(c, Down).c = c /\ Packet(c, Down).n <= 0
    BY DEF Packet, Packets, Down
<1>5. LocalOK(p) /\ NoFrame(p) /\ Follows(p, Known)
    BY <1>1, <1>3, <1>4, AnnouncedOK DEF Types, Announcements
<1> HIDE DEF p
<1>6. n \in 0 .. Len(p) /\ Len(queue) + n <= queueCap
    <2>1. Len(queue) <= queueCap /\ Len(queue) \in Nat /\ Len(p) \in Nat
        BY <1>1, <1>5 DEF Types, QueueOK, LocalOK
    <2> QED
        BY <1>2, <2>1 DEF Movable, Disconnects
<1>7. Known' = Known /\ asked' \subseteq Known'
    <2>1. Known' = Known
        BY <1>1 DEF CloseSession, Types, SessionOK, Known
    <2> QED
        BY <1>1, <2>1 DEF CloseSession, Announcements
<1>8. /\ QueueOK' /\ LocalOK(acceptLocal)' /\ LocalOK(closeLocal)'
      /\ Announcements' /\ Introduced(queue, Heard)' /\ FramesInOrder' /\ PacketsConserved'
    BY <1>2, <1>5, <1>6, <1>7, AnnouncementsMoved DEF CloseSession, recvVars, mainVars, capVars
<1>9. SessionOK'
    BY <1>1 DEF CloseSession, Types, SessionOK
<1>10. Types'
    BY <1>8, <1>9, Kept DEF CloseSession, Types, epollVars, recvVars, mainVars, capVars
<1>11. Awaited'
    BY <1>1 DEF CloseSession, Types, SessionOK, Awaited, Usable, InFlight, epollVars, recvVars
<1>12. Counted'
    <2>1. Unopened' = Unopened /\ Registered' \subseteq Registered /\ IsFiniteSet(Registered)
        BY <1>1, ConnsFinite DEF CloseSession, Types, SessionOK, Registered, Unopened
    <2>2. Cardinality(Registered') <= Cardinality(Registered) /\ Cardinality(Registered') \in Nat
        BY <2>1, FS_Subset, FS_CardinalityType
    <2> QED
        BY <2>1, <2>2, CountKept, CountTypes DEF CloseSession, epollVars, recvVars, capVars
<1> QED
    BY <1>8, <1>10, <1>11, <1>12, KeptParts, FactsNext DEF CloseSession, epollVars, recvVars

LEMMA KickOutSessionStep ==
    ASSUME IInv, NEW c \in Conns, KickOutSession(c) PROVE IInv'
<1>1. Types /\ Announcements /\ Awaited
    BY Facts
<1>2. SessionOK'
    BY <1>1 DEF KickOutSession, Types, SessionOK
<1>3. Types'
    BY <1>2, Kept DEF KickOutSession, Types, epollVars, recvVars, mainVars, capVars
<1>4. Announcements'
    <2>1. Known' = Known /\ Heard' = Heard /\ c \in Known
        BY DEF KickOutSession, Known, Heard, mainVars, Usable
    <2> QED
        BY <1>1, <2>1 DEF Announcements, KickOutSession, recvVars
<1>5. Awaited'
    BY <1>1 DEF KickOutSession, Awaited, Usable, InFlight, epollVars, recvVars
<1> QED
    BY <1>3, <1>4, <1>5, KeptParts, FactsNext
        DEF KickOutSession, epollVars, recvVars, mainVars, capVars

\* A stalled send registers a socket once more, and once more is counted.
LEMMA Stalled ==
    ASSUME IInv, NEW c \in Conns, Stall(c), UNCHANGED <<life, asked, sent>>,
           UNCHANGED <<batch, cache, ring, at, ringCap, dropped>>
    PROVE  SessionOK' /\ Awaited' /\ Counted'
<1>1. Types /\ Awaited /\ Counted
    BY Facts
<1>2. SessionOK'
    BY <1>1 DEF Stall, Types, SessionOK
<1>3. Awaited'
    BY <1>1 DEF Stall, Types, SessionOK, Awaited, Usable, InFlight
<1>4. Counted'
    <2>1. Unopened' = Unopened /\ Registered' = Registered \cup {c} /\ IsFiniteSet(Registered)
        BY <1>1, ConnsFinite DEF Stall, Types, SessionOK, Registered, Unopened
    <2>2. Cardinality(Registered') <= Cardinality(Registered) + 1 /\ Cardinality(Registered') \in Nat
        BY <2>1, OneMore
    <2>3. UnderWay' = UnderWay /\ stalls' = stalls + 1
        BY DEF Stall, UnderWay
    <2> QED
        BY <1>1, <2>1, <2>2, <2>3, CountTypes, ConnsFinite DEF Counted, BigRing
<1> QED
    BY <1>2, <1>3, <1>4

LEMMA SendStallsStep ==
    ASSUME IInv, NEW c \in Conns, SendStalls(c) PROVE IInv'
<1>1. SessionOK' /\ Awaited' /\ Counted'
    BY Stalled DEF SendStalls, epollVars, recvVars, capVars
<1>2. Types'
    BY <1>1, Kept, Facts DEF SendStalls, Types, epollVars, recvVars, mainVars, capVars
<1> QED
    BY <1>1, <1>2, KeptParts, FactsNext DEF SendStalls, epollVars, recvVars, mainVars

LEMMA SendOutStep ==
    ASSUME IInv, SendOut PROVE IInv'
<1> DEFINE c == Head(outRing)
<1>1. Types
    BY Facts
<1>2. c \in Conns /\ OutRingOK'
    <2>1. outRing \in Seq(Conns) /\ outRing # <<>> /\ outRing' = Tail(outRing)
        BY <1>1 DEF SendOut, Types, OutRingOK
    <2>2. /\ Head(outRing) \in Conns /\ Tail(outRing) \in Seq(Conns)
          /\ Len(Tail(outRing)) = Len(outRing) - 1 /\ Len(outRing) \in Nat
        BY <2>1
    <2> QED
        BY <1>1, <2>1, <2>2 DEF Types, OutRingOK
<1>3. Stall(c) \/ (UNCHANGED <<armed, stalls, deaf>> /\ full' \subseteq full)
    <2>1. \/ Usable(c) /\ Stall(c)
          \/ /\ full' = IF Usable(c) THEN full \ {c} ELSE full
             /\ UNCHANGED <<armed, stalls, deaf>>
        BY DEF SendOut
    <2> QED
        BY <2>1
<1> HIDE DEF c
<1>4. SessionOK' /\ Awaited' /\ Counted'
    <2>1. CASE Stall(c)
        BY <1>2, <2>1, Stalled DEF SendOut, epollVars, recvVars, capVars
    <2>2. CASE UNCHANGED <<armed, stalls, deaf>> /\ full' \subseteq full
        <3>1. SessionOK'
            BY <1>1, <2>2 DEF SendOut, Types, SessionOK
        <3> QED
            BY <2>2, <3>1, KeptParts DEF SendOut, epollVars, recvVars, capVars
    <2> QED
        BY <1>3, <2>1, <2>2
<1>5. Types'
    BY <1>2, <1>4, Kept DEF SendOut, Types, epollVars, recvVars, mainVars, capVars
<1> QED
    BY <1>4, <1>5, KeptParts, FactsNext DEF SendOut, epollVars, recvVars, mainVars

LEMMA MainTakeStep ==
    ASSUME IInv, MainTake PROVE IInv'
<1> DEFINE p == Head(queue)
<1> DEFINE t == Tail(queue)
<1>1. /\ Types /\ Announcements /\ Introduced(queue, Heard) /\ FramesInOrder /\ PacketsConserved
    BY Facts
<1>2. queue \in Seq(Packets) /\ queue # <<>> /\ local \in Seq(Packets) /\ Len(queue) \in Nat
    BY <1>1 DEF MainTake, Types, QueueOK, LocalOK
<1>3. /\ p \in Packets /\ t \in Seq(Packets) /\ queue = <<p>> \o t /\ Len(t) = Len(queue) - 1
      /\ <<p>> \in Seq(Packets)
    <2>1. Len(t) = Len(queue) - 1
        BY <1>2
    <2>2. p \in Packets /\ t \in Seq(Packets) /\ queue = <<p>> \o t
        BY <1>2, HeadAndTail
    <2> QED
        BY <2>1, <2>2, OnePacket
<1>4. /\ queue' = t
      /\ heard' = CASE p.n = Up -> [heard EXCEPT ![p.c] = "up"]
                    [] p.n = Down -> [heard EXCEPT ![p.c] = "gone"]
                    [] OTHER -> heard
      /\ got' = IF p.n > 0 THEN [got EXCEPT ![p.c] = p.n] ELSE got
      /\ shared' = IF p.n > 0 /\ shared < GlobalMax THEN shared + 1 ELSE shared
      /\ UNCHANGED <<sessionVars, sent, epollVars, ring, outRing, recvVars, acceptLocal, closeLocal,
                     capVars>>
    BY DEF MainTake
<1>5. /\ p.n # Up => p.c \in Heard
      /\ Introduced(t, Heard \cup {p.c})
    BY <1>1, <1>2, IntroducedTail
<1> HIDE DEF p, t
<1>6. p.c \in Conns /\ p.n \in -1 .. MaxFrames
    BY <1>3 DEF Packets
<1>7. QueueOK'
    BY <1>1, <1>2, <1>3, <1>4 DEF Types, QueueOK, capVars
<1>8. MainOK'
    <2>1. heard' \in [Conns -> {"none", "up", "gone"}]
        BY <1>1, <1>4, <1>6 DEF Types, MainOK, Up, Down
    <2>2. got' \in [Conns -> 0 .. MaxFrames]
        BY <1>1, <1>4, <1>6 DEF Types, MainOK
    <2> QED
        BY <2>1, <2>2 DEF MainOK
<1>9. PoolOK'
    BY <1>1, <1>4 DEF Types, PoolOK, recvVars
<1>10. Types'
    BY <1>4, <1>7, <1>8, <1>9, Kept DEF Types, sessionVars, epollVars, recvVars, capVars
<1>11. Heard \cup {p.c} \subseteq Heard' /\ Heard' \subseteq Conns
    <2>1. CASE p.n = Up
        BY <1>1, <1>4, <1>6, <2>1 DEF Types, MainOK, Heard
    <2>2. CASE p.n = Down
        BY <1>1, <1>4, <1>6, <2>2 DEF Types, MainOK, Heard, Up, Down
    <2>3. CASE p.n # Up /\ p.n # Down
        BY <1>1, <1>4, <1>5, <1>6, <2>3 DEF Heard
    <2> QED
        BY <2>1, <2>2, <2>3
<1>12. Introduced(queue, Heard)'
    BY <1>4, <1>5, <1>11 DEF Introduced
<1>13. Announcements'
    <2>1. Ups(queue) = Ups(<<p>>) \cup Ups(t) /\ Ups(<<p>>) \subseteq {p.c}
        BY <1>3, UpsAndFollows, OnePacket
    <2>2. Follows(t, Known)
        BY <1>1, <1>3, UpsAndFollows DEF Announcements
    <2>3. Known' = Known /\ at' = at /\ asked' = asked
          /\ UNCHANGED <<local, acceptLocal, closeLocal>>
        BY <1>4 DEF Known, sessionVars, recvVars
    <2>4. Known' \subseteq Heard' \cup Ups(queue')
        BY <1>1, <1>4, <1>11, <2>1, <2>3 DEF Announcements
    <2> QED
        BY <1>1, <1>4, <2>2, <2>3, <2>4 DEF Announcements
<1>14. FramesInOrder'
    <2>1. \A c \in Conns : InOrder(queue \o local, c, got[c], handed[c])
        BY <1>1, FramesInOrderMeans
    <2>2. queue \o local = <<p>> \o (t \o local) /\ t \o local \in Seq(Packets)
        BY <1>2, <1>3, ConcatAssociative, ConcatProperties
    <2>3. ASSUME NEW c \in Conns PROVE InOrder(t \o local, c, got'[c], handed[c])
        <3>1. got[c] \in Nat /\ handed[c] \in Nat
            BY <1>1 DEF Types, MainOK, ReceiverOK
        <3>2. /\ p.n > 0 /\ p.c = c => p.n = got[c] + 1 /\ InOrder(t \o local, c, got[c] + 1, handed[c])
              /\ ~(p.n > 0 /\ p.c = c) => InOrder(t \o local, c, got[c], handed[c])
            <4>1. InOrder(<<p>> \o (t \o local), c, got[c], handed[c])
                BY <2>1, <2>2, Zenon
            <4>2. t \o local \in Seq(Packets) /\ p \in Packets
                BY <1>3, <2>2
            <4> DEFINE r == t \o local
            <4> HIDE DEF r
            <4>3. r \in Seq(Packets) /\ InOrder(<<p>> \o r, c, got[c], handed[c])
                BY <4>1, <4>2 DEF r
            <4>4. /\ p.n > 0 /\ p.c = c => p.n = got[c] + 1 /\ InOrder(r, c, got[c] + 1, handed[c])
                  /\ ~(p.n > 0 /\ p.c = c) => InOrder(r, c, got[c], handed[c])
                BY <3>1, <4>2, <4>3, OrderTaken
            <4> QED
                BY <4>4 DEF r
        <3>3. got'[c] = IF p.n > 0 /\ p.c = c THEN p.n ELSE got[c]
            BY <1>1, <1>4, <1>6 DEF Types, MainOK
        <3> QED
            BY <3>2, <3>3
    <2>4. local' = local /\ handed' = handed /\ queue' = t
        BY <1>4 DEF recvVars
    <2>5. \A c \in Conns : InOrder(queue' \o local', c, got'[c], handed'[c])
        BY <2>3, <2>4
    <2> QED
        BY <2>5, FramesInOrderMeansNext
<1>15. PacketsConserved'
    <2>1. /\ Frames(queue) = (IF p.n > 0 THEN 1 ELSE 0) + Frames(t)
          /\ Frames(t) \in Nat /\ Frames(local) \in Nat
        <3>1. Frames(<<p>> \o t) = Frames(<<p>>) + Frames(t)
            BY <1>3, FramesBehind
        <3>2. Frames(<<p>>) = IF p.n > 0 THEN 1 ELSE 0
            BY <1>3, FramesOne
        <3>3. Frames(t) \in Nat /\ Frames(local) \in Nat
            BY <1>2, <1>3, FramesCounted
        <3>4. Frames(queue) = Frames(<<p>>) + Frames(t)
            BY <1>3, <3>1, Zenon
        <3> QED
            BY <3>2, <3>3, <3>4
    <2>2. free \in Nat /\ shared \in Nat /\ deleted \in Nat
        BY <1>1 DEF Types, PoolOK
    <2>3. p.n > 0 => shared < GlobalMax
        BY <1>1, <2>1, <2>2 DEF PacketsConserved
    <2>4. free' = free /\ deleted' = deleted /\ local' = local
        BY <1>4 DEF recvVars
    <2> QED
        BY <1>1, <1>4, <2>1, <2>2, <2>3, <2>4 DEF PacketsConserved
<1> QED
    BY <1>4, <1>10, <1>12, <1>13, <1>14, <1>15, KeptParts, FactsNext
        DEF sessionVars, epollVars, recvVars, capVars

-----------------------------------------------------------------------------
(* The receive thread.                                                     *)

LEMMA Regrouped ==
    \A q, p, r \in Seq(Packets) : (q \o p) \o r = q \o (p \o r)
BY ConcatAssociative

\* The local ring is committed, or a part of it: the queue and the ring together are the same.
LEMMA LocalMoved ==
    ASSUME IInv, NEW n \in 0 .. Len(local), Len(queue) + n <= queueCap,
           NEW q, NEW l, q = queue \o First(local, n), l = Rest(local, n)
    PROVE  /\ q \in Seq(Packets) /\ Len(q) <= queueCap /\ LocalOK(l) /\ q \o l = queue \o local
           /\ Follows(q, Known) /\ Follows(l, Known)
           /\ Known \subseteq Heard \cup Ups(q) /\ Introduced(q, Heard)
           /\ Frames(q) + Frames(l) = Frames(queue) + Frames(local)
           /\ Frames(q) \in Nat /\ Frames(l) \in Nat /\ Len(l) = Len(local) - n
<1> DEFINE f == First(local, n)
<1>1. /\ Types /\ Announcements /\ Introduced(queue, Heard)
    BY Facts
<1>2. queue \in Seq(Packets) /\ local \in Seq(Packets) /\ LocalOK(local)
    BY <1>1 DEF Types, QueueOK, LocalOK
<1>3. /\ f \in Seq(Packets) /\ LocalOK(l) /\ Len(f) = n /\ f \o l = local
      /\ Follows(f, Known) /\ Follows(l, Known) /\ Len(l) = Len(local) - n
    <2>1. Follows(local, Known)
        BY <1>1 DEF Announcements
    <2>2. Len(Rest(local, n)) = Len(local) - n
        BY <1>2, Parted
    <2>3. /\ First(local, n) \in Seq(Packets) /\ LocalOK(Rest(local, n))
          /\ Len(First(local, n)) = n /\ First(local, n) \o Rest(local, n) = local
          /\ Follows(First(local, n), Known) /\ Follows(Rest(local, n), Known)
        BY <1>2, <2>1, PartMoved
    <2> QED
        BY <2>2, <2>3, Zenon
<1>0. q = queue \o f
    OBVIOUS
<1> HIDE DEF f
<1>4. l \in Seq(Packets)
    BY <1>3 DEF LocalOK
<1>5. q \in Seq(Packets) /\ Len(q) = Len(queue) + n
    <2>1. queue \o f \in Seq(Packets) /\ Len(queue \o f) = Len(queue) + Len(f)
        BY <1>2, <1>3, ConcatProperties
    <2> QED
        BY <1>0, <1>3, <2>1
<1>6. q \o l = queue \o local
    <2>1. (queue \o f) \o l = queue \o (f \o l)
        <3>1. queue \in Seq(Packets) /\ f \in Seq(Packets) /\ l \in Seq(Packets)
            BY <1>2, <1>3, <1>4
        <3> QED
            BY <3>1, Regrouped
    <2> QED
        BY <1>0, <1>3, <2>1
<1>7. Follows(q, Known) /\ Ups(q) = Ups(queue) \cup Ups(f)
    BY <1>0, <1>1, <1>2, <1>3, UpsAndFollows DEF Announcements
<1>8. Known \subseteq Heard \cup Ups(q)
    BY <1>1, <1>7 DEF Announcements
<1>9. Introduced(q, Heard)
    <2>1. Follows(f, Heard \cup Ups(queue))
        BY <1>1, <1>3, FollowsMore DEF Announcements
    <2> QED
        BY <1>0, <1>1, <1>2, <1>3, <2>1, IntroducedBehind
<1>10. /\ Frames(q) + Frames(l) = Frames(queue) + Frames(local)
       /\ Frames(q) \in Nat /\ Frames(l) \in Nat
    <2>1. Frames(q \o l) = Frames(q) + Frames(l) /\ Frames(queue \o local) = Frames(queue) + Frames(local)
        BY <1>2, <1>4, <1>5, FramesBehind
    <2> QED
        BY <1>4, <1>5, <1>6, <2>1, FramesCounted
<1> QED
    BY <1>3, <1>5, <1>6, <1>7, <1>8, <1>9, <1>10

LEMMA MovableMeans ==
    ASSUME IInv, NEW n \in Movable(local)
    PROVE  n \in 0 .. Len(local) /\ Len(queue) + n <= queueCap
BY DEF Movable

LEMMA RecvCommitStep ==
    ASSUME IInv, RecvCommit PROVE IInv'
<1>1. /\ Types /\ RecvOK /\ Announcements /\ FramesInOrder /\ PacketsConserved
    BY Facts
<1>2. PICK n \in Movable(local) : queue' = queue \o First(local, n) /\ local' = Rest(local, n)
    BY DEF RecvCommit
<1>3. /\ queue' \in Seq(Packets) /\ Len(queue') <= queueCap /\ LocalOK(local')
      /\ queue' \o local' = queue \o local /\ Follows(queue', Known) /\ Follows(local', Known)
      /\ Known \subseteq Heard \cup Ups(queue') /\ Introduced(queue', Heard)
      /\ Frames(queue') + Frames(local') = Frames(queue) + Frames(local)
      /\ Frames(queue') \in Nat /\ Frames(local') \in Nat
    BY <1>2, LocalMoved, MovableMeans
<1>4. QueueOK' /\ LocalOK(local)' /\ ReceiverOK'
    BY <1>1, <1>3 DEF RecvCommit, Types, QueueOK, LocalOK, ReceiverOK, capVars
<1>5. Types'
    BY <1>4, Kept DEF RecvCommit, Types, sessionVars, epollVars, mainVars, capVars
<1>6. RecvOK'
    BY <1>1 DEF RecvCommit, RecvOK, epollVars
<1>7. Known' = Known /\ Heard' = Heard
    BY DEF RecvCommit, Known, Heard, sessionVars, mainVars
<1>8. Announcements' /\ Introduced(queue, Heard)'
    BY <1>1, <1>3, <1>7 DEF RecvCommit, Announcements, sessionVars
<1>9. FramesInOrder'
    BY <1>1, <1>3 DEF RecvCommit, FramesInOrder, mainVars
<1>10. PacketsConserved'
    <2>1. /\ free' = free /\ shared' = shared /\ deleted' = deleted
          /\ free \in Nat /\ shared \in Nat /\ deleted \in Nat
          /\ Frames(queue) \in Nat /\ Frames(local) \in Nat
        BY <1>1, FramesCounted DEF RecvCommit, Types, PoolOK, QueueOK, LocalOK
    <2>2. /\ Frames(queue') + Frames(local') = Frames(queue) + Frames(local)
          /\ Frames(queue') \in Nat /\ Frames(local') \in Nat
        BY <1>3
    <2>3. free + shared + Frames(local) + Frames(queue) + deleted = LocalPool + GlobalPool
        BY <1>1 DEF PacketsConserved
    <2>4. free + shared + Frames(local') + Frames(queue') + deleted = LocalPool + GlobalPool
        BY <2>1, <2>2, <2>3
    <2> QED
        BY <2>1, <2>4 DEF PacketsConserved
<1> QED
    BY <1>5, <1>6, <1>8, <1>9, <1>10, KeptParts, FactsNext
        DEF RecvCommit, sessionVars, epollVars, mainVars, capVars

LEMMA TailIs ==
    ASSUME NEW S, NEW q \in Seq(S), q # <<>>
    PROVE  /\ Head(q) \in S /\ Tail(q) \in Seq(S) /\ Len(q) \in Nat \ {0}
           /\ Len(Tail(q)) = Len(q) - 1
           /\ \A i \in DOMAIN q : \/ i = 1 /\ q[i] = Head(q)
                                  \/ i - 1 \in DOMAIN Tail(q) /\ Tail(q)[i - 1] = q[i]
<1> DEFINE t == Tail(q)
<1>1. /\ Head(q) \in S /\ t \in Seq(S) /\ Len(q) \in Nat \ {0} /\ Head(q) = q[1]
      /\ Len(t) = Len(q) - 1 /\ DOMAIN q = 1 .. Len(q) /\ DOMAIN t = 1 .. Len(q) - 1
      /\ \A i \in 1 .. Len(q) - 1 : t[i] = q[i + 1]
    OBVIOUS
<1> HIDE DEF t
<1>2. ASSUME NEW i \in DOMAIN q, i # 1 PROVE i - 1 \in DOMAIN t /\ t[i - 1] = q[i]
    <2>1. i - 1 \in 1 .. Len(q) - 1 /\ i - 1 + 1 = i
        BY <1>1, <1>2
    <2> QED
        BY <1>1, <2>1
<1>3. ASSUME NEW i \in DOMAIN q
      PROVE  \/ i = 1 /\ q[i] = Head(q)
             \/ i - 1 \in DOMAIN t /\ t[i - 1] = q[i]
    <2>1. CASE i = 1
        BY <1>1, <2>1
    <2>2. CASE i # 1
        BY <1>2, <2>2
    <2> QED
        BY <2>1, <2>2
<1> QED
    BY <1>1, <1>3 DEF t

\* What the receive thread has in hand
LEMMA InHand ==
    ASSUME IInv
    PROVE  /\ recvAt # "take" => /\ at \in Conns /\ at \in Known /\ processed + 1 \in 0 .. CommitEvery
                                 /\ handed[at] \in Nat /\ todo \in Nat
                                 /\ handed[at] + todo <= sent[at] /\ sent[at] \in 0 .. MaxFrames
           /\ recvAt = "frame" => todo > 0
           /\ recvAt = "take" => at = None /\ at \notin Conns
<1>1. Types /\ RecvOK /\ Announcements
    BY Facts
<1>2. ASSUME recvAt # "take"
      PROVE  /\ at \in Conns /\ at \in Known /\ processed + 1 \in 0 .. CommitEvery
             /\ handed[at] \in Nat /\ todo \in Nat
             /\ handed[at] + todo <= sent[at] /\ sent[at] \in 0 .. MaxFrames
    <2>1. at \in Conns /\ at \in Known /\ processed < CommitEvery
        BY <1>1, <1>2 DEF RecvOK, Announcements
    <2>2. handed[at] + todo <= sent[at]
        BY <1>1, <2>1 DEF RecvOK
    <2>3. /\ processed \in 0 .. CommitEvery /\ handed[at] \in 0 .. MaxFrames /\ todo \in 0 .. MaxFrames
          /\ sent[at] \in 0 .. MaxFrames
        BY <1>1, <2>1 DEF Types, ReceiverOK, SessionOK
    <2> QED
        BY <2>1, <2>2, <2>3
<1> QED
    BY <1>1, <1>2 DEF RecvOK

\* The receive thread is done with its session.
LEMMA DoneOK ==
    ASSUME IInv, recvAt # "take", RecvDone, UNCHANGED <<handed, sent, epollAt, batch>>
    PROVE  ReceiverOK' /\ RecvOK' /\ at' \notin Conns
<1>1. Types /\ RecvOK /\ processed + 1 \in 0 .. CommitEvery
    BY Facts, InHand
<1>2. ReceiverOK'
    BY <1>1 DEF RecvDone, Types, ReceiverOK
<1>3. ASSUME NEW c \in Conns PROVE handed[c] <= sent[c]
    <2>1. /\ handed[c] \in 0 .. MaxFrames /\ sent[c] \in 0 .. MaxFrames /\ todo \in 0 .. MaxFrames
          /\ handed[c] + (IF at = c THEN todo ELSE 0) <= sent[c]
        BY <1>1 DEF RecvOK, Types, ReceiverOK, SessionOK
    <2> QED
        BY <2>1
<1>4. RecvOK'
    <2>1. at' = None /\ todo' = 0 /\ recvAt' = "take" /\ handed' = handed /\ sent' = sent
          /\ epollAt' = epollAt /\ batch' = batch
        BY DEF RecvDone
    <2>2. \A c \in Conns : handed'[c] + (IF at' = c THEN todo' ELSE 0) <= sent'[c]
        BY <1>1, <1>3, <2>1 DEF Types, ReceiverOK
    <2> QED
        BY <1>1, <2>1, <2>2 DEF RecvOK
<1> QED
    BY <1>2, <1>4 DEF RecvDone

\* Fewer events are under way, or as many, and no more sockets are registered for them.
\* Sums
LEMMA SameSum ==
    ASSUME NEW e \in Nat, NEW c \in Nat, NEW r \in Nat, NEW a \in Nat, NEW c1 \in Nat,
           NEW r1 \in Nat, c1 + r1 = c + r
    PROVE  e + c1 + r1 + a = e + c + r + a
OBVIOUS

LEMMA LessSum ==
    ASSUME NEW v \in Nat, NEW w \in Nat, NEW r \in Nat, NEW u \in Nat, NEW n \in Nat, NEW s \in Nat,
           v <= w, w + r + u <= n + s
    PROVE  v + r + u <= n + s
OBVIOUS

LEMMA Exchanged ==
    ASSUME NEW w \in Nat, NEW r \in Nat, NEW r1 \in Nat, NEW m \in Nat, r1 <= r - m
    PROVE  (w + m) + r1 <= w + r
OBVIOUS

LEMMA CountFalls ==
    ASSUME IInv, UnderWay' \in Nat, UnderWay' + Cardinality(Registered') <= UnderWay + Cardinality(Registered),
           UNCHANGED <<life, stalls, ringCap, dropped>>
    PROVE  Counted'
<1>1. /\ UnderWay \in Nat /\ stalls \in Nat /\ Counted /\ Unopened' = Unopened
      /\ Cardinality(Registered) \in Nat /\ Cardinality(Unopened) \in Nat
      /\ Cardinality(Registered') \in Nat
    BY Facts, CountTypes, ConnsFinite DEF Registered, Unopened
<1> QED
    BY <1>1, ConnsFinite DEF Counted, BigRing

LEMMA UnderWayAdds ==
    ASSUME IInv
    PROVE  /\ ReadEvents(batch) \in Nat /\ Len(cache) \in Nat /\ Len(ring) \in Nat
           /\ UnderWay = ReadEvents(batch) + Len(cache) + Len(ring) + IF at \in Conns THEN 1 ELSE 0
<1>1. Types
    BY Facts
<1> QED
    BY <1>1, CountTypes DEF Types, EpollOK, RingOK, UnderWay

\* The session in hand is given up, or goes on as it was.
LEMMA DoneCounted ==
    ASSUME IInv, at \in Conns, at' \notin Conns, UNCHANGED <<batch, cache, ring>>,
           Registered' \subseteq Registered \cup {at}, UNCHANGED <<life, stalls, ringCap, dropped>>
    PROVE  Counted'
<1>1. UnderWay' = UnderWay - 1 /\ UnderWay - 1 \in Nat
    BY UnderWayAdds DEF UnderWay
<1>2. Cardinality(Registered') <= Cardinality(Registered) + 1
    <2>1. IsFiniteSet(Registered) /\ IsFiniteSet(Registered \cup {at})
        BY ConnsFinite, FS_AddElement DEF Registered
    <2>2. /\ Cardinality(Registered') <= Cardinality(Registered \cup {at})
          /\ IsFiniteSet(Registered')
        BY <2>1, FS_Subset
    <2>3. /\ Cardinality(Registered \cup {at}) <= Cardinality(Registered) + 1
          /\ Cardinality(Registered \cup {at}) \in Nat /\ Cardinality(Registered') \in Nat
          /\ Cardinality(Registered) \in Nat
        BY <2>1, <2>2, OneMore, FS_CardinalityType
    <2> QED
        BY <2>1, <2>2, <2>3
<1>3. Cardinality(Registered') \in Nat /\ Cardinality(Registered) \in Nat
    BY ConnsFinite, CountTypes DEF Registered
<1> QED
    BY <1>1, <1>2, <1>3, CountFalls, CountTypes

LEMMA RecvTakeStep ==
    ASSUME IInv, RecvTake PROVE IInv'
<1> DEFINE c == Head(ring)
<1>1. Types /\ RecvOK /\ Announcements /\ Awaited
    BY Facts
<1>2. /\ c \in Conns /\ ring' \in Seq(Conns) /\ Len(ring') = Len(ring) - 1 /\ Len(ring) \in Nat \ {0}
      /\ \A i \in DOMAIN ring : \/ i = 1 /\ ring[i] = c
                                \/ i - 1 \in DOMAIN ring' /\ ring'[i - 1] = ring[i]
    <2>1. ring \in Seq(Conns) /\ ring # <<>> /\ ring' = Tail(ring)
        BY <1>1 DEF RecvTake, Types, RingOK
    <2> QED
        BY <2>1, TailIs
<1>3. /\ IF Usable(c)
         THEN /\ todo' = sent[c] - handed[c] /\ at' = c
              /\ recvAt' = IF todo' = 0 THEN "rearm" ELSE "frame"
         ELSE UNCHANGED <<todo, at, recvAt>>
      /\ processed' = IF life[c] = "open" /\ c \in asked THEN processed + 1 ELSE processed
      /\ recvAt = "take" /\ processed < CommitEvery
    BY DEF RecvTake
<1> HIDE DEF c
<1>4. /\ UNCHANGED <<sessionVars, sent, epollVars, outRing, handed, local, free, deleted,
                     acceptLocal, closeLocal, queue, shared, mainVars, capVars>>
      /\ at = None /\ todo = 0 /\ at \notin Conns
    BY <1>1, InHand DEF RecvTake, RecvOK
<1>5. RingOK'
    BY <1>1, <1>2, <1>4 DEF Types, RingOK, capVars
<1>6. /\ processed' \in 0 .. CommitEvery /\ (Usable(c) => processed' < CommitEvery)
      /\ \A d \in Conns : sent[d] \in Nat /\ handed[d] \in Nat /\ handed[d] <= sent[d]
                          /\ sent[d] <= MaxFrames
    <2>1. processed' \in 0 .. CommitEvery /\ (Usable(c) => processed' < CommitEvery)
        BY <1>1, <1>3 DEF Types, ReceiverOK, Usable
    <2>2. ASSUME NEW d \in Conns
          PROVE  /\ sent[d] \in Nat /\ handed[d] \in Nat /\ handed[d] <= sent[d]
                 /\ sent[d] <= MaxFrames
        <3>1. handed[d] + (IF at = d THEN todo ELSE 0) <= sent[d]
            BY <1>1 DEF RecvOK
        <3>2. sent[d] \in 0 .. MaxFrames /\ handed[d] \in 0 .. MaxFrames /\ at # d
            BY <1>1, <1>4 DEF Types, SessionOK, ReceiverOK
        <3> QED
            BY <3>1, <3>2
    <2> QED
        BY <2>1, <2>2
<1>7. ReceiverOK' /\ RecvOK'
    <2>1. CASE Usable(c)
        <3>1. todo' \in 0 .. MaxFrames /\ at' = c /\ todo' = sent[c] - handed[c]
              /\ recvAt' = IF todo' = 0 THEN "rearm" ELSE "frame"
            BY <1>2, <1>3, <1>6, <2>1
        <3>2. ReceiverOK'
            BY <1>1, <1>2, <1>4, <1>6, <3>1 DEF Types, ReceiverOK
        <3>3. ASSUME NEW d \in Conns
              PROVE  handed'[d] + (IF at' = d THEN todo' ELSE 0) <= sent'[d]
            BY <1>4, <1>6, <3>1
        <3>4. RecvOK'
            BY <1>1, <1>2, <1>4, <1>6, <2>1, <3>1, <3>3 DEF RecvOK, epollVars
        <3> QED
            BY <3>2, <3>4
    <2>2. CASE ~Usable(c)
        BY <1>1, <1>3, <1>4, <1>6, <2>2 DEF Types, ReceiverOK, RecvOK, epollVars
    <2> QED
        BY <2>1, <2>2
<1>8. Types'
    BY <1>4, <1>5, <1>7, Kept DEF Types, sessionVars, epollVars, mainVars, capVars
<1>9. Announcements'
    <2>1. Known' = Known /\ Heard' = Heard
        BY <1>4 DEF Known, Heard, sessionVars, mainVars
    <2>2. at' \in Conns => at' \in Known
        BY <1>2, <1>3, <1>4 DEF Usable, Known
    <2> QED
        BY <1>1, <1>4, <2>1, <2>2 DEF Announcements, sessionVars
<1>10. Awaited'
    <2> SUFFICES ASSUME NEW d \in Conns, Usable(d)', "in" \notin armed'[d], d \notin deaf'
                 PROVE  InFlight(d)' \/ d \in dropped'
        BY DEF Awaited
    <2>1. Usable(d) /\ "in" \notin armed[d] /\ d \notin deaf /\ dropped' = dropped
          /\ batch' = batch /\ cache' = cache
        BY <1>4 DEF Usable, sessionVars, epollVars
    <2>2. InFlight(d) \/ d \in dropped
        BY <1>1, <2>1 DEF Awaited
    <2>3. CASE \E i \in DOMAIN ring : ring[i] = d
        <3>1. PICK i \in DOMAIN ring : ring[i] = d
            BY <2>3
        <3>2. CASE i = 1 /\ ring[i] = c
            BY <1>3, <2>1, <3>1, <3>2 DEF InFlight
        <3>3. CASE i - 1 \in DOMAIN ring' /\ ring'[i - 1] = ring[i]
            BY <3>1, <3>3 DEF InFlight
        <3> QED
            BY <1>2, <3>1, <3>2, <3>3
    <2> QED
        BY <1>4, <2>1, <2>2, <2>3 DEF InFlight
<1>11. Counted'
    <2>1. UnderWay' \in Nat /\ UnderWay' <= UnderWay
        <3>1. ReadEvents(batch') = ReadEvents(batch) /\ Len(cache') = Len(cache)
            BY <1>4 DEF epollVars
        <3> QED
            BY <1>2, <1>4, <3>1, UnderWayAdds DEF UnderWay
    <2>2. Registered' = Registered
        BY <1>4 DEF Registered, sessionVars
    <2> QED
        BY <1>4, <2>1, <2>2, CountFalls, CountTypes DEF sessionVars, epollVars, capVars
<1> QED
    BY <1>4, <1>7, <1>8, <1>9, <1>10, <1>11, KeptParts, FactsNext
        DEF sessionVars, epollVars, mainVars, capVars

\* The session in hand is to be closed, so nothing waits for an event of it.
LEMMA GivenUp ==
    ASSUME IInv, at \in Conns, at \in Known, asked' = asked \cup {at}, at' \notin Conns,
           UNCHANGED <<life, armed, full, stalls, deaf, batch, cache, ring, dropped, sent, ringCap>>
    PROVE  SessionOK' /\ Awaited' /\ Counted' /\ Known' = Known /\ asked' \subseteq Known
<1>1. Types /\ Awaited /\ Announcements
    BY Facts
<1>2. SessionOK'
    BY <1>1 DEF Types, SessionOK
<1>3. Awaited'
    BY <1>1 DEF Awaited, Usable, InFlight
<1>4. Counted'
    BY DoneCounted DEF Registered
<1> QED
    BY <1>1, <1>2, <1>3, <1>4 DEF Known, Announcements

LEMMA RecvNoPacketStep ==
    ASSUME IInv, RecvNoPacket PROVE IInv'
<1>1. Announcements /\ at \in Conns /\ at \in Known /\ recvAt # "take"
    BY Facts, InHand DEF RecvNoPacket
<1>2. ReceiverOK' /\ RecvOK' /\ at' \notin Conns
    BY <1>1, DoneOK DEF RecvNoPacket, epollVars
<1>3. SessionOK' /\ Awaited' /\ Counted' /\ Known' = Known /\ asked' \subseteq Known
    BY <1>1, <1>2, GivenUp DEF RecvNoPacket, epollVars, capVars
<1>4. Types'
    BY <1>2, <1>3, Kept, Facts DEF RecvNoPacket, Types, epollVars, mainVars, capVars
<1>5. Announcements'
    BY <1>1, <1>2, <1>3 DEF RecvNoPacket, Announcements, Heard, mainVars
<1> QED
    BY <1>2, <1>3, <1>4, <1>5, KeptParts, FactsNext DEF RecvNoPacket, epollVars, mainVars, capVars

LEMMA RecvRearmStep ==
    ASSUME IInv, RecvRearm PROVE IInv'
<1>1. Types /\ Awaited /\ Announcements /\ at \in Conns /\ at \in Known /\ recvAt # "take"
    BY Facts, InHand DEF RecvRearm
<1>2. ReceiverOK' /\ RecvOK' /\ at' \notin Conns
    BY <1>1, DoneOK DEF RecvRearm, epollVars
<1>3. SessionOK' /\ Registered' \subseteq Registered \cup {at}
    BY <1>1 DEF RecvRearm, Types, SessionOK, Registered, Rearmed
<1>4. Awaited'
    BY <1>1 DEF RecvRearm, Types, SessionOK, Awaited, Usable, InFlight, Rearmed, epollVars
<1>5. Counted'
    BY <1>1, <1>2, <1>3, DoneCounted DEF RecvRearm, epollVars, capVars
<1>6. Types'
    BY <1>2, <1>3, Kept DEF RecvRearm, Types, epollVars, mainVars, capVars
<1>7. Announcements'
    BY <1>1, <1>2 DEF RecvRearm, Announcements, Known, Heard, mainVars
<1> QED
    BY <1>2, <1>4, <1>5, <1>6, <1>7, KeptParts, FactsNext
        DEF RecvRearm, epollVars, mainVars, capVars

LEMMA TakePacketOK ==
    ASSUME IInv, TakePacket
    PROVE  /\ free' \in 0 .. LocalPool /\ shared' \in 0 .. GlobalMax
           /\ free' + shared' = free + shared - 1 /\ free \in Nat /\ shared \in Nat /\ deleted \in Nat
<1>1. free \in 0 .. LocalPool /\ shared \in 0 .. GlobalMax /\ deleted \in Nat
    BY Facts DEF Types, PoolOK
<1> QED
    BY <1>1 DEF TakePacket

\* The balance of the packets when one was taken out of a pool
LEMMA OnePacketTaken ==
    ASSUME NEW f1 \in Int, NEW s1 \in Int, NEW f \in Int, NEW s \in Int,
           NEW q \in Int, NEW l \in Int, NEW d \in Int, NEW all \in Int,
           f + s + q + l + d = all, f1 + s1 = f + s - 1
    PROVE  f1 + s1 + (l + 1) + q + d = all /\ f1 + s1 + l + q + (d + 1) = all
OBVIOUS

LEMMA RecvFrameStep ==
    ASSUME IInv, RecvFrame PROVE IInv'
<1> DEFINE p == Packet(at, handed[at] + 1)
<1> DEFINE Room == Len(local) < LocalCap
<1>1. /\ Types /\ RecvOK /\ Announcements /\ FramesInOrder /\ PacketsConserved /\ Awaited
    BY Facts
<1>2. /\ recvAt # "take" /\ at \in Conns /\ at \in Known /\ handed[at] \in Nat /\ todo \in Nat
      /\ handed[at] + todo <= sent[at] /\ sent[at] \in 0 .. MaxFrames /\ todo > 0
    BY InHand DEF RecvFrame
<1>3. PICK k \in IF Room THEN {0} ELSE Movable(local) :
            /\ queue' = queue \o First(local, k)
            /\ IF Room \/ k = Len(local)
               THEN /\ local' = Append(Rest(local, k), p)
                    /\ handed' = [handed EXCEPT ![at] = @ + 1]
                    /\ todo' = todo - 1
                    /\ recvAt' = IF todo = 1 THEN "rearm" ELSE "frame"
                    /\ UNCHANGED <<asked, deleted, at, processed>>
               ELSE /\ local' = Rest(local, k)
                    /\ deleted' = deleted + 1
                    /\ asked' = asked \cup {at}
                    /\ RecvDone
                    /\ UNCHANGED handed
    BY DEF RecvFrame
<1>4. /\ UNCHANGED <<life, armed, full, stalls, deaf, sent, epollVars, ring, outRing, acceptLocal,
                     closeLocal, mainVars, capVars>>
      /\ TakePacket
    BY DEF RecvFrame
<1>5. p \in Packets /\ p.c = at /\ p.n = handed[at] + 1 /\ p.n > 0
    BY <1>2 DEF Packet, Packets
<1> DEFINE l == Rest(local, k)
<1>6. k \in 0 .. Len(local) /\ Len(queue) + k <= queueCap /\ Len(local) \in Nat /\ Len(queue) \in Nat
    <2>1. Len(queue) <= queueCap /\ Len(queue) \in Nat /\ Len(local) \in Nat
        BY <1>1 DEF Types, QueueOK, LocalOK
    <2> QED
        BY <1>3, <2>1, MovableMeans
<1>7. /\ queue' \in Seq(Packets) /\ Len(queue') <= queueCap /\ LocalOK(l)
      /\ queue' \o l = queue \o local /\ Follows(queue', Known) /\ Follows(l, Known)
      /\ Known \subseteq Heard \cup Ups(queue') /\ Introduced(queue', Heard)
      /\ Frames(queue') + Frames(l) = Frames(queue) + Frames(local)
      /\ Frames(queue') \in Nat /\ Frames(l) \in Nat /\ Len(l) = Len(local) - k
    BY <1>3, <1>6, LocalMoved
<1> HIDE DEF p, l
<1>8. QueueOK' /\ Heard' = Heard /\ Known' = Known
    BY <1>1, <1>4, <1>7 DEF Types, QueueOK, Heard, Known, mainVars, capVars
<1>9. /\ free' \in 0 .. LocalPool /\ shared' \in 0 .. GlobalMax
      /\ free' + shared' = free + shared - 1 /\ free \in Nat /\ shared \in Nat /\ deleted \in Nat
      /\ free' \in Nat /\ shared' \in Nat
    BY <1>4, TakePacketOK
<1>10. Introduced(queue, Heard)'
    BY <1>7, <1>8
<1>11. free + shared + Frames(queue') + Frames(l) + deleted = LocalPool + GlobalPool
    <2>1. Frames(queue) \in Nat /\ Frames(local) \in Nat
        BY <1>1, FramesCounted DEF Types, QueueOK, LocalOK
    <2>2. Frames(queue') + Frames(l) = Frames(queue) + Frames(local)
          /\ Frames(queue') \in Nat /\ Frames(l) \in Nat
        BY <1>7
    <2>3. free + shared + Frames(local) + Frames(queue) + deleted = LocalPool + GlobalPool
        BY <1>1 DEF PacketsConserved
    <2> DEFINE a == Frames(queue)
    <2> DEFINE b == Frames(local)
    <2> DEFINE d == Frames(queue')
    <2> DEFINE e == Frames(l)
    <2>4. a \in Nat /\ b \in Nat /\ d \in Nat /\ e \in Nat /\ d + e = a + b
        BY <2>1, <2>2
    <2>5. free + shared + b + a + deleted = LocalPool + GlobalPool
        BY <2>3
    <2>6. free \in Nat /\ shared \in Nat /\ deleted \in Nat
        BY <1>9
    <2> HIDE DEF a, b, d, e
    <2>7. free + shared + d + e + deleted = free + shared + b + a + deleted
        BY <2>4, <2>6
    <2>8. free + shared + d + e + deleted = LocalPool + GlobalPool
        BY <2>5, <2>7, Zenon
    <2> QED
        BY <2>8 DEF d, e
<1>14. /\ free' + shared' + (Frames(l) + 1) + Frames(queue') + deleted = LocalPool + GlobalPool
       /\ free' + shared' + Frames(l) + Frames(queue') + (deleted + 1) = LocalPool + GlobalPool
    <2>1. /\ Frames(queue') \in Int /\ Frames(l) \in Int /\ free \in Int /\ shared \in Int
          /\ deleted \in Int /\ free' \in Int /\ shared' \in Int
        BY <1>7, <1>9
    <2>2. free' + shared' = free + shared - 1
        BY <1>9, Zenon
    <2>3. LocalPool + GlobalPool \in Int
        OBVIOUS
    <2>4. PICK f1 \in Int, s1 \in Int : f1 = free' /\ s1 = shared'
        BY <2>1
    <2>5. PICK q \in Int, m \in Int : q = Frames(queue') /\ m = Frames(l)
        BY <2>1
    <2>6. f1 + s1 = free + shared - 1
        BY <2>2, <2>4, Zenon
    <2>7. free + shared + q + m + deleted = LocalPool + GlobalPool
        BY <1>11, <2>5, Zenon
    <2>8. /\ f1 + s1 + (m + 1) + q + deleted = LocalPool + GlobalPool
          /\ f1 + s1 + m + q + (deleted + 1) = LocalPool + GlobalPool
        BY <2>1, <2>3, <2>6, <2>7, OnePacketTaken
    <2> QED
        BY <2>4, <2>5, <2>8, Zenon
<1>12. CASE Room \/ k = Len(local)
    <2>1. /\ local' = Append(l, p) /\ handed' = [handed EXCEPT ![at] = @ + 1] /\ todo' = todo - 1
          /\ recvAt' = IF todo = 1 THEN "rearm" ELSE "frame"
          /\ UNCHANGED <<asked, deleted, at, processed>>
        BY <1>3, <1>12 DEF p, l
    <2>2. l \in Seq(Packets) /\ Len(l) < LocalCap /\ <<p>> \in Seq(Packets)
        BY <1>3, <1>5, <1>6, <1>7, <1>12, OnePacket DEF LocalOK
    <2>3. local' = l \o <<p>> /\ local' \in Seq(Packets) /\ Len(local') = Len(l) + 1
        BY <1>5, <2>1, <2>2, AppendIsConcat, AppendProperties
    <2>4. ReceiverOK' /\ RecvOK'
        <3>1. handed' \in [Conns -> 0 .. MaxFrames]
            BY <1>1, <1>2, <2>1 DEF Types, ReceiverOK
        <3>2. ReceiverOK'
            BY <1>1, <1>2, <2>1, <3>1 DEF Types, ReceiverOK
        <3>3. ASSUME NEW c \in Conns
              PROVE  handed'[c] + (IF at' = c THEN todo' ELSE 0) <= sent'[c]
            <4>1. handed[c] + (IF at = c THEN todo ELSE 0) <= sent[c] /\ handed[c] \in Nat
                BY <1>1 DEF RecvOK, Types, ReceiverOK
            <4>2. handed'[c] = IF c = at THEN handed[c] + 1 ELSE handed[c]
                BY <1>1, <2>1 DEF Types, ReceiverOK
            <4>3. sent' = sent /\ at' = at /\ todo' = todo - 1 /\ sent[c] \in Nat
                BY <1>1, <1>4, <2>1 DEF Types, SessionOK
            <4> QED
                BY <1>2, <4>1, <4>2, <4>3
        <3>4. RecvOK'
            BY <1>1, <1>2, <1>4, <2>1, <3>3 DEF RecvOK, epollVars
        <3> QED
            BY <3>2, <3>4
    <2>5. LocalOK(local)' /\ PoolOK'
        BY <1>1, <1>9, <2>1, <2>2, <2>3 DEF LocalOK, Types, PoolOK
    <2>6. Types'
        BY <1>4, <1>8, <2>1, <2>4, <2>5, Kept DEF Types, epollVars, mainVars, capVars
    <2>7. Announcements'
        <3>1. Follows(local', Known)
            BY <1>2, <1>5, <1>7, <2>2, <2>3, UpsAndFollows, OnePacket
        <3> QED
            BY <1>1, <1>4, <1>7, <1>8, <2>1, <3>1 DEF Announcements
    <2>8. FramesInOrder'
        <3>1. queue' \o local' = (queue \o local) \o <<p>> /\ queue \o local \in Seq(Packets)
            <4>1. queue' \o (l \o <<p>>) = (queue' \o l) \o <<p>>
                BY <1>7, <2>2, Regrouped
            <4>2. queue \in Seq(Packets) /\ local \in Seq(Packets)
                BY <1>1 DEF Types, QueueOK, LocalOK
            <4>3. queue \o local \in Seq(Packets)
                BY <4>2, ConcatProperties
            <4> QED
                BY <1>7, <2>3, <4>1, <4>3
        <3>2. ASSUME NEW c \in Conns PROVE InOrder(queue' \o local', c, got[c], handed'[c])
            <4>1. InOrder(queue \o local, c, got[c], handed[c]) /\ got[c] \in Nat /\ handed[c] \in Nat
                BY <1>1, FramesInOrderMeans DEF Types, MainOK, ReceiverOK
            <4>2. InOrder((queue \o local) \o <<p>>, c, got[c], IF p.c = c THEN handed[c] + 1 ELSE handed[c])
                BY <1>5, <3>1, <4>1, OrderAppended
            <4>3. handed'[c] = IF p.c = c THEN handed[c] + 1 ELSE handed[c]
                BY <1>1, <1>5, <2>1 DEF Types, ReceiverOK
            <4> QED
                BY <3>1, <4>2, <4>3
        <3> QED
            BY <1>4, <3>2 DEF FramesInOrder, InOrder, Nums, Rising, mainVars
    <2>9. PacketsConserved'
        <3>1. Frames(local') = Frames(l) + 1
            <4>1. Frames(l \o <<p>>) = Frames(l) + Frames(<<p>>)
                BY <2>2, FramesBehind
            <4> QED
                BY <1>5, <2>3, <4>1, FramesOne
        <3>2. Frames(queue') \in Nat /\ Frames(l) \in Nat /\ deleted' = deleted
            BY <1>7, <2>1
        <3>3. free' + shared' + Frames(local') + Frames(queue') + deleted' = LocalPool + GlobalPool
            BY <1>14, <3>1, <3>2, Zenon
        <3> QED
            BY <3>3 DEF PacketsConserved
    <2> QED
        BY <1>4, <1>10, <2>1, <2>4, <2>6, <2>7, <2>8, <2>9, KeptParts, FactsNext
            DEF epollVars, capVars
<1>13. CASE ~(Room \/ k = Len(local))
    <2>1. /\ local' = l /\ deleted' = deleted + 1 /\ asked' = asked \cup {at} /\ RecvDone
          /\ handed' = handed
        BY <1>3, <1>13 DEF l
    <2>2. ReceiverOK' /\ RecvOK' /\ at' \notin Conns
        BY <1>2, <1>4, <2>1, DoneOK DEF epollVars
    <2>3. SessionOK' /\ Awaited' /\ Counted' /\ asked' \subseteq Known
        BY <1>2, <1>4, <2>1, <2>2, GivenUp DEF epollVars, capVars
    <2>4. LocalOK(local)' /\ PoolOK'
        BY <1>7, <1>9, <2>1 DEF LocalOK, PoolOK
    <2>5. Types'
        BY <1>4, <1>8, <2>2, <2>3, <2>4, Kept DEF Types, epollVars, mainVars, capVars
    <2>6. Announcements'
        BY <1>1, <1>4, <1>7, <1>8, <2>1, <2>2, <2>3 DEF Announcements
    <2>7. FramesInOrder'
        BY <1>1, <1>4, <1>7, <2>1 DEF FramesInOrder, mainVars
    <2>8. PacketsConserved'
        <3>1. free' + shared' + Frames(local') + Frames(queue') + deleted' = LocalPool + GlobalPool
            BY <1>14, <2>1, Zenon
        <3> QED
            BY <3>1 DEF PacketsConserved
    <2> QED
        BY <1>10, <2>2, <2>3, <2>5, <2>6, <2>7, <2>8, FactsNext
<1> QED
    BY <1>12, <1>13

-----------------------------------------------------------------------------
(* The epoll thread.                                                       *)

\* The members of a queue
In(q) == {q[i] : i \in DOMAIN q}

LEMMA MembersBehind ==
    ASSUME NEW S, NEW q \in Seq(S), NEW r \in Seq(S), NEW e \in S
    PROVE  In(q \o r) = In(q) \cup In(r) /\ In(Append(q, e)) = In(q) \cup {e} /\ In(<<>>) = {}
           /\ q \o r \in Seq(S) /\ Append(q, e) \in Seq(S)
           /\ Len(q \o r) = Len(q) + Len(r) /\ Len(Append(q, e)) = Len(q) + 1
           /\ Len(q) \in Nat /\ Len(r) \in Nat /\ In(q) \subseteq S
<1> DEFINE t == q \o r
<1> DEFINE a == Append(q, e)
<1>1. /\ t \in Seq(S) /\ Len(q) \in Nat /\ Len(r) \in Nat /\ Len(t) = Len(q) + Len(r)
      /\ DOMAIN q = 1 .. Len(q) /\ DOMAIN r = 1 .. Len(r) /\ DOMAIN t = 1 .. Len(q) + Len(r)
      /\ \A i \in 1 .. Len(q) : t[i] = q[i] /\ q[i] \in S
      /\ \A i \in Len(q) + 1 .. Len(q) + Len(r) : t[i] = r[i - Len(q)]
      /\ \A i \in 1 .. Len(r) : t[i + Len(q)] = r[i]
    OBVIOUS
<1>2. /\ a \in Seq(S) /\ Len(a) = Len(q) + 1 /\ DOMAIN a = 1 .. Len(q) + 1
      /\ \A i \in 1 .. Len(q) : a[i] = q[i]
      /\ a[Len(q) + 1] = e
    OBVIOUS
<1> HIDE DEF t, a
<1>3. In(t) \subseteq In(q) \cup In(r)
    <2> SUFFICES ASSUME NEW i \in 1 .. Len(q) + Len(r) PROVE t[i] \in In(q) \cup In(r)
        BY <1>1 DEF In
    <2>1. CASE i \in 1 .. Len(q)
        BY <1>1, <2>1 DEF In
    <2>2. CASE i \in Len(q) + 1 .. Len(q) + Len(r)
        <3>1. i - Len(q) \in 1 .. Len(r) /\ t[i] = r[i - Len(q)]
            BY <1>1, <2>2
        <3> QED
            BY <1>1, <3>1 DEF In
    <2> QED
        BY <1>1, <2>1, <2>2
<1>4. In(q) \subseteq In(t)
    BY <1>1 DEF In
<1>5. In(r) \subseteq In(t)
    <2> SUFFICES ASSUME NEW i \in 1 .. Len(r) PROVE r[i] \in In(t)
        BY <1>1 DEF In
    <2>1. i + Len(q) \in DOMAIN t /\ t[i + Len(q)] = r[i]
        BY <1>1
    <2> QED
        BY <2>1 DEF In
<1>6. In(a) = In(q) \cup {e}
    <2>1. \A i \in DOMAIN a : i \in DOMAIN q \/ i = Len(q) + 1
        BY <1>1, <1>2
    <2>2. Len(q) + 1 \in DOMAIN a /\ \A i \in DOMAIN q : i \in DOMAIN a /\ a[i] = q[i]
        BY <1>1, <1>2
    <2>3. In(a) \subseteq In(q) \cup {e}
        BY <1>2, <2>1, <2>2 DEF In
    <2>4. In(q) \cup {e} \subseteq In(a)
        BY <1>2, <2>2 DEF In
    <2> QED
        BY <2>3, <2>4
<1>7. In(<<>>) = {}
    BY DEF In
<1>8. In(q) \subseteq S
    BY <1>1 DEF In
<1> QED
    BY <1>1, <1>2, <1>3, <1>4, <1>5, <1>6, <1>7, <1>8 DEF t, a

\* A session is put into the cache, which may be committed or thrown away.
LEMMA Pushed ==
    ASSUME IInv, NEW c \in Conns, PushRecvWorkItem(c)
    PROVE  /\ ring' \in Seq(Conns) /\ Len(ring') <= ringCap
           /\ cache' \in Seq(Conns) /\ Len(cache') < CacheMax
           /\ dropped' \subseteq Conns /\ sum' \in 0 .. CacheMax - 1 /\ dropped \subseteq dropped'
           /\ Len(ring') + Len(cache') <= Len(ring) + Len(cache) + 1
           /\ In(cache) \cup In(ring) \cup {c} \subseteq In(cache') \cup In(ring') \cup dropped'
           /\ dropped' # dropped => Len(ring) + Len(cache) + 1 > ringCap
<1> DEFINE filled == Append(cache, c)
<1> DEFINE last == Len(filled) = CacheMax
<1> DEFINE commits == RingTakes(filled) /\ (last \/ sum + 1 >= CacheMax)
<1>1. /\ cache \in Seq(Conns) /\ Len(cache) < CacheMax /\ ring \in Seq(Conns) /\ Len(ring) <= ringCap
      /\ dropped \subseteq Conns /\ sum \in 0 .. CacheMax - 1 /\ ringCap \in Nat
    BY Facts DEF Types, EpollOK, RingOK
<1>2. /\ ring' = IF commits THEN ring \o filled ELSE ring
      /\ cache' = IF commits \/ last THEN <<>> ELSE filled
      /\ dropped' = IF last /\ ~commits THEN dropped \cup In(filled) ELSE dropped
      /\ sum' = IF sum + 1 >= CacheMax THEN 0 ELSE sum + 1
    BY DEF PushRecvWorkItem, In
<1>3. /\ filled \in Seq(Conns) /\ Len(filled) = Len(cache) + 1 /\ In(filled) = In(cache) \cup {c}
      /\ Len(cache) \in Nat /\ In(filled) \subseteq Conns /\ In(<<>>) = {}
    BY <1>1, MembersBehind
<1> HIDE DEF filled
<1>4. /\ ring \o filled \in Seq(Conns) /\ Len(ring \o filled) = Len(ring) + Len(filled)
      /\ In(ring \o filled) = In(ring) \cup In(filled) /\ Len(ring) \in Nat
    BY <1>1, <1>3, MembersBehind
<1>5. sum' \in 0 .. CacheMax - 1
    BY <1>1, <1>2
<1>6. CASE commits
    <2>1. ring' = ring \o filled /\ cache' = <<>> /\ dropped' = dropped
          /\ Len(ring) + Len(filled) <= ringCap
        BY <1>2, <1>6 DEF RingTakes
    <2> QED
        BY <1>1, <1>3, <1>4, <1>5, <2>1
<1>7. CASE ~commits /\ last
    <2>1. ring' = ring /\ cache' = <<>> /\ dropped' = dropped \cup In(filled)
          /\ Len(ring) + Len(filled) > ringCap
        BY <1>1, <1>2, <1>3, <1>4, <1>7 DEF RingTakes
    <2> QED
        BY <1>1, <1>3, <1>4, <1>5, <2>1
<1>8. CASE ~commits /\ ~last
    <2>1. ring' = ring /\ cache' = filled /\ dropped' = dropped /\ Len(filled) < CacheMax
        BY <1>1, <1>2, <1>3, <1>8
    <2> QED
        BY <1>1, <1>3, <1>4, <1>5, <2>1
<1> QED
    BY <1>6, <1>7, <1>8

LEMMA PushedOut ==
    ASSUME IInv, NEW c \in Conns, PushSendWorkItem(c)
    PROVE  /\ outRing' \in Seq(Conns) /\ Len(outRing') <= OutCap
           /\ outCache' \in Seq(Conns) /\ outSum' \in 0 .. CacheMax - 1
<1> DEFINE filled == Append(outCache, c)
<1>1. /\ outCache \in Seq(Conns) /\ outRing \in Seq(Conns) /\ Len(outRing) <= OutCap
      /\ outSum \in 0 .. CacheMax - 1
    BY Facts DEF Types, EpollOK, OutRingOK
<1>2. filled \in Seq(Conns) /\ Len(filled) \in Nat /\ Len(outRing) \in Nat
    BY <1>1
<1>3. /\ \/ outRing' = outRing
         \/ outRing' = outRing \o filled /\ Len(outRing) + Len(filled) <= OutCap
      /\ outCache' \in {<<>>, filled}
      /\ outSum' = IF outSum + 1 >= CacheMax THEN 0 ELSE outSum + 1
    BY DEF PushSendWorkItem, OutRingTakes
<1> HIDE DEF filled
<1>4. outRing \o filled \in Seq(Conns) /\ Len(outRing \o filled) = Len(outRing) + Len(filled)
    BY <1>1, <1>2
<1>7. outSum' \in 0 .. CacheMax - 1
    BY <1>1, <1>3
<1>8. outCache' \in Seq(Conns)
    <2>1. <<>> \in Seq(Conns)
        OBVIOUS
    <2> QED
        BY <1>2, <1>3, <2>1, Zenon
<1>5. CASE outRing' = outRing
    BY <1>1, <1>5, <1>7, <1>8
<1>6. CASE outRing' = outRing \o filled /\ Len(outRing) + Len(filled) <= OutCap
    <2>1. outRing' \in Seq(Conns) /\ Len(outRing') <= OutCap
        BY <1>4, <1>6
    <2> QED
        BY <1>7, <1>8, <2>1
<1> QED
    BY <1>3, <1>5, <1>6

LEMMA InFlightMeans ==
    /\ \A c : InFlight(c) <=> \/ \E i \in DOMAIN batch : batch[i].c = c /\ "in" \in batch[i].E
                              \/ c \in In(cache) \cup In(ring) \/ at = c
    /\ \A c : InFlight(c)' <=> \/ \E i \in DOMAIN batch' : batch'[i].c = c /\ "in" \in batch'[i].E
                               \/ c \in In(cache') \cup In(ring') \/ at' = c
BY DEF InFlight, In

\* The events at the head of the batch, counted
LEMMA HeadCounted ==
    ASSUME NEW q \in Seq(Events), q # <<>>
    PROVE  /\ ReadEvents(q) = (IF "in" \in Head(q).E THEN 1 ELSE 0) + ReadEvents(Tail(q))
           /\ ReadEvents(Tail(q)) \in Nat /\ ReadEvents(q) \in Nat
<1> DEFINE P == {e \in Events : "in" \in e.E}
<1>1. /\ Head(q) \in Events /\ Tail(q) \in Seq(Events) /\ q = <<Head(q)>> \o Tail(q)
      /\ <<Head(q)>> \in Seq(Events)
    BY HeadAndTail
<1>2. ASSUME NEW r \in Seq(Events)
      PROVE  ReadEvents(r) = Cardinality(Holding(r, P)) /\ ReadEvents(r) \in Nat
    <2>1. {i \in DOMAIN r : "in" \in r[i].E} = Holding(r, P)
        <3>1. ASSUME NEW i \in DOMAIN r PROVE r[i] \in Events
            BY ElementOfSeq, LenProperties
        <3> QED
            BY <3>1 DEF Holding
    <2> QED
        BY <2>1, HoldingFinite DEF ReadEvents
<1>3. Cardinality(Holding(<<Head(q)>>, P)) = IF "in" \in Head(q).E THEN 1 ELSE 0
    <2>1. Head(q) \in P <=> "in" \in Head(q).E
        BY <1>1
    <2> QED
        BY <2>1, HoldingOne
<1> HIDE DEF P
<1>4. Cardinality(Holding(<<Head(q)>> \o Tail(q), P))
        = Cardinality(Holding(<<Head(q)>>, P)) + Cardinality(Holding(Tail(q), P))
    BY <1>1, HoldingBehind
<1>5. Cardinality(Holding(q, P))
        = Cardinality(Holding(<<Head(q)>>, P)) + Cardinality(Holding(Tail(q), P))
    BY <1>1, <1>4, Zenon
<1>6. /\ ReadEvents(q) = Cardinality(Holding(q, P)) /\ ReadEvents(q) \in Nat
      /\ ReadEvents(Tail(q)) = Cardinality(Holding(Tail(q), P)) /\ ReadEvents(Tail(q)) \in Nat
    BY <1>1, <1>2
<1> QED
    BY <1>3, <1>5, <1>6, Zenon

LEMMA EpollCommitStep ==
    ASSUME IInv, EpollCommit PROVE IInv'
<1>1. Types /\ RecvOK /\ Awaited
    BY Facts
<1>2. /\ epollAt = "loop" /\ batch = <<>> /\ epollAt' = "wait"
      /\ ring' = (IF RingTakes(cache) THEN ring \o cache ELSE ring)
      /\ cache' = (IF RingTakes(cache) THEN <<>> ELSE cache)
      /\ outRing' = (IF OutRingTakes(outCache) THEN outRing \o outCache ELSE outRing)
      /\ outCache' = (IF OutRingTakes(outCache) THEN <<>> ELSE outCache)
      /\ UNCHANGED <<sessionVars, sent, batch, sum, outSum, dropped, recvVars, acceptLocal,
                     closeLocal, queue, shared, mainVars, capVars>>
    BY DEF EpollCommit
<1>3. /\ cache \in Seq(Conns) /\ Len(cache) < CacheMax /\ ring \in Seq(Conns) /\ Len(ring) <= ringCap
      /\ outCache \in Seq(Conns) /\ outRing \in Seq(Conns) /\ Len(outRing) <= OutCap
      /\ Len(cache) \in Nat /\ Len(ring) \in Nat
    BY <1>1 DEF Types, EpollOK, RingOK, OutRingOK
<1>4. /\ ring' \in Seq(Conns) /\ Len(ring') <= ringCap
      /\ cache' \in Seq(Conns) /\ Len(cache') < CacheMax
      /\ Len(ring') + Len(cache') = Len(ring) + Len(cache)
      /\ In(cache') \cup In(ring') = In(cache) \cup In(ring)
    <2>1. CASE RingTakes(cache)
        <3>1. ring' = ring \o cache /\ cache' = <<>> /\ Len(ring) + Len(cache) <= ringCap
            BY <1>2, <2>1 DEF RingTakes
        <3>2. /\ ring \o cache \in Seq(Conns) /\ Len(ring \o cache) = Len(ring) + Len(cache)
            BY <1>3
        <3>3. In(<<>>) = {}
            BY DEF In
        <3>4. In(ring \o cache) = In(ring) \cup In(cache)
            <4>1. CASE Conns = {}
                <5>1. ring = <<>> /\ cache = <<>>
                    BY <1>3, <4>1
                <5> QED
                    BY <3>3, <5>1
            <4>2. CASE Conns # {}
                <5>1. PICK e \in Conns : TRUE
                    BY <4>2
                <5> QED
                    BY <1>3, <5>1, MembersBehind
            <4> QED
                BY <4>1, <4>2
        <3> QED
            BY <1>3, <3>1, <3>2, <3>3, <3>4
    <2>2. CASE ~RingTakes(cache)
        BY <1>2, <1>3, <2>2
    <2> QED
        BY <2>1, <2>2
<1>5. outRing' \in Seq(Conns) /\ Len(outRing') <= OutCap /\ outCache' \in Seq(Conns)
    <2>1. CASE OutRingTakes(outCache)
        <3>1. /\ outRing \o outCache \in Seq(Conns) /\ <<>> \in Seq(Conns)
              /\ Len(outRing \o outCache) = Len(outRing) + Len(outCache)
            BY <1>3
        <3> QED
            BY <1>2, <2>1, <3>1 DEF OutRingTakes
    <2>2. CASE ~OutRingTakes(outCache)
        BY <1>2, <1>3, <2>2
    <2> QED
        BY <2>1, <2>2
<1>6. EpollOK' /\ RingOK' /\ OutRingOK'
    BY <1>1, <1>2, <1>4, <1>5 DEF Types, EpollOK, RingOK, OutRingOK, capVars
<1>7. Types'
    BY <1>2, <1>6, Kept DEF Types, sessionVars, recvVars, mainVars, capVars
<1>8. RecvOK'
    BY <1>1, <1>2 DEF RecvOK, recvVars
<1>9. Awaited'
    <2>1. \A c \in Conns : InFlight(c)' <=> InFlight(c)
        BY <1>2, <1>4, InFlightMeans DEF recvVars
    <2> QED
        BY <1>1, <1>2, <2>1 DEF Awaited, Usable, sessionVars
<1>10. Counted'
    <2>1. /\ UnderWay \in Nat /\ ReadEvents(batch) \in Nat
          /\ UnderWay = ReadEvents(batch) + Len(cache) + Len(ring) + IF at \in Conns THEN 1 ELSE 0
        BY CountTypes, UnderWayAdds
    <2>2. UnderWay' = ReadEvents(batch) + Len(cache') + Len(ring') + IF at \in Conns THEN 1 ELSE 0
        BY <1>2 DEF UnderWay, recvVars
    <2>3. Len(cache') \in Nat /\ Len(ring') \in Nat
        BY <1>4
    <2>4. UnderWay' = UnderWay
        <3>1. Len(cache') + Len(ring') = Len(cache) + Len(ring)
              /\ Len(cache) \in Nat /\ Len(ring) \in Nat
            BY <1>3, <1>4
        <3>2. PICK a \in Nat : a = IF at \in Conns THEN 1 ELSE 0
            OBVIOUS
        <3> QED
            BY <2>1, <2>2, <2>3, <3>1, <3>2, SameSum
    <2>5. UNCHANGED <<life, armed, stalls, ringCap, dropped>>
        BY <1>2 DEF sessionVars, capVars
    <2>6. Registered' = Registered
        BY <2>5 DEF Registered
    <2>7. Cardinality(Registered) \in Nat
        BY CountTypes
    <2>8. UnderWay' \in Nat /\ UnderWay' + Cardinality(Registered') <= UnderWay + Cardinality(Registered)
        BY <2>1, <2>4, <2>6, <2>7
    <2> QED
        BY <2>5, <2>8, CountFalls
<1> QED
    BY <1>2, <1>7, <1>8, <1>9, <1>10, KeptParts, FactsNext
        DEF sessionVars, recvVars, mainVars, capVars

LEMMA EpollEventStep ==
    ASSUME IInv, EpollEvent PROVE IInv'
<1> DEFINE c == Head(batch).c
<1> DEFINE E == IF Usable(c) THEN Head(batch).E ELSE {}
<1>1. Types /\ RecvOK /\ Awaited /\ Counted
    BY Facts
<1>2. /\ epollAt = "loop" /\ batch # <<>> /\ batch' = Tail(batch)
      /\ IF "in" \in E THEN PushRecvWorkItem(c) ELSE UNCHANGED <<ring, cache, dropped, sum>>
      /\ IF "out" \in E THEN PushSendWorkItem(c) ELSE UNCHANGED <<outRing, outCache, outSum>>
      /\ UNCHANGED <<sessionVars, sent, epollAt, recvVars, acceptLocal, closeLocal, queue, shared,
                     mainVars, capVars>>
    BY DEF EpollEvent
<1>3. /\ batch \in Seq(Events) /\ Head(batch) \in Events /\ Tail(batch) \in Seq(Events) /\ c \in Conns
      /\ \A i \in DOMAIN batch : \/ i = 1 /\ batch[i] = Head(batch)
                                 \/ i - 1 \in DOMAIN Tail(batch) /\ Tail(batch)[i - 1] = batch[i]
    <2>1. batch \in Seq(Events)
        BY <1>1 DEF Types, EpollOK
    <2>2. Head(batch) \in Events
        BY <1>2, <2>1, TailIs
    <2> QED
        BY <1>2, <2>1, <2>2, TailIs DEF Events
<1>4. E # {} => Usable(c) /\ E = Head(batch).E
    OBVIOUS
<1> HIDE DEF c, E
<1>5. /\ ring' \in Seq(Conns) /\ Len(ring') <= ringCap
      /\ cache' \in Seq(Conns) /\ Len(cache') < CacheMax
      /\ dropped' \subseteq Conns /\ sum' \in 0 .. CacheMax - 1 /\ dropped \subseteq dropped'
      /\ Len(ring') + Len(cache') <= Len(ring) + Len(cache) + (IF "in" \in E THEN 1 ELSE 0)
      /\ In(cache) \cup In(ring) \subseteq In(cache') \cup In(ring') \cup dropped'
      /\ "in" \in E => c \in In(cache') \cup In(ring') \cup dropped'
      /\ dropped' # dropped => "in" \in E /\ Len(ring) + Len(cache) + 1 > ringCap
    <2>1. CASE "in" \in E
        BY <1>2, <1>3, <2>1, Pushed
    <2>2. CASE "in" \notin E
        <3>1. /\ cache \in Seq(Conns) /\ Len(cache) < CacheMax /\ ring \in Seq(Conns)
              /\ Len(ring) <= ringCap /\ dropped \subseteq Conns /\ sum \in 0 .. CacheMax - 1
            BY <1>1 DEF Types, EpollOK, RingOK
        <3>2. Len(cache) \in Nat /\ Len(ring) \in Nat
            BY <3>1
        <3> QED
            BY <1>2, <2>2, <3>1, <3>2
    <2> QED
        BY <2>1, <2>2
<1>6. /\ outRing' \in Seq(Conns) /\ Len(outRing') <= OutCap
      /\ outCache' \in Seq(Conns) /\ outSum' \in 0 .. CacheMax - 1
    <2>1. CASE "out" \in E
        BY <1>2, <1>3, <2>1, PushedOut
    <2>2. CASE "out" \notin E
        BY <1>1, <1>2, <2>2 DEF Types, EpollOK, OutRingOK
    <2> QED
        BY <2>1, <2>2
<1>7. EpollOK' /\ RingOK' /\ OutRingOK'
    <2>1. epollAt' \in {"wait", "loop"} /\ ringCap' = ringCap /\ ringCap \in RingCaps
        BY <1>1, <1>2 DEF Types, EpollOK, RingOK, capVars
    <2> QED
        BY <1>2, <1>3, <1>5, <1>6, <2>1 DEF EpollOK, RingOK, OutRingOK
<1>8. Types'
    BY <1>2, <1>7, Kept DEF Types, sessionVars, recvVars, mainVars, capVars
<1>9. RecvOK'
    BY <1>1, <1>2 DEF RecvOK, recvVars
<1>10. Awaited'
    <2> SUFFICES ASSUME NEW d \in Conns, Usable(d), "in" \notin armed[d], d \notin deaf
                 PROVE  InFlight(d)' \/ d \in dropped'
        BY <1>2 DEF Awaited, Usable, sessionVars
    <2>1. InFlight(d) \/ d \in dropped
        BY <1>1 DEF Awaited
    <2>2. CASE d \in dropped \/ d \in In(cache) \cup In(ring) \/ at = d
        BY <1>2, <1>5, <2>2, InFlightMeans DEF recvVars
    <2>3. ASSUME NEW i \in DOMAIN batch, batch[i].c = d, "in" \in batch[i].E
          PROVE  InFlight(d)' \/ d \in dropped'
        <3>1. CASE i = 1 /\ batch[i] = Head(batch)
            <4>1. d = c /\ "in" \in E
                BY <2>3, <3>1 DEF c, E
            <4> QED
                BY <1>5, <4>1, InFlightMeans
        <3>2. CASE i - 1 \in DOMAIN Tail(batch) /\ Tail(batch)[i - 1] = batch[i]
            BY <1>2, <2>3, <3>2, InFlightMeans
        <3> QED
            BY <1>3, <3>1, <3>2
    <2> QED
        BY <2>1, <2>2, <2>3, InFlightMeans
<1>11. Counted'
    <2> DEFINE a == IF at \in Conns THEN 1 ELSE 0
    <2> DEFINE e == IF "in" \in E THEN 1 ELSE 0
    <2>1. /\ UnderWay \in Nat /\ ReadEvents(batch) \in Nat
          /\ UnderWay = ReadEvents(batch) + Len(cache) + Len(ring) + a
          /\ Len(cache) \in Nat /\ Len(ring) \in Nat
        BY CountTypes, UnderWayAdds
    <2>2. UnderWay' = ReadEvents(batch') + Len(cache') + Len(ring') + a
        BY <1>2 DEF UnderWay, recvVars
    <2>3. Len(cache') \in Nat /\ Len(ring') \in Nat /\ a \in Nat /\ e \in {0, 1}
        BY <1>5
    <2>4. ReadEvents(batch') + e <= ReadEvents(batch) /\ ReadEvents(batch') \in Nat
        <3>1. /\ ReadEvents(batch) = (IF "in" \in Head(batch).E THEN 1 ELSE 0) + ReadEvents(batch')
              /\ ReadEvents(batch') \in Nat
            BY <1>2, <1>3, HeadCounted
        <3>2. "in" \in E => "in" \in Head(batch).E
            BY <1>4
        <3> QED
            BY <2>1, <3>1, <3>2
    <2>5. Len(ring') + Len(cache') <= Len(ring) + Len(cache) + e
        BY <1>5
    <2> HIDE DEF a, e
    <2>6. UnderWay' <= UnderWay /\ UnderWay' \in Nat
        <3> DEFINE b == ReadEvents(batch)
        <3> DEFINE d == ReadEvents(batch')
        <3>1. /\ b \in Nat /\ d \in Nat /\ d + e <= b /\ a \in Nat /\ e \in Nat
              /\ Len(cache) \in Nat /\ Len(ring) \in Nat /\ Len(cache') \in Nat /\ Len(ring') \in Nat
              /\ Len(ring') + Len(cache') <= Len(ring) + Len(cache) + e
            BY <2>1, <2>3, <2>4, <2>5
        <3>2. UnderWay = b + Len(cache) + Len(ring) + a /\ UnderWay' = d + Len(cache') + Len(ring') + a
            BY <2>1, <2>2
        <3> HIDE DEF b, d
        <3>3. /\ d + Len(cache') + Len(ring') + a <= b + Len(cache) + Len(ring) + a
              /\ d + Len(cache') + Len(ring') + a \in Nat
            BY <3>1
        <3> QED
            BY <3>2, <3>3, Zenon
    <2>7. /\ Registered' = Registered /\ Unopened' = Unopened /\ stalls' = stalls /\ BigRing' = BigRing
        BY <1>2 DEF Registered, Unopened, BigRing, sessionVars, capVars
    <2>8. /\ Cardinality(Registered) \in Nat /\ Cardinality(Unopened) \in Nat
          /\ stalls \in 0 .. MaxStalls /\ Cardinality(Conns) \in Nat
        BY CountTypes, ConnsFinite
    <2>9. UnderWay + Cardinality(Registered) + Cardinality(Unopened) <= Cardinality(Conns) + stalls
        BY <1>1 DEF Counted
    <2>10. ASSUME BigRing PROVE dropped' = {}
        <3>1. SUFFICES dropped' = dropped
            BY <1>1, <2>10 DEF Counted
        <3>2. SUFFICES ASSUME dropped' # dropped PROVE FALSE
            OBVIOUS
        <3>3. e = 1 /\ Len(ring) + Len(cache) + 1 > ringCap
            BY <1>5, <3>2 DEF e
        <3>4. ringCap >= Cardinality(Conns) + MaxStalls /\ ringCap \in Nat
            BY <1>1, <2>10 DEF BigRing, Types, RingOK
        <3>5. ReadEvents(batch) >= 1
            BY <2>1, <2>4, <3>3
        <3>6. UnderWay >= 1 + Len(cache) + Len(ring)
            BY <2>1, <2>3, <3>5
        <3>7. UnderWay <= Cardinality(Conns) + MaxStalls
            BY <2>1, <2>8, <2>9
        <3> QED
            BY <2>1, <2>8, <3>3, <3>4, <3>6, <3>7
    <2>11. UnderWay' + Cardinality(Registered) + Cardinality(Unopened) <= Cardinality(Conns) + stalls
        <3> DEFINE r == Cardinality(Registered)
        <3> DEFINE u == Cardinality(Unopened)
        <3> DEFINE n == Cardinality(Conns)
        <3>1. /\ r \in Nat /\ u \in Nat /\ n \in Nat /\ stalls \in Nat
              /\ UnderWay + r + u <= n + stalls
            BY <2>8, <2>9
        <3> HIDE DEF r, u, n
        <3>2. UnderWay' + r + u <= n + stalls
            BY <2>1, <2>6, <3>1, LessSum
        <3> QED
            BY <3>2 DEF r, u, n
    <2> QED
        BY <2>7, <2>10, <2>11 DEF Counted
<1> QED
    BY <1>2, <1>8, <1>9, <1>10, <1>11, KeptParts, FactsNext
        DEF sessionVars, recvVars, mainVars, capVars

\* Events are taken from sockets registered for them, each from its own.
LEMMA EpollWaitStep ==
    ASSUME IInv, EpollWait PROVE IInv'
<1>1. Types /\ RecvOK /\ Awaited
    BY Facts
<1>2. PICK k \in 1 .. Cardinality(Conns) :
        \E cs \in [1 .. k -> {c \in Conns : life[c] = "open" /\ Ready(c) # {}}] :
            /\ \A i, j \in 1 .. k : cs[i] = cs[j] => i = j
            /\ batch' \in {b \in [1 .. k -> [c : Conns, E : SUBSET {"in", "out"}]] :
                              \A i \in 1 .. k : b[i].c = cs[i] /\ b[i].E \in Ready(cs[i])}
            /\ armed' = [c \in Conns |-> IF \E i \in 1 .. k : cs[i] = c THEN {} ELSE armed[c]]
            /\ deaf' = deaf \cup {cs[i] : i \in {j \in 1 .. k : batch'[j].E = {"out"}}}
    BY Zenon DEF EpollWait
<1>3. PICK cs \in [1 .. k -> {c \in Conns : life[c] = "open" /\ Ready(c) # {}}] :
            /\ \A i, j \in 1 .. k : cs[i] = cs[j] => i = j
            /\ batch' \in {b \in [1 .. k -> [c : Conns, E : SUBSET {"in", "out"}]] :
                              \A i \in 1 .. k : b[i].c = cs[i] /\ b[i].E \in Ready(cs[i])}
            /\ armed' = [c \in Conns |-> IF \E i \in 1 .. k : cs[i] = c THEN {} ELSE armed[c]]
            /\ deaf' = deaf \cup {cs[i] : i \in {j \in 1 .. k : batch'[j].E = {"out"}}}
    BY <1>2, Zenon
<1>4. /\ epollAt = "wait" /\ epollAt' = "loop" /\ sum' = 0 /\ outSum' = 0
      /\ UNCHANGED <<life, asked, sent, full, stalls, cache, outCache, dropped, ring, outRing,
                     recvVars, acceptLocal, closeLocal, queue, shared, mainVars, capVars>>
    BY DEF EpollWait
<1>5. /\ k \in Nat /\ \A i \in 1 .. k : cs[i] \in Conns
      /\ batch' \in [1 .. k -> Events]
      /\ \A i \in 1 .. k : batch'[i].c = cs[i] /\ batch'[i].E \in Ready(cs[i])
    <2>1. k \in Nat /\ \A i \in 1 .. k : cs[i] \in Conns
        BY <1>3, ConnsFinite
    <2> QED
        BY <1>3, <2>1, Zenon DEF Events
<1>6. batch' \in Seq(Events) /\ DOMAIN batch' = 1 .. k
    BY <1>5
<1>7. ASSUME NEW c \in Conns, NEW F \in Ready(c) PROVE F \subseteq armed[c] /\ F # {} /\ F \subseteq {"in", "out"}
    BY <1>1 DEF Ready, Types, SessionOK
<1>8. armed' \in [Conns -> SUBSET {"in", "out"}]
    <2>1. \A c \in Conns : armed[c] \in SUBSET {"in", "out"}
        BY <1>1 DEF Types, SessionOK
    <2> QED
        BY <1>3, <2>1
<1>9. SessionOK' /\ EpollOK'
    BY <1>1, <1>4, <1>6, <1>8 DEF Types, SessionOK, EpollOK
<1>10. Types'
    BY <1>4, <1>9, Kept DEF Types, recvVars, mainVars, capVars
<1>11. RecvOK' /\ batch = <<>>
    BY <1>1, <1>4 DEF RecvOK, recvVars
<1>12. Awaited'
    <2> SUFFICES ASSUME NEW d \in Conns, Usable(d), "in" \notin armed'[d], d \notin deaf'
                 PROVE  InFlight(d)' \/ d \in dropped
        BY <1>4 DEF Awaited, Usable
    <2>1. CASE \E i \in 1 .. k : cs[i] = d
        <3>1. PICK i \in 1 .. k : cs[i] = d
            BY <2>1
        <3>2. batch'[i].c = d /\ batch'[i].E \subseteq {"in", "out"} /\ batch'[i].E # {}
            BY <1>5, <1>7, <3>1
        <3>3. batch'[i].E # {"out"}
            BY <1>3, <3>1
        <3>4. "in" \in batch'[i].E
            BY <3>2, <3>3
        <3> QED
            BY <1>6, <3>1, <3>2, <3>4, InFlightMeans
    <2>2. CASE ~\E i \in 1 .. k : cs[i] = d
        <3>1. armed'[d] = armed[d] /\ d \notin deaf
            BY <1>3, <2>2
        <3>2. InFlight(d) \/ d \in dropped
            BY <1>1, <3>1 DEF Awaited
        <3>3. ~\E i \in DOMAIN batch : batch[i].c = d /\ "in" \in batch[i].E
            BY <1>11
        <3> QED
            BY <1>4, <3>2, <3>3, InFlightMeans DEF recvVars
    <2> QED
        BY <2>1, <2>2
<1>13. Counted'
    <2> DEFINE D == {i \in 1 .. k : "in" \in batch'[i].E}
    <2> DEFINE M == {cs[i] : i \in D}
    <2>1. ReadEvents(batch') = Cardinality(D)
        BY <1>6 DEF ReadEvents
    <2>2. \A i \in D : i \in 1 .. k /\ cs[i] \in M /\ cs[i] \in Registered
        BY <1>5, <1>7 DEF Registered
    <2>3. M \subseteq Registered /\ IsFiniteSet(M) /\ Cardinality(M) \in Nat
          /\ IsFiniteSet(Registered) /\ Cardinality(Registered) \in Nat
        <3>1. M \subseteq Registered
            BY <2>2
        <3>2. Registered \subseteq Conns
            BY DEF Registered
        <3>3. M \subseteq Conns
            BY <3>1, <3>2
        <3> HIDE DEF M
        <3> QED
            BY <3>1, <3>2, <3>3, ConnsFinite, Zenon
    <2>4. Registered' \subseteq Registered \ M
        <3> SUFFICES ASSUME NEW c \in Conns, "in" \in armed'[c] PROVE c \in Registered \ M
            BY DEF Registered
        <3>1. ~\E i \in 1 .. k : cs[i] = c
            BY <1>3
        <3>2. armed'[c] = armed[c]
            BY <1>3, <3>1
        <3> QED
            BY <2>2, <3>1, <3>2 DEF Registered
    <2>5. Cardinality(D) = Cardinality(M) /\ IsFiniteSet(D)
        <3> DEFINE f == [i \in D |-> cs[i]]
        <3>1. f \in [D -> M] /\ \A i \in D : f[i] = cs[i]
            BY <2>2
        <3>2. \A m \in M : \E i \in D : f[i] = m
            BY <3>1
        <3>3. \A i, j \in D : f[i] = f[j] => i = j
            BY <1>3, <2>2, <3>1
        <3> HIDE DEF f, D, M
        <3>4. DOMAIN f = D
            BY <3>1
        <3>5. f \in Bijection(D, M)
            BY <3>1, <3>2, <3>3, <3>4, Zenon DEF Bijection, Injection, Surjection, IsInjective
        <3>6. IsFiniteSet(D)
            <4>1. IsFiniteSet(1 .. k)
                BY <1>5, FS_Interval
            <4> QED
                BY <4>1, FS_Subset DEF D
        <3> QED
            BY <3>5, <3>6, FS_Bijection DEF ExistsBijection
    <2>6. Cardinality(Registered \ M) = Cardinality(Registered) - Cardinality(M)
          /\ IsFiniteSet(Registered \ M)
        <3> HIDE DEF M
        <3>1. Registered \cap M = M
            BY <2>3
        <3>2. Cardinality(Registered \ M) = Cardinality(Registered) - Cardinality(Registered \cap M)
              /\ IsFiniteSet(Registered \ M)
            BY <2>3, FS_Difference
        <3> QED
            BY <3>1, <3>2
    <2>7. Cardinality(Registered') <= Cardinality(Registered \ M) /\ Cardinality(Registered') \in Nat
        BY <2>4, <2>6, FS_Subset, FS_CardinalityType
    <2>8. /\ UnderWay \in Nat /\ ReadEvents(batch) = 0
          /\ UnderWay = ReadEvents(batch) + Len(cache) + Len(ring) + IF at \in Conns THEN 1 ELSE 0
          /\ Len(cache) \in Nat /\ Len(ring) \in Nat
        <3>1. ReadEvents(<<>>) = 0
            <4>1. {i \in DOMAIN <<>> : "in" \in <<>>[i].E} = {}
                OBVIOUS
            <4> QED
                BY <4>1, FS_EmptySet DEF ReadEvents
        <3> QED
            BY <1>11, <3>1, CountTypes, UnderWayAdds
    <2>9. UnderWay' = Cardinality(D) + Len(cache) + Len(ring) + IF at \in Conns THEN 1 ELSE 0
        BY <1>4, <2>1 DEF UnderWay, recvVars
    <2> HIDE DEF D, M
    <2>10. UnderWay' = UnderWay + Cardinality(M) /\ UnderWay' \in Nat
        BY <2>3, <2>5, <2>8, <2>9
    <2>11. UnderWay' + Cardinality(Registered') <= UnderWay + Cardinality(Registered)
        <3>1. Cardinality(Registered') <= Cardinality(Registered) - Cardinality(M)
            BY <2>6, <2>7
        <3> QED
            BY <2>3, <2>7, <2>8, <2>10, <3>1, Exchanged
    <2>12. UNCHANGED <<life, stalls, ringCap, dropped>>
        BY <1>4 DEF capVars
    <2> QED
        BY <2>10, <2>11, <2>12, CountFalls, Zenon
<1> QED
    BY <1>4, <1>10, <1>11, <1>12, <1>13, KeptParts, FactsNext
        DEF recvVars, mainVars, capVars

-----------------------------------------------------------------------------
(* The theorems.                                                           *)

LEMMA Stutter == ASSUME IInv, UNCHANGED vars PROVE IInv'
<1>1. Types'
    BY Kept DEF Types, vars, sessionVars, epollVars, recvVars, mainVars, capVars
<1> QED
    BY <1>1, KeptParts, FactsNext DEF vars, sessionVars, epollVars, recvVars, mainVars, capVars

LEMMA StepOK == IInv /\ [Next]_vars => IInv'
<1> SUFFICES ASSUME IInv, [Next]_vars PROVE IInv'
    OBVIOUS
<1>1. CASE EpollThread
    BY <1>1, EpollWaitStep, EpollEventStep, EpollCommitStep DEF EpollThread
<1>2. CASE RecvThread
    BY <1>2, RecvTakeStep, RecvFrameStep, RecvNoPacketStep, RecvRearmStep, RecvCommitStep
        DEF RecvThread
<1>3. CASE SendOut
    BY <1>3, SendOutStep
<1>4. CASE MainTake
    BY <1>4, MainTakeStep
<1>5. ASSUME NEW c \in Conns,
             \/ ClientSends(c) \/ AcceptAnnounce(c) \/ AcceptPost(c) \/ AcceptPostFails(c)
             \/ SendStalls(c) \/ KickOutSession(c) \/ CloseSession(c)
      PROVE  IInv'
    BY <1>5, ClientSendsStep, AcceptAnnounceStep, AcceptPostStep, AcceptPostFailsStep,
       SendStallsStep, KickOutSessionStep, CloseSessionStep
<1>6. CASE UNCHANGED vars
    BY <1>6, Stutter
<1> QED
    BY <1>1, <1>2, <1>3, <1>4, <1>5, <1>6 DEF Next

(* The invariant the theorems rest on.                                       *)
THEOREM Invariance == Spec => []IInv
BY InitOK, StepOK, PTL DEF Spec

(* Every variable keeps its type; a cache, a ring and a pool never hold more *)
(* than they can.                                                            *)
THEOREM TypeCorrect == Spec => []TypeOK
<1>1. IInv => TypeOK
    BY DEF IInv
<1> QED
    BY Invariance, <1>1, PTL

(* The main thread is told of a connection before it is given anything else  *)
(* of it, whatever is left in a local ring by a commit that failed.          *)
THEOREM ConnectComesFirst == Spec => []ConnectFirst
<1>1. IInv => ConnectFirst
    BY DEF IInv
<1> QED
    BY Invariance, <1>1, PTL

(* The frames on their way to the main thread are those behind the last it   *)
(* was given, in order and without a gap, up to the last one handed on.      *)
THEOREM FramesStayInOrder == Spec => []FramesInOrder
<1>1. IInv => FramesInOrder
    BY DEF IInv
<1> QED
    BY Invariance, <1>1, PTL

(* The pools and the frames under way make up the packets there were, but    *)
(* for those that were deleted.                                              *)
THEOREM PacketsStay == Spec => []PacketsConserved
<1>1. IInv => PacketsConserved
    BY DEF IInv
<1> QED
    BY Invariance, <1>1, PTL

(* A connection that is not registered for reading has an event under way,   *)
(* or heard of EPOLLOUT alone, or lost its event with a full cache, and that *)
(* only when the ring is too small for every event there can be.             *)
THEOREM WakeupsStay == Spec => []NoWakeupLost
<1>1. IInv => NoWakeupLost
    BY DEF IInv, Awaited, Counted, NoWakeupLost
<1> QED
    BY Invariance, <1>1, PTL

(* With a place in the ring for every connection and every stalled send, a   *)
(* full cache is never thrown away.                                          *)
THEOREM BigRingDropsNothing == Spec => [](BigRing => dropped = {})
<1>1. IInv => (BigRing => dropped = {})
    BY DEF IInv, Counted
<1> QED
    BY Invariance, <1>1, PTL

(* The main thread is given the frames of a connection one by one: each is   *)
(* the one behind the last, none is left out and none is given twice.        *)
GivenInTurn == [][\A c \in Conns : got'[c] \in {got[c], got[c] + 1}]_vars

LEMMA TakenInTurn ==
    ASSUME IInv, MainTake, NEW c \in Conns
    PROVE  got'[c] \in {got[c], got[c] + 1}
<1> DEFINE p == Head(queue)
<1> DEFINE r == Tail(queue) \o local
<1>1. Types /\ FramesInOrder
    BY Facts
<1>2. queue \in Seq(Packets) /\ queue # <<>> /\ local \in Seq(Packets)
    BY <1>1 DEF MainTake, Types, QueueOK, LocalOK
<1>3. /\ p \in Packets /\ Tail(queue) \in Seq(Packets) /\ queue = <<p>> \o Tail(queue)
      /\ <<p>> \in Seq(Packets) /\ p.c \in Conns
    <2>1. p \in Packets /\ Tail(queue) \in Seq(Packets) /\ queue = <<p>> \o Tail(queue)
        BY <1>2, HeadAndTail
    <2> QED
        BY <2>1, OnePacket DEF Packets
<1>4. got' = IF p.n > 0 THEN [got EXCEPT ![p.c] = p.n] ELSE got
    BY DEF MainTake
<1>5. queue \o local = <<p>> \o r /\ r \in Seq(Packets)
    BY <1>2, <1>3, ConcatAssociative, ConcatProperties
<1>6. InOrder(queue \o local, c, got[c], handed[c]) /\ got[c] \in Nat /\ handed[c] \in Nat
    BY <1>1, FramesInOrderMeans DEF Types, MainOK, ReceiverOK
<1> HIDE DEF p, r
<1>7. InOrder(<<p>> \o r, c, got[c], handed[c])
    BY <1>5, <1>6, Zenon
<1>8. p.n > 0 /\ p.c = c => p.n = got[c] + 1
    BY <1>3, <1>5, <1>6, <1>7, OrderTaken
<1>9. got'[c] = IF p.n > 0 /\ p.c = c THEN p.n ELSE got[c]
    BY <1>1, <1>3, <1>4 DEF Types, MainOK
<1> QED
    BY <1>8, <1>9

(* This is so in every step, whichever thread takes it (ProcessRecvedPacket). *)
THEOREM FramesGivenInTurn == Spec => GivenInTurn
<1>1. IInv /\ [Next]_vars => [\A c \in Conns : got'[c] \in {got[c], got[c] + 1}]_vars
    <2> SUFFICES ASSUME IInv, Next, NEW c \in Conns PROVE got'[c] \in {got[c], got[c] + 1}
        OBVIOUS
    <2>1. CASE MainTake
        BY <2>1, TakenInTurn
    <2>2. CASE ~MainTake
        <3>1. got' = got
            BY <2>2 DEF Next, EpollThread, EpollWait, EpollEvent, EpollCommit, RecvThread, RecvTake,
                        RecvFrame, RecvNoPacket, RecvRearm, RecvCommit, SendOut, ClientSends,
                        AcceptAnnounce, AcceptPost, AcceptPostFails, SendStalls, KickOutSession,
                        CloseSession, mainVars
        <3> QED
            BY <3>1
    <2> QED
        BY <2>1, <2>2
<1> QED
    BY Invariance, <1>1, PTL DEF Spec, GivenInTurn

-----------------------------------------------------------------------------
(* To the main thread the library is a SessionView.                          *)

\* The announcements of c in a queue
UpsOf(q, c) == Cardinality(Holding(q, {Packet(c, Up)}))

\* A connection is new, or its announcement is under way, or the main thread has heard it,
\* and only one of these; it is left out where a full ring refused the announcement.
Unheard(c) == (IF heard[c] = "none" THEN 0 ELSE 1) + (IF life[c] = "new" THEN 1 ELSE 0)
UpOnce ==
    \A c \in Conns :
        /\ UpsOf(local, c) = 0 /\ UpsOf(closeLocal, c) = 0
        /\ UpsOf(queue, c) + UpsOf(acceptLocal, c) + Unheard(c) <= 1

LEMMA UpsBehind ==
    ASSUME NEW q \in Seq(Packets), NEW r \in Seq(Packets), NEW c
    PROVE  /\ UpsOf(q, c) \in Nat /\ UpsOf(r, c) \in Nat /\ q \o r \in Seq(Packets)
           /\ UpsOf(q \o r, c) = UpsOf(q, c) + UpsOf(r, c)
<1>1. UpsOf(q, c) \in Nat /\ UpsOf(r, c) \in Nat
    BY HoldingFinite DEF UpsOf
<1>2. UpsOf(q \o r, c) = UpsOf(q, c) + UpsOf(r, c)
    BY HoldingBehind DEF UpsOf
<1> QED
    BY <1>1, <1>2, ConcatProperties

LEMMA UpsOne ==
    ASSUME NEW p \in Packets, NEW c
    PROVE  /\ UpsOf(<<>>, c) = 0
           /\ UpsOf(<<p>>, c) = IF p.n = Up /\ p.c = c THEN 1 ELSE 0
<1>1. p \in {Packet(c, Up)} <=> p.n = Up /\ p.c = c
    BY DEF Packet, Packets
<1> QED
    BY <1>1, HoldingOne DEF UpsOf

\* A commit moves announcements, and neither makes one nor loses one.
LEMMA UpsMoved ==
    ASSUME NEW q \in Seq(Packets), NEW p \in Seq(Packets), NEW n \in 0 .. Len(p), NEW c
    PROVE  /\ UpsOf(q \o First(p, n), c) + UpsOf(Rest(p, n), c) = UpsOf(q, c) + UpsOf(p, c)
           /\ UpsOf(q \o First(p, n), c) \in Nat /\ UpsOf(Rest(p, n), c) \in Nat
           /\ UpsOf(q, c) \in Nat /\ UpsOf(p, c) \in Nat /\ UpsOf(Rest(p, n), c) <= UpsOf(p, c)
<1> DEFINE f == First(p, n)
<1> DEFINE r == Rest(p, n)
<1>1. f \in Seq(Packets) /\ r \in Seq(Packets) /\ f \o r = p
    BY Parted
<1> HIDE DEF f, r
<1>2. /\ UpsOf(f, c) \in Nat /\ UpsOf(r, c) \in Nat /\ UpsOf(q, c) \in Nat
      /\ UpsOf(q \o f, c) = UpsOf(q, c) + UpsOf(f, c)
    BY <1>1, UpsBehind
<1>3. UpsOf(p, c) = UpsOf(f, c) + UpsOf(r, c)
    <2>1. f \in Seq(Packets) /\ r \in Seq(Packets)
        BY <1>1
    <2>2. UpsOf(f \o r, c) = UpsOf(f, c) + UpsOf(r, c)
        BY <2>1, UpsBehind
    <2> QED
        BY <1>1, <2>2, Zenon
<1>4. /\ UpsOf(q \o f, c) + UpsOf(r, c) = UpsOf(q, c) + UpsOf(p, c)
      /\ UpsOf(q \o f, c) \in Nat /\ UpsOf(p, c) \in Nat /\ UpsOf(r, c) <= UpsOf(p, c)
    BY <1>2, <1>3
<1> QED
    BY <1>2, <1>4 DEF f, r

\* A packet put into a local ring is the only one that is added, if it is added at all.
LEMMA UpsAnnounced ==
    ASSUME NEW q, LocalOK(q), NEW p \in Packets, NEW c
    PROVE  /\ Announced(q, p) \in Seq(Packets)
           /\ UpsOf(q, c) \in Nat /\ UpsOf(Announced(q, p), c) \in Nat
           /\ UpsOf(Announced(q, p), c) <= UpsOf(q, c) + IF p.n = Up /\ p.c = c THEN 1 ELSE 0
<1>1. q \in Seq(Packets) /\ <<p>> \in Seq(Packets) /\ Append(q, p) = q \o <<p>>
    BY AppendIsConcat DEF LocalOK
<1>2. /\ UpsOf(q, c) \in Nat /\ q \o <<p>> \in Seq(Packets)
      /\ UpsOf(q \o <<p>>, c) = UpsOf(q, c) + UpsOf(<<p>>, c)
    BY <1>1, UpsBehind
<1>3. UpsOf(<<p>>, c) = IF p.n = Up /\ p.c = c THEN 1 ELSE 0
    BY UpsOne
<1>4. Announced(q, p) = q \/ Announced(q, p) = q \o <<p>>
    BY <1>1 DEF Announced
<1>5. CASE Announced(q, p) = q
    BY <1>1, <1>2, <1>5
<1>6. CASE Announced(q, p) = q \o <<p>>
    <2>1. UpsOf(Announced(q, p), c) = UpsOf(q, c) + IF p.n = Up /\ p.c = c THEN 1 ELSE 0
        BY <1>2, <1>3, <1>6
    <2> QED
        BY <1>2, <1>6, <2>1
<1> QED
    BY <1>4, <1>5, <1>6

LEMMA UpOnceTypes ==
    ASSUME IInv
    PROVE  /\ queue \in Seq(Packets) /\ LocalOK(local) /\ LocalOK(acceptLocal) /\ LocalOK(closeLocal)
           /\ local \in Seq(Packets) /\ acceptLocal \in Seq(Packets) /\ closeLocal \in Seq(Packets)
           /\ heard \in [Conns -> {"none", "up", "gone"}]
           /\ life \in [Conns -> {"new", "refused", "announced", "open", "closed"}]
BY Facts DEF Types, QueueOK, LocalOK, MainOK, SessionOK

LEMMA UpOnceInit == Init => UpOnce
<1> SUFFICES ASSUME Init, NEW c \in Conns
             PROVE  /\ UpsOf(<<>>, c) = 0
                    /\ heard[c] = "none" /\ life[c] = "new" /\ queue = <<>> /\ local = <<>>
                    /\ acceptLocal = <<>> /\ closeLocal = <<>>
    BY DEF UpOnce, Unheard
<1>1. Holding(<<>>, {Packet(c, Up)}) = {}
    BY DEF Holding
<1> QED
    BY <1>1, FS_EmptySet DEF Init, UpsOf

\* What becomes of the announcements when a local ring is committed, which may have been
\* given a packet first
LEMMA UpOnceMoved ==
    ASSUME IInv, UpOnce, UNCHANGED heard, NEW p \in Seq(Packets), NEW n \in 0 .. Len(p),
           queue' = queue \o First(p, n),
           \A c \in Conns : life'[c] = "new" => life[c] = "new",
           \/ /\ acceptLocal' = Rest(p, n) /\ UNCHANGED <<local, closeLocal>>
              /\ \A c \in Conns : \/ UpsOf(p, c) <= UpsOf(acceptLocal, c)
                                  \/ /\ UpsOf(p, c) <= UpsOf(acceptLocal, c) + 1
                                     /\ life[c] = "new" /\ life'[c] # "new"
           \/ /\ closeLocal' = Rest(p, n) /\ UNCHANGED <<local, acceptLocal>>
              /\ \A c \in Conns : UpsOf(p, c) = 0
           \/ /\ UNCHANGED <<acceptLocal, closeLocal>>
              /\ \A c \in Conns : UpsOf(p, c) = 0 /\ UpsOf(local', c) = UpsOf(Rest(p, n), c)
    PROVE  UpOnce'
<1> SUFFICES ASSUME NEW c \in Conns
             PROVE  /\ UpsOf(local', c) = 0 /\ UpsOf(closeLocal', c) = 0
                    /\ UpsOf(queue', c) + UpsOf(acceptLocal', c) + Unheard(c)' <= 1
    BY DEF UpOnce
<1>1. /\ UpsOf(local, c) = 0 /\ UpsOf(closeLocal, c) = 0
      /\ UpsOf(queue, c) + UpsOf(acceptLocal, c) + Unheard(c) <= 1
    BY DEF UpOnce
<1> DEFINE a == UpsOf(queue, c)
<1> DEFINE b == UpsOf(acceptLocal, c)
<1> DEFINE d == UpsOf(queue', c)
<1> DEFINE e == UpsOf(Rest(p, n), c)
<1>2. a \in Nat /\ b \in Nat /\ UpsOf(p, c) \in Nat /\ d \in Nat /\ e \in Nat
      /\ d + e = a + UpsOf(p, c) /\ e <= UpsOf(p, c)
    BY UpOnceTypes, UpsBehind, UpsMoved
<1>3. Unheard(c) \in 0 .. 2 /\ Unheard(c)' \in 0 .. 2 /\ Unheard(c)' <= Unheard(c)
      /\ (life[c] = "new" /\ life'[c] # "new" => Unheard(c)' = Unheard(c) - 1)
    BY DEF Unheard
<1> HIDE DEF a, b, d, e
<1>4. CASE /\ acceptLocal' = Rest(p, n) /\ UNCHANGED <<local, closeLocal>>
           /\ \/ UpsOf(p, c) <= UpsOf(acceptLocal, c)
              \/ /\ UpsOf(p, c) <= UpsOf(acceptLocal, c) + 1
                 /\ life[c] = "new" /\ life'[c] # "new"
    <2>1. UpsOf(acceptLocal', c) = e /\ UpsOf(local', c) = 0 /\ UpsOf(closeLocal', c) = 0
        BY <1>1, <1>4 DEF e
    <2>2. \/ UpsOf(p, c) <= b
          \/ UpsOf(p, c) <= b + 1 /\ Unheard(c)' = Unheard(c) - 1
        <3>1. CASE UpsOf(p, c) <= UpsOf(acceptLocal, c)
            BY <3>1 DEF b
        <3>2. CASE UpsOf(p, c) <= UpsOf(acceptLocal, c) + 1 /\ life[c] = "new" /\ life'[c] # "new"
            BY <1>3, <3>2 DEF b
        <3> QED
            BY <1>4, <3>1, <3>2
    <2>3. a + b + Unheard(c) <= 1
        BY <1>1 DEF a, b
    <2>4. d + e + Unheard(c)' <= 1
        <3>1. CASE UpsOf(p, c) <= b
            BY <1>2, <1>3, <2>3, <3>1
        <3>2. CASE UpsOf(p, c) <= b + 1 /\ Unheard(c)' = Unheard(c) - 1
            BY <1>2, <1>3, <2>3, <3>2
        <3> QED
            BY <2>2, <3>1, <3>2
    <2> QED
        BY <2>1, <2>4 DEF d
<1>5. CASE UpsOf(p, c) = 0 /\ UNCHANGED acceptLocal
    <2>1. d = a /\ e = 0
        BY <1>2, <1>5
    <2>2. UpsOf(acceptLocal', c) = b
        BY <1>5 DEF b
    <2>3. a + b + Unheard(c) <= 1
        BY <1>1 DEF a, b
    <2>4. d + b + Unheard(c)' <= 1
        <3>1. a \in Nat /\ b \in Nat /\ d = a
            BY <1>2, <2>1
        <3> QED
            BY <1>3, <2>3, <3>1
    <2>5. UpsOf(local', c) = 0 /\ UpsOf(closeLocal', c) = 0
        <3>1. CASE closeLocal' = Rest(p, n) /\ UNCHANGED local
            BY <1>1, <2>1, <3>1 DEF e
        <3>2. CASE UNCHANGED closeLocal /\ UpsOf(local', c) = UpsOf(Rest(p, n), c)
            BY <1>1, <2>1, <3>2 DEF e
        <3>3. CASE UNCHANGED <<local, closeLocal>>
            BY <1>1, <3>3
        <3> QED
            BY <3>1, <3>2, <3>3
    <2> QED
        BY <2>2, <2>4, <2>5 DEF d
<1> QED
    BY <1>4, <1>5

LEMMA UpOnceKept ==
    ASSUME UpOnce, UNCHANGED <<queue, local, acceptLocal, closeLocal, heard>>,
           IInv, \A c \in Conns : life'[c] = "new" => life[c] = "new"
    PROVE  UpOnce'
<1> SUFFICES ASSUME NEW c \in Conns
             PROVE  UpsOf(queue, c) + UpsOf(acceptLocal, c) + Unheard(c)' <= 1
    BY DEF UpOnce
<1>1. UpsOf(queue, c) \in Nat /\ UpsOf(acceptLocal, c) \in Nat
    BY UpOnceTypes, UpsBehind
<1>2. UpsOf(queue, c) + UpsOf(acceptLocal, c) + Unheard(c) <= 1
    BY DEF UpOnce
<1>3. Unheard(c) \in 0 .. 2 /\ Unheard(c)' \in 0 .. 2 /\ Unheard(c)' <= Unheard(c)
    BY DEF Unheard
<1> QED
    BY <1>1, <1>2, <1>3

\* What was refused stays in the ring of the accept thread.
LEMMA AcceptUpOnce ==
    ASSUME IInv, UpOnce, NEW c \in Conns, AcceptAnnounce(c) \/ AcceptPostFails(c)
    PROVE  UpOnce'
<1>1. CASE AcceptAnnounce(c)
    <2> DEFINE p == Announced(acceptLocal, Packet(c, Up))
    <2>1. PICK n \in IF p = acceptLocal THEN {0} ELSE Movable(p) :
            /\ queue' = queue \o First(p, n) /\ acceptLocal' = Rest(p, n)
            /\ life' = [life EXCEPT ![c] = AfterAnnouncing(n = Len(p))]
        BY <1>1 DEF AcceptAnnounce
    <2>2. Packet(c, Up) \in Packets /\ Packet(c, Up).n = Up /\ Packet(c, Up).c = c
        BY DEF Packet, Packets, Up
    <2>3. /\ p \in Seq(Packets)
          /\ \A d \in Conns :
                UpsOf(p, d) \in Nat /\ UpsOf(acceptLocal, d) \in Nat
                /\ UpsOf(p, d) <= UpsOf(acceptLocal, d) + IF c = d THEN 1 ELSE 0
        BY <2>2, UpOnceTypes, UpsAnnounced
    <2> HIDE DEF p
    <2>4. n \in 0 .. Len(p)
        BY <2>1, <2>3 DEF Movable
    <2>5. /\ life[c] = "new" /\ life'[c] # "new" /\ \A d \in Conns : d # c => life'[d] = life[d]
          /\ UNCHANGED <<heard, local, closeLocal>>
        BY <1>1, <2>1, UpOnceTypes DEF AcceptAnnounce, AfterAnnouncing, mainVars, recvVars
    <2>6. ASSUME NEW d \in Conns
          PROVE  \/ UpsOf(p, d) <= UpsOf(acceptLocal, d)
                 \/ /\ UpsOf(p, d) <= UpsOf(acceptLocal, d) + 1
                    /\ life[d] = "new" /\ life'[d] # "new"
        <3>1. CASE d = c
            BY <2>3, <2>5, <3>1
        <3>2. CASE d # c
            BY <2>3, <3>2
        <3> QED
            BY <3>1, <3>2
    <2> QED
        BY <2>1, <2>3, <2>4, <2>5, <2>6, UpOnceMoved
<1>2. CASE AcceptPostFails(c)
    <2> DEFINE p == Announced(acceptLocal, Packet(c, Down))
    <2>1. PICK n \in Movable(p) : queue' = queue \o First(p, n) /\ acceptLocal' = Rest(p, n)
        BY <1>2 DEF AcceptPostFails
    <2>2. Packet(c, Down) \in Packets /\ Packet(c, Down).n # Up
        BY DEF Packet, Packets, Down, Up
    <2>3. /\ p \in Seq(Packets)
          /\ \A d \in Conns : UpsOf(p, d) \in Nat /\ UpsOf(acceptLocal, d) \in Nat
                              /\ UpsOf(p, d) <= UpsOf(acceptLocal, d) + 0
        BY <2>2, UpOnceTypes, UpsAnnounced
    <2> HIDE DEF p
    <2>4. n \in 0 .. Len(p)
        BY <2>1 DEF Movable
    <2>5. /\ \A d \in Conns : life'[d] = "new" => life[d] = "new"
          /\ UNCHANGED <<heard, local, closeLocal>>
        BY <1>2, UpOnceTypes DEF AcceptPostFails, mainVars, recvVars
    <2>6. \A d \in Conns : UpsOf(p, d) <= UpsOf(acceptLocal, d)
        BY <2>3
    <2> QED
        BY <2>1, <2>3, <2>4, <2>5, <2>6, UpOnceMoved
<1> QED
    BY <1>1, <1>2

LEMMA CloseUpOnce ==
    ASSUME IInv, UpOnce, NEW c \in Conns, CloseSession(c)
    PROVE  UpOnce'
<1> DEFINE p == Announced(closeLocal, Packet(c, Down))
<1>1. PICK n \in Disconnects(p) : queue' = queue \o First(p, n) /\ closeLocal' = Rest(p, n)
    BY DEF CloseSession
<1>2. Packet(c, Down) \in Packets /\ Packet(c, Down).n # Up
    BY DEF Packet, Packets, Down, Up
<1>3. /\ p \in Seq(Packets)
      /\ \A d \in Conns : UpsOf(p, d) \in Nat /\ UpsOf(closeLocal, d) \in Nat
                          /\ UpsOf(p, d) <= UpsOf(closeLocal, d) + 0
    BY <1>2, UpOnceTypes, UpsAnnounced
<1> HIDE DEF p
<1>4. n \in 0 .. Len(p)
    BY <1>1, <1>3 DEF Disconnects, Movable
<1>5. /\ \A d \in Conns : life'[d] = "new" => life[d] = "new"
      /\ UNCHANGED <<heard, local, acceptLocal>>
    BY UpOnceTypes DEF CloseSession, mainVars, recvVars
<1>6. \A d \in Conns : UpsOf(p, d) = 0
    BY <1>3 DEF UpOnce
<1> QED
    BY <1>1, <1>3, <1>4, <1>5, <1>6, UpOnceMoved

\* The receive thread makes no announcement.
LEMMA RecvUpOnce ==
    ASSUME IInv, UpOnce, RecvFrame \/ RecvCommit
    PROVE  UpOnce'
<1>1. /\ local \in Seq(Packets) /\ \A c \in Conns : UpsOf(local, c) = 0
      /\ UNCHANGED <<heard, life, acceptLocal, closeLocal>>
    BY UpOnceTypes DEF UpOnce, RecvFrame, RecvCommit, mainVars, sessionVars
<1>2. CASE RecvCommit
    <2>1. PICK n \in Movable(local) : queue' = queue \o First(local, n) /\ local' = Rest(local, n)
        BY <1>2 DEF RecvCommit
    <2>2. n \in 0 .. Len(local)
        BY <2>1 DEF Movable
    <2> QED
        BY <1>1, <2>1, <2>2, UpOnceMoved
<1>3. CASE RecvFrame
    <2> DEFINE p == Packet(at, handed[at] + 1)
    <2>1. /\ at \in Conns /\ handed[at] \in Nat /\ todo \in Nat
          /\ handed[at] + todo <= sent[at] /\ sent[at] \in 0 .. MaxFrames /\ todo > 0
        BY <1>3, InHand DEF RecvFrame
    <2>2. p \in Packets /\ p.n # Up
        BY <2>1 DEF Packet, Packets, Up
    <2>3. PICK n \in IF Len(local) < LocalCap THEN {0} ELSE Movable(local) :
            /\ queue' = queue \o First(local, n)
            /\ local' = Rest(local, n) \/ local' = Append(Rest(local, n), p)
        BY <1>3 DEF RecvFrame
    <2> HIDE DEF p
    <2>4. n \in 0 .. Len(local)
        BY <1>1, <2>3 DEF Movable
    <2>5. ASSUME NEW c \in Conns PROVE UpsOf(local', c) = UpsOf(Rest(local, n), c)
        <3>1. Rest(local, n) \in Seq(Packets) /\ <<p>> \in Seq(Packets) /\ UpsOf(<<p>>, c) = 0
            BY <1>1, <2>2, <2>4, Parted, UpsOne
        <3>2. Append(Rest(local, n), p) = Rest(local, n) \o <<p>>
            BY <2>2, <3>1, AppendIsConcat
        <3>3. UpsOf(Rest(local, n) \o <<p>>, c) = UpsOf(Rest(local, n), c) + UpsOf(<<p>>, c)
              /\ UpsOf(Rest(local, n), c) \in Nat
            BY <3>1, UpsBehind
        <3>4. UpsOf(Rest(local, n) \o <<p>>, c) = UpsOf(Rest(local, n), c)
            BY <3>1, <3>3
        <3> QED
            BY <2>3, <3>2, <3>4
    <2> QED
        BY <1>1, <2>3, <2>4, <2>5, UpOnceMoved
<1> QED
    BY <1>2, <1>3

\* The main thread takes an announcement of a connection it has not heard of, or something
\* else of one it has, and then a frame is the next.
LEMMA MainTakes ==
    ASSUME IInv, UpOnce, MainTake
    PROVE  \E p \in Packets :
            /\ p.n = Up => heard[p.c] = "none"
            /\ p.n # Up => heard[p.c] # "none"
            /\ p.n > 0 => p.n = got[p.c] + 1
            /\ heard' = CASE p.n = Up -> [heard EXCEPT ![p.c] = "up"]
                          [] p.n = Down -> [heard EXCEPT ![p.c] = "gone"]
                          [] OTHER -> heard
            /\ got' = IF p.n > 0 THEN [got EXCEPT ![p.c] = p.n] ELSE got
            /\ \A c \in Conns :
                UpsOf(queue, c) = UpsOf(queue', c) + (IF p.n = Up /\ p.c = c THEN 1 ELSE 0)
                /\ UpsOf(queue', c) \in Nat
            /\ queue' \in Seq(Packets) /\ queue = <<p>> \o queue'
<1>1. queue \in Seq(Packets) /\ queue # <<>>
    BY UpOnceTypes DEF MainTake
<1>2. PICK p \in Packets, t \in Seq(Packets) :
        p = Head(queue) /\ t = Tail(queue) /\ queue = <<p>> \o t
    BY <1>1, HeadAndTail
<1>3. /\ queue' = t
      /\ heard' = CASE p.n = Up -> [heard EXCEPT ![p.c] = "up"]
                    [] p.n = Down -> [heard EXCEPT ![p.c] = "gone"]
                    [] OTHER -> heard
      /\ got' = IF p.n > 0 THEN [got EXCEPT ![p.c] = p.n] ELSE got
    BY <1>2 DEF MainTake
<1>4. p.c \in Conns
    BY DEF Packets
<1>5. ASSUME NEW c \in Conns
      PROVE  /\ UpsOf(queue, c) = UpsOf(queue', c) + (IF p.n = Up /\ p.c = c THEN 1 ELSE 0)
             /\ UpsOf(queue', c) \in Nat
    <2>1. <<p>> \in Seq(Packets) /\ UpsOf(<<p>>, c) = IF p.n = Up /\ p.c = c THEN 1 ELSE 0
        BY UpsOne
    <2>2. UpsOf(<<p>> \o t, c) = UpsOf(<<p>>, c) + UpsOf(t, c) /\ UpsOf(t, c) \in Nat
        BY <2>1, UpsBehind
    <2>3. UpsOf(queue, c) = UpsOf(<<p>> \o t, c) /\ UpsOf(queue', c) = UpsOf(t, c)
        BY <1>2, <1>3
    <2> QED
        BY <2>1, <2>2, <2>3
<1>6. p.n = Up => heard[p.c] = "none"
    <2> SUFFICES ASSUME p.n = Up, heard[p.c] # "none" PROVE FALSE
        OBVIOUS
    <2>1. UpsOf(queue, p.c) >= 1 /\ UpsOf(queue, p.c) \in Nat
        BY <1>4, <1>5
    <2>2. UpsOf(acceptLocal, p.c) \in Nat
        BY UpOnceTypes, UpsBehind
    <2>3. UpsOf(queue, p.c) + UpsOf(acceptLocal, p.c) + Unheard(p.c) <= 1
        BY <1>4 DEF UpOnce
    <2>4. Unheard(p.c) \in {1, 2}
        BY DEF Unheard
    <2> QED
        BY <2>1, <2>2, <2>3, <2>4
<1>7. p.n # Up => heard[p.c] # "none"
    <2>1. Head(queue).n # Up => Head(queue).c \in Heard
        BY <1>1, Facts, IntroducedTail
    <2> QED
        BY <1>2, <2>1 DEF Heard
<1>8. p.n > 0 => p.n = got[p.c] + 1
    <2> SUFFICES ASSUME p.n > 0 PROVE p.n = got[p.c] + 1
        OBVIOUS
    <2>1. got \in [Conns -> 0 .. MaxFrames] /\ FramesInOrder /\ handed \in [Conns -> 0 .. MaxFrames]
          /\ local \in Seq(Packets)
        BY Facts DEF Types, MainOK, ReceiverOK, LocalOK
    <2>2. InOrder(queue \o local, p.c, got[p.c], handed[p.c])
        BY <1>4, <2>1, FramesInOrderMeans
    <2>3. queue \o local = <<p>> \o (t \o local) /\ t \o local \in Seq(Packets)
        <3>1. <<p>> \in Seq(Packets)
            OBVIOUS
        <3>2. (<<p>> \o t) \o local = <<p>> \o (t \o local)
            BY <2>1, <3>1, ConcatAssociative
        <3> QED
            BY <1>2, <2>1, <3>2, ConcatProperties
    <2>4. InOrder(<<p>> \o (t \o local), p.c, got[p.c], handed[p.c])
        BY <2>2, <2>3, Zenon
    <2>5. got[p.c] \in Nat /\ handed[p.c] \in Nat
        BY <1>4, <2>1
    <2>6. PICK r \in Seq(Packets) : r = t \o local
        BY <2>3
    <2>7. InOrder(<<p>> \o r, p.c, got[p.c], handed[p.c])
        BY <2>4, <2>6
    <2>8. p.n > 0 /\ p.c = p.c => p.n = got[p.c] + 1
        BY <2>5, <2>7, OrderTaken
    <2> QED
        BY <2>8
<1>9. queue' \in Seq(Packets) /\ queue = <<p>> \o queue'
    BY <1>2, <1>3
<1> QED
    BY <1>3, <1>5, <1>6, <1>7, <1>8, <1>9

LEMMA MainUpOnce ==
    ASSUME IInv, UpOnce, MainTake
    PROVE  UpOnce'
<1>1. PICK p \in Packets :
        /\ p.n = Up => heard[p.c] = "none"
        /\ p.n # Up => heard[p.c] # "none"
        /\ heard' = CASE p.n = Up -> [heard EXCEPT ![p.c] = "up"]
                      [] p.n = Down -> [heard EXCEPT ![p.c] = "gone"]
                      [] OTHER -> heard
        /\ \A c \in Conns :
            UpsOf(queue, c) = UpsOf(queue', c) + (IF p.n = Up /\ p.c = c THEN 1 ELSE 0)
            /\ UpsOf(queue', c) \in Nat
    BY MainTakes
<1>2. UNCHANGED <<local, acceptLocal, closeLocal, life>>
    BY DEF MainTake, recvVars, sessionVars
<1> SUFFICES ASSUME NEW c \in Conns
             PROVE  UpsOf(queue', c) + UpsOf(acceptLocal, c) + Unheard(c)' <= 1
    BY <1>2 DEF UpOnce
<1>3. UpsOf(acceptLocal, c) \in Nat /\ heard \in [Conns -> {"none", "up", "gone"}]
    BY UpOnceTypes, UpsBehind
<1>4. UpsOf(queue, c) + UpsOf(acceptLocal, c) + Unheard(c) <= 1
    BY DEF UpOnce
<1>5. Unheard(c) \in 0 .. 2 /\ Unheard(c)' \in 0 .. 2
    BY DEF Unheard
<1>6. CASE p.n = Up /\ p.c = c
    <2>1. heard[c] = "none" /\ heard' = [heard EXCEPT ![c] = "up"]
        BY <1>1, <1>6 DEF Up, Down
    <2>2. Unheard(c)' = Unheard(c) + 1
        BY <1>2, <1>3, <2>1 DEF Unheard
    <2>3. UpsOf(queue, c) = UpsOf(queue', c) + 1 /\ UpsOf(queue', c) \in Nat
        BY <1>1, <1>6
    <2> QED
        BY <1>3, <1>4, <1>5, <2>2, <2>3
<1>7. CASE ~(p.n = Up /\ p.c = c)
    <2>1. heard'[c] = "none" <=> heard[c] = "none"
        <3>1. p.n # Up /\ p.c = c => heard'[c] # "none" /\ heard[c] # "none"
            BY <1>1, <1>3 DEF Up, Down
        <3>2. p.c # c => heard'[c] = heard[c]
            BY <1>1, <1>3 DEF Up, Down
        <3> QED
            BY <1>7, <3>1, <3>2
    <2>2. Unheard(c)' = Unheard(c)
        BY <1>2, <2>1 DEF Unheard
    <2>3. UpsOf(queue, c) = UpsOf(queue', c)
        BY <1>1, <1>7
    <2> QED
        BY <1>4, <2>2, <2>3
<1> QED
    BY <1>6, <1>7

LEMMA UpOnceStep == IInv /\ UpOnce /\ [Next]_vars => UpOnce'
<1> SUFFICES ASSUME IInv, UpOnce, [Next]_vars PROVE UpOnce'
    OBVIOUS
<1>1. CASE MainTake
    BY <1>1, MainUpOnce
<1>2. CASE RecvFrame \/ RecvCommit
    BY <1>2, RecvUpOnce
<1>3. ASSUME NEW c \in Conns, AcceptAnnounce(c) \/ AcceptPostFails(c) \/ CloseSession(c)
      PROVE  UpOnce'
    BY <1>3, AcceptUpOnce, CloseUpOnce
<1>4. CASE EpollThread \/ RecvTake \/ RecvNoPacket \/ RecvRearm \/ SendOut \/ UNCHANGED vars
    <2>1. UNCHANGED <<queue, local, acceptLocal, closeLocal, heard, life>>
        BY <1>4 DEF EpollThread, EpollWait, EpollEvent, EpollCommit, RecvTake, RecvNoPacket,
            RecvRearm, SendOut, vars, sessionVars, recvVars, mainVars
    <2> QED
        BY <2>1, UpOnceKept
<1>5. ASSUME NEW c \in Conns, ClientSends(c) \/ AcceptPost(c) \/ SendStalls(c) \/ KickOutSession(c)
      PROVE  UpOnce'
    <2>1. UNCHANGED <<queue, local, acceptLocal, closeLocal, heard>>
        BY <1>5 DEF ClientSends, AcceptPost, SendStalls, KickOutSession, sessionVars, recvVars,
            mainVars
    <2>2. \A d \in Conns : life'[d] = "new" => life[d] = "new"
        BY <1>5, UpOnceTypes DEF ClientSends, AcceptPost, SendStalls, KickOutSession, sessionVars
    <2> QED
        BY <2>1, <2>2, UpOnceKept
<1> QED
    BY <1>1, <1>2, <1>3, <1>4, <1>5 DEF Next, RecvThread

\* What the main thread takes is a step of the view, or the end of what has ended.
LEMMA ViewTakes ==
    ASSUME IInv, UpOnce, MainTake
    PROVE  [View!Next]_(View!vars)
<1> DEFINE given == [c \in Conns |-> [n \in 1 .. got[c] |-> n]]
<1>1. PICK p \in Packets :
        /\ p.n = Up => heard[p.c] = "none"
        /\ p.n # Up => heard[p.c] # "none"
        /\ p.n > 0 => p.n = got[p.c] + 1
        /\ heard' = CASE p.n = Up -> [heard EXCEPT ![p.c] = "up"]
                      [] p.n = Down -> [heard EXCEPT ![p.c] = "gone"]
                      [] OTHER -> heard
        /\ got' = IF p.n > 0 THEN [got EXCEPT ![p.c] = p.n] ELSE got
    BY MainTakes
<1>2. PICK c \in Conns : c = p.c
    BY DEF Packets
<1>3. heard \in [Conns -> {"none", "up", "gone"}] /\ got \in [Conns -> 0 .. MaxFrames]
    BY Facts DEF Types, MainOK
<1>4. p.n \in -1 .. MaxFrames
    BY DEF Packets
<1>5. CASE p.n = Up
    <2>1. heard[c] = "none" /\ heard' = [heard EXCEPT ![c] = "up"] /\ got' = got
        BY <1>1, <1>2, <1>5 DEF Up, Down
    <2>2. View!Begin(c)
        BY <2>1 DEF View!Begin
    <2> QED
        BY <2>2 DEF View!Next
<1>6. CASE p.n = Down
    <2>1. heard[c] # "none" /\ heard' = [heard EXCEPT ![c] = "gone"] /\ got' = got
        BY <1>1, <1>2, <1>6 DEF Up, Down
    <2>2. CASE heard[c] = "up"
        <3>1. View!End(c)
            BY <2>1, <2>2 DEF View!End
        <3> QED
            BY <3>1 DEF View!Next
    <2>3. CASE heard[c] = "gone"
        <3>1. heard' = heard
            BY <1>3, <2>1, <2>3
        <3> QED
            BY <2>1, <3>1 DEF View!vars
    <2> QED
        BY <1>3, <2>1, <2>2, <2>3
<1>7. CASE p.n > 0
    <2>1. heard[c] \in {"up", "gone"} /\ heard' = heard /\ got' = [got EXCEPT ![c] = got[c] + 1]
        <3>1. p.n # Up /\ p.n # Down
            BY <1>4, <1>7 DEF Up, Down
        <3>2. heard' = heard /\ heard[c] # "none"
            BY <1>1, <1>2, <3>1
        <3> QED
            BY <1>1, <1>2, <1>3, <1>7, <3>2
    <2>2. given' = [given EXCEPT ![c] = Append(given[c], Len(given[c]) + 1)]
        <3>1. \A d \in Conns : got[d] \in Nat /\ got'[d] = IF d = c THEN got[c] + 1 ELSE got[d]
            BY <1>3, <2>1
        <3>2. ASSUME NEW g \in Nat
              PROVE  [n \in 1 .. g + 1 |-> n]
                        = Append([n \in 1 .. g |-> n], Len([n \in 1 .. g |-> n]) + 1)
            OBVIOUS
        <3>3. ASSUME NEW d \in Conns
              PROVE  given'[d] = IF d = c THEN Append(given[c], Len(given[c]) + 1) ELSE given[d]
            <4>1. CASE d = c
                BY <3>1, <3>2, <4>1
            <4>2. CASE d # c
                BY <3>1, <4>2
            <4> QED
                BY <4>1, <4>2
        <3> QED
            BY <3>3
    <2>3. View!Frame(c)
        BY <2>1, <2>2 DEF View!Frame
    <2> QED
        BY <2>3 DEF View!Next
<1> QED
    BY <1>4, <1>5, <1>6, <1>7 DEF Up, Down

LEMMA ViewStep == IInv /\ UpOnce /\ [Next]_vars => [View!Next]_(View!vars)
<1> SUFFICES ASSUME IInv, UpOnce, [Next]_vars PROVE [View!Next]_(View!vars)
    OBVIOUS
<1>1. CASE MainTake
    BY <1>1, ViewTakes
<1>2. CASE ~MainTake
    <2>1. heard' = heard /\ got' = got
        BY <1>2 DEF Next, EpollThread, EpollWait, EpollEvent, EpollCommit, RecvThread, RecvTake,
                    RecvFrame, RecvNoPacket, RecvRearm, RecvCommit, SendOut, ClientSends,
                    AcceptAnnounce, AcceptPost, AcceptPostFails, SendStalls, KickOutSession,
                    CloseSession, mainVars, vars
    <2> QED
        BY <2>1 DEF View!vars
<1> QED
    BY <1>1, <1>2

(* Whatever commits are refused, and in whatever order the threads commit,    *)
(* the main thread is told of a connection once and before its frames, is     *)
(* given each frame once and in its turn, and is told of the end of a         *)
(* connection it knows, after which the connection does not come back; a      *)
(* frame may come behind the end (LRecvThread.cpp:225), and the end may be    *)
(* told twice, which changes nothing (ProcessRecvedPacket).                   *)
THEOREM ImplementsView == Spec => ViewSpec
<1>1. Init => View!Init
    BY DEF Init, View!Init
<1> QED
    BY <1>1, Invariance, UpOnceInit, UpOnceStep, ViewStep, PTL DEF Spec, ViewSpec, View!Spec

-----------------------------------------------------------------------------
(* A queue with room for everything refuses nothing.                         *)

\* The packets that may yet be made of a connection: its announcement, the end AcceptPostFails
\* tells, the end CloseSession tells, and the frames that are not handed on
Kinds == -2 .. MaxFrames
DueOf(c, k) ==
    \/ k = 0 /\ life[c] = "new"
    \/ k = -1 /\ life[c] \in {"new", "announced"}
    \/ k = -2 /\ life[c] # "closed"
    \/ k > 0 /\ k > handed[c]
Due == {t \in Conns \X Kinds : DueOf(t[1], t[2])}

AllPackets == Cardinality(Conns) * (MaxFrames + 3)
Waiting == Len(queue) + Len(local) + Len(acceptLocal) + Len(closeLocal)
Fits == Waiting + Cardinality(Due) <= AllPackets

LEMMA KindsFinite ==
    /\ AllPackets \in Nat
    /\ \A D \in SUBSET (Conns \X Kinds) :
        IsFiniteSet(D) /\ Cardinality(D) \in Nat /\ Cardinality(D) <= AllPackets
<1>1. IsFiniteSet(Kinds) /\ Cardinality(Kinds) = MaxFrames + 3
    <2>1. -2 \in Int /\ MaxFrames \in Int /\ ~(-2 > MaxFrames) /\ MaxFrames - (-2) + 1 = MaxFrames + 3
        OBVIOUS
    <2>2. IsFiniteSet(-2 .. MaxFrames) /\ Cardinality(-2 .. MaxFrames) = MaxFrames - (-2) + 1
        BY <2>1, FS_Interval, Zenon
    <2> QED
        BY <2>1, <2>2 DEF Kinds
<1>2. IsFiniteSet(Conns \X Kinds) /\ Cardinality(Conns \X Kinds) = AllPackets
    BY <1>1, FS_Product, Zenon DEF AllPackets
<1>3. AllPackets \in Nat
    BY <1>2, FS_CardinalityType
<1> QED
    BY <1>2, <1>3, FS_Subset, FS_CardinalityType

LEMMA DueKept ==
    ASSUME \A c \in Conns, k \in Kinds : DueOf(c, k)' => DueOf(c, k)
    PROVE  /\ Cardinality(Due) \in Nat /\ Cardinality(Due') \in Nat
           /\ Cardinality(Due') <= Cardinality(Due)
<1>1. Due' \subseteq Due /\ Due \subseteq Conns \X Kinds
    BY DEF Due
<1> HIDE DEF Due
<1>2. IsFiniteSet(Due) /\ Cardinality(Due) \in Nat
    BY <1>1, KindsFinite
<1> QED
    BY <1>1, <1>2, FS_Subset, FS_CardinalityType

\* The packet that is made now was due, and is not due any more.
LEMMA DueUsed ==
    ASSUME NEW c \in Conns, NEW k \in Kinds, DueOf(c, k), ~DueOf(c, k)',
           \A d \in Conns, j \in Kinds : DueOf(d, j)' => DueOf(d, j)
    PROVE  /\ Cardinality(Due) \in Nat /\ Cardinality(Due') \in Nat
           /\ Cardinality(Due') <= Cardinality(Due) - 1
<1>1. /\ Due' \subseteq Due \ {<<c, k>>} /\ <<c, k>> \in Due /\ Due \subseteq Conns \X Kinds
    BY DEF Due
<1> HIDE DEF Due
<1>2. IsFiniteSet(Due) /\ Cardinality(Due) \in Nat
    BY <1>1, KindsFinite
<1>3. IsFiniteSet(Due \ {<<c, k>>}) /\ Cardinality(Due \ {<<c, k>>}) = Cardinality(Due) - 1
    BY <1>1, <1>2, FS_RemoveElement, Zenon
<1>4. Cardinality(Due') <= Cardinality(Due \ {<<c, k>>}) /\ Cardinality(Due') \in Nat
    BY <1>1, <1>3, FS_Subset, FS_CardinalityType
<1> QED
    BY <1>2, <1>3, <1>4

LEMMA WaitingType ==
    ASSUME IInv
    PROVE  /\ Len(queue) \in Nat /\ Len(local) \in Nat /\ Len(acceptLocal) \in Nat
           /\ Len(closeLocal) \in Nat /\ Waiting \in Nat /\ queueCap \in Nat
<1>1. Len(queue) \in Nat /\ Len(local) \in Nat /\ Len(acceptLocal) \in Nat /\ Len(closeLocal) \in Nat
    BY UpOnceTypes
<1>2. queueCap \in Nat
    BY Facts DEF Types, QueueOK
<1> QED
    BY <1>1, <1>2 DEF Waiting

\* What a commit moves stays under way.
LEMMA LenMoved ==
    ASSUME NEW q \in Seq(Packets), NEW p \in Seq(Packets), NEW n \in 0 .. Len(p)
    PROVE  /\ Len(q \o First(p, n)) + Len(Rest(p, n)) = Len(q) + Len(p)
           /\ In(q) \subseteq In(q \o First(p, n))
<1> DEFINE f == First(p, n)
<1>1. f \in Seq(Packets) /\ Len(f) = n /\ Len(Rest(p, n)) = Len(p) - n
    BY Parted
<1> HIDE DEF f
<1>2. Len(q \o f) = Len(q) + Len(f) /\ Len(q) \in Nat /\ Len(p) \in Nat /\ n \in Nat
    <2>1. Len(q \o f) = Len(q) + Len(f)
        BY <1>1, ConcatProperties
    <2> QED
        BY <2>1
<1>3. In(q) \subseteq In(q \o f)
    <2>1. \A i \in DOMAIN q : i \in DOMAIN (q \o f) /\ (q \o f)[i] = q[i]
        BY <1>1
    <2> QED
        BY <2>1 DEF In
<1> QED
    BY <1>1, <1>2, <1>3 DEF f

\* One packet in front, or behind
LEMMA OnePacketMore ==
    ASSUME NEW q \in Seq(Packets), NEW e \in Packets, NEW r \in Seq(Packets), Len(r) = 1, r[1] = e
    PROVE  /\ e \in In(q \o r)
           /\ \A x \in In(r \o q) : x = e \/ x \in In(q)
           /\ Len(r \o q) = 1 + Len(q) /\ Len(q) \in Nat
<1>1. DOMAIN r = {1}
    OBVIOUS
<1>2. In(r) = {e}
    BY <1>1 DEF In
<1>3. In(r \o q) = In(r) \cup In(q)
    BY MembersBehind
<1>4. In(q \o r) = In(q) \cup In(r)
    BY MembersBehind
<1>5. Len(r \o q) = Len(r) + Len(q)
    BY ConcatProperties
<1>6. Len(q) \in Nat
    OBVIOUS
<1> QED
    BY <1>2, <1>3, <1>4, <1>5, <1>6

\* Where there is room for what is due, a thread with nothing left over commits what it has.
LEMMA Committed ==
    ASSUME IInv, Fits, BigQueue, Cardinality(Due) \in Nat \ {0}, NEW pk \in Packets,
           NEW n \in Movable(<<pk>>)
    PROVE  /\ n = 1 /\ Rest(<<pk>>, n) = <<>> /\ First(<<pk>>, n) = <<pk>>
           /\ Announced(<<>>, pk) = <<pk>> /\ <<pk>> # <<>>
<1>1. Len(queue) + 1 <= queueCap
    <2>1. Waiting + Cardinality(Due) <= AllPackets /\ AllPackets <= queueCap /\ AllPackets \in Nat
        BY KindsFinite DEF Fits, BigQueue, AllPackets
    <2> HIDE DEF AllPackets
    <2> QED
        BY <2>1, WaitingType DEF Waiting
<1>2. Len(<<pk>>) = 1
    OBVIOUS
<1>3. n = 1
    BY <1>1, <1>2, WaitingType DEF Movable
<1>4. <<pk>> \in Seq(Packets) /\ <<pk>> # <<>> /\ n \in 0 .. Len(<<pk>>)
    BY <1>2, <1>3
<1>5. Append(<<>>, pk) = <<pk>> /\ Len(<<>>) < LocalCap
    OBVIOUS
<1>6. Rest(<<pk>>, n) = <<>> /\ First(<<pk>>, n) = <<pk>>
    <2> DEFINE f == First(<<pk>>, n)
    <2> DEFINE r == Rest(<<pk>>, n)
    <2>1. f \in Seq(Packets) /\ r \in Seq(Packets) /\ Len(f) = n /\ Len(r) = Len(<<pk>>) - n
          /\ \A i \in DOMAIN f : f[i] = <<pk>>[i]
        <3> DEFINE q == <<pk>>
        <3>1. q \in Seq(Packets) /\ n \in 0 .. Len(q)
            BY <1>4
        <3> HIDE DEF q
        <3>2. /\ First(q, n) \in Seq(Packets) /\ Rest(q, n) \in Seq(Packets)
              /\ Len(First(q, n)) = n /\ Len(Rest(q, n)) = Len(q) - n
              /\ \A i \in DOMAIN First(q, n) : First(q, n)[i] = q[i]
            BY <3>1, Parted
        <3> QED
            BY <3>2 DEF q
    <2> HIDE DEF f, r
    <2>2. r = <<>>
        BY <1>2, <1>3, <2>1
    <2>3. f = <<pk>>
        <3>1. DOMAIN f = 1 .. 1
            BY <1>3, <2>1, LenProperties
        <3>2. \A i \in 1 .. Len(f) : f[i] = <<pk>>[i]
            BY <1>3, <2>1, <3>1
        <3> QED
            BY <1>2, <1>3, <1>4, <2>1, <3>2, SeqEqual
    <2> QED
        BY <2>2, <2>3 DEF f, r
<1> QED
    BY <1>3, <1>4, <1>5, <1>6 DEF Announced

\* The end of a closed session is under way, or has been heard.
EndKnown == \A c \in Conns : life[c] = "closed" => heard[c] = "gone" \/ Packet(c, Down) \in In(queue)
Unrefused ==
    /\ acceptLocal = <<>> /\ closeLocal = <<>> /\ deleted = 0
    /\ \A c \in Conns : life[c] # "refused"
    /\ EndKnown
Ampler == Fits /\ (BigQueue => Unrefused)

LEMMA NothingRefusedMeans == NothingRefused <=> (BigQueue => Unrefused)
BY DEF NothingRefused, Unrefused, EndKnown, In

LEMMA AmplerInit == Init => Ampler
<1> SUFFICES ASSUME Init PROVE Ampler
    OBVIOUS
<1>1. Waiting = 0
    BY DEF Init, Waiting
<1>2. Due \subseteq Conns \X Kinds
    BY DEF Due
<1> HIDE DEF Due
<1>3. Cardinality(Due) \in Nat /\ Cardinality(Due) <= AllPackets
    BY <1>2, KindsFinite
<1>4. Fits
    <2> DEFINE d == Cardinality(Due)
    <2>1. d \in Nat /\ d <= AllPackets
        BY <1>3
    <2> HIDE DEF d
    <2>2. 0 + d = d
        BY <2>1
    <2> QED
        BY <1>1, <2>1, <2>2, Zenon DEF Fits, d
<1>5. Unrefused
    BY DEF Init, Unrefused, EndKnown
<1> QED
    BY <1>4, <1>5 DEF Ampler

\* Nothing is made.
LEMMA FitsKept ==
    ASSUME IInv, Fits, Waiting' \in Nat, Waiting' <= Waiting,
           \A c \in Conns, k \in Kinds : DueOf(c, k)' => DueOf(c, k)
    PROVE  Fits'
<1>1. /\ Cardinality(Due) \in Nat /\ Cardinality(Due') \in Nat /\ Cardinality(Due') <= Cardinality(Due)
      /\ Waiting + Cardinality(Due) <= AllPackets /\ AllPackets \in Nat /\ Waiting \in Nat
    BY DueKept, KindsFinite, WaitingType DEF Fits
<1>2. AllPackets' = AllPackets
    BY DEF AllPackets
<1> HIDE DEF AllPackets, Due, Waiting
<1>3. Waiting' + Cardinality(Due') <= AllPackets
    BY <1>1
<1> QED
    BY <1>2, <1>3 DEF Fits

\* A packet is made that was due.
LEMMA FitsUsed ==
    ASSUME IInv, Fits, Waiting' \in Nat, Waiting' <= Waiting + 1,
           NEW c \in Conns, NEW k \in Kinds, DueOf(c, k), ~DueOf(c, k)',
           \A d \in Conns, j \in Kinds : DueOf(d, j)' => DueOf(d, j)
    PROVE  Fits'
<1>1. /\ Cardinality(Due) \in Nat /\ Cardinality(Due') \in Nat
      /\ Cardinality(Due') <= Cardinality(Due) - 1
    BY DueUsed
<1>2. Waiting + Cardinality(Due) <= AllPackets /\ AllPackets \in Nat /\ Waiting \in Nat
    BY KindsFinite, WaitingType DEF Fits
<1>3. AllPackets' = AllPackets
    BY DEF AllPackets
<1> HIDE DEF AllPackets, Due, Waiting
<1>4. Waiting' + Cardinality(Due') <= AllPackets
    BY <1>1, <1>2
<1> QED
    BY <1>3, <1>4 DEF Fits

\* What was given to a local ring, and moved or not, is one packet more.
LEMMA WaitingMoved ==
    ASSUME IInv, IInv', NEW q, NEW l \in Nat, LocalOK(q), NEW pk \in Packets,
           NEW n \in 0 .. Len(Announced(q, pk)),
           queue' = queue \o First(Announced(q, pk), n),
           Len(Rest(Announced(q, pk), n)) = l
    PROVE  /\ Len(queue') + l <= Len(queue) + Len(q) + 1
           /\ In(queue) \subseteq In(queue')
<1> DEFINE p == Announced(q, pk)
<1>1. q \in Seq(Packets) /\ p \in Seq(Packets) /\ Len(p) <= Len(q) + 1 /\ queue \in Seq(Packets)
    BY UpOnceTypes DEF LocalOK, Announced
<1> HIDE DEF p
<1>2. n \in 0 .. Len(p) /\ queue' = queue \o First(p, n) /\ Len(Rest(p, n)) = l
    BY DEF p
<1>3. Len(queue') + l = Len(queue) + Len(p) /\ In(queue) \subseteq In(queue')
    <2>1. /\ Len(queue \o First(p, n)) + Len(Rest(p, n)) = Len(queue) + Len(p)
          /\ In(queue) \subseteq In(queue \o First(p, n))
        BY <1>1, <1>2, LenMoved
    <2> QED
        BY <1>2, <2>1
<1> QED
    BY <1>1, <1>3, WaitingType

LEMMA EndKept ==
    ASSUME EndKnown, UNCHANGED heard, In(queue) \subseteq In(queue'),
           \A c \in Conns : life'[c] = "closed" => life[c] = "closed" \/ Packet(c, Down) \in In(queue')
    PROVE  EndKnown'
BY DEF EndKnown

LEMMA CapsKept ==
    ASSUME [Next]_vars
    PROVE  UNCHANGED <<ringCap, queueCap>> /\ (BigQueue' <=> BigQueue)
<1>1. UNCHANGED <<ringCap, queueCap>>
    BY DEF Next, EpollThread, EpollWait, EpollEvent, EpollCommit, RecvThread, RecvTake,
           RecvFrame, RecvNoPacket, RecvRearm, RecvCommit, SendOut, ClientSends,
           AcceptAnnounce, AcceptPost, AcceptPostFails, SendStalls, KickOutSession,
           CloseSession, MainTake, capVars, vars
<1> QED
    BY <1>1 DEF BigQueue

\* One of the two threads that use a local ring for what they say of a connection has said it.
LEMMA SaidAmpler ==
    ASSUME IInv, IInv', Ampler, NEW q, LocalOK(q), NEW pk \in Packets,
           NEW n \in 0 .. Len(Announced(q, pk)),
           queue' = queue \o First(Announced(q, pk), n),
           \/ q = acceptLocal /\ acceptLocal' = Rest(Announced(q, pk), n) /\ UNCHANGED closeLocal
           \/ q = closeLocal /\ closeLocal' = Rest(Announced(q, pk), n) /\ UNCHANGED acceptLocal,
           UNCHANGED <<local, heard, deleted, queueCap>>,
           NEW c \in Conns, NEW k \in Kinds, DueOf(c, k), ~DueOf(c, k)',
           \A d \in Conns, j \in Kinds : DueOf(d, j)' => DueOf(d, j),
           Announced(q, pk) # q => n \in Movable(Announced(q, pk)),
           n = 1 /\ Announced(q, pk) = <<pk>> =>
                \A d \in Conns : /\ life'[d] = "refused" => life[d] = "refused"
                                 /\ life'[d] = "closed" => life[d] = "closed" \/ pk = Packet(d, Down)
    PROVE  Ampler'
<1>1. Fits /\ (BigQueue => Unrefused) /\ (BigQueue' <=> BigQueue)
    BY DEF Ampler, BigQueue
<1>2. /\ Len(queue) \in Nat /\ Len(local) \in Nat /\ Len(acceptLocal) \in Nat
      /\ Len(closeLocal) \in Nat /\ Waiting \in Nat
      /\ Len(queue') \in Nat /\ Len(local') \in Nat /\ Len(acceptLocal') \in Nat
      /\ Len(closeLocal') \in Nat
    <2>1. /\ queue' \in Seq(Packets) /\ local' \in Seq(Packets) /\ acceptLocal' \in Seq(Packets)
          /\ closeLocal' \in Seq(Packets)
        BY TypesMeanNext DEF IInv, Types, QueueOK, LocalOK
    <2> QED
        BY <2>1, WaitingType
<1> DEFINE l == Len(Rest(Announced(q, pk), n))
<1>3. l \in Nat
    BY <1>2
<1>4. Len(queue') + l <= Len(queue) + Len(q) + 1 /\ In(queue) \subseteq In(queue')
    BY <1>3, WaitingMoved
<1>5. Waiting' \in Nat /\ Waiting' <= Waiting + 1
    <2>1. CASE q = acceptLocal /\ acceptLocal' = Rest(Announced(q, pk), n) /\ UNCHANGED closeLocal
        BY <1>2, <1>4, <2>1 DEF Waiting
    <2>2. CASE q = closeLocal /\ closeLocal' = Rest(Announced(q, pk), n) /\ UNCHANGED acceptLocal
        BY <1>2, <1>4, <2>2 DEF Waiting
    <2> QED
        BY <2>1, <2>2
<1>6. Fits'
    BY <1>1, <1>5, FitsUsed
<1>7. ASSUME BigQueue PROVE Unrefused'
    <2>1. acceptLocal = <<>> /\ closeLocal = <<>> /\ deleted = 0 /\ EndKnown
          /\ q = <<>> /\ \A d \in Conns : life[d] # "refused"
        BY <1>1, <1>7 DEF Unrefused
    <2>2. Announced(q, pk) = <<pk>> /\ <<pk>> # q
        BY <2>1 DEF Announced
    <2>3. Cardinality(Due) \in Nat \ {0}
        BY DueUsed
    <2>4. n = 1 /\ Rest(<<pk>>, n) = <<>> /\ First(<<pk>>, n) = <<pk>>
        BY <1>1, <1>7, <2>2, <2>3, Committed
    <2>5. acceptLocal' = <<>> /\ closeLocal' = <<>> /\ deleted' = 0 /\ queue' = queue \o <<pk>>
        BY <2>1, <2>2, <2>4
    <2>6. pk \in In(queue')
        <3> DEFINE r == <<pk>>
        <3>1. queue \in Seq(Packets) /\ queue' = queue \o r
              /\ r \in Seq(Packets) /\ Len(r) = 1 /\ r[1] = pk
            BY UpOnceTypes, <2>5
        <3> HIDE DEF r
        <3>2. pk \in In(queue \o r)
            BY <3>1, OnePacketMore
        <3> QED
            BY <3>1, <3>2
    <2>7. \A d \in Conns : life'[d] # "refused"
        BY <2>1, <2>2, <2>4
    <2>8. EndKnown'
        <3>1. \A d \in Conns : life'[d] = "closed" =>
                life[d] = "closed" \/ Packet(d, Down) \in In(queue')
            BY <2>2, <2>4, <2>6
        <3> QED
            BY <1>4, <2>1, <3>1, EndKept
    <2> QED
        BY <2>5, <2>7, <2>8 DEF Unrefused
<1> QED
    BY <1>1, <1>6, <1>7 DEF Ampler

LEMMA AcceptAmpler ==
    ASSUME IInv, IInv', Ampler, NEW c \in Conns, AcceptAnnounce(c) \/ AcceptPostFails(c)
    PROVE  Ampler'
<1>1. /\ LocalOK(acceptLocal) /\ life \in [Conns -> {"new", "refused", "announced", "open", "closed"}]
      /\ 0 \in Kinds /\ -1 \in Kinds
    BY UpOnceTypes DEF Kinds
<1>2. CASE AcceptAnnounce(c)
    <2> DEFINE p == Announced(acceptLocal, Packet(c, Up))
    <2>1. PICK n \in IF p = acceptLocal THEN {0} ELSE Movable(p) :
            /\ queue' = queue \o First(p, n) /\ acceptLocal' = Rest(p, n)
            /\ life' = [life EXCEPT ![c] = AfterAnnouncing(n = Len(p))]
        BY <1>2 DEF AcceptAnnounce
    <2>2. Packet(c, Up) \in Packets
        BY DEF Packet, Packets, Up
    <2>3. p \in Seq(Packets)
        BY <1>1, <2>2, UpsAnnounced
    <2> HIDE DEF p
    <2>4. n \in 0 .. Len(p)
        BY <2>1, <2>3 DEF Movable
    <2>5. /\ life[c] = "new" /\ life'[c] \in {"announced", "refused"}
          /\ \A d \in Conns : d # c => life'[d] = life[d]
          /\ UNCHANGED <<heard, local, closeLocal, handed, deleted, queueCap>>
        BY <1>1, <1>2, <2>1 DEF AcceptAnnounce, AfterAnnouncing, mainVars, recvVars, capVars
    <2>6. DueOf(c, 0) /\ ~DueOf(c, 0)' /\ \A d \in Conns, j \in Kinds : DueOf(d, j)' => DueOf(d, j)
        BY <1>1, <2>5 DEF DueOf
    <2>7. n = 1 /\ p = <<Packet(c, Up)>> => life'[c] = "announced"
        <3>1. ASSUME n = 1, p = <<Packet(c, Up)>> PROVE life'[c] = "announced"
            <4>1. Len(p) = 1
                BY <3>1
            <4> QED
                BY <1>1, <2>1, <3>1, <4>1 DEF AfterAnnouncing
        <3> QED
            BY <3>1
    <2> QED
        BY <1>1, <2>1, <2>2, <2>4, <2>5, <2>6, <2>7, SaidAmpler DEF p
<1>3. CASE AcceptPostFails(c)
    <2> DEFINE p == Announced(acceptLocal, Packet(c, Down))
    <2>1. PICK n \in Movable(p) : queue' = queue \o First(p, n) /\ acceptLocal' = Rest(p, n)
        BY <1>3 DEF AcceptPostFails
    <2>2. Packet(c, Down) \in Packets
        BY DEF Packet, Packets, Down
    <2> HIDE DEF p
    <2>3. n \in 0 .. Len(p)
        BY <2>1 DEF Movable
    <2>4. /\ life[c] = "announced" /\ life'[c] = "open"
          /\ \A d \in Conns : d # c => life'[d] = life[d]
          /\ UNCHANGED <<heard, local, closeLocal, handed, deleted, queueCap>>
        BY <1>1, <1>3 DEF AcceptPostFails, mainVars, recvVars, capVars
    <2>5. DueOf(c, -1) /\ ~DueOf(c, -1)' /\ \A d \in Conns, j \in Kinds : DueOf(d, j)' => DueOf(d, j)
        BY <1>1, <2>4 DEF DueOf
    <2>6. \A d \in Conns : life'[d] \in {"refused", "closed"} => life'[d] = life[d]
        BY <2>4
    <2> QED
        BY <1>1, <2>1, <2>2, <2>3, <2>4, <2>5, <2>6, SaidAmpler DEF p
<1> QED
    BY <1>2, <1>3

LEMMA CloseAmpler ==
    ASSUME IInv, IInv', Ampler, NEW c \in Conns, CloseSession(c)
    PROVE  Ampler'
<1>1. /\ LocalOK(closeLocal) /\ life \in [Conns -> {"new", "refused", "announced", "open", "closed"}]
      /\ -2 \in Kinds
    BY UpOnceTypes DEF Kinds
<1> DEFINE p == Announced(closeLocal, Packet(c, Down))
<1>2. PICK n \in Disconnects(p) : queue' = queue \o First(p, n) /\ closeLocal' = Rest(p, n)
    BY DEF CloseSession
<1>3. Packet(c, Down) \in Packets
    BY DEF Packet, Packets, Down
<1>4. p \in Seq(Packets)
    BY <1>1, <1>3, UpsAnnounced
<1> HIDE DEF p
<1>5. n \in 0 .. Len(p) /\ (p # closeLocal => n \in Movable(p))
    BY <1>2, <1>4 DEF Disconnects, Movable
<1>6. /\ life[c] = "open" /\ life'[c] = "closed"
      /\ \A d \in Conns : d # c => life'[d] = life[d]
      /\ UNCHANGED <<heard, local, acceptLocal, handed, deleted, queueCap>>
    BY <1>1 DEF CloseSession, mainVars, recvVars, capVars
<1>7. DueOf(c, -2) /\ ~DueOf(c, -2)' /\ \A d \in Conns, j \in Kinds : DueOf(d, j)' => DueOf(d, j)
    BY <1>1, <1>6 DEF DueOf
<1>8. \A d \in Conns : /\ life'[d] = "refused" => life[d] = "refused"
                       /\ life'[d] = "closed" => life[d] = "closed" \/ Packet(c, Down) = Packet(d, Down)
    BY <1>6
<1> QED
    BY <1>1, <1>2, <1>3, <1>5, <1>6, <1>7, <1>8, SaidAmpler DEF p

\* The receive thread hands on what was due, or commits.
LEMMA RecvAmpler ==
    ASSUME IInv, IInv', Ampler, RecvFrame \/ RecvCommit
    PROVE  Ampler'
<1>1. /\ local \in Seq(Packets) /\ Len(local) \in Nat /\ Len(queue) \in Nat /\ queueCap \in Nat
      /\ queue \in Seq(Packets) /\ Waiting \in Nat
      /\ Len(acceptLocal) \in Nat /\ Len(closeLocal) \in Nat
      /\ UNCHANGED <<heard, life, acceptLocal, closeLocal, ringCap, queueCap>>
    BY UpOnceTypes, WaitingType DEF RecvFrame, RecvCommit, mainVars, sessionVars, capVars
<1>2. Fits /\ (BigQueue => Unrefused) /\ (BigQueue' <=> BigQueue)
    BY <1>1 DEF Ampler, BigQueue
<1>3. queue' \in Seq(Packets) /\ local' \in Seq(Packets)
      /\ Len(queue') \in Nat /\ Len(local') \in Nat
    BY TypesMeanNext DEF IInv, Types, QueueOK, LocalOK
<1>4. ASSUME In(queue) \subseteq In(queue'), BigQueue => deleted' = deleted
      PROVE  BigQueue => Unrefused'
    <2> SUFFICES ASSUME BigQueue PROVE Unrefused'
        OBVIOUS
    <2>1. /\ acceptLocal = <<>> /\ closeLocal = <<>> /\ deleted = 0 /\ EndKnown
          /\ \A d \in Conns : life[d] # "refused"
        BY <1>2 DEF Unrefused
    <2>2. EndKnown'
        BY <1>1, <1>4, <2>1, EndKept
    <2> QED
        BY <1>1, <1>4, <2>1, <2>2 DEF Unrefused
<1>5. CASE RecvCommit
    <2>1. PICK n \in Movable(local) : queue' = queue \o First(local, n) /\ local' = Rest(local, n)
        BY <1>5 DEF RecvCommit
    <2>2. n \in 0 .. Len(local)
        BY <2>1 DEF Movable
    <2>3. Len(queue') + Len(local') = Len(queue) + Len(local) /\ In(queue) \subseteq In(queue')
        <3>1. /\ Len(queue \o First(local, n)) + Len(Rest(local, n)) = Len(queue) + Len(local)
              /\ In(queue) \subseteq In(queue \o First(local, n))
            BY <1>1, <2>2, LenMoved
        <3> QED
            BY <2>1, <3>1
    <2>4. Waiting' \in Nat /\ Waiting' <= Waiting
        BY <1>1, <1>3, <2>3 DEF Waiting
    <2>5. UNCHANGED <<handed, deleted>>
        BY <1>5 DEF RecvCommit
    <2>6. \A c \in Conns, k \in Kinds : DueOf(c, k)' => DueOf(c, k)
        BY <1>1, <2>5 DEF DueOf
    <2>7. Fits'
        BY <1>2, <2>4, <2>6, FitsKept
    <2> QED
        BY <1>2, <1>4, <2>3, <2>5, <2>7 DEF Ampler
<1>6. CASE RecvFrame
    <2> DEFINE pk == Packet(at, handed[at] + 1)
    <2>1. /\ at \in Conns /\ handed[at] \in Nat /\ todo \in Nat
          /\ handed[at] + todo <= sent[at] /\ sent[at] \in 0 .. MaxFrames /\ todo > 0
        BY <1>6, InHand DEF RecvFrame
    <2>2. handed \in [Conns -> 0 .. MaxFrames]
        BY Facts DEF Types, ReceiverOK
    <2>3. pk \in Packets
        BY <2>1 DEF Packet, Packets
    <2>4. PICK n \in IF Len(local) < LocalCap THEN {0} ELSE Movable(local) :
            /\ queue' = queue \o First(local, n)
            /\ IF Len(local) < LocalCap \/ n = Len(local)
               THEN /\ local' = Append(Rest(local, n), pk)
                    /\ handed' = [handed EXCEPT ![at] = @ + 1]
                    /\ deleted' = deleted
               ELSE local' = Rest(local, n) /\ handed' = handed
        BY <1>6 DEF RecvFrame
    <2> HIDE DEF pk
    <2>5. n \in 0 .. Len(local)
        BY <1>1, <2>4 DEF Movable
    <2>6. /\ Len(queue') + Len(Rest(local, n)) = Len(queue) + Len(local)
          /\ In(queue) \subseteq In(queue') /\ Rest(local, n) \in Seq(Packets)
          /\ Len(Rest(local, n)) \in Nat
        <3>1. /\ Len(queue \o First(local, n)) + Len(Rest(local, n)) = Len(queue) + Len(local)
              /\ In(queue) \subseteq In(queue \o First(local, n))
            BY <1>1, <2>5, LenMoved
        <3>2. Rest(local, n) \in Seq(Packets)
            BY <1>1, <2>5, Parted
        <3> QED
            BY <2>4, <3>1, <3>2
    <2>7. CASE Len(local) < LocalCap \/ n = Len(local)
        <3>1. /\ local' = Append(Rest(local, n), pk) /\ deleted' = deleted
              /\ handed' = [handed EXCEPT ![at] = @ + 1]
            BY <2>4, <2>7
        <3>2. Len(local') = Len(Rest(local, n)) + 1
            BY <2>3, <2>6, <3>1
        <3>3. Waiting' \in Nat /\ Waiting' <= Waiting + 1
            BY <1>1, <1>3, <2>6, <3>2 DEF Waiting
        <3>4. PICK c \in Conns, k \in Kinds : c = at /\ k = handed[c] + 1 /\ k > 0
            BY <2>1 DEF Kinds
        <3>5. \A d \in Conns : handed[d] \in Nat /\ handed'[d] = IF d = c THEN k ELSE handed[d]
            BY <2>1, <2>2, <3>1, <3>4
        <3>6. DueOf(c, k) /\ ~DueOf(c, k)'
            BY <3>4, <3>5 DEF DueOf, Kinds
        <3>7. ASSUME NEW d \in Conns, NEW j \in Kinds, DueOf(d, j)'
              PROVE  DueOf(d, j)
            <4>1. CASE j > 0
                <5>1. j > handed'[d]
                    BY <3>7, <4>1 DEF DueOf, Kinds
                <5> QED
                    BY <3>4, <3>5, <4>1, <5>1 DEF DueOf, Kinds
            <4>2. CASE ~(j > 0)
                BY <1>1, <3>7, <4>2 DEF DueOf
            <4> QED
                BY <4>1, <4>2
        <3>8. Fits'
            BY <1>2, <3>3, <3>6, <3>7, FitsUsed
        <3> QED
            BY <1>2, <1>4, <2>6, <3>1, <3>8 DEF Ampler
    <2>8. CASE ~(Len(local) < LocalCap \/ n = Len(local))
        <3>1. local' = Rest(local, n) /\ handed' = handed /\ n \in Movable(local)
            BY <2>4, <2>8
        <3>2. Waiting' \in Nat /\ Waiting' <= Waiting
            BY <1>1, <1>3, <2>6, <3>1 DEF Waiting
        <3>3. \A c \in Conns, k \in Kinds : DueOf(c, k)' => DueOf(c, k)
            BY <1>1, <3>1 DEF DueOf
        <3>4. Fits'
            BY <1>2, <3>2, <3>3, FitsKept
        <3>5. ~BigQueue
            <4> SUFFICES ASSUME BigQueue PROVE FALSE
                OBVIOUS
            <4>1. Waiting + Cardinality(Due) <= AllPackets /\ AllPackets <= queueCap
                  /\ AllPackets \in Nat /\ Cardinality(Due) \in Nat
                BY <1>2, <3>3, DueKept, KindsFinite DEF Fits, BigQueue, AllPackets
            <4> HIDE DEF AllPackets
            <4>2. Len(queue) + Len(local) <= queueCap
                <5> DEFINE d == Cardinality(Due)
                <5> HIDE DEF d
                <5>1. Waiting + d <= AllPackets /\ d \in Nat
                    BY <4>1 DEF d
                <5> QED
                    BY <1>1, <4>1, <5>1 DEF Waiting
            <4>3. n = Len(local)
                BY <1>1, <3>1, <4>2 DEF Movable
            <4> QED
                BY <2>8, <4>3
        <3> QED
            BY <1>2, <3>4, <3>5 DEF Ampler
    <2> QED
        BY <2>7, <2>8
<1> QED
    BY <1>5, <1>6

\* What the main thread takes is not under way any more; an end it takes it has heard.
LEMMA MainAmpler ==
    ASSUME IInv, IInv', UpOnce, Ampler, MainTake
    PROVE  Ampler'
<1>1. PICK p \in Packets :
        /\ p.n = Up => heard[p.c] = "none"
        /\ heard' = CASE p.n = Up -> [heard EXCEPT ![p.c] = "up"]
                      [] p.n = Down -> [heard EXCEPT ![p.c] = "gone"]
                      [] OTHER -> heard
        /\ queue' \in Seq(Packets) /\ queue = <<p>> \o queue'
    BY MainTakes
<1>2. /\ UNCHANGED <<local, acceptLocal, closeLocal, life, handed, deleted, ringCap, queueCap>>
      /\ heard \in [Conns -> {"none", "up", "gone"}]
    BY UpOnceTypes DEF MainTake, recvVars, sessionVars, capVars
<1>3. Fits /\ (BigQueue => Unrefused) /\ (BigQueue' <=> BigQueue)
    BY <1>2 DEF Ampler, BigQueue
<1>4. /\ Len(queue) = 1 + Len(queue') /\ Len(queue') \in Nat
      /\ \A x \in In(queue) : x = p \/ x \in In(queue')
    <2> DEFINE t == queue'
    <2> DEFINE r == <<p>>
    <2>1. t \in Seq(Packets) /\ queue = r \o t
          /\ r \in Seq(Packets) /\ Len(r) = 1 /\ r[1] = p
        BY <1>1
    <2> HIDE DEF t, r
    <2>2. /\ \A x \in In(r \o t) : x = p \/ x \in In(t)
          /\ Len(r \o t) = 1 + Len(t) /\ Len(t) \in Nat
        BY <2>1, OnePacketMore
    <2> QED
        BY <2>1, <2>2 DEF t
<1>5. \A x \in In(queue) : x = p \/ x \in In(queue')
    BY <1>4
<1>6. Waiting' \in Nat /\ Waiting' <= Waiting
    BY <1>2, <1>4, WaitingType DEF Waiting
<1>7. \A c \in Conns, k \in Kinds : DueOf(c, k)' => DueOf(c, k)
    BY <1>2 DEF DueOf
<1>8. Fits'
    BY <1>3, <1>6, <1>7, FitsKept
<1>9. ASSUME BigQueue PROVE Unrefused'
    <2>1. /\ acceptLocal = <<>> /\ closeLocal = <<>> /\ deleted = 0 /\ EndKnown
          /\ \A d \in Conns : life[d] # "refused"
        BY <1>3, <1>9 DEF Unrefused
    <2>2. ASSUME NEW c \in Conns, life'[c] = "closed"
          PROVE  heard'[c] = "gone" \/ Packet(c, Down) \in In(queue')
        <3>1. life[c] = "closed" /\ (heard[c] = "gone" \/ Packet(c, Down) \in In(queue))
            BY <1>2, <2>1, <2>2 DEF EndKnown
        <3>2. CASE heard[c] = "gone"
            BY <1>1, <1>2, <3>2 DEF Up, Down
        <3>3. CASE Packet(c, Down) = p
            <4>1. p.c = c /\ p.n = Down
                BY <3>3 DEF Packet
            <4>2. heard' = [heard EXCEPT ![c] = "gone"]
                BY <1>1, <4>1 DEF Up, Down
            <4> QED
                BY <1>2, <4>2
        <3> QED
            BY <1>5, <3>1, <3>2, <3>3
    <2>3. EndKnown'
        BY <2>2 DEF EndKnown, Packet, Down
    <2> QED
        BY <1>2, <2>1, <2>3 DEF Unrefused
<1> QED
    BY <1>3, <1>8, <1>9 DEF Ampler

\* Whoever says nothing and takes nothing
LEMMA SilentAmpler ==
    ASSUME IInv, Ampler,
           UNCHANGED <<queue, local, acceptLocal, closeLocal, heard, handed, deleted, queueCap>>,
           life \in [Conns -> {"new", "refused", "announced", "open", "closed"}],
           life' = life
           \/ \E c \in Conns : life[c] = "announced" /\ life' = [life EXCEPT ![c] = "open"]
    PROVE  Ampler'
<1>1. \A c \in Conns : life'[c] = life[c] \/ (life[c] = "announced" /\ life'[c] = "open")
    OBVIOUS
<1>2. Fits /\ (BigQueue => Unrefused) /\ (BigQueue' <=> BigQueue)
    BY DEF Ampler, BigQueue
<1>3. Waiting' = Waiting /\ Waiting \in Nat
    BY WaitingType DEF Waiting
<1>4. \A c \in Conns, k \in Kinds : DueOf(c, k)' => DueOf(c, k)
    BY <1>1 DEF DueOf
<1>5. Fits'
    BY <1>2, <1>3, <1>4, FitsKept
<1>6. ASSUME BigQueue PROVE Unrefused'
    <2>1. /\ acceptLocal = <<>> /\ closeLocal = <<>> /\ deleted = 0 /\ EndKnown
          /\ \A d \in Conns : life[d] # "refused"
        BY <1>2, <1>6 DEF Unrefused
    <2>2. In(queue) \subseteq In(queue')
        OBVIOUS
    <2>3. EndKnown'
        BY <1>1, <2>1, <2>2, EndKept
    <2> QED
        BY <1>1, <2>1, <2>3 DEF Unrefused
<1> QED
    BY <1>2, <1>5, <1>6 DEF Ampler

LEMMA AmplerStep == IInv /\ IInv' /\ UpOnce /\ Ampler /\ [Next]_vars => Ampler'
<1> SUFFICES ASSUME IInv, IInv', UpOnce, Ampler, [Next]_vars PROVE Ampler'
    OBVIOUS
<1>1. CASE MainTake
    BY <1>1, MainAmpler
<1>2. CASE RecvFrame \/ RecvCommit
    BY <1>2, RecvAmpler
<1>3. ASSUME NEW c \in Conns, AcceptAnnounce(c) \/ AcceptPostFails(c) \/ CloseSession(c)
      PROVE  Ampler'
    BY <1>3, AcceptAmpler, CloseAmpler
<1>4. CASE EpollThread \/ RecvTake \/ RecvNoPacket \/ RecvRearm \/ SendOut \/ UNCHANGED vars
    <2>1. UNCHANGED <<queue, local, acceptLocal, closeLocal, heard, handed, deleted, queueCap, life>>
        BY <1>4 DEF EpollThread, EpollWait, EpollEvent, EpollCommit, RecvTake, RecvNoPacket,
            RecvRearm, SendOut, vars, sessionVars, recvVars, mainVars, capVars
    <2> QED
        BY <2>1, UpOnceTypes, SilentAmpler
<1>5. ASSUME NEW c \in Conns, ClientSends(c) \/ AcceptPost(c) \/ SendStalls(c) \/ KickOutSession(c)
      PROVE  Ampler'
    <2>1. UNCHANGED <<queue, local, acceptLocal, closeLocal, heard, handed, deleted, queueCap>>
        BY <1>5 DEF ClientSends, AcceptPost, SendStalls, KickOutSession, sessionVars, recvVars,
            mainVars, capVars
    <2>2. life' = life \/ (life[c] = "announced" /\ life' = [life EXCEPT ![c] = "open"])
        BY <1>5 DEF ClientSends, AcceptPost, SendStalls, KickOutSession, sessionVars
    <2> QED
        BY <2>1, <2>2, UpOnceTypes, SilentAmpler
<1> QED
    BY <1>1, <1>2, <1>3, <1>4, <1>5 DEF Next, RecvThread

(* What the library makes for a connection is one announcement, its frames,   *)
(* and its end, once or twice (AcceptPostFails); so a queue with a place for  *)
(* all of it refuses nothing, however the threads interleave: whoever commits *)
(* leaves nothing behind in the ring, no frame is deleted, nobody is turned   *)
(* away, and the end of a closed session is under way or has been heard.      *)
THEOREM NothingIsRefused == Spec => []NothingRefused
<1>1. UpOnce /\ Ampler /\ IInv => NothingRefused
    BY NothingRefusedMeans DEF Ampler
<1> QED
    BY <1>1, Invariance, UpOnceInit, UpOnceStep, AmplerInit, AmplerStep, PTL DEF Spec
=============================================================================
