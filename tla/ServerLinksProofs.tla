------------------------- MODULE ServerLinksProofs -------------------------
(***************************************************************************)
(* The registry of the master server for every number of servers and       *)
(* sessions and every history of lost and kicked connections.              *)
(***************************************************************************)
EXTENDS ServerLinks, FiniteSetTheorems, TLAPS

USE ServerLinksAssumption

-----------------------------------------------------------------------------
(* The inductive invariant: a session is added once, before anything else is *)
(* heard of it, so a registered session is never added again.                *)

AddComesFirst(q) == \A i \in DOMAIN q : q[i].kind = "add" => i = 1
NoAdd(q) == \A i \in DOMAIN q : q[i].kind # "add"

AddedOnce ==
    /\ \A k \in Sessions : AddComesFirst(chan[k]) /\ (bySession[k] # None => NoAdd(chan[k]))
    /\ \A s \in Servers : NoAdd(outbox[s])

IInv == TypeOK /\ OneRegistration /\ AddedOnce

-----------------------------------------------------------------------------
(* The parts of the type invariant, by what changes together.              *)

NetOK ==
    /\ owner \in [Sessions -> Servers \cup {None}] /\ link \in [Servers -> Sessions \cup {None}]
    /\ chan \in [Sessions -> Seq(Messages)]

MasterOK ==
    /\ newUp \subseteq Sessions /\ kicked \subseteq Sessions /\ master \in {"runs", "crashed"}
    /\ bySession \in [Sessions -> Servers \cup {None}] /\ byId \in [Servers -> Sessions \cup {None}]

BoxOK == inbox \in [Servers -> Seq(Messages)] /\ outbox \in [Servers -> Seq(Messages)]

DbOK ==
    /\ works \in [Logins -> [Accounts -> Nat]] /\ opened \in [Logins -> [Accounts -> Nat]]
    /\ linked \in [Logins -> SUBSET Accounts]

BoundsOK ==
    /\ losses \in 0 .. MaxLosses /\ counts \in 0 .. MaxCounts /\ fails \in 0 .. MaxFails
    /\ dbLosses \in 0 .. MaxDbLosses

LEMMA Parts == IInv <=> /\ NetOK /\ MasterOK /\ BoxOK /\ DbOK /\ BoundsOK
                        /\ OneRegistration /\ AddedOnce
BY Zenon DEF IInv, TypeOK, NetOK, MasterOK, BoxOK, DbOK, BoundsOK

LEMMA PartsNext ==
    ASSUME NetOK', MasterOK', BoxOK', DbOK', BoundsOK', OneRegistration', AddedOnce' PROVE IInv'
BY Zenon DEF IInv, TypeOK, NetOK, MasterOK, BoxOK, DbOK, BoundsOK

\* What a step leaves alone keeps its part.
LEMMA Kept ==
    /\ NetOK /\ UNCHANGED netVars => NetOK'
    /\ MasterOK /\ UNCHANGED masterVars => MasterOK'
    /\ BoxOK /\ UNCHANGED serverVars => BoxOK'
    /\ DbOK /\ UNCHANGED dbVars => DbOK'
    /\ BoundsOK /\ UNCHANGED bounds => BoundsOK'
    /\ OneRegistration /\ UNCHANGED <<owner, newUp, bySession, byId>> => OneRegistration'
    /\ AddedOnce /\ UNCHANGED <<chan, bySession, outbox>> => AddedOnce'
<1>1. NetOK /\ UNCHANGED netVars => NetOK'
    BY DEF NetOK, netVars
<1>2. MasterOK /\ UNCHANGED masterVars => MasterOK'
    BY DEF MasterOK, masterVars
<1>3. BoxOK /\ UNCHANGED serverVars => BoxOK'
    BY DEF BoxOK, serverVars
<1>4. DbOK /\ UNCHANGED dbVars => DbOK'
    BY DEF DbOK, dbVars
<1>5. BoundsOK /\ UNCHANGED bounds => BoundsOK'
    BY DEF BoundsOK, bounds
<1>6. OneRegistration /\ UNCHANGED <<owner, newUp, bySession, byId>> => OneRegistration'
    BY DEF OneRegistration
<1>7. AddedOnce /\ UNCHANGED <<chan, bySession, outbox>> => AddedOnce'
    BY DEF AddedOnce, AddComesFirst, NoAdd
<1> QED
    BY <1>1, <1>2, <1>3, <1>4, <1>5, <1>6, <1>7

-----------------------------------------------------------------------------
(* Messages and queues of messages.                                        *)

LEMMA MessagesAre ==
    /\ \A kind \in PlainKinds : Plain(kind) \in Messages /\ Plain(kind).kind = kind
    /\ \A kind \in AboutKinds, s \in Servers :
            About(kind, s) \in Messages /\ About(kind, s).kind = kind
    /\ \A m \in Messages : m.kind \in AboutKinds => m.peer \in Servers
BY DEF Plain, About, Messages, PlainKinds, AboutKinds

LEMMA AppendedTo ==
    ASSUME NEW q \in Seq(Messages), NEW m \in Messages, m.kind # "add"
    PROVE  /\ Append(q, m) \in Seq(Messages)
           /\ AddComesFirst(q) => AddComesFirst(Append(q, m))
           /\ NoAdd(q) => NoAdd(Append(q, m))
<1>1. /\ Append(q, m) \in Seq(Messages) /\ Len(q) \in Nat
      /\ \A i \in DOMAIN Append(q, m) : \/ i \in DOMAIN q /\ Append(q, m)[i] = q[i]
                                        \/ i = Len(q) + 1 /\ Append(q, m)[i] = m
    OBVIOUS
<1> DEFINE a == Append(q, m)
<1> HIDE DEF a
<1>2. \A i \in DOMAIN a : (i \in DOMAIN q /\ a[i] = q[i]) \/ a[i].kind # "add"
    BY <1>1 DEF a
<1>3. (AddComesFirst(q) => AddComesFirst(a)) /\ (NoAdd(q) => NoAdd(a))
    BY <1>2 DEF AddComesFirst, NoAdd
<1> QED
    BY <1>1, <1>3 DEF a

LEMMA TakenFrom ==
    ASSUME NEW q \in Seq(Messages), q # <<>>
    PROVE  /\ Tail(q) \in Seq(Messages) /\ Head(q) \in Messages /\ Head(q) = q[1] /\ 1 \in DOMAIN q
           /\ AddComesFirst(q) => NoAdd(Tail(q))
           /\ NoAdd(q) => NoAdd(Tail(q)) /\ Head(q).kind # "add"
           /\ AddComesFirst(q) /\ Head(q).kind # "add" => NoAdd(q)
<1>1. /\ Tail(q) \in Seq(Messages) /\ Len(q) \in Nat \ {0} /\ Head(q) = q[1] /\ 1 \in DOMAIN q
      /\ Head(q) \in Messages /\ Len(Tail(q)) = Len(q) - 1
      /\ DOMAIN q = 1 .. Len(q) /\ \A i \in 1 .. Len(q) - 1 : Tail(q)[i] = q[i + 1]
    OBVIOUS
<1> DEFINE t == Tail(q)
<1>2. \A i \in DOMAIN t : i + 1 \in DOMAIN q /\ i + 1 # 1 /\ t[i] = q[i + 1]
    BY <1>1
<1> HIDE DEF t
<1>3. (AddComesFirst(q) => NoAdd(t)) /\ (NoAdd(q) => NoAdd(t))
    BY <1>2 DEF AddComesFirst, NoAdd
<1>4. NoAdd(q) => Head(q).kind # "add"
    BY <1>1 DEF NoAdd
<1>5. AddComesFirst(q) /\ Head(q).kind # "add" => NoAdd(q)
    BY <1>1 DEF AddComesFirst, NoAdd
<1> QED
    BY <1>1, <1>3, <1>4, <1>5 DEF t

LEMMA FirstPart ==
    ASSUME NEW q \in Seq(Messages), NEW n \in 0 .. Len(q)
    PROVE  /\ SubSeq(q, 1, n) \in Seq(Messages)
           /\ AddComesFirst(q) => AddComesFirst(SubSeq(q, 1, n))
           /\ NoAdd(q) => NoAdd(SubSeq(q, 1, n))
<1> DEFINE t == SubSeq(q, 1, n)
<1>1. t \in Seq(Messages) /\ \A i \in DOMAIN t : i \in DOMAIN q /\ t[i] = q[i]
    OBVIOUS
<1> HIDE DEF t
<1>2. (AddComesFirst(q) => AddComesFirst(t)) /\ (NoAdd(q) => NoAdd(t))
    BY <1>1 DEF AddComesFirst, NoAdd
<1> QED
    BY <1>1, <1>2 DEF t

LEMMA OneBehindTheOther ==
    ASSUME NEW q \in Seq(Messages), NEW r \in Seq(Messages)
    PROVE  q \o r \in Seq(Messages) /\ (NoAdd(q) /\ NoAdd(r) => NoAdd(q \o r))
<1> DEFINE t == q \o r
<1>1. /\ t \in Seq(Messages) /\ Len(q) \in Nat /\ Len(r) \in Nat
      /\ DOMAIN q = 1 .. Len(q) /\ DOMAIN r = 1 .. Len(r) /\ DOMAIN t = 1 .. Len(q) + Len(r)
      /\ \A i \in 1 .. Len(q) : t[i] = q[i]
      /\ \A i \in Len(q) + 1 .. Len(q) + Len(r) : t[i] = r[i - Len(q)]
    OBVIOUS
<1> HIDE DEF t
<1>2. ASSUME NoAdd(q), NoAdd(r), NEW i \in DOMAIN t PROVE t[i].kind # "add"
    <2>1. CASE i \in 1 .. Len(q)
        BY <1>1, <1>2, <2>1 DEF NoAdd
    <2>2. CASE i \in Len(q) + 1 .. Len(q) + Len(r)
        <3>1. i - Len(q) \in DOMAIN r
            BY <1>1, <2>2
        <3> QED
            BY <1>1, <1>2, <2>2, <3>1 DEF NoAdd
    <2> QED
        BY <1>1, <2>1, <2>2
<1>3. NoAdd(q) /\ NoAdd(r) => NoAdd(t)
    BY <1>2 DEF NoAdd
<1> QED
    BY <1>1, <1>3 DEF t

\* What a server is told of the account servers.
LEMMA InfosAre ==
    /\ Infos \in Seq(Messages)
    /\ Infos \in [1 .. Cardinality(Registered) -> {About("can", d) : d \in Registered}]
    /\ \A d \in Registered : \E i \in DOMAIN Infos : Infos[i].peer = d
<1> DEFINE C == {About("can", d) : d \in Registered}
<1> DEFINE n == Cardinality(Registered)
<1>1. IsFiniteSet(Registered)
    BY FS_Subset DEF Registered, Servers
<1>2. n \in Nat
    BY <1>1, FS_CardinalityType
<1>3. PICK f : f \in Bijection(1 .. n, Registered)
    BY <1>1, FS_CountingElements, FS_NatBijection DEF ExistsBijection
<1> DEFINE q == [i \in 1 .. n |-> About("can", f[i])]
<1>4. q \in [1 .. n -> C] /\ \A d \in Registered : \E i \in DOMAIN q : q[i].peer = d
    <2>1. f \in [1 .. n -> Registered] /\ \A d \in Registered : \E i \in 1 .. n : f[i] = d
        BY <1>3, Zenon DEF Bijection, Surjection, Injection
    <2> HIDE DEF n
    <2> QED
        BY <2>1 DEF About
<1>5. Infos \in [1 .. n -> C] /\ \A d \in Registered : \E i \in DOMAIN Infos : Infos[i].peer = d
    <2> HIDE DEF q, C, n
    <2> QED
        BY <1>4, Zenon DEF Infos, C, n
<1>6. C \subseteq Messages
    BY MessagesAre DEF Registered, Servers, PlainKinds, AboutKinds
<1> HIDE DEF C, n
<1>7. Infos \in Seq(Messages)
    BY <1>2, <1>5, <1>6
<1> QED
    BY <1>5, <1>7 DEF C, n

-----------------------------------------------------------------------------
(* What the steps of the network and of the main threads have in common.     *)

\* A session gets another message that is not an announcement.
LEMMA ChanGrows ==
    ASSUME NetOK, AddedOnce, NEW k \in Sessions, NEW q \in Seq(Messages), NEW m \in Messages,
           AddComesFirst(chan[k]) => AddComesFirst(q), NoAdd(chan[k]) => NoAdd(q), m.kind # "add",
           chan' = [chan EXCEPT ![k] = Append(q, m)], UNCHANGED bySession
    PROVE  /\ chan' \in [Sessions -> Seq(Messages)]
           /\ \A j \in Sessions : AddComesFirst(chan'[j]) /\ (bySession'[j] # None => NoAdd(chan'[j]))
<1> DEFINE r == Append(q, m)
<1>1. r \in Seq(Messages) /\ (AddComesFirst(q) => AddComesFirst(r)) /\ (NoAdd(q) => NoAdd(r))
    BY AppendedTo
<1>2. chan' = [chan EXCEPT ![k] = r]
    OBVIOUS
<1> HIDE DEF r
<1> QED
    BY <1>1, <1>2 DEF NetOK, AddedOnce

\* The master is given the head of a session, whose other sessions stay registered as they are.
LEMMA ChanShrinks ==
    ASSUME NetOK, AddedOnce, NEW k \in Sessions, NEW kind, Given(k, kind), UNCHANGED outbox,
           \A j \in Sessions \ {k} : bySession'[j] = bySession[j]
    PROVE  chan' \in [Sessions -> Seq(Messages)] /\ AddedOnce'
<1>1. chan[k] \in Seq(Messages) /\ chan[k] # <<>> /\ chan' = [chan EXCEPT ![k] = Tail(@)]
    BY DEF NetOK, Given
<1>2. Tail(chan[k]) \in Seq(Messages) /\ NoAdd(Tail(chan[k]))
    BY <1>1, TakenFrom DEF AddedOnce
<1> DEFINE t == Tail(chan[k])
<1>3. chan' = [chan EXCEPT ![k] = t] /\ t \in Seq(Messages) /\ NoAdd(t)
    BY <1>1, <1>2
<1> HIDE DEF t
<1>4. NoAdd(t) => AddComesFirst(t)
    BY DEF NoAdd, AddComesFirst
<1>5. chan' \in [Sessions -> Seq(Messages)]
    BY <1>3 DEF NetOK
<1>6. ASSUME NEW j \in Sessions
      PROVE  AddComesFirst(chan'[j]) /\ (bySession'[j] # None => NoAdd(chan'[j]))
    BY <1>3, <1>4 DEF NetOK, AddedOnce
<1> QED
    BY <1>5, <1>6 DEF AddedOnce

\* SendOnePacket.
LEMMA SentIs ==
    ASSUME NetOK, NEW k \in Sessions, owner[k] # None, NEW box \in [Servers -> Seq(Messages)],
           NEW m \in Messages
    PROVE  Sent(k, box, m) \in [Servers -> Seq(Messages)]
<1>1. owner[k] \in Servers /\ Append(box[owner[k]], m) \in Seq(Messages)
    BY DEF NetOK
<1> QED
    BY <1>1 DEF Sent

\* A registered session has an owner.
LEMMA RegisteredIs ==
    ASSUME NetOK, MasterOK, OneRegistration, NEW s \in Servers, byId[s] # None
    PROVE  byId[s] \in Sessions /\ owner[byId[s]] = s /\ owner[byId[s]] # None
BY DEF NetOK, MasterOK, OneRegistration

\* A server takes a message and says others.
LEMMA BoxesMove ==
    ASSUME BoxOK, NEW s \in Servers, inbox[s] # <<>>, inbox' = [inbox EXCEPT ![s] = Tail(@)],
           NEW ms \in Seq(Messages), NoAdd(ms), Says(s, ms), AddedOnce, UNCHANGED <<chan, bySession>>
    PROVE  BoxOK' /\ AddedOnce'
<1>1. outbox[s] \o ms \in Seq(Messages) /\ NoAdd(outbox[s] \o ms)
    BY OneBehindTheOther DEF BoxOK, AddedOnce
<1>2. outbox' = [outbox EXCEPT ![s] = outbox[s] \o ms]
    BY DEF Says
<1> DEFINE o == outbox[s] \o ms
<1>3. outbox' = [outbox EXCEPT ![s] = o] /\ o \in Seq(Messages) /\ NoAdd(o)
    BY <1>1, <1>2
<1>4. inbox' \in [Servers -> Seq(Messages)]
    <2>1. Tail(inbox[s]) \in Seq(Messages)
        BY TakenFrom DEF BoxOK
    <2> QED
        BY <2>1 DEF BoxOK
<1> HIDE DEF o
<1>5. outbox' \in [Servers -> Seq(Messages)] /\ \A t \in Servers : NoAdd(outbox'[t])
    BY <1>3 DEF BoxOK, AddedOnce
<1> QED
    BY <1>4, <1>5 DEF BoxOK, AddedOnce

\* The sentences a server says.
LEMMA OneSentence ==
    ASSUME NEW m \in Messages, m.kind # "add"
    PROVE  <<m>> \in Seq(Messages) /\ NoAdd(<<m>>)
BY DEF NoAdd

-----------------------------------------------------------------------------
(* The steps of the network.                                                 *)

LEMMA InitInv == Init => IInv
<1> SUFFICES ASSUME Init PROVE IInv
    OBVIOUS
<1>1. NetOK /\ MasterOK /\ BoxOK
    BY DEF Init, NetOK, MasterOK, BoxOK
<1>2. DbOK /\ BoundsOK
    BY DEF Init, DbOK, BoundsOK
<1>3. OneRegistration
    BY DEF Init, OneRegistration
<1>4. AddedOnce
    BY DEF Init, AddedOnce, AddComesFirst, NoAdd
<1> QED
    BY <1>1, <1>2, <1>3, <1>4, Parts

LEMMA LinkUpInv ==
    ASSUME IInv, NEW s \in Servers, NEW k \in Sessions, LinkUp(s, k) PROVE IInv'
<1>1. NetOK /\ MasterOK /\ BoxOK /\ DbOK /\ BoundsOK /\ OneRegistration /\ AddedOnce
    BY Parts
<1>2. /\ link[s] = None /\ owner[k] = None
      /\ owner' = [owner EXCEPT ![k] = s] /\ link' = [link EXCEPT ![s] = k]
      /\ chan' = [chan EXCEPT ![k] = <<Plain("add")>>]
      /\ inbox' = [inbox EXCEPT ![s] = Append(@, Plain("connected"))]
      /\ UNCHANGED masterVars /\ outbox' = outbox /\ UNCHANGED dbVars /\ UNCHANGED bounds
    BY DEF LinkUp
<1>3. UNCHANGED <<newUp, kicked, master, bySession, byId>>
    BY <1>2 DEF masterVars
<1>4. Plain("add") \in Messages /\ Plain("connected") \in Messages
    BY MessagesAre DEF PlainKinds, AboutKinds
<1>5. NetOK'
    BY <1>1, <1>2, <1>4 DEF NetOK
<1>6. BoxOK'
    BY <1>1, <1>2, <1>4 DEF BoxOK
<1>7. bySession[k] = None
    BY <1>1, <1>2 DEF OneRegistration, MasterOK
<1>8. OneRegistration'
    BY <1>1, <1>2, <1>3 DEF OneRegistration, NetOK, MasterOK
<1>9. AddedOnce'
    <2> DEFINE q == <<Plain("add")>>
    <2>1. AddComesFirst(q)
        BY DEF AddComesFirst
    <2>2. chan' = [chan EXCEPT ![k] = q]
        BY <1>2
    <2> HIDE DEF q
    <2> QED
        BY <1>1, <1>2, <1>3, <1>7, <2>1, <2>2 DEF AddedOnce, NetOK
<1> QED
    BY <1>1, <1>2, <1>5, <1>6, <1>8, <1>9, Kept, PartsNext

LEMMA LinkLostInv ==
    ASSUME IInv, NEW s \in Servers, LinkLost(s) PROVE IInv'
<1>1. NetOK /\ MasterOK /\ BoxOK /\ DbOK /\ BoundsOK /\ OneRegistration /\ AddedOnce
    BY Parts
<1> DEFINE k == link[s]
<1>2. k \in Sessions /\ losses' = losses + 1 /\ losses < MaxLosses /\ Cut(s)
    BY <1>1 DEF LinkLost, NetOK
<1>3. /\ link' = [link EXCEPT ![s] = None] /\ owner' = owner /\ outbox' = outbox
      /\ UNCHANGED masterVars /\ UNCHANGED dbVars /\ UNCHANGED <<counts, fails, dbLosses>>
    BY <1>2 DEF Cut
<1>4. PICK n \in 0 .. Len(chan[k]) : chan' = [chan EXCEPT ![k] = Append(SubSeq(@, 1, n), Plain("remove"))]
    BY <1>2, Zenon DEF Cut
<1>5. PICK n2 \in 0 .. Len(inbox[s]) : inbox' = [inbox EXCEPT ![s] = SubSeq(@, 1, n2)]
    BY <1>2, Zenon DEF Cut
<1> HIDE DEF k
<1>6. chan' \in [Sessions -> Seq(Messages)] /\ AddedOnce'
    <2> DEFINE q == SubSeq(chan[k], 1, n)
    <2>1. chan[k] \in Seq(Messages)
        BY <1>1, <1>2 DEF NetOK
    <2>2. /\ q \in Seq(Messages) /\ (AddComesFirst(chan[k]) => AddComesFirst(q))
          /\ (NoAdd(chan[k]) => NoAdd(q))
        BY <2>1, FirstPart
    <2>3. Plain("remove") \in Messages /\ Plain("remove").kind # "add"
        BY MessagesAre DEF PlainKinds, AboutKinds
    <2>4. chan' = [chan EXCEPT ![k] = Append(q, Plain("remove"))] /\ bySession' = bySession
        BY <1>3, <1>4 DEF masterVars
    <2> HIDE DEF q
    <2>5. /\ chan' \in [Sessions -> Seq(Messages)]
          /\ \A j \in Sessions : AddComesFirst(chan'[j]) /\ (bySession'[j] # None => NoAdd(chan'[j]))
        BY <1>1, <1>2, <2>2, <2>3, <2>4, ChanGrows
    <2> QED
        BY <1>1, <1>3, <2>5 DEF AddedOnce
<1>7. NetOK'
    BY <1>1, <1>3, <1>6 DEF NetOK
<1>8. BoxOK'
    <2>1. SubSeq(inbox[s], 1, n2) \in Seq(Messages)
        BY <1>1, <1>5, FirstPart DEF BoxOK
    <2> QED
        BY <1>1, <1>3, <1>5, <2>1 DEF BoxOK
<1>9. BoundsOK' /\ OneRegistration'
    BY <1>1, <1>2, <1>3, Kept DEF BoundsOK, masterVars
<1> QED
    BY <1>1, <1>3, <1>6, <1>7, <1>8, <1>9, Kept, PartsNext

LEMMA KickOutInv ==
    ASSUME IInv, NEW s \in Servers, KickOut(s) PROVE IInv'
<1>1. NetOK /\ MasterOK /\ BoxOK /\ DbOK /\ BoundsOK /\ OneRegistration /\ AddedOnce
    BY Parts
<1>2. /\ link[s] \in Sessions /\ link' = [link EXCEPT ![s] = None] /\ owner' = owner
      /\ chan' = [chan EXCEPT ![link[s]] = Append(chan[link[s]], Plain("remove"))]
      /\ UNCHANGED masterVars /\ UNCHANGED serverVars /\ UNCHANGED dbVars /\ UNCHANGED bounds
    BY <1>1 DEF KickOut, NetOK
<1>3. Plain("remove") \in Messages /\ Plain("remove").kind # "add"
    BY MessagesAre DEF PlainKinds, AboutKinds
<1>4. chan[link[s]] \in Seq(Messages) /\ bySession' = bySession /\ outbox' = outbox
    BY <1>1, <1>2 DEF NetOK, masterVars, serverVars
<1>5. /\ chan' \in [Sessions -> Seq(Messages)]
      /\ \A j \in Sessions : AddComesFirst(chan'[j]) /\ (bySession'[j] # None => NoAdd(chan'[j]))
    BY <1>1, <1>2, <1>3, <1>4, ChanGrows
<1>6. NetOK' /\ AddedOnce'
    BY <1>1, <1>2, <1>4, <1>5 DEF NetOK, AddedOnce
<1>7. OneRegistration'
    BY <1>1, <1>2, Kept DEF masterVars
<1> QED
    BY <1>1, <1>2, <1>6, <1>7, Kept, PartsNext

LEMMA SendStep ==
    ASSUME IInv, NEW s \in Servers, Send(s) PROVE IInv'
<1>1. NetOK /\ MasterOK /\ BoxOK /\ DbOK /\ BoundsOK /\ OneRegistration /\ AddedOnce
    BY Parts
<1>2. /\ link[s] \in Sessions /\ outbox[s] # <<>> /\ outbox' = [outbox EXCEPT ![s] = Tail(outbox[s])]
      /\ UNCHANGED <<owner, link, inbox>> /\ UNCHANGED masterVars
      /\ UNCHANGED dbVars /\ UNCHANGED bounds
    BY <1>1 DEF Send, NetOK
<1>3. /\ Tail(outbox[s]) \in Seq(Messages) /\ Head(outbox[s]) \in Messages
      /\ NoAdd(Tail(outbox[s])) /\ Head(outbox[s]).kind # "add"
    <2>1. outbox[s] \in Seq(Messages) /\ NoAdd(outbox[s])
        BY <1>1 DEF BoxOK, AddedOnce
    <2> QED
        BY <1>2, <2>1, TakenFrom
<1> DEFINE m == Head(outbox[s])
<1> DEFINE t == Tail(outbox[s])
<1>4. outbox' = [outbox EXCEPT ![s] = t] /\ t \in Seq(Messages) /\ NoAdd(t) /\ m \in Messages /\ m.kind # "add"
    BY <1>2, <1>3
<1>5. chan' = chan \/ chan' = [chan EXCEPT ![link[s]] = Append(chan[link[s]], m)]
    BY DEF Send
<1> HIDE DEF m, t
<1>6. BoxOK' /\ \A r \in Servers : NoAdd(outbox'[r])
    BY <1>1, <1>2, <1>4 DEF BoxOK, AddedOnce
<1>7. /\ chan' \in [Sessions -> Seq(Messages)]
      /\ \A j \in Sessions : AddComesFirst(chan'[j]) /\ (bySession'[j] # None => NoAdd(chan'[j]))
    <2>1. chan[link[s]] \in Seq(Messages) /\ bySession' = bySession
        BY <1>1, <1>2 DEF NetOK, masterVars
    <2>2. CASE chan' = chan
        BY <1>1, <2>1, <2>2 DEF NetOK, AddedOnce
    <2>3. CASE chan' = [chan EXCEPT ![link[s]] = Append(chan[link[s]], m)]
        BY <1>1, <1>2, <1>4, <2>1, <2>3, ChanGrows
    <2> QED
        BY <1>5, <2>2, <2>3
<1>8. NetOK' /\ AddedOnce'
    BY <1>1, <1>2, <1>6, <1>7 DEF NetOK, AddedOnce
<1>9. OneRegistration'
    BY <1>1, <1>2, Kept DEF masterVars
<1> QED
    BY <1>1, <1>2, <1>6, <1>8, <1>9, Kept, PartsNext

-----------------------------------------------------------------------------
(* The steps of the master server.                                           *)

\* The answers that change nothing in the registry.
LEMMA AnswerInv ==
    ASSUME IInv, NEW k \in Sessions, NEW kind, Given(k, kind), inbox' \in [Servers -> Seq(Messages)],
           UNCHANGED <<owner, link, newUp, bySession, byId, kicked>>, master' \in {"runs", "crashed"},
           UNCHANGED outbox, UNCHANGED dbVars, UNCHANGED bounds
    PROVE  IInv'
<1>1. NetOK /\ MasterOK /\ BoxOK /\ DbOK /\ BoundsOK /\ OneRegistration /\ AddedOnce
    BY Parts
<1>2. chan' \in [Sessions -> Seq(Messages)] /\ AddedOnce'
    BY <1>1, ChanShrinks
<1>3. NetOK' /\ MasterOK' /\ BoxOK'
    BY <1>1, <1>2 DEF NetOK, MasterOK, BoxOK
<1> QED
    BY <1>1, <1>2, <1>3, Kept, PartsNext

LEMMA MasterAddSessionInv ==
    ASSUME IInv, NEW k \in Sessions, MasterAddSession(k) PROVE IInv'
<1>1. NetOK /\ MasterOK /\ BoxOK /\ DbOK /\ BoundsOK /\ OneRegistration /\ AddedOnce
    BY Parts
<1>2. /\ Given(k, "add") /\ newUp' = newUp \cup {k}
      /\ UNCHANGED <<owner, link, bySession, byId, kicked, master>>
      /\ UNCHANGED serverVars /\ UNCHANGED dbVars /\ UNCHANGED bounds
    BY DEF MasterAddSession
<1>3. chan' \in [Sessions -> Seq(Messages)] /\ AddedOnce'
    BY <1>1, <1>2, ChanShrinks DEF serverVars
<1>4. NetOK' /\ MasterOK'
    BY <1>1, <1>2, <1>3 DEF NetOK, MasterOK
<1>5. bySession[k] = None
    <2>1. chan[k] \in Seq(Messages) /\ chan[k] # <<>> /\ Head(chan[k]).kind = "add"
        BY <1>1, <1>2 DEF Given, NetOK
    <2>2. ~NoAdd(chan[k])
        BY <2>1, TakenFrom
    <2> QED
        BY <1>1, <2>2 DEF AddedOnce
<1>6. OneRegistration'
    BY <1>1, <1>2, <1>5 DEF OneRegistration
<1> QED
    BY <1>1, <1>2, <1>3, <1>4, <1>6, Kept, PartsNext

LEMMA MasterStartReqInv ==
    ASSUME IInv, NEW k \in Sessions, MasterStartReq(k) PROVE IInv'
<1>1. NetOK /\ MasterOK /\ BoxOK
    BY Parts
<1>2. Given(k, "start") /\ owner[k] # None
    BY DEF MasterStartReq, Given
<1>3. Sent(k, inbox, Plain("startRes")) \in [Servers -> Seq(Messages)]
    BY <1>1, <1>2, SentIs, MessagesAre DEF BoxOK, PlainKinds, AboutKinds
<1>4. inbox' \in [Servers -> Seq(Messages)]
    BY <1>1, <1>3 DEF MasterStartReq, BoxOK
<1>5. /\ UNCHANGED <<owner, link, newUp, bySession, byId, kicked>> /\ master' = master
      /\ UNCHANGED outbox /\ UNCHANGED dbVars /\ UNCHANGED bounds
    BY DEF MasterStartReq, masterVars
<1> QED
    BY <1>1, <1>2, <1>4, <1>5, AnswerInv DEF MasterOK

LEMMA MasterServeCountInv ==
    ASSUME IInv, NEW k \in Sessions, MasterServeCount(k) PROVE IInv'
<1>1. NetOK /\ MasterOK /\ BoxOK
    BY Parts
<1>2. /\ Given(k, "count") /\ UNCHANGED <<owner, link, newUp, bySession, byId, kicked>>
      /\ inbox' = inbox /\ UNCHANGED outbox /\ UNCHANGED dbVars /\ UNCHANGED bounds
      /\ master' = IF Found(k) THEN master ELSE "crashed"
    BY DEF MasterServeCount, serverVars
<1>3. inbox' \in [Servers -> Seq(Messages)] /\ master' \in {"runs", "crashed"}
    BY <1>1, <1>2 DEF MasterOK, BoxOK
<1> QED
    BY <1>2, <1>3, AnswerInv

\* What a packet of a login server or an account server is answered with, if its receiver
\* is registered.
LEMMA PassedOn ==
    ASSUME IInv, NEW s \in Servers, NEW m \in Messages, byId[s] # None
    PROVE  Sent(byId[s], inbox, m) \in [Servers -> Seq(Messages)]
<1>1. NetOK /\ MasterOK /\ BoxOK /\ OneRegistration
    BY Parts
<1>2. byId[s] \in Sessions /\ owner[byId[s]] # None
    BY <1>1, RegisteredIs
<1> QED
    BY <1>1, <1>2, SentIs DEF BoxOK

\* The packets that name a server.
LEMMA AboutAServer ==
    ASSUME NetOK, NEW k \in Sessions, NEW kind \in AboutKinds, Given(k, kind)
    PROVE  Head(chan[k]).peer \in Servers
<1>1. chan[k] \in Seq(Messages) /\ chan[k] # <<>> /\ Head(chan[k]).kind = kind
    BY DEF Given, NetOK
<1>2. Head(chan[k]) \in Messages
    BY <1>1, TakenFrom
<1> QED
    BY <1>1, <1>2, MessagesAre

LEMMA MasterWillConnectReqInv ==
    ASSUME IInv, NEW k \in Sessions, MasterWillConnectReq(k) PROVE IInv'
<1>1. NetOK /\ MasterOK /\ BoxOK
    BY Parts
<1> DEFINE l == owner[k]
<1> DEFINE d == Head(chan[k]).peer
<1>0. Given(k, "willReq")
    BY DEF MasterWillConnectReq
<1>2. Given(k, "willReq") /\ l \in Servers /\ d \in Servers
    BY <1>0, <1>1, AboutAServer DEF Given, NetOK, AboutKinds
<1>3. About("willFail", d) \in Messages /\ About("willReq", l) \in Messages
    BY <1>2, MessagesAre DEF PlainKinds, AboutKinds
<1>4. \/ inbox' = inbox
      \/ byId[l] # None /\ inbox' = Sent(byId[l], inbox, About("willFail", d))
      \/ byId[d] # None /\ inbox' = Sent(byId[d], inbox, About("willReq", l))
    BY DEF MasterWillConnectReq
<1> HIDE DEF l, d
<1>5. inbox' \in [Servers -> Seq(Messages)]
    BY <1>1, <1>2, <1>3, <1>4, PassedOn DEF BoxOK
<1>6. /\ UNCHANGED <<owner, link, newUp, bySession, byId, kicked>> /\ master' = master
      /\ UNCHANGED outbox /\ UNCHANGED dbVars /\ UNCHANGED bounds
    BY DEF MasterWillConnectReq, masterVars
<1> QED
    BY <1>1, <1>2, <1>5, <1>6, AnswerInv DEF MasterOK

LEMMA MasterWillConnectResInv ==
    ASSUME IInv, NEW k \in Sessions, MasterWillConnectRes(k) PROVE IInv'
<1>1. NetOK /\ MasterOK /\ BoxOK
    BY Parts
<1> DEFINE l == Head(chan[k]).peer
<1>0. Given(k, "willRes")
    BY DEF MasterWillConnectRes
<1>2. Given(k, "willRes") /\ l \in Servers /\ owner[k] \in Servers
    BY <1>0, <1>1, AboutAServer DEF Given, NetOK, AboutKinds
<1>3. About("willRes", owner[k]) \in Messages
    BY <1>2, MessagesAre DEF PlainKinds, AboutKinds
<1>4. \/ inbox' = inbox
      \/ byId[l] # None /\ inbox' = Sent(byId[l], inbox, About("willRes", owner[k]))
    BY DEF MasterWillConnectRes
<1> HIDE DEF l
<1>5. inbox' \in [Servers -> Seq(Messages)]
    BY <1>1, <1>2, <1>3, <1>4, PassedOn DEF BoxOK
<1>6. /\ UNCHANGED <<owner, link, newUp, bySession, byId, kicked>> /\ master' = master
      /\ UNCHANGED outbox /\ UNCHANGED dbVars /\ UNCHANGED bounds
    BY DEF MasterWillConnectRes, masterVars
<1> QED
    BY <1>1, <1>2, <1>5, <1>6, AnswerInv DEF MasterOK

LEMMA MasterRegisterInv ==
    ASSUME IInv, NEW k \in Sessions, MasterRegister(k) PROVE IInv'
<1>1. NetOK /\ MasterOK /\ BoxOK /\ DbOK /\ BoundsOK /\ OneRegistration /\ AddedOnce
    BY Parts
<1> DEFINE s == owner[k]
<1>2. /\ Given(k, "register") /\ s \in Servers /\ s # None /\ newUp' = newUp \ {k}
      /\ UNCHANGED <<owner, link, master, outbox>> /\ UNCHANGED dbVars /\ UNCHANGED bounds
    BY <1>1 DEF MasterRegister, Given, NetOK
<1>3. CASE Accepts(k)
    <2>1. /\ bySession' = [bySession EXCEPT ![k] = s] /\ byId' = [byId EXCEPT ![s] = k]
          /\ kicked' = kicked
          /\ inbox' = IF s \in Accounts THEN ToldOfNew(s, inbox)
                      ELSE IF Reaches(k) THEN [inbox EXCEPT ![s] = @ \o Infos] ELSE inbox
        BY <1>3 DEF MasterRegister
    <2>2. k \in newUp /\ byId[s] = None /\ bySession[k] = None
        BY <1>1, <1>3 DEF Accepts, OneRegistration
    <2>3. \A j \in Sessions \ {k} : bySession'[j] = bySession[j]
        BY <1>1, <2>1 DEF MasterOK
    <2>4. chan' \in [Sessions -> Seq(Messages)] /\ AddedOnce'
        BY <1>1, <1>2, <2>3, ChanShrinks
    <2>5. inbox' \in [Servers -> Seq(Messages)]
        <3>1. CASE s \in Accounts
            <4>1. About("broadcast", s) \in Messages
                BY <1>2, MessagesAre DEF PlainKinds, AboutKinds
            <4>2. \A t \in Servers : Append(inbox[t], About("broadcast", s)) \in Seq(Messages)
                BY <1>1, <4>1 DEF BoxOK
            <4>3. inbox' = ToldOfNew(s, inbox)
                BY <2>1, <3>1
            <4> HIDE DEF s
            <4> QED
                BY <1>1, <4>2, <4>3 DEF ToldOfNew, BoxOK
        <3>2. CASE s \notin Accounts /\ Reaches(k)
            <4>1. inbox[s] \o Infos \in Seq(Messages)
                BY <1>1, <1>2, InfosAre DEF BoxOK
            <4>2. inbox' = [inbox EXCEPT ![s] = inbox[s] \o Infos]
                BY <2>1, <3>2
            <4> HIDE DEF s
            <4> QED
                BY <1>1, <4>1, <4>2 DEF BoxOK
        <3>3. CASE s \notin Accounts /\ ~Reaches(k)
            BY <1>1, <2>1, <3>3 DEF BoxOK
        <3> QED
            BY <3>1, <3>2, <3>3
    <2> HIDE DEF s
    <2>6. NetOK' /\ MasterOK' /\ BoxOK'
        BY <1>1, <1>2, <2>1, <2>4, <2>5 DEF NetOK, MasterOK, BoxOK
    <2>7. OneRegistration'
        <3>1. ASSUME NEW t \in Servers, byId'[t] # None
              PROVE  bySession'[byId'[t]] = t /\ owner'[byId'[t]] = t
            <4>1. CASE t = s
                BY <1>1, <1>2, <2>1, <4>1 DEF MasterOK, s
            <4>2. CASE t # s
                <5>1. byId'[t] = byId[t]
                    BY <1>1, <2>1, <4>2 DEF MasterOK
                <5>2. byId[t] \in Sessions /\ bySession[byId[t]] = t /\ owner[byId[t]] = t
                    BY <1>1, <3>1, <5>1 DEF OneRegistration, MasterOK
                <5>3. byId[t] # k
                    BY <1>2, <4>2, <5>2 DEF s
                <5> QED
                    BY <1>2, <2>3, <5>1, <5>2, <5>3
            <4> QED
                BY <4>1, <4>2
        <3>2. ASSUME NEW j \in Sessions, bySession'[j] # None
              PROVE  byId'[bySession'[j]] = j /\ j \notin newUp'
            <4>1. CASE j = k
                BY <1>1, <1>2, <2>1, <4>1 DEF MasterOK
            <4>2. CASE j # k
                <5>1. bySession'[j] = bySession[j] /\ bySession[j] # None
                    BY <2>3, <3>2, <4>2
                <5>2. byId[bySession[j]] = j /\ j \notin newUp /\ bySession[j] \in Servers
                    BY <1>1, <5>1 DEF OneRegistration, MasterOK
                <5>3. bySession[j] # s
                    BY <2>2, <5>2
                <5> QED
                    BY <1>1, <1>2, <2>1, <5>1, <5>2, <5>3 DEF MasterOK
            <4> QED
                BY <4>1, <4>2
        <3> QED
            BY <3>1, <3>2 DEF OneRegistration
    <2> QED
        BY <1>1, <1>2, <2>4, <2>6, <2>7, Kept, PartsNext
<1>4. CASE ~Accepts(k)
    <2>1. /\ kicked' = (IF link[s] = k THEN kicked \cup {k} ELSE kicked)
          /\ UNCHANGED <<bySession, byId, inbox>>
        BY <1>4 DEF MasterRegister
    <2>2. chan' \in [Sessions -> Seq(Messages)] /\ AddedOnce'
        BY <1>1, <1>2, <2>1, ChanShrinks
    <2> HIDE DEF s
    <2>3. NetOK' /\ MasterOK' /\ BoxOK'
        BY <1>1, <1>2, <2>1, <2>2 DEF NetOK, MasterOK, BoxOK
    <2>4. OneRegistration'
        BY <1>1, <1>2, <2>1 DEF OneRegistration
    <2> QED
        BY <1>1, <1>2, <2>2, <2>3, <2>4, Kept, PartsNext
<1> QED
    BY <1>3, <1>4

LEMMA MasterRemoveSessionInv ==
    ASSUME IInv, NEW k \in Sessions, MasterRemoveSession(k) PROVE IInv'
<1>1. NetOK /\ MasterOK /\ BoxOK /\ DbOK /\ BoundsOK /\ OneRegistration /\ AddedOnce
    BY Parts
<1>2. /\ chan' = [chan EXCEPT ![k] = <<>>] /\ owner' = [owner EXCEPT ![k] = None]
      /\ newUp' = newUp \ {k} /\ kicked' = kicked \ {k}
      /\ byId' = Unregistered(k) /\ bySession' = [bySession EXCEPT ![k] = None]
      /\ link' = link /\ master' = master
      /\ UNCHANGED serverVars /\ UNCHANGED dbVars /\ UNCHANGED bounds
    BY DEF MasterRemoveSession
<1>3. NetOK'
    BY <1>1, <1>2 DEF NetOK
<1>4. byId' \in [Servers -> Sessions \cup {None}] /\ \A s \in Servers :
        byId'[s] = IF bySession[k] = s THEN None ELSE byId[s]
    BY <1>1, <1>2 DEF Unregistered, MasterOK
<1>5. MasterOK'
    BY <1>1, <1>2, <1>4 DEF MasterOK
<1>6. OneRegistration'
    <2>1. ASSUME NEW s \in Servers, byId'[s] # None
          PROVE  bySession'[byId'[s]] = s /\ owner'[byId'[s]] = s
        <3>1. byId'[s] = byId[s] /\ bySession[k] # s /\ byId[s] \in Sessions
            BY <1>1, <1>4, <2>1 DEF MasterOK
        <3>2. bySession[byId[s]] = s /\ owner[byId[s]] = s
            BY <1>1, <2>1, <3>1 DEF OneRegistration
        <3> QED
            BY <1>1, <1>2, <3>1, <3>2 DEF MasterOK, NetOK
    <2>2. ASSUME NEW j \in Sessions, bySession'[j] # None
          PROVE  byId'[bySession'[j]] = j /\ j \notin newUp'
        <3>1. j # k /\ bySession'[j] = bySession[j] /\ bySession[j] \in Servers
            BY <1>1, <1>2, <2>2 DEF MasterOK
        <3>2. byId[bySession[j]] = j /\ j \notin newUp
            BY <1>1, <2>2, <3>1 DEF OneRegistration
        <3>3. bySession[k] # bySession[j]
            BY <1>1, <2>2, <3>1, <3>2 DEF OneRegistration
        <3> QED
            BY <1>2, <1>4, <3>1, <3>2, <3>3
    <2> QED
        BY <2>1, <2>2 DEF OneRegistration
<1>7. AddedOnce'
    <2>1. ASSUME NEW j \in Sessions
          PROVE  AddComesFirst(chan'[j]) /\ (bySession'[j] # None => NoAdd(chan'[j]))
        <3>1. CASE j = k
            BY <1>1, <1>2, <3>1 DEF NetOK, MasterOK, AddComesFirst
        <3>2. CASE j # k
            BY <1>1, <1>2, <3>2 DEF NetOK, MasterOK, AddedOnce
        <3> QED
            BY <3>1, <3>2
    <2>2. outbox' = outbox
        BY <1>2 DEF serverVars
    <2> QED
        BY <1>1, <2>1, <2>2 DEF AddedOnce
<1> QED
    BY <1>1, <1>2, <1>3, <1>5, <1>6, <1>7, Kept, PartsNext

-----------------------------------------------------------------------------
(* The steps of the servers' main threads and of the connections between     *)
(* them.                                                                     *)

\* A main thread takes a message and says something, or nothing.
LEMMA TalkInv ==
    ASSUME IInv, NEW s \in Servers, NEW kind, Takes(s, kind), NEW ms \in Seq(Messages), NoAdd(ms),
           Says(s, ms), UNCHANGED netVars, UNCHANGED masterVars, UNCHANGED dbVars, UNCHANGED bounds
    PROVE  IInv'
<1>1. NetOK /\ MasterOK /\ BoxOK /\ DbOK /\ BoundsOK /\ OneRegistration /\ AddedOnce
    BY Parts
<1>2. inbox[s] # <<>> /\ inbox' = [inbox EXCEPT ![s] = Tail(@)] /\ UNCHANGED <<chan, bySession>>
    BY DEF Takes, netVars, masterVars
<1>3. BoxOK' /\ AddedOnce'
    BY <1>1, <1>2, BoxesMove
<1>4. OneRegistration'
    BY <1>1, Kept DEF netVars, masterVars
<1> QED
    BY <1>1, <1>3, <1>4, Kept, PartsNext

LEMMA ListenInv ==
    ASSUME IInv, NEW s \in Servers, NEW kind, Takes(s, kind), UNCHANGED outbox,
           UNCHANGED netVars, UNCHANGED masterVars, DbOK', UNCHANGED bounds
    PROVE  IInv'
<1>1. NetOK /\ MasterOK /\ BoxOK /\ DbOK /\ BoundsOK /\ OneRegistration /\ AddedOnce
    BY Parts
<1>2. Tail(inbox[s]) \in Seq(Messages) /\ inbox' = [inbox EXCEPT ![s] = Tail(inbox[s])]
    BY <1>1, TakenFrom DEF Takes, BoxOK
<1>3. BoxOK'
    BY <1>1, <1>2 DEF BoxOK
<1>4. OneRegistration' /\ AddedOnce'
    BY <1>1, Kept DEF netVars, masterVars
<1> QED
    BY <1>1, <1>3, <1>4, Kept, PartsNext

\* The head of an inbox that names a server.
LEMMA ToldAboutAServer ==
    ASSUME BoxOK, NEW s \in Servers, NEW kind \in AboutKinds, Takes(s, kind)
    PROVE  Head(inbox[s]).peer \in Servers
<1>1. inbox[s] \in Seq(Messages) /\ inbox[s] # <<>> /\ Head(inbox[s]).kind = kind
    BY DEF Takes, BoxOK
<1>2. Head(inbox[s]) \in Messages
    BY <1>1, TakenFrom
<1> QED
    BY <1>1, <1>2, MessagesAre

LEMMA ServerConnectedInv ==
    ASSUME IInv, NEW s \in Servers, ServerConnected(s) PROVE IInv'
<1>1. <<Plain("start")>> \in Seq(Messages) /\ NoAdd(<<Plain("start")>>)
    BY MessagesAre, OneSentence DEF PlainKinds
<1>2. Takes(s, "connected") /\ Says(s, <<Plain("start")>>)
      /\ UNCHANGED netVars /\ UNCHANGED masterVars /\ UNCHANGED dbVars /\ UNCHANGED bounds
    BY DEF ServerConnected
<1> QED
    BY <1>1, <1>2, TalkInv

LEMMA ServerStartResInv ==
    ASSUME IInv, NEW s \in Servers, ServerStartRes(s) PROVE IInv'
<1> DEFINE two == <<Plain("register"), Plain("count")>>
<1> DEFINE one == <<Plain("register")>>
<1>1. one \in Seq(Messages) /\ NoAdd(one) /\ two \in Seq(Messages) /\ NoAdd(two)
    <2>1. /\ Plain("register") \in Messages /\ Plain("register").kind # "add"
          /\ Plain("count") \in Messages /\ Plain("count").kind # "add"
        BY MessagesAre DEF PlainKinds
    <2> QED
        BY <2>1, OneSentence DEF NoAdd
<1>2. /\ Takes(s, "startRes") /\ (Says(s, one) \/ Says(s, two))
      /\ UNCHANGED netVars /\ UNCHANGED masterVars /\ UNCHANGED dbVars /\ UNCHANGED bounds
    BY DEF ServerStartRes
<1> HIDE DEF one, two
<1> QED
    BY <1>1, <1>2, TalkInv

LEMMA MainCountsInv ==
    ASSUME IInv, NEW s \in Servers, MainCounts(s) PROVE IInv'
<1>1. NetOK /\ MasterOK /\ BoxOK /\ DbOK /\ BoundsOK /\ OneRegistration /\ AddedOnce
    BY Parts
<1> DEFINE ms == <<Plain("count")>>
<1>2. ms \in Seq(Messages) /\ NoAdd(ms)
    BY MessagesAre, OneSentence DEF PlainKinds
<1>3. /\ counts' = counts + 1 /\ counts < MaxCounts /\ Says(s, ms)
      /\ UNCHANGED netVars /\ UNCHANGED masterVars /\ inbox' = inbox /\ UNCHANGED dbVars
      /\ UNCHANGED <<losses, fails, dbLosses>>
    BY DEF MainCounts
<1> HIDE DEF ms
<1>4. outbox[s] \o ms \in Seq(Messages) /\ NoAdd(outbox[s] \o ms)
    BY <1>1, <1>2, OneBehindTheOther DEF BoxOK, AddedOnce
<1> DEFINE o == outbox[s] \o ms
<1>5. outbox' = [outbox EXCEPT ![s] = o] /\ o \in Seq(Messages) /\ NoAdd(o)
    BY <1>3, <1>4 DEF Says
<1> HIDE DEF o
<1>6. BoxOK' /\ \A t \in Servers : NoAdd(outbox'[t])
    BY <1>1, <1>3, <1>5 DEF BoxOK, AddedOnce
<1>7. AddedOnce'
    BY <1>1, <1>3, <1>6 DEF AddedOnce, netVars, masterVars
<1>8. BoundsOK' /\ OneRegistration'
    BY <1>1, <1>3, Kept DEF BoundsOK, netVars, masterVars
<1> QED
    BY <1>1, <1>3, <1>6, <1>7, <1>8, Kept, PartsNext

\* Login server l asks account server d, by way of the master.
LEMMA AsksInv ==
    ASSUME IInv, NEW s \in Servers, NEW kind \in AboutKinds, Takes(s, kind),
           NEW answer \in AboutKinds, Says(s, <<About(answer, Head(inbox[s]).peer)>>),
           UNCHANGED netVars, UNCHANGED masterVars, UNCHANGED dbVars, UNCHANGED bounds
    PROVE  IInv'
<1> DEFINE m == About(answer, Head(inbox[s]).peer)
<1>1. Head(inbox[s]).peer \in Servers
    BY Parts, ToldAboutAServer
<1>2. m \in Messages /\ m.kind # "add"
    BY <1>1, MessagesAre DEF AboutKinds
<1> HIDE DEF m
<1>3. <<m>> \in Seq(Messages) /\ NoAdd(<<m>>)
    BY <1>2, OneSentence
<1> DEFINE ms == <<m>>
<1>4. Says(s, ms) /\ ms \in Seq(Messages) /\ NoAdd(ms)
    BY <1>3 DEF m
<1> HIDE DEF ms
<1> QED
    BY <1>4, TalkInv

LEMMA LoginRegisterBroadcastInv ==
    ASSUME IInv, NEW l \in Logins, LoginRegisterBroadcast(l) PROVE IInv'
BY AsksInv DEF LoginRegisterBroadcast, AboutKinds, Servers

LEMMA AccountWillConnectReqInv ==
    ASSUME IInv, NEW d \in Accounts, AccountWillConnectReq(d) PROVE IInv'
BY AsksInv DEF AccountWillConnectReq, AboutKinds, Servers

LEMMA LoginCanConnectToInv ==
    ASSUME IInv, NEW l \in Logins, LoginCanConnectTo(l) PROVE IInv'
<1>1. /\ Takes(l, "can") /\ l \in Servers
      /\ UNCHANGED netVars /\ UNCHANGED masterVars /\ UNCHANGED dbVars /\ UNCHANGED bounds
      /\ Says(l, <<About("willReq", Head(inbox[l]).peer)>>) \/ outbox' = outbox
    BY DEF LoginCanConnectTo, Servers
<1>2. DbOK'
    BY <1>1, Parts, Kept
<1> QED
    BY <1>1, <1>2, AsksInv, ListenInv DEF AboutKinds

LEMMA LoginWillConnectFailsInv ==
    ASSUME IInv, NEW l \in Logins, LoginWillConnectFails(l) PROVE IInv'
<1>1. /\ Takes(l, "willFail") /\ l \in Servers /\ outbox' = outbox
      /\ UNCHANGED netVars /\ UNCHANGED masterVars /\ UNCHANGED dbVars /\ UNCHANGED bounds
    BY DEF LoginWillConnectFails, Servers
<1>2. DbOK'
    BY <1>1, Parts, Kept
<1> QED
    BY <1>1, <1>2, ListenInv

\* One count of a login server's connections to an account server changes.
LEMMA CountMoves ==
    ASSUME NEW f \in [Logins -> [Accounts -> Nat]], NEW l \in Logins, NEW d
    PROVE  /\ [f EXCEPT ![l][d] = @ + 1] \in [Logins -> [Accounts -> Nat]]
           /\ f[l][d] > 0 => [f EXCEPT ![l][d] = @ - 1] \in [Logins -> [Accounts -> Nat]]
<1>1. f[l] \in [Accounts -> Nat] /\ (d \in Accounts => f[l][d] \in Nat)
    OBVIOUS
<1>2. ASSUME NEW g \in [Accounts -> Nat], NEW n, d \in Accounts => n \in Nat
      PROVE  [g EXCEPT ![d] = n] \in [Accounts -> Nat]
    BY <1>2
<1>3. [f[l] EXCEPT ![d] = f[l][d] + 1] \in [Accounts -> Nat]
    BY <1>1, <1>2
<1>4. f[l][d] > 0 => [f[l] EXCEPT ![d] = f[l][d] - 1] \in [Accounts -> Nat]
    <2>1. f[l][d] > 0 /\ d \in Accounts => f[l][d] - 1 \in Nat
        BY <1>1
    <2> QED
        BY <1>1, <1>2, <2>1
<1> QED
    BY <1>3, <1>4

LEMMA LoginWillConnectResInv ==
    ASSUME IInv, NEW l \in Logins, LoginWillConnectRes(l) PROVE IInv'
<1>1. /\ Takes(l, "willRes") /\ l \in Servers /\ works' = Wanted(l, Head(inbox[l]).peer)
      /\ UNCHANGED netVars /\ UNCHANGED masterVars /\ outbox' = outbox
      /\ UNCHANGED <<opened, linked>> /\ UNCHANGED bounds
    BY DEF LoginWillConnectRes, Servers
<1>2. DbOK
    BY Parts
<1>3. DbOK'
    BY <1>1, <1>2, CountMoves DEF DbOK, Wanted
<1> QED
    BY <1>1, <1>3, ListenInv

\* The steps of the connections leave everything else alone.
LEMMA LinkedInv ==
    ASSUME IInv, DbOK', BoundsOK', UNCHANGED netVars, UNCHANGED masterVars, UNCHANGED serverVars
    PROVE  IInv'
<1>1. NetOK /\ MasterOK /\ BoxOK /\ DbOK /\ BoundsOK /\ OneRegistration /\ AddedOnce
    BY Parts
<1>2. OneRegistration' /\ AddedOnce'
    BY <1>1, Kept DEF netVars, masterVars, serverVars
<1> QED
    BY <1>1, <1>2, Kept, PartsNext

LEMMA ConnectionsInv ==
    ASSUME IInv, NEW l \in Logins, NEW d \in Accounts,
           ConnectWork(l, d) \/ ConnectWorkFails(l, d) \/ LoginAddServer(l, d) \/ LoginRemoveServer(l, d)
    PROVE  IInv'
<1>1. DbOK /\ BoundsOK
    BY Parts
<1>2. UNCHANGED netVars /\ UNCHANGED masterVars /\ UNCHANGED serverVars
    BY DEF ConnectWork, ConnectWorkFails, LoginAddServer, LoginRemoveServer
<1>3. CASE ConnectWork(l, d)
    <2>1. DbOK'
        BY <1>1, <1>3, CountMoves DEF ConnectWork, DbOK
    <2>2. BoundsOK'
        BY <1>1, <1>3, Kept DEF ConnectWork
    <2> QED
        BY <1>2, <2>1, <2>2, LinkedInv
<1>4. CASE ConnectWorkFails(l, d)
    <2>1. DbOK'
        BY <1>1, <1>4, CountMoves DEF ConnectWorkFails, DbOK
    <2>2. BoundsOK'
        BY <1>1, <1>4 DEF ConnectWorkFails, BoundsOK
    <2> QED
        BY <1>2, <2>1, <2>2, LinkedInv
<1>5. CASE LoginAddServer(l, d)
    <2>1. DbOK'
        BY <1>1, <1>5, CountMoves DEF LoginAddServer, DbOK
    <2>2. BoundsOK'
        BY <1>1, <1>5, Kept DEF LoginAddServer
    <2> QED
        BY <1>2, <2>1, <2>2, LinkedInv
<1>6. CASE LoginRemoveServer(l, d)
    <2>1. DbOK'
        BY <1>1, <1>6 DEF LoginRemoveServer, DbOK
    <2>2. BoundsOK'
        BY <1>1, <1>6 DEF LoginRemoveServer, BoundsOK
    <2> QED
        BY <1>2, <2>1, <2>2, LinkedInv
<1> QED
    BY <1>3, <1>4, <1>5, <1>6

-----------------------------------------------------------------------------
(* The invariant holds in every state.                                       *)
THEOREM Invariance == Spec => []IInv
<1>1. IInv /\ [Next]_vars => IInv'
    <2> SUFFICES ASSUME IInv, [Next]_vars PROVE IInv'
        OBVIOUS
    <2>1. CASE UNCHANGED vars
        <3>1. /\ UNCHANGED netVars /\ UNCHANGED masterVars /\ UNCHANGED serverVars
              /\ UNCHANGED dbVars /\ UNCHANGED bounds
            BY <2>1 DEF vars
        <3>2. DbOK' /\ BoundsOK'
            BY <3>1, Parts, Kept
        <3> QED
            BY <3>1, <3>2, LinkedInv
    <2>2. ASSUME NEW k \in Sessions, MasterThread(k) PROVE IInv'
        BY <2>2, MasterAddSessionInv, MasterStartReqInv, MasterRegisterInv, MasterWillConnectReqInv,
           MasterWillConnectResInv, MasterServeCountInv, MasterRemoveSessionInv, Zenon
           DEF MasterThread
    <2>3. ASSUME NEW l \in Logins, LoginThread(l) PROVE IInv'
        <3>1. l \in Servers
            BY DEF Servers
        <3> QED
            BY <2>3, <3>1, ServerConnectedInv, ServerStartResInv, LoginRegisterBroadcastInv,
               LoginCanConnectToInv, LoginWillConnectResInv, LoginWillConnectFailsInv, Zenon
               DEF LoginThread
    <2>4. ASSUME NEW d \in Accounts, AccountThread(d) PROVE IInv'
        <3>1. d \in Servers
            BY DEF Servers
        <3> QED
            BY <2>4, <3>1, ServerConnectedInv, ServerStartResInv, AccountWillConnectReqInv, Zenon
               DEF AccountThread
    <2>5. ASSUME NEW s \in Servers, NetThread(s) \/ LinkLost(s) \/ MainCounts(s) PROVE IInv'
        BY <2>5, SendStep, KickOutInv, LinkUpInv, LinkLostInv, MainCountsInv, Zenon DEF NetThread
    <2> QED
        BY <2>1, <2>2, <2>3, <2>4, <2>5, ConnectionsInv, Zenon DEF Next
<1> QED
    BY InitInv, <1>1, PTL DEF Spec

(* The variables keep their types: a packet that names a server names one,   *)
(* and one that is about its own sender names none.                          *)
THEOREM TypeCorrect == Spec => []TypeOK
<1>1. IInv => TypeOK
    BY DEF IInv
<1> QED
    BY Invariance, <1>1, PTL

(* Whatever connections are lost, kicked and made again, and in whatever     *)
(* order the master hears of them: a server is registered under one session, *)
(* which is its own, and that session is found under this server alone.      *)
THEOREM RegisteredOnce == Spec => []OneRegistration
<1>1. IInv => OneRegistration
    BY DEF IInv
<1> QED
    BY Invariance, <1>1, PTL

-----------------------------------------------------------------------------
(* Nobody is forgotten.  The strengthening says what the message of a server *)
(* that stands registered can rely on: its session is its own, and the       *)
(* master is not about to be told that the session has ended, with which     *)
(* whatever waits behind would be dropped.                                   *)

\* The messages of a queue.
Held(q) == {q[i] : i \in DOMAIN q}
NoRemoval(q) == \A m \in Held(q) : m.kind # "remove"

LinkOwned ==
    /\ \A s \in Servers : link[s] # None => owner[link[s]] = s /\ NoRemoval(chan[link[s]])
    /\ \A s \in Servers : NoRemoval(outbox[s])

LEMMA HeldAppend ==
    ASSUME NEW q \in Seq(Messages), NEW m \in Messages
    PROVE  Held(Append(q, m)) = Held(q) \cup {m}
<1> DEFINE a == Append(q, m)
<1>1. /\ Len(q) \in Nat /\ DOMAIN q = 1 .. Len(q) /\ DOMAIN a = 1 .. Len(q) + 1
      /\ a[Len(q) + 1] = m /\ \A i \in 1 .. Len(q) : a[i] = q[i]
    OBVIOUS
<1> HIDE DEF a
<1>2. \A i \in DOMAIN a : (i \in DOMAIN q /\ a[i] = q[i]) \/ a[i] = m
    BY <1>1
<1>3. \A i \in DOMAIN q : i \in DOMAIN a /\ a[i] = q[i]
    BY <1>1
<1>4. \E i \in DOMAIN a : a[i] = m
    BY <1>1
<1>5. Held(a) = Held(q) \cup {m}
    BY <1>2, <1>3, <1>4 DEF Held
<1> QED
    BY <1>5 DEF a

LEMMA HeldTail ==
    ASSUME NEW q \in Seq(Messages), q # <<>>
    PROVE  Held(q) = Held(Tail(q)) \cup {Head(q)}
<1> DEFINE t == Tail(q)
<1>1. /\ Len(q) \in Nat \ {0} /\ DOMAIN q = 1 .. Len(q) /\ DOMAIN t = 1 .. Len(q) - 1
      /\ Head(q) = q[1] /\ \A i \in 1 .. Len(q) - 1 : t[i] = q[i + 1]
    OBVIOUS
<1> HIDE DEF t
<1>2. \A i \in DOMAIN t : i + 1 \in DOMAIN q /\ t[i] = q[i + 1]
    BY <1>1
<1>3. \A i \in DOMAIN q : i = 1 \/ (i - 1 \in DOMAIN t /\ t[i - 1] = q[i])
    BY <1>1
<1>4. 1 \in DOMAIN q /\ q[1] = Head(q)
    BY <1>1
<1>5. Held(t) \subseteq Held(q)
    BY <1>2 DEF Held
<1>6. Held(q) \subseteq Held(t) \cup {Head(q)}
    BY <1>3, <1>4 DEF Held
<1>7. Head(q) \in Held(q)
    BY <1>4 DEF Held
<1> QED
    BY <1>5, <1>6, <1>7 DEF t

LEMMA HeldConcat ==
    ASSUME NEW q \in Seq(Messages), NEW r \in Seq(Messages)
    PROVE  Held(q \o r) = Held(q) \cup Held(r)
<1> DEFINE t == q \o r
<1>1. /\ Len(q) \in Nat /\ Len(r) \in Nat
      /\ DOMAIN q = 1 .. Len(q) /\ DOMAIN r = 1 .. Len(r) /\ DOMAIN t = 1 .. Len(q) + Len(r)
      /\ \A i \in 1 .. Len(q) : t[i] = q[i]
      /\ \A i \in Len(q) + 1 .. Len(q) + Len(r) : t[i] = r[i - Len(q)]
    OBVIOUS
<1> HIDE DEF t
<1> DEFINE n == Len(q)
<1>2. \A i \in DOMAIN t : (i \in DOMAIN q /\ t[i] = q[i]) \/ (i - n \in DOMAIN r /\ t[i] = r[i - n])
    BY <1>1
<1>3. \A i \in DOMAIN q : i \in DOMAIN t /\ t[i] = q[i]
    BY <1>1
<1>4. \A i \in DOMAIN r : i + n \in DOMAIN t /\ t[i + n] = r[i]
    <2>1. \A i \in DOMAIN r : i + n \in Len(q) + 1 .. Len(q) + Len(r) /\ (i + n) - n = i
        BY <1>1
    <2> QED
        BY <1>1, <2>1
<1> HIDE DEF n
<1>5. Held(t) = Held(q) \cup Held(r)
    BY <1>2, <1>3, <1>4 DEF Held
<1> QED
    BY <1>5 DEF t

LEMMA HeldFirstPart ==
    ASSUME NEW q \in Seq(Messages), NEW n \in 0 .. Len(q)
    PROVE  Held(SubSeq(q, 1, n)) \subseteq Held(q)
<1> DEFINE t == SubSeq(q, 1, n)
<1>1. \A i \in DOMAIN t : i \in DOMAIN q /\ t[i] = q[i]
    OBVIOUS
<1> HIDE DEF t
<1> QED
    BY <1>1 DEF Held, t

LEMMA HeldOne == \A m : Held(<<m>>) = {m} /\ Held(<<>>) = {}
BY DEF Held

LEMMA WithinIs == \A q, m : Within(q, m) <=> m \in Held(q)
BY DEF Within, Held

\* What waits in a session, after the master was given the head of one.
LEMMA GivenLeaves ==
    ASSUME NetOK, NEW k \in Sessions, NEW kind, Given(k, kind)
    PROVE  /\ \A j \in Sessions \ {k} : chan'[j] = chan[j]
           /\ Held(chan[k]) = Held(chan'[k]) \cup {Head(chan[k])}
           /\ Head(chan[k]) \in Messages /\ Head(chan[k]).kind = kind
<1>1. /\ chan[k] \in Seq(Messages) /\ chan[k] # <<>> /\ Head(chan[k]).kind = kind
      /\ chan' = [chan EXCEPT ![k] = Tail(chan[k])]
    BY DEF NetOK, Given
<1>2. chan'[k] = Tail(chan[k]) /\ \A j \in Sessions \ {k} : chan'[j] = chan[j]
    BY <1>1 DEF NetOK
<1> QED
    BY <1>1, <1>2, HeldTail, TakenFrom

\* What a server has said and what it has heard, after it has taken something and said ms.
LEMMA TakesLeaves ==
    ASSUME BoxOK, NEW s \in Servers, NEW kind, Takes(s, kind)
    PROVE  /\ \A t \in Servers \ {s} : inbox'[t] = inbox[t]
           /\ Held(inbox[s]) = Held(inbox'[s]) \cup {Head(inbox[s])}
           /\ Head(inbox[s]) \in Messages /\ Head(inbox[s]).kind = kind
<1>1. /\ inbox[s] \in Seq(Messages) /\ inbox[s] # <<>> /\ Head(inbox[s]).kind = kind
      /\ inbox' = [inbox EXCEPT ![s] = Tail(inbox[s])]
    BY DEF BoxOK, Takes
<1>2. inbox'[s] = Tail(inbox[s]) /\ \A t \in Servers \ {s} : inbox'[t] = inbox[t]
    BY <1>1 DEF BoxOK
<1> QED
    BY <1>1, <1>2, HeldTail, TakenFrom

LEMMA SaysAdds ==
    ASSUME BoxOK, NEW s \in Servers, NEW ms \in Seq(Messages), Says(s, ms)
    PROVE  /\ \A t \in Servers \ {s} : outbox'[t] = outbox[t]
           /\ Held(outbox'[s]) = Held(outbox[s]) \cup Held(ms)
<1>1. outbox[s] \in Seq(Messages) /\ outbox' = [outbox EXCEPT ![s] = outbox[s] \o ms]
    BY DEF BoxOK, Says
<1>2. outbox'[s] = outbox[s] \o ms /\ \A t \in Servers \ {s} : outbox'[t] = outbox[t]
    BY <1>1 DEF BoxOK
<1> QED
    BY <1>1, <1>2, HeldConcat

\* Sessions that stay with their servers stay owned, when nothing tells of their end.
LEMMA StaysOwned ==
    ASSUME NetOK, LinkOwned, UNCHANGED <<owner, link>>,
           \A j \in Sessions : NoRemoval(chan[j]) => NoRemoval(chan'[j]),
           \A s \in Servers : NoRemoval(outbox'[s])
    PROVE  LinkOwned'
<1>1. ASSUME NEW s \in Servers, link'[s] # None
      PROVE  owner'[link'[s]] = s /\ NoRemoval(chan'[link'[s]])
    <2>1. link'[s] = link[s] /\ link[s] \in Sessions /\ owner[link[s]] = s /\ NoRemoval(chan[link[s]])
        BY <1>1 DEF NetOK, LinkOwned
    <2> QED
        BY <2>1
<1> QED
    BY <1>1 DEF LinkOwned

LEMMA LinkUpOwned ==
    ASSUME IInv, LinkOwned, NEW s \in Servers, NEW k \in Sessions, LinkUp(s, k) PROVE LinkOwned'
<1> DEFINE q == <<Plain("add")>>
<1>1. /\ owner[k] = None /\ owner' = [owner EXCEPT ![k] = s] /\ link' = [link EXCEPT ![s] = k]
      /\ chan' = [chan EXCEPT ![k] = q] /\ outbox' = outbox
    BY DEF LinkUp
<1>2. NoRemoval(q)
    <2>1. Held(q) = {Plain("add")}
        BY HeldOne
    <2> HIDE DEF q
    <2> QED
        BY <2>1, MessagesAre DEF NoRemoval, PlainKinds
<1> HIDE DEF q
<1>3. NetOK /\ s # None
    BY Parts DEF Servers
<1>4. ASSUME NEW t \in Servers, link'[t] # None
      PROVE  owner'[link'[t]] = t /\ NoRemoval(chan'[link'[t]])
    <2>1. CASE t = s
        BY <1>1, <1>2, <1>3, <2>1 DEF NetOK
    <2>2. CASE t # s
        <3>1. link'[t] = link[t] /\ link[t] \in Sessions /\ owner[link[t]] = t /\ NoRemoval(chan[link[t]])
            BY <1>1, <1>3, <1>4, <2>2 DEF NetOK, LinkOwned
        <3>2. link[t] # k
            BY <1>1, <3>1
        <3> QED
            BY <1>1, <1>3, <3>1, <3>2 DEF NetOK
    <2> QED
        BY <2>1, <2>2
<1> QED
    BY <1>1, <1>4 DEF LinkOwned

\* A server whose connection ends leaves the others theirs.
LEMMA EndsOwned ==
    ASSUME NetOK, LinkOwned, NEW s \in Servers, link[s] # None, link' = [link EXCEPT ![s] = None],
           NEW q, chan' = [chan EXCEPT ![link[s]] = q], UNCHANGED <<owner, outbox>>
    PROVE  LinkOwned'
<1>1. ASSUME NEW t \in Servers, link'[t] # None
      PROVE  owner'[link'[t]] = t /\ NoRemoval(chan'[link'[t]])
    <2>1. t # s
        BY <1>1 DEF NetOK
    <2>2. link'[t] = link[t] /\ link[t] \in Sessions /\ owner[link[t]] = t /\ NoRemoval(chan[link[t]])
        BY <1>1, <2>1 DEF NetOK, LinkOwned
    <2>3. link[t] # link[s]
        BY <2>1, <2>2 DEF LinkOwned
    <2> QED
        BY <2>2, <2>3 DEF NetOK
<1> QED
    BY <1>1 DEF LinkOwned

LEMMA CutOwned ==
    ASSUME IInv, LinkOwned, NEW s \in Servers, LinkLost(s) \/ KickOut(s) PROVE LinkOwned'
<1>1. NetOK
    BY Parts
<1>2. link[s] # None /\ link' = [link EXCEPT ![s] = None] /\ UNCHANGED <<owner, outbox>>
    BY DEF LinkLost, Cut, KickOut, serverVars
<1>3. CASE LinkLost(s)
    <2>1. PICK n \in 0 .. Len(chan[link[s]]) :
            chan' = [chan EXCEPT ![link[s]] = Append(SubSeq(@, 1, n), Plain("remove"))]
        BY <1>3, Zenon DEF LinkLost, Cut
    <2>2. chan' = [chan EXCEPT ![link[s]] = Append(SubSeq(chan[link[s]], 1, n), Plain("remove"))]
        BY <2>1
    <2> QED
        BY <1>1, <1>2, <2>2, EndsOwned
<1>4. CASE KickOut(s)
    <2>1. chan' = [chan EXCEPT ![link[s]] = Append(chan[link[s]], Plain("remove"))]
        BY <1>4 DEF KickOut
    <2> QED
        BY <1>1, <1>2, <2>1, EndsOwned
<1> QED
    BY <1>3, <1>4

LEMMA SendOwned ==
    ASSUME IInv, LinkOwned, NEW s \in Servers, Send(s) PROVE LinkOwned'
<1>1. NetOK /\ BoxOK
    BY Parts
<1> DEFINE m == Head(outbox[s])
<1> DEFINE t == Tail(outbox[s])
<1>2. /\ link[s] \in Sessions /\ outbox[s] # <<>> /\ outbox' = [outbox EXCEPT ![s] = t]
      /\ UNCHANGED <<owner, link>> /\ (chan' = chan \/ chan' = [chan EXCEPT ![link[s]] = Append(@, m)])
    BY <1>1 DEF Send, NetOK
<1>3. m \in Messages /\ Held(outbox[s]) = Held(t) \cup {m}
    BY <1>1, <1>2, HeldTail, TakenFrom DEF BoxOK
<1> HIDE DEF m, t
<1>4. m.kind # "remove" /\ NoRemoval(t)
    BY <1>3 DEF LinkOwned, NoRemoval
<1>5. \A r \in Servers : NoRemoval(outbox'[r])
    BY <1>1, <1>2, <1>4 DEF BoxOK, LinkOwned
<1>6. Held(Append(chan[link[s]], m)) = Held(chan[link[s]]) \cup {m}
    BY <1>1, <1>2, <1>3, HeldAppend DEF NetOK
<1>7. ASSUME NEW j \in Sessions, NoRemoval(chan[j]) PROVE NoRemoval(chan'[j])
    <2>1. CASE chan'[j] = chan[j]
        BY <1>7, <2>1
    <2>2. CASE chan'[j] # chan[j]
        <3>1. j = link[s] /\ chan'[j] = Append(chan[j], m)
            BY <1>1, <1>2, <2>2 DEF NetOK
        <3> QED
            BY <1>4, <1>6, <1>7, <3>1 DEF NoRemoval
    <2> QED
        BY <2>1, <2>2
<1> QED
    BY <1>1, <1>2, <1>5, <1>7, StaysOwned

LEMMA GivenOwned ==
    ASSUME IInv, LinkOwned, NEW k \in Sessions, NEW kind, Given(k, kind),
           UNCHANGED <<owner, link, outbox>>
    PROVE  LinkOwned'
<1>1. NetOK
    BY Parts
<1>2. ASSUME NEW j \in Sessions, NoRemoval(chan[j]) PROVE NoRemoval(chan'[j])
    BY <1>1, <1>2, GivenLeaves DEF NoRemoval
<1> QED
    BY <1>1, <1>2, StaysOwned DEF LinkOwned

LEMMA RemoveOwned ==
    ASSUME IInv, LinkOwned, NEW k \in Sessions, MasterRemoveSession(k)
    PROVE  LinkOwned' /\ \A s \in Servers : link[s] # k
<1>1. NetOK
    BY Parts
<1>2. /\ chan' = [chan EXCEPT ![k] = <<>>] /\ owner' = [owner EXCEPT ![k] = None]
      /\ link' = link /\ outbox' = outbox
      /\ chan[k] # <<>> /\ Head(chan[k]).kind = "remove"
    BY DEF MasterRemoveSession, serverVars
<1>3. chan[k] \in Seq(Messages)
    BY <1>1 DEF NetOK
<1>4. ~NoRemoval(chan[k])
    BY <1>2, <1>3, HeldTail DEF NoRemoval
<1>5. \A s \in Servers : link[s] # k
    <2>1. k # None
        OBVIOUS
    <2> QED
        BY <1>4, <2>1 DEF LinkOwned
<1>6. ASSUME NEW s \in Servers, link'[s] # None
      PROVE  owner'[link'[s]] = s /\ NoRemoval(chan'[link'[s]])
    <2>1. link'[s] = link[s] /\ link[s] \in Sessions /\ owner[link[s]] = s /\ NoRemoval(chan[link[s]])
        BY <1>1, <1>2, <1>6 DEF NetOK, LinkOwned
    <2> QED
        BY <1>1, <1>2, <1>5, <2>1 DEF NetOK
<1> QED
    BY <1>2, <1>5, <1>6 DEF LinkOwned

\* A main thread says something that does not tell of an end.
LEMMA SaysOwned ==
    ASSUME IInv, LinkOwned, NEW s \in Servers, NEW ms \in Seq(Messages), Says(s, ms), NoRemoval(ms),
           UNCHANGED netVars
    PROVE  LinkOwned'
<1>1. NetOK /\ BoxOK
    BY Parts
<1>2. \A t \in Servers : NoRemoval(outbox'[t])
    BY <1>1, SaysAdds DEF NoRemoval, LinkOwned
<1> QED
    BY <1>1, <1>2, StaysOwned DEF netVars

\* Where the connection of login server l to account server d can be: it is made or being made,
\* l was told of d, asks for it, has asked, d was asked, answers, has answered.
Made(l, d) == d \in linked[l] \/ works[l][d] > 0 \/ opened[l][d] > 0
Told(l, d) == \E kind \in {"broadcast", "can", "willRes"} : About(kind, d) \in Held(inbox[l])
Asks(l, d) == About("willReq", d) \in Held(outbox[l])
HasAsked(l, d) == About("willReq", d) \in Held(chan[link[l]])
IsAsked(l, d) == About("willReq", l) \in Held(inbox[d])
Answers(l, d) == About("willRes", l) \in Held(outbox[d])
HasAnswered(l, d) == About("willRes", l) \in Held(chan[link[d]])

Ways(l, d) ==
    \/ Made(l, d) \/ Told(l, d) \/ Asks(l, d) \/ HasAsked(l, d) \/ IsAsked(l, d)
    \/ Answers(l, d) \/ HasAnswered(l, d)

LEMMA UnderwayIs ==
    /\ \A l \in Logins, d \in Accounts : Underway(l, d) <=> Ways(l, d)
    /\ \A l \in Logins, d \in Accounts : Underway(l, d)' <=> Ways(l, d)'
<1>1. ASSUME NEW l \in Logins, NEW d \in Accounts PROVE Underway(l, d) <=> Ways(l, d)
    BY WithinIs, Zenon DEF Underway, Ways, Made, Told, Asks, HasAsked, IsAsked, Answers, HasAnswered
<1>2. ASSUME NEW l \in Logins, NEW d \in Accounts PROVE Underway(l, d)' <=> Ways(l, d)'
    BY WithinIs, Zenon DEF Underway, Ways, Made, Told, Asks, HasAsked, IsAsked, Answers, HasAnswered
<1> QED
    BY <1>1, <1>2

\* The messages that lead to a connection, and queues that keep theirs.
Leading == {"broadcast", "can", "willReq", "willRes"}
Keeps(q, r) == \A m \in Held(q) : m.kind \in Leading => m \in Held(r)

LEMMA LeadingAre ==
    /\ \A kind \in Leading, s \in Servers : About(kind, s).kind = kind /\ About(kind, s) \in Messages
    /\ \A l \in Logins, d \in Accounts : l \in Servers /\ d \in Servers
    /\ {"broadcast", "can", "willRes"} \subseteq Leading /\ "willReq" \in Leading /\ "willRes" \in Leading
BY MessagesAre DEF Leading, Servers, AboutKinds

\* A step that takes none of these messages away leaves the connection on its way.
LEMMA Undisturbed ==
    ASSUME NEW l \in Logins, NEW d \in Accounts, Ways(l, d), UNCHANGED dbVars,
           link'[l] = link[l], link'[d] = link[d],
           \A s \in {l, d} : Keeps(inbox[s], inbox'[s]) /\ Keeps(outbox[s], outbox'[s])
                             /\ Keeps(chan[link[s]], chan'[link[s]])
    PROVE  Ways(l, d)'
<1>1. Made(l, d) => Made(l, d)'
    BY DEF Made, dbVars
<1>2. Told(l, d) => Told(l, d)'
    BY LeadingAre DEF Told, Keeps
<1>3. Asks(l, d) => Asks(l, d)'
    BY LeadingAre DEF Asks, Keeps
<1>4. HasAsked(l, d) => HasAsked(l, d)'
    BY LeadingAre DEF HasAsked, Keeps
<1>5. IsAsked(l, d) => IsAsked(l, d)'
    BY LeadingAre DEF IsAsked, Keeps
<1>6. Answers(l, d) => Answers(l, d)'
    BY LeadingAre DEF Answers, Keeps
<1>7. HasAnswered(l, d) => HasAnswered(l, d)'
    BY LeadingAre DEF HasAnswered, Keeps
<1> QED
    BY <1>1, <1>2, <1>3, <1>4, <1>5, <1>6, <1>7 DEF Ways

LEMMA KeepsAll ==
    /\ \A q : Keeps(q, q)
    /\ \A q, r : Held(q) \subseteq Held(r) => Keeps(q, r)
    /\ \A q, r, m : Held(q) = Held(r) \cup {m} /\ m.kind \notin Leading => Keeps(q, r)
BY DEF Keeps

\* What a registered server relies on.
LEMMA StandsIs ==
    ASSUME IInv, LinkOwned, NEW s \in Servers, Stands(s)
    PROVE  /\ link[s] \in Sessions /\ owner[link[s]] = s /\ byId[s] = link[s] /\ byId[s] # None
           /\ Reaches(byId[s]) /\ link[s] \notin kicked
           /\ \A t \in Servers \ {s} : link[t] # link[s]
<1>1. NetOK
    BY Parts
<1>2. link[s] \in Sessions /\ owner[link[s]] = s /\ byId[s] = link[s] /\ link[s] \notin kicked
    BY <1>1 DEF NetOK, LinkOwned, Stands
<1> QED
    BY <1>2 DEF LinkOwned, Reaches

-----------------------------------------------------------------------------
(* The steps of the network leave a connection on its way.                   *)

LEMMA LinkUpCarries ==
    ASSUME IInv, LinkOwned, NEW l \in Logins, NEW d \in Accounts, Stands(l), Stands(d), Ways(l, d),
           NEW s \in Servers, NEW k \in Sessions, LinkUp(s, k)
    PROVE  Ways(l, d)'
<1>1. NetOK /\ BoxOK
    BY Parts
<1>2. /\ link[s] = None /\ owner[k] = None /\ link' = [link EXCEPT ![s] = k]
      /\ chan' = [chan EXCEPT ![k] = <<Plain("add")>>]
      /\ inbox' = [inbox EXCEPT ![s] = Append(@, Plain("connected"))]
      /\ outbox' = outbox /\ UNCHANGED dbVars
    BY DEF LinkUp
<1>3. ASSUME NEW t \in {l, d}
      PROVE  /\ link'[t] = link[t] /\ inbox'[t] = inbox[t] /\ chan'[link[t]] = chan[link[t]]
    <2>1. t \in Servers /\ Stands(t)
        BY LeadingAre
    <2>2. t # None /\ link[t] \in Sessions /\ owner[link[t]] = t
        BY <2>1, StandsIs
    <2>3. t # s /\ link[t] # k
        BY <1>2, <2>2
    <2> QED
        BY <1>1, <1>2, <2>1, <2>2, <2>3 DEF NetOK, BoxOK
<1> QED
    BY <1>2, <1>3, Undisturbed, KeepsAll

LEMMA CutCarries ==
    ASSUME IInv, LinkOwned, NEW l \in Logins, NEW d \in Accounts, Stands(l), Stands(d), Ways(l, d),
           NEW s \in Servers, LinkLost(s) \/ KickOut(s), Stands(l)', Stands(d)'
    PROVE  Ways(l, d)'
<1>1. NetOK /\ BoxOK
    BY Parts
<1>2. /\ link' = [link EXCEPT ![s] = None] /\ outbox' = outbox /\ UNCHANGED dbVars
      /\ \A j \in Sessions : j # link[s] => chan'[j] = chan[j]
      /\ \A t \in Servers : t # s => inbox'[t] = inbox[t]
    <2>1. CASE LinkLost(s)
        BY <1>1, <2>1 DEF LinkLost, Cut, NetOK, BoxOK
    <2>2. CASE KickOut(s)
        BY <1>1, <2>2 DEF KickOut, serverVars, NetOK, BoxOK
    <2> QED
        BY <2>1, <2>2
<1>3. ASSUME NEW t \in {l, d}
      PROVE  /\ link'[t] = link[t] /\ inbox'[t] = inbox[t] /\ chan'[link[t]] = chan[link[t]]
    <2>1. t \in Servers /\ Stands(t) /\ Stands(t)'
        BY LeadingAre
    <2>2. t # s
        BY <1>1, <1>2, <2>1 DEF NetOK, Stands
    <2>3. link[t] \in Sessions /\ link[t] # link[s]
        BY <2>1, <2>2, StandsIs
    <2> QED
        BY <1>1, <1>2, <2>1, <2>2, <2>3 DEF NetOK
<1> QED
    BY <1>2, <1>3, Undisturbed, KeepsAll

LEMMA SendCarries ==
    ASSUME IInv, LinkOwned, NEW l \in Logins, NEW d \in Accounts, Stands(l), Stands(d), Ways(l, d),
           NEW s \in Servers, Send(s)
    PROVE  Ways(l, d)'
<1>1. NetOK /\ BoxOK
    BY Parts
<1> DEFINE m == Head(outbox[s])
<1>2. /\ link[s] \in Sessions /\ outbox[s] # <<>> /\ outbox' = [outbox EXCEPT ![s] = Tail(outbox[s])]
      /\ UNCHANGED <<link, inbox>> /\ UNCHANGED dbVars
      /\ chan' = IF link[s] \in kicked THEN chan ELSE [chan EXCEPT ![link[s]] = Append(@, m)]
    BY <1>1 DEF Send, NetOK
<1>3. m \in Messages /\ Held(outbox[s]) = Held(outbox'[s]) \cup {m}
    BY <1>1, <1>2, HeldTail, TakenFrom DEF BoxOK
<1> HIDE DEF m
<1>4. \A t \in Servers : t # s => outbox'[t] = outbox[t]
    BY <1>1, <1>2 DEF BoxOK
<1>5. link[s] \notin kicked => Held(chan'[link[s]]) = Held(chan[link[s]]) \cup {m}
    BY <1>1, <1>2, <1>3, HeldAppend DEF NetOK
<1>6. \A j \in Sessions : Held(chan[j]) \subseteq Held(chan'[j])
    <2>1. ASSUME NEW j \in Sessions PROVE Held(chan[j]) \subseteq Held(chan'[j])
        <3>1. CASE link[s] \notin kicked /\ j = link[s]
            BY <1>5, <3>1
        <3>2. CASE ~(link[s] \notin kicked /\ j = link[s])
            BY <1>1, <1>2, <3>2 DEF NetOK
        <3> QED
            BY <3>1, <3>2
    <2> QED
        BY <2>1
<1>7. /\ l \in Servers /\ link[l] \in Sessions /\ link[l] \notin kicked
      /\ d \in Servers /\ link[d] \in Sessions /\ link[d] \notin kicked
    BY LeadingAre, StandsIs
<1>8. Asks(l, d) => Asks(l, d)' \/ HasAsked(l, d)'
    BY <1>2, <1>3, <1>4, <1>5, <1>7 DEF Asks, HasAsked
<1>9. Answers(l, d) => Answers(l, d)' \/ HasAnswered(l, d)'
    BY <1>2, <1>3, <1>4, <1>5, <1>7 DEF Answers, HasAnswered
<1>10. /\ Made(l, d) => Made(l, d)'
       /\ Told(l, d) => Told(l, d)'
       /\ IsAsked(l, d) => IsAsked(l, d)'
    BY <1>2 DEF Made, Told, IsAsked, dbVars
<1>11. /\ HasAsked(l, d) => HasAsked(l, d)'
       /\ HasAnswered(l, d) => HasAnswered(l, d)'
    BY <1>2, <1>6, <1>7 DEF HasAsked, HasAnswered
<1> QED
    BY <1>8, <1>9, <1>10, <1>11 DEF Ways

-----------------------------------------------------------------------------
(* The steps of the master server leave a connection on its way, and set it   *)
(* on its way when the second of the two servers registers.                   *)

LEMMA SentGrows ==
    ASSUME NetOK, NEW k \in Sessions, owner[k] # None, NEW box \in [Servers -> Seq(Messages)],
           NEW m \in Messages
    PROVE  /\ \A s \in Servers : Held(box[s]) \subseteq Held(Sent(k, box, m)[s])
           /\ Reaches(k) => m \in Held(Sent(k, box, m)[owner[k]])
<1> DEFINE a == Append(box[owner[k]], m)
<1>1. owner[k] \in Servers /\ Held(a) = Held(box[owner[k]]) \cup {m}
    BY HeldAppend DEF NetOK
<1>2. Sent(k, box, m) = IF Reaches(k) THEN [box EXCEPT ![owner[k]] = a] ELSE box
    BY DEF Sent
<1> HIDE DEF a
<1> QED
    BY <1>1, <1>2

\* A packet that leads nowhere is taken by the master, who tells somebody something, or nobody.
LEMMA GivenCarries ==
    ASSUME IInv, LinkOwned, NEW l \in Logins, NEW d \in Accounts, Stands(l), Stands(d), Ways(l, d),
           NEW k \in Sessions, NEW kind, Given(k, kind), kind \notin Leading,
           UNCHANGED <<link, outbox>>, UNCHANGED dbVars,
           \A s \in Servers : Held(inbox[s]) \subseteq Held(inbox'[s])
    PROVE  Ways(l, d)'
<1>1. NetOK
    BY Parts
<1>2. \A j \in Sessions : Keeps(chan[j], chan'[j])
    BY <1>1, GivenLeaves DEF Keeps
<1>3. \A s \in {l, d} : s \in Servers /\ link[s] \in Sessions
    BY LeadingAre, StandsIs
<1> QED
    BY <1>2, <1>3, Undisturbed, KeepsAll

LEMMA MasterStartReqCarries ==
    ASSUME IInv, LinkOwned, NEW l \in Logins, NEW d \in Accounts, Stands(l), Stands(d), Ways(l, d),
           NEW k \in Sessions, MasterStartReq(k)
    PROVE  Ways(l, d)'
<1>1. NetOK /\ BoxOK
    BY Parts
<1>2. Given(k, "start") /\ owner[k] # None /\ UNCHANGED <<link, outbox>> /\ UNCHANGED dbVars
    BY DEF MasterStartReq, Given
<1>3. \A s \in Servers : Held(inbox[s]) \subseteq Held(Sent(k, inbox, Plain("startRes"))[s])
    BY <1>1, <1>2, SentGrows, MessagesAre DEF BoxOK, PlainKinds
<1>4. \A s \in Servers : Held(inbox[s]) \subseteq Held(inbox'[s])
    BY <1>3 DEF MasterStartReq
<1> QED
    BY <1>2, <1>4, GivenCarries DEF Leading

\* What is sent to a registered server is in its inbox, when the server stands.
LEMMA PassedGrows ==
    ASSUME IInv, LinkOwned, NEW s \in Servers, NEW m \in Messages, byId[s] # None,
           inbox' = Sent(byId[s], inbox, m)
    PROVE  /\ \A t \in Servers : Held(inbox[t]) \subseteq Held(inbox'[t])
           /\ Stands(s) => m \in Held(inbox'[s])
<1>1. NetOK /\ MasterOK /\ BoxOK /\ OneRegistration
    BY Parts
<1>2. byId[s] \in Sessions /\ owner[byId[s]] = s /\ owner[byId[s]] # None
    BY <1>1, RegisteredIs
<1>3. Stands(s) => Reaches(byId[s])
    BY StandsIs
<1> QED
    BY <1>1, <1>2, <1>3, SentGrows DEF BoxOK

LEMMA MasterWillConnectReqCarries ==
    ASSUME IInv, LinkOwned, NEW l \in Logins, NEW d \in Accounts, Stands(l), Stands(d), Ways(l, d),
           NEW k \in Sessions, MasterWillConnectReq(k)
    PROVE  Ways(l, d)'
<1>1. NetOK /\ BoxOK
    BY Parts
<1> DEFINE l2 == owner[k]
<1> DEFINE d2 == Head(chan[k]).peer
<1>2. Given(k, "willReq") /\ UNCHANGED <<link, outbox>> /\ UNCHANGED dbVars
    BY DEF MasterWillConnectReq
<1>3. inbox' = IF byId[l2] = None THEN inbox
               ELSE IF byId[d2] = None THEN Sent(byId[l2], inbox, About("willFail", d2))
               ELSE Sent(byId[d2], inbox, About("willReq", l2))
    BY DEF MasterWillConnectReq
<1>4. l2 \in Servers /\ d2 \in Servers
    BY <1>1, <1>2, AboutAServer DEF Given, NetOK, AboutKinds
<1>5. About("willFail", d2) \in Messages /\ About("willReq", l2) \in Messages
    BY <1>4, MessagesAre DEF AboutKinds
<1>6. /\ Held(chan[k]) = Held(chan'[k]) \cup {Head(chan[k])}
      /\ \A j \in Sessions \ {k} : chan'[j] = chan[j]
      /\ Head(chan[k]).kind = "willReq"
    BY <1>1, <1>2, GivenLeaves
<1>7. /\ l \in Servers /\ link[l] \in Sessions /\ owner[link[l]] = l /\ byId[l] # None
      /\ d \in Servers /\ link[d] \in Sessions /\ byId[d] # None
    BY LeadingAre, StandsIs
<1>8. CASE HasAsked(l, d) /\ k = link[l] /\ Head(chan[k]) = About("willReq", d)
    <2>1. l2 = l /\ d2 = d
        BY <1>7, <1>8 DEF About
    <2>2. inbox' = Sent(byId[d], inbox, About("willReq", l))
        BY <1>3, <1>7, <2>1
    <2>3. About("willReq", l) \in Held(inbox'[d])
        BY <1>5, <1>7, <2>1, <2>2, PassedGrows
    <2> QED
        BY <2>3 DEF IsAsked, Ways
<1>9. CASE ~(HasAsked(l, d) /\ k = link[l] /\ Head(chan[k]) = About("willReq", d))
    <2> HIDE DEF l2, d2
    <2>1. \A s \in Servers : Held(inbox[s]) \subseteq Held(inbox'[s])
        BY <1>3, <1>4, <1>5, PassedGrows
    <2>2. HasAsked(l, d) => HasAsked(l, d)'
        BY <1>2, <1>6, <1>7, <1>9 DEF HasAsked
    <2>3. HasAnswered(l, d) => HasAnswered(l, d)'
        <3>1. About("willRes", l) # Head(chan[k])
            BY <1>6, <1>7, LeadingAre
        <3> QED
            BY <1>2, <1>6, <1>7, <3>1 DEF HasAnswered
    <2>4. (Told(l, d) => Told(l, d)') /\ (IsAsked(l, d) => IsAsked(l, d)')
        BY <1>7, <2>1 DEF Told, IsAsked
    <2>5. /\ Made(l, d) => Made(l, d)'
          /\ Asks(l, d) => Asks(l, d)'
          /\ Answers(l, d) => Answers(l, d)'
        BY <1>2 DEF Made, Asks, Answers, dbVars
    <2> QED
        BY <2>2, <2>3, <2>4, <2>5 DEF Ways
<1> QED
    BY <1>8, <1>9

LEMMA MasterWillConnectResCarries ==
    ASSUME IInv, LinkOwned, NEW l \in Logins, NEW d \in Accounts, Stands(l), Stands(d), Ways(l, d),
           NEW k \in Sessions, MasterWillConnectRes(k)
    PROVE  Ways(l, d)'
<1>1. NetOK /\ BoxOK
    BY Parts
<1> DEFINE l2 == Head(chan[k]).peer
<1> DEFINE d2 == owner[k]
<1>2. Given(k, "willRes") /\ UNCHANGED <<link, outbox>> /\ UNCHANGED dbVars
    BY DEF MasterWillConnectRes
<1>3. inbox' = IF byId[l2] = None THEN inbox ELSE Sent(byId[l2], inbox, About("willRes", d2))
    BY DEF MasterWillConnectRes
<1>4. l2 \in Servers /\ d2 \in Servers
    BY <1>1, <1>2, AboutAServer DEF Given, NetOK, AboutKinds
<1>5. About("willRes", d2) \in Messages
    BY <1>4, MessagesAre DEF AboutKinds
<1>6. /\ Held(chan[k]) = Held(chan'[k]) \cup {Head(chan[k])}
      /\ \A j \in Sessions \ {k} : chan'[j] = chan[j]
      /\ Head(chan[k]).kind = "willRes"
    BY <1>1, <1>2, GivenLeaves
<1>7. /\ l \in Servers /\ link[l] \in Sessions /\ byId[l] # None
      /\ d \in Servers /\ link[d] \in Sessions /\ owner[link[d]] = d
    BY LeadingAre, StandsIs
<1>8. CASE HasAnswered(l, d) /\ k = link[d] /\ Head(chan[k]) = About("willRes", l)
    <2>1. l2 = l /\ d2 = d
        BY <1>7, <1>8 DEF About
    <2>2. inbox' = Sent(byId[l], inbox, About("willRes", d))
        BY <1>3, <1>7, <2>1
    <2>3. About("willRes", d) \in Held(inbox'[l])
        BY <1>5, <1>7, <2>1, <2>2, PassedGrows
    <2> QED
        BY <2>3 DEF Told, Ways
<1>9. CASE ~(HasAnswered(l, d) /\ k = link[d] /\ Head(chan[k]) = About("willRes", l))
    <2> HIDE DEF l2, d2
    <2>1. \A s \in Servers : Held(inbox[s]) \subseteq Held(inbox'[s])
        BY <1>3, <1>4, <1>5, PassedGrows
    <2>2. HasAnswered(l, d) => HasAnswered(l, d)'
        BY <1>2, <1>6, <1>7, <1>9 DEF HasAnswered
    <2>3. HasAsked(l, d) => HasAsked(l, d)'
        <3>1. About("willReq", d) # Head(chan[k])
            BY <1>6, <1>7, LeadingAre
        <3> QED
            BY <1>2, <1>6, <1>7, <3>1 DEF HasAsked
    <2>4. (Told(l, d) => Told(l, d)') /\ (IsAsked(l, d) => IsAsked(l, d)')
        BY <1>7, <2>1 DEF Told, IsAsked
    <2>5. /\ Made(l, d) => Made(l, d)'
          /\ Asks(l, d) => Asks(l, d)'
          /\ Answers(l, d) => Answers(l, d)'
        BY <1>2 DEF Made, Asks, Answers, dbVars
    <2> QED
        BY <2>2, <2>3, <2>4, <2>5 DEF Ways
<1> QED
    BY <1>8, <1>9

LEMMA InfosName == \A d \in Registered : About("can", d) \in Held(Infos)
<1> DEFINE C == {About("can", d) : d \in Registered}
<1> DEFINE n == Cardinality(Registered)
<1> SUFFICES ASSUME NEW d \in Registered PROVE About("can", d) \in Held(Infos)
    OBVIOUS
<1>1. Infos \in [1 .. n -> C] /\ \E i \in DOMAIN Infos : Infos[i].peer = d
    BY InfosAre
<1> HIDE DEF n
<1>2. PICK i \in DOMAIN Infos : Infos[i].peer = d /\ Infos[i] \in C
    BY <1>1
<1>3. Infos[i] = About("can", d)
    BY <1>2 DEF About
<1> QED
    BY <1>3 DEF Held

LEMMA MasterRegisterCarries ==
    ASSUME IInv, LinkOwned, NEW l \in Logins, NEW d \in Accounts, Stands(l)', Stands(d)',
           Stands(l) /\ Stands(d) => Ways(l, d), NEW k \in Sessions, MasterRegister(k)
    PROVE  Ways(l, d)'
<1>1. NetOK /\ MasterOK /\ BoxOK
    BY Parts
<1> DEFINE s == owner[k]
<1>2. /\ Given(k, "register") /\ s \in Servers /\ UNCHANGED <<owner, link, outbox>> /\ UNCHANGED dbVars
    BY <1>1 DEF MasterRegister, Given, NetOK
<1>3. l \in Servers /\ d \in Servers /\ l # d /\ l \notin Accounts
    BY DEF Servers
<1>4. CASE Accepts(k)
    <2>1. /\ byId' = [byId EXCEPT ![s] = k] /\ kicked' = kicked
          /\ inbox' = IF s \in Accounts THEN ToldOfNew(s, inbox)
                      ELSE IF Reaches(k) THEN [inbox EXCEPT ![s] = @ \o Infos] ELSE inbox
        BY <1>4 DEF MasterRegister
    <2>2. \A t \in Servers \ {s} : Stands(t)' => Stands(t)
        BY <1>1, <1>2, <2>1 DEF Stands, MasterOK
    <2>3. Infos \in Seq(Messages) /\ Held(inbox[s] \o Infos) = Held(inbox[s]) \cup Held(Infos)
        BY <1>1, <1>2, InfosAre, HeldConcat DEF BoxOK
    <2>4. /\ About("broadcast", s) \in Messages
          /\ \A t \in Servers : Held(Append(inbox[t], About("broadcast", s)))
                                = Held(inbox[t]) \cup {About("broadcast", s)}
        <3>1. About("broadcast", s) \in Messages
            BY <1>2, MessagesAre DEF AboutKinds
        <3> QED
            BY <1>1, <3>1, HeldAppend DEF BoxOK
    <2>5. CASE s = l
        <3>1. Stands(d)
            BY <1>3, <2>2, <2>5
        <3>2. d \in Registered
            BY <1>3, <3>1, StandsIs DEF Registered
        <3>3. link[l] = k /\ k \notin kicked
            BY <1>1, <1>2, <1>3, <2>1, <2>5 DEF Stands, MasterOK
        <3>4. Reaches(k)
            BY <2>5, <3>3 DEF Reaches
        <3>5. inbox'[l] = inbox[l] \o Infos
            BY <1>1, <1>3, <2>1, <2>5, <3>4 DEF BoxOK
        <3>6. About("can", d) \in Held(inbox'[l])
            BY <2>3, <2>5, <3>2, <3>5, InfosName
        <3> QED
            BY <3>6 DEF Told, Ways
    <2>6. CASE s = d
        <3>1. Stands(l)
            BY <1>3, <2>2, <2>6
        <3>2. byId[l] # None /\ Reaches(byId[l])
            BY <1>3, <3>1, StandsIs
        <3>3. inbox' = ToldOfNew(d, inbox)
            BY <2>1, <2>6
        <3>4. inbox'[l] = Append(inbox[l], About("broadcast", d))
            BY <1>3, <3>2, <3>3 DEF ToldOfNew
        <3>5. About("broadcast", d) \in Held(inbox'[l])
            BY <1>3, <2>4, <2>6, <3>4
        <3> QED
            BY <3>5 DEF Told, Ways
    <2>7. CASE s \notin {l, d}
        <3> HIDE DEF s
        <3>1. Stands(l) /\ Stands(d) /\ Ways(l, d)
            BY <1>3, <2>2, <2>7
        <3>2. \A t \in Servers : Held(inbox[t]) \subseteq Held(inbox'[t])
            <4>1. CASE s \in Accounts
                <5>1. ASSUME NEW t \in Servers
                      PROVE  inbox'[t] = inbox[t] \/ inbox'[t] = Append(inbox[t], About("broadcast", s))
                    BY <2>1, <4>1 DEF ToldOfNew
                <5> QED
                    BY <2>4, <5>1
            <4>2. CASE s \notin Accounts /\ Reaches(k)
                BY <1>1, <2>1, <2>3, <4>2 DEF BoxOK
            <4>3. CASE s \notin Accounts /\ ~Reaches(k)
                BY <2>1, <4>3
            <4> QED
                BY <4>1, <4>2, <4>3
        <3> QED
            BY <1>2, <3>1, <3>2, GivenCarries DEF Leading
    <2> QED
        BY <2>5, <2>6, <2>7
<1>5. CASE ~Accepts(k)
    <2>1. kicked \subseteq kicked' /\ byId' = byId /\ inbox' = inbox
        BY <1>5 DEF MasterRegister
    <2>2. Stands(l) /\ Stands(d) /\ Ways(l, d)
        BY <1>2, <2>1 DEF Stands
    <2> QED
        BY <1>2, <2>1, <2>2, GivenCarries DEF Leading
<1> QED
    BY <1>4, <1>5

LEMMA MasterRemoveCarries ==
    ASSUME IInv, LinkOwned, NEW l \in Logins, NEW d \in Accounts, Stands(l), Stands(d), Ways(l, d),
           NEW k \in Sessions, MasterRemoveSession(k)
    PROVE  Ways(l, d)'
<1>1. NetOK
    BY Parts
<1>2. chan' = [chan EXCEPT ![k] = <<>>] /\ UNCHANGED <<link, inbox, outbox>> /\ UNCHANGED dbVars
    BY DEF MasterRemoveSession, serverVars
<1>3. \A s \in {l, d} : s \in Servers /\ link[s] \in Sessions /\ link[s] # k
    BY LeadingAre, StandsIs, RemoveOwned
<1>4. \A s \in {l, d} : chan'[link[s]] = chan[link[s]]
    BY <1>1, <1>2, <1>3 DEF NetOK
<1> QED
    BY <1>2, <1>4, Undisturbed, KeepsAll

-----------------------------------------------------------------------------
(* The steps of the main threads hand the connection on.                      *)

\* A main thread takes a message and says something.  When it was the message that leads to the
\* connection, the connection is still on its way.
LEMMA TalkCarries ==
    ASSUME IInv, NEW l \in Logins, NEW d \in Accounts, Ways(l, d),
           NEW s \in Servers, NEW kind, Takes(s, kind), UNCHANGED <<link, chan>>,
           \A t \in Servers : Held(outbox[t]) \subseteq Held(outbox'[t]), Made(l, d) => Made(l, d)',
           s = l /\ kind \in {"broadcast", "can", "willRes"} /\ Head(inbox[s]) = About(kind, d)
               => Ways(l, d)',
           s = d /\ Head(inbox[s]) = About("willReq", l) => Ways(l, d)'
    PROVE  Ways(l, d)'
<1>1. BoxOK
    BY Parts
<1>2. l \in Servers /\ d \in Servers
    BY LeadingAre
<1>3. /\ \A t \in Servers \ {s} : inbox'[t] = inbox[t]
      /\ Held(inbox[s]) = Held(inbox'[s]) \cup {Head(inbox[s])} /\ Head(inbox[s]).kind = kind
    BY <1>1, TakesLeaves
<1>4. Told(l, d) => Told(l, d)' \/ Ways(l, d)'
    <2>1. ASSUME NEW told \in {"broadcast", "can", "willRes"}, About(told, d) \in Held(inbox[l])
          PROVE  About(told, d) \in Held(inbox'[l]) \/ Ways(l, d)'
        <3>1. About(told, d).kind = told
            BY DEF About
        <3> QED
            BY <1>2, <1>3, <2>1, <3>1
    <2> QED
        BY <2>1 DEF Told
<1>5. IsAsked(l, d) => IsAsked(l, d)' \/ Ways(l, d)'
    BY <1>2, <1>3 DEF IsAsked
<1>6. (Asks(l, d) => Asks(l, d)') /\ (Answers(l, d) => Answers(l, d)')
    BY <1>2 DEF Asks, Answers
<1>7. (HasAsked(l, d) => HasAsked(l, d)') /\ (HasAnswered(l, d) => HasAnswered(l, d)')
    BY DEF HasAsked, HasAnswered
<1> QED
    BY <1>4, <1>5, <1>6, <1>7 DEF Ways

\* What a server says does not disturb what it has said.
LEMMA SaysKeeps ==
    ASSUME IInv, NEW s \in Servers, NEW ms \in Seq(Messages), Says(s, ms)
    PROVE  \A t \in Servers : Held(outbox[t]) \subseteq Held(outbox'[t])
<1>1. BoxOK
    BY Parts
<1> QED
    BY <1>1, SaysAdds

LEMMA PlainSentences ==
    /\ <<Plain("start")>> \in Seq(Messages) /\ NoRemoval(<<Plain("start")>>)
    /\ <<Plain("register")>> \in Seq(Messages) /\ NoRemoval(<<Plain("register")>>)
    /\ <<Plain("count")>> \in Seq(Messages) /\ NoRemoval(<<Plain("count")>>)
    /\ /\ <<Plain("register"), Plain("count")>> \in Seq(Messages)
       /\ NoRemoval(<<Plain("register"), Plain("count")>>)
<1>1. ASSUME NEW m \in Messages, m.kind # "remove"
      PROVE  <<m>> \in Seq(Messages) /\ NoRemoval(<<m>>)
    <2>1. Held(<<m>>) = {m}
        BY DEF Held
    <2>2. NoRemoval(<<m>>)
        BY <1>1, <2>1, Zenon DEF NoRemoval
    <2>3. <<m>> \in Seq(Messages)
        OBVIOUS
    <2> QED
        BY <2>2, <2>3
<1>2. \A m, n \in Messages : m.kind # "remove" /\ n.kind # "remove"
                             => <<m, n>> \in Seq(Messages) /\ NoRemoval(<<m, n>>)
    <2>1. \A m, n : Held(<<m, n>>) = {m, n}
        BY DEF Held
    <2> QED
        BY <2>1 DEF NoRemoval
<1>3. \A kind \in {"start", "register", "count"} : Plain(kind) \in Messages /\ Plain(kind).kind # "remove"
    BY MessagesAre DEF PlainKinds
<1> QED
    BY <1>1, <1>2, <1>3

LEMMA ServerConnectedCarries ==
    ASSUME IInv, LinkOwned, NEW s \in Servers, ServerConnected(s) \/ ServerStartRes(s)
    PROVE  /\ LinkOwned'
           /\ \A l \in Logins, d \in Accounts : Ways(l, d) => Ways(l, d)'
<1>1. PICK kind \in {"connected", "startRes"} : Takes(s, kind)
    BY DEF ServerConnected, ServerStartRes
<1>2. PICK ms \in Seq(Messages) : Says(s, ms) /\ NoRemoval(ms)
    BY PlainSentences DEF ServerConnected, ServerStartRes
<1>3. UNCHANGED netVars /\ UNCHANGED dbVars
    BY DEF ServerConnected, ServerStartRes
<1>4. LinkOwned'
    BY <1>2, <1>3, SaysOwned
<1>5. ASSUME NEW l \in Logins, NEW d \in Accounts, Ways(l, d) PROVE Ways(l, d)'
    <2>1. Made(l, d) => Made(l, d)'
        BY <1>3 DEF Made, dbVars
    <2>2. Head(inbox[s]).kind = kind
        BY <1>1 DEF Takes
    <2>3. Head(inbox[s]) # About("willReq", l)
        BY <2>2 DEF About
    <2> QED
        BY <1>1, <1>2, <1>3, <1>5, <2>1, <2>3, SaysKeeps, TalkCarries DEF netVars
<1> QED
    BY <1>4, <1>5

LEMMA MainCountsCarries ==
    ASSUME IInv, LinkOwned, NEW s \in Servers, MainCounts(s)
    PROVE  /\ LinkOwned'
           /\ \A l \in Logins, d \in Accounts : Ways(l, d) => Ways(l, d)'
<1>1. /\ Says(s, <<Plain("count")>>)
      /\ UNCHANGED <<owner, link, chan>> /\ inbox' = inbox /\ UNCHANGED dbVars
    BY DEF MainCounts, netVars
<1>2. LinkOwned' /\ \A t \in Servers : Held(outbox[t]) \subseteq Held(outbox'[t])
    BY <1>1, PlainSentences, SaysOwned, SaysKeeps DEF netVars
<1>3. ASSUME NEW l \in Logins, NEW d \in Accounts, Ways(l, d) PROVE Ways(l, d)'
    BY <1>1, <1>2, <1>3, Undisturbed, KeepsAll, LeadingAre
<1> QED
    BY <1>2, <1>3

\* A login server that is told of an account server asks for it, unless it is connected.
LEMMA LoginAsksCarries ==
    ASSUME IInv, LinkOwned, NEW l2 \in Logins, LoginRegisterBroadcast(l2) \/ LoginCanConnectTo(l2)
    PROVE  /\ LinkOwned'
           /\ \A l \in Logins, d \in Accounts : Ways(l, d) => Ways(l, d)'
<1> DEFINE d2 == Head(inbox[l2]).peer
<1> DEFINE m == About("willReq", d2)
<1> DEFINE ms == <<m>>
<1>1. PICK kind \in {"broadcast", "can"} : Takes(l2, kind)
    BY DEF LoginRegisterBroadcast, LoginCanConnectTo
<1>2. l2 \in Servers /\ NetOK /\ BoxOK
    BY Parts DEF Servers
<1>3. d2 \in Servers
    BY <1>1, <1>2, ToldAboutAServer DEF AboutKinds
<1>4. m \in Messages /\ m.kind = "willReq"
    BY <1>3, LeadingAre
<1>5. Says(l2, ms) \/ (outbox' = outbox /\ d2 \in linked[l2])
    BY DEF LoginRegisterBroadcast, LoginCanConnectTo, AsksFor
<1>6. UNCHANGED netVars /\ UNCHANGED dbVars
    BY DEF LoginRegisterBroadcast, LoginCanConnectTo
<1> HIDE DEF m
<1>7. ms \in Seq(Messages) /\ Held(ms) = {m} /\ NoRemoval(ms)
    <2>1. Held(ms) = {m}
        BY DEF Held
    <2> HIDE DEF ms
    <2>2. NoRemoval(ms)
        BY <1>4, <2>1 DEF NoRemoval
    <2> QED
        BY <1>4, <2>1, <2>2 DEF ms
<1> HIDE DEF ms
<1>8. LinkOwned'
    <2>1. CASE Says(l2, ms)
        BY <1>2, <1>6, <1>7, <2>1, SaysOwned
    <2>2. CASE outbox' = outbox
        <3>1. \A t \in Servers : NoRemoval(outbox'[t])
            BY <2>2 DEF LinkOwned
        <3> QED
            BY <1>2, <1>6, <3>1, StaysOwned DEF netVars
    <2> QED
        BY <1>5, <2>1, <2>2
<1>9. ASSUME NEW l \in Logins, NEW d \in Accounts, Ways(l, d) PROVE Ways(l, d)'
    <2>1. Made(l, d) => Made(l, d)'
        BY <1>6 DEF Made, dbVars
    <2>2. ASSUME l2 = l, Head(inbox[l2]) = About(kind, d) PROVE Ways(l, d)'
        <3>1. d2 = d
            BY <2>2 DEF About
        <3>2. CASE Says(l2, ms)
            <4>1. About("willReq", d) \in Held(outbox'[l])
                BY <1>2, <1>7, <2>2, <3>1, <3>2, SaysAdds DEF m
            <4> QED
                BY <4>1 DEF Asks, Ways
        <3>3. CASE d2 \in linked[l2]
            BY <1>6, <2>2, <3>1, <3>3 DEF Made, Ways, dbVars
        <3> QED
            BY <1>5, <3>2, <3>3
    <2>3. l2 # d
        BY DEF Servers
    <2>4. \A t \in Servers : Held(outbox[t]) \subseteq Held(outbox'[t])
        BY <1>2, <1>5, <1>7, SaysKeeps
    <2> QED
        BY <1>1, <1>2, <1>6, <1>9, <2>1, <2>2, <2>3, <2>4, TalkCarries DEF netVars
<1> QED
    BY <1>8, <1>9

\* An account server that is asked for its address answers.
LEMMA AccountAnswersCarries ==
    ASSUME IInv, LinkOwned, NEW d2 \in Accounts, AccountWillConnectReq(d2)
    PROVE  /\ LinkOwned'
           /\ \A l \in Logins, d \in Accounts : Ways(l, d) => Ways(l, d)'
<1> DEFINE l2 == Head(inbox[d2]).peer
<1> DEFINE m == About("willRes", l2)
<1> DEFINE ms == <<m>>
<1>1. Takes(d2, "willReq") /\ Says(d2, ms) /\ UNCHANGED netVars /\ UNCHANGED dbVars
    BY DEF AccountWillConnectReq
<1>2. d2 \in Servers /\ NetOK /\ BoxOK
    BY Parts DEF Servers
<1>3. l2 \in Servers
    BY <1>1, <1>2, ToldAboutAServer DEF AboutKinds
<1>4. m \in Messages /\ m.kind = "willRes"
    BY <1>3, LeadingAre
<1> HIDE DEF m
<1>5. ms \in Seq(Messages) /\ Held(ms) = {m} /\ NoRemoval(ms)
    <2>1. Held(ms) = {m}
        BY DEF Held
    <2> HIDE DEF ms
    <2>2. NoRemoval(ms)
        BY <1>4, <2>1 DEF NoRemoval
    <2> QED
        BY <1>4, <2>1, <2>2 DEF ms
<1> HIDE DEF ms
<1>6. LinkOwned'
    BY <1>1, <1>2, <1>5, SaysOwned
<1>7. ASSUME NEW l \in Logins, NEW d \in Accounts, Ways(l, d) PROVE Ways(l, d)'
    <2>1. Made(l, d) => Made(l, d)'
        BY <1>1 DEF Made, dbVars
    <2>2. ASSUME d2 = d, Head(inbox[d2]) = About("willReq", l) PROVE Ways(l, d)'
        <3>1. l2 = l
            BY <2>2 DEF About
        <3>2. About("willRes", l) \in Held(outbox'[d])
            BY <1>1, <1>2, <1>5, <2>2, <3>1, SaysAdds DEF m
        <3> QED
            BY <3>2 DEF Answers, Ways
    <2>3. d2 # l
        BY DEF Servers
    <2>4. \A t \in Servers : Held(outbox[t]) \subseteq Held(outbox'[t])
        BY <1>1, <1>2, <1>5, SaysKeeps
    <2> QED
        BY <1>1, <1>2, <1>7, <2>1, <2>2, <2>3, <2>4, TalkCarries DEF netVars
<1> QED
    BY <1>6, <1>7

\* A login server that is told an address wants a connection, unless it has one; a refusal
\* changes nothing.
LEMMA LoginListensCarries ==
    ASSUME IInv, LinkOwned, NEW l2 \in Logins, LoginWillConnectRes(l2) \/ LoginWillConnectFails(l2)
    PROVE  /\ LinkOwned'
           /\ \A l \in Logins, d \in Accounts : Ways(l, d) => Ways(l, d)'
<1> DEFINE d2 == Head(inbox[l2]).peer
<1>1. PICK kind \in {"willRes", "willFail"} :
        /\ Takes(l2, kind) /\ UNCHANGED netVars /\ UNCHANGED <<outbox, opened, linked>>
        /\ \/ kind = "willRes" /\ works' = Wanted(l2, d2)
           \/ kind = "willFail" /\ works' = works
    BY DEF LoginWillConnectRes, LoginWillConnectFails, dbVars
<1>2. l2 \in Servers /\ NetOK /\ BoxOK /\ DbOK
    BY Parts DEF Servers
<1>3. LinkOwned'
    <2>1. \A t \in Servers : NoRemoval(outbox'[t])
        BY <1>1 DEF LinkOwned
    <2> QED
        BY <1>1, <1>2, <2>1, StaysOwned DEF netVars
<1> HIDE DEF d2
<1>4. ASSUME NEW l \in Logins, NEW d \in Accounts
      PROVE  /\ works[l][d] > 0 => works'[l][d] > 0
             /\ kind = "willRes" /\ l = l2 /\ d = d2 /\ d \notin linked[l] => works'[l][d] > 0
    <2>1. works[l][d] \in Nat
        BY <1>2 DEF DbOK
    <2>2. CASE works' = works /\ (kind = "willRes" => d2 \in linked[l2])
        BY <2>2
    <2>3. CASE works' = [works EXCEPT ![l2][d2] = @ + 1]
        <3>1. works'[l][d] = IF l = l2 /\ d = d2 THEN works[l][d] + 1 ELSE works[l][d]
            BY <1>2, <2>3 DEF DbOK
        <3> QED
            BY <2>1, <3>1
    <2> QED
        BY <1>1, <2>2, <2>3 DEF Wanted
<1>5. ASSUME NEW l \in Logins, NEW d \in Accounts, Ways(l, d) PROVE Ways(l, d)'
    <2>1. Made(l, d) => Made(l, d)'
        BY <1>1, <1>4 DEF Made
    <2>2. ASSUME l2 = l, kind = "willRes", Head(inbox[l2]) = About(kind, d) PROVE Ways(l, d)'
        <3>1. d2 = d
            BY <2>2 DEF About, d2
        <3> QED
            BY <1>1, <1>4, <2>2, <3>1 DEF Made, Ways
    <2>3. l2 # d
        BY DEF Servers
    <2> QED
        BY <1>1, <1>2, <1>5, <2>1, <2>2, <2>3, TalkCarries DEF netVars
<1> QED
    BY <1>3, <1>5

\* The steps of the connections, but for a refused and for a lost one.
LEMMA ConnectionsCarry ==
    ASSUME IInv, LinkOwned, NEW l2 \in Logins, NEW d2 \in Accounts,
           ConnectWork(l2, d2) \/ LoginAddServer(l2, d2), NEW l \in Logins, NEW d \in Accounts,
           Ways(l, d)
    PROVE  Ways(l, d)'
<1>1. UNCHANGED netVars /\ UNCHANGED serverVars
    BY DEF ConnectWork, LoginAddServer
<1>2. DbOK
    BY Parts
<1>3. Made(l, d) => Made(l, d)'
    <2>1. works[l][d] \in Nat /\ opened[l][d] \in Nat
        BY <1>2 DEF DbOK
    <2>2. CASE ConnectWork(l2, d2)
        <3>1. opened' = [opened EXCEPT ![l2][d2] = @ + 1] /\ works' = [works EXCEPT ![l2][d2] = @ - 1]
              /\ linked' = linked
            BY <2>2 DEF ConnectWork
        <3>2. /\ opened'[l][d] = IF l = l2 /\ d = d2 THEN opened[l][d] + 1 ELSE opened[l][d]
              /\ works'[l][d] = IF l = l2 /\ d = d2 THEN works[l][d] - 1 ELSE works[l][d]
            BY <1>2, <3>1 DEF DbOK
        <3> QED
            BY <2>1, <3>1, <3>2 DEF Made
    <2>3. CASE LoginAddServer(l2, d2)
        <3>1. opened' = [opened EXCEPT ![l2][d2] = @ - 1]
              /\ linked' = [linked EXCEPT ![l2] = @ \cup {d2}] /\ works' = works
            BY <2>3 DEF LoginAddServer
        <3>2. /\ opened'[l][d] = IF l = l2 /\ d = d2 THEN opened[l][d] - 1 ELSE opened[l][d]
              /\ linked'[l] = IF l = l2 THEN linked[l] \cup {d2} ELSE linked[l]
            BY <1>2, <3>1 DEF DbOK
        <3> QED
            BY <2>1, <3>1, <3>2 DEF Made
    <2> QED
        BY <2>2, <2>3
<1>4. /\ Told(l, d) => Told(l, d)'
      /\ Asks(l, d) => Asks(l, d)'
      /\ HasAsked(l, d) => HasAsked(l, d)'
      /\ IsAsked(l, d) => IsAsked(l, d)'
      /\ Answers(l, d) => Answers(l, d)'
      /\ HasAnswered(l, d) => HasAnswered(l, d)'
    BY <1>1 DEF netVars, serverVars, Told, Asks, HasAsked, IsAsked, Answers, HasAnswered
<1> QED
    BY <1>3, <1>4 DEF Ways

-----------------------------------------------------------------------------
(* The strengthened invariant, step by step.                                 *)

Remembered ==
    \A l \in Logins, d \in Accounts :
        Stands(l) /\ Stands(d) /\ fails = 0 /\ dbLosses = 0 => Ways(l, d)

LEMMA StaysRemembered ==
    ASSUME Remembered, \A s \in Servers : Stands(s)' => Stands(s), UNCHANGED <<fails, dbLosses>>,
           \A l \in Logins, d \in Accounts :
               Ways(l, d) /\ Stands(l) /\ Stands(d) /\ Stands(l)' /\ Stands(d)' => Ways(l, d)'
    PROVE  Remembered'
<1>1. \A l \in Logins, d \in Accounts : l \in Servers /\ d \in Servers
    BY LeadingAre
<1> QED
    BY <1>1 DEF Remembered

LEMMA StandsAsBefore ==
    ASSUME UNCHANGED <<link, byId, kicked>> PROVE \A s \in Servers : Stands(s)' => Stands(s)
BY DEF Stands

LEMMA NetRemembers ==
    ASSUME IInv, LinkOwned, Remembered, NEW s \in Servers, NetThread(s) \/ LinkLost(s) \/ MainCounts(s)
    PROVE  LinkOwned' /\ Remembered'
<1>1. NetOK /\ OneRegistration /\ MasterOK
    BY Parts
<1>2. CASE Send(s)
    <2>1. UNCHANGED <<link, byId, kicked>> /\ UNCHANGED <<fails, dbLosses>>
        BY <1>2 DEF Send, masterVars, bounds
    <2>2. \A l \in Logins, d \in Accounts : Ways(l, d) /\ Stands(l) /\ Stands(d) => Ways(l, d)'
        BY <1>2, SendCarries
    <2> QED
        BY <1>2, <2>1, <2>2, SendOwned, StandsAsBefore, StaysRemembered
<1>3. CASE LinkLost(s) \/ KickOut(s)
    <2>1. /\ link' = [link EXCEPT ![s] = None] /\ UNCHANGED <<byId, kicked>>
          /\ UNCHANGED <<fails, dbLosses>>
        BY <1>3 DEF LinkLost, Cut, KickOut, masterVars, bounds
    <2>2. \A t \in Servers : Stands(t)' => Stands(t)
        BY <1>1, <2>1 DEF Stands, NetOK
    <2>3. \A l \in Logins, d \in Accounts :
            Ways(l, d) /\ Stands(l) /\ Stands(d) /\ Stands(l)' /\ Stands(d)' => Ways(l, d)'
        BY <1>3, CutCarries
    <2> QED
        BY <1>3, <2>1, <2>2, <2>3, CutOwned, StaysRemembered
<1>4. ASSUME NEW k \in Sessions, LinkUp(s, k) PROVE LinkOwned' /\ Remembered'
    <2>1. /\ link' = [link EXCEPT ![s] = k] /\ owner[k] = None /\ UNCHANGED <<byId, kicked>>
          /\ UNCHANGED <<fails, dbLosses>>
        BY <1>4 DEF LinkUp, masterVars, bounds
    <2>2. ASSUME NEW t \in Servers, Stands(t)' PROVE Stands(t)
        <3>1. byId[t] # k
            BY <1>1, <2>1 DEF OneRegistration
        <3>2. t # s
            BY <1>1, <2>1, <2>2, <3>1 DEF Stands, NetOK
        <3> QED
            BY <1>1, <2>1, <2>2, <3>2 DEF Stands, NetOK
    <2>3. \A l \in Logins, d \in Accounts : Ways(l, d) /\ Stands(l) /\ Stands(d) => Ways(l, d)'
        BY <1>4, LinkUpCarries
    <2> QED
        BY <1>4, <2>1, <2>2, <2>3, LinkUpOwned, StaysRemembered
<1>5. CASE MainCounts(s)
    <2>1. UNCHANGED <<link, byId, kicked>> /\ UNCHANGED <<fails, dbLosses>>
        BY <1>5 DEF MainCounts, netVars, masterVars
    <2> QED
        BY <1>5, <2>1, MainCountsCarries, StandsAsBefore, StaysRemembered
<1> QED
    BY <1>2, <1>3, <1>4, <1>5 DEF NetThread

LEMMA MasterRemembers ==
    ASSUME IInv, LinkOwned, Remembered, NEW k \in Sessions, MasterThread(k)
    PROVE  LinkOwned' /\ Remembered'
<1>1. NetOK /\ MasterOK /\ BoxOK
    BY Parts
<1>2. CASE MasterAddSession(k) \/ MasterServeCount(k) \/ MasterStartReq(k)
    <2>1. PICK kind \in {"add", "count", "start"} : Given(k, kind)
        BY <1>2 DEF MasterAddSession, MasterServeCount, MasterStartReq
    <2>2. /\ UNCHANGED <<owner, link, outbox>> /\ UNCHANGED <<byId, kicked>> /\ UNCHANGED dbVars
          /\ UNCHANGED <<fails, dbLosses>>
        BY <1>2 DEF MasterAddSession, MasterServeCount, MasterStartReq, masterVars, serverVars, bounds
    <2>3. ASSUME NEW l \in Logins, NEW d \in Accounts, Ways(l, d), Stands(l), Stands(d)
          PROVE  Ways(l, d)'
        <3>1. CASE MasterStartReq(k)
            BY <2>3, <3>1, MasterStartReqCarries
        <3>2. CASE ~MasterStartReq(k)
            <4>1. inbox' = inbox
                BY <1>2, <3>2 DEF MasterAddSession, MasterServeCount, serverVars
            <4> QED
                BY <2>1, <2>2, <2>3, <4>1, GivenCarries DEF Leading
        <3> QED
            BY <3>1, <3>2
    <2> QED
        BY <2>1, <2>2, <2>3, GivenOwned, StandsAsBefore, StaysRemembered
<1>3. CASE MasterWillConnectReq(k) \/ MasterWillConnectRes(k)
    <2>1. PICK kind \in {"willReq", "willRes"} : Given(k, kind)
        BY <1>3 DEF MasterWillConnectReq, MasterWillConnectRes
    <2>2. UNCHANGED <<owner, link, outbox>> /\ UNCHANGED <<byId, kicked>> /\ UNCHANGED <<fails, dbLosses>>
        BY <1>3 DEF MasterWillConnectReq, MasterWillConnectRes, masterVars, bounds
    <2>3. \A l \in Logins, d \in Accounts : Ways(l, d) /\ Stands(l) /\ Stands(d) => Ways(l, d)'
        BY <1>3, MasterWillConnectReqCarries, MasterWillConnectResCarries
    <2> QED
        BY <2>1, <2>2, <2>3, GivenOwned, StandsAsBefore, StaysRemembered
<1>4. CASE MasterRegister(k)
    <2>1. Given(k, "register") /\ UNCHANGED <<owner, link, outbox>> /\ UNCHANGED <<fails, dbLosses>>
        BY <1>4 DEF MasterRegister, bounds
    <2>2. LinkOwned'
        BY <2>1, GivenOwned
    <2>3. ASSUME NEW l \in Logins, NEW d \in Accounts, Stands(l)', Stands(d)', fails' = 0, dbLosses' = 0
          PROVE  Ways(l, d)'
        <3>1. Stands(l) /\ Stands(d) => Ways(l, d)
            BY <2>1, <2>3 DEF Remembered
        <3> QED
            BY <1>4, <2>3, <3>1, MasterRegisterCarries
    <2> QED
        BY <2>2, <2>3 DEF Remembered
<1>5. CASE MasterRemoveSession(k)
    <2>1. LinkOwned' /\ \A s \in Servers : link[s] # k
        BY <1>5, RemoveOwned
    <2>2. /\ link' = link /\ kicked' = kicked \ {k} /\ byId' = Unregistered(k)
          /\ UNCHANGED <<fails, dbLosses>>
        BY <1>5 DEF MasterRemoveSession, bounds
    <2>3. \A s \in Servers : byId'[s] = byId[s] \/ byId'[s] = None
        BY <1>1, <2>2 DEF Unregistered, MasterOK
    <2>4. \A s \in Servers : Stands(s)' => Stands(s)
        BY <2>1, <2>2, <2>3 DEF Stands
    <2>5. \A l \in Logins, d \in Accounts : Ways(l, d) /\ Stands(l) /\ Stands(d) => Ways(l, d)'
        BY <1>5, MasterRemoveCarries
    <2> QED
        BY <2>1, <2>2, <2>4, <2>5, StaysRemembered
<1> QED
    BY <1>2, <1>3, <1>4, <1>5 DEF MasterThread

LEMMA ThreadsRemember ==
    ASSUME IInv, LinkOwned, Remembered,
           \/ \E l2 \in Logins : LoginThread(l2)
           \/ \E d2 \in Accounts : AccountThread(d2)
    PROVE  LinkOwned' /\ Remembered'
<1>1. /\ LinkOwned'
      /\ \A l \in Logins, d \in Accounts : Ways(l, d) => Ways(l, d)'
      /\ UNCHANGED <<link, byId, kicked>> /\ UNCHANGED <<fails, dbLosses>>
    <2>1. ASSUME NEW s \in Servers, ServerConnected(s) \/ ServerStartRes(s)
          PROVE  /\ LinkOwned'
                 /\ \A l \in Logins, d \in Accounts : Ways(l, d) => Ways(l, d)'
                 /\ UNCHANGED <<link, byId, kicked>> /\ UNCHANGED <<fails, dbLosses>>
        BY <2>1, ServerConnectedCarries
           DEF ServerConnected, ServerStartRes, netVars, masterVars, bounds
    <2>2. ASSUME NEW l2 \in Logins, LoginRegisterBroadcast(l2) \/ LoginCanConnectTo(l2)
          PROVE  /\ LinkOwned'
                 /\ \A l \in Logins, d \in Accounts : Ways(l, d) => Ways(l, d)'
                 /\ UNCHANGED <<link, byId, kicked>> /\ UNCHANGED <<fails, dbLosses>>
        BY <2>2, LoginAsksCarries
           DEF LoginRegisterBroadcast, LoginCanConnectTo, netVars, masterVars, bounds
    <2>3. ASSUME NEW l2 \in Logins, LoginWillConnectRes(l2) \/ LoginWillConnectFails(l2)
          PROVE  /\ LinkOwned'
                 /\ \A l \in Logins, d \in Accounts : Ways(l, d) => Ways(l, d)'
                 /\ UNCHANGED <<link, byId, kicked>> /\ UNCHANGED <<fails, dbLosses>>
        BY <2>3, LoginListensCarries
           DEF LoginWillConnectRes, LoginWillConnectFails, netVars, masterVars, bounds
    <2>4. ASSUME NEW d2 \in Accounts, AccountWillConnectReq(d2)
          PROVE  /\ LinkOwned'
                 /\ \A l \in Logins, d \in Accounts : Ways(l, d) => Ways(l, d)'
                 /\ UNCHANGED <<link, byId, kicked>> /\ UNCHANGED <<fails, dbLosses>>
        BY <2>4, AccountAnswersCarries DEF AccountWillConnectReq, netVars, masterVars, bounds
    <2>5. CASE \E l2 \in Logins : LoginThread(l2)
        <3>1. PICK l2 \in Logins : LoginThread(l2)
            BY <2>5
        <3>2. l2 \in Servers
            BY DEF Servers
        <3>3. CASE ServerConnected(l2) \/ ServerStartRes(l2)
            BY <2>1, <3>2, <3>3, Zenon
        <3>4. CASE LoginRegisterBroadcast(l2) \/ LoginCanConnectTo(l2)
            BY <2>2, <3>4, Zenon
        <3>5. CASE LoginWillConnectRes(l2) \/ LoginWillConnectFails(l2)
            BY <2>3, <3>5, Zenon
        <3> QED
            BY <3>1, <3>3, <3>4, <3>5, Zenon DEF LoginThread
    <2>6. CASE \E d2 \in Accounts : AccountThread(d2)
        <3>1. PICK d2 \in Accounts : AccountThread(d2)
            BY <2>6
        <3>2. d2 \in Servers
            BY DEF Servers
        <3>3. CASE ServerConnected(d2) \/ ServerStartRes(d2)
            BY <2>1, <3>2, <3>3, Zenon
        <3>4. CASE AccountWillConnectReq(d2)
            BY <2>4, <3>4, Zenon
        <3> QED
            BY <3>1, <3>3, <3>4, Zenon DEF AccountThread
    <2> QED
        BY <2>5, <2>6, Zenon
<1> QED
    BY <1>1, StandsAsBefore, StaysRemembered

LEMMA ConnectionsRemember ==
    ASSUME IInv, LinkOwned, Remembered, NEW l2 \in Logins, NEW d2 \in Accounts,
           \/ ConnectWork(l2, d2) \/ ConnectWorkFails(l2, d2)
           \/ LoginAddServer(l2, d2) \/ LoginRemoveServer(l2, d2)
    PROVE  LinkOwned' /\ Remembered'
<1>1. NetOK /\ BoundsOK
    BY Parts
<1>2. UNCHANGED netVars /\ UNCHANGED masterVars /\ UNCHANGED serverVars
    BY DEF ConnectWork, ConnectWorkFails, LoginAddServer, LoginRemoveServer
<1>3. LinkOwned'
    <2>1. \A s \in Servers : NoRemoval(outbox'[s])
        BY <1>2 DEF serverVars, LinkOwned
    <2> QED
        BY <1>1, <1>2, <2>1, StaysOwned DEF netVars
<1>4. CASE ConnectWork(l2, d2) \/ LoginAddServer(l2, d2)
    <2>1. UNCHANGED <<fails, dbLosses>> /\ UNCHANGED <<link, byId, kicked>>
        BY <1>2, <1>4 DEF ConnectWork, LoginAddServer, bounds, netVars, masterVars
    <2>2. \A l \in Logins, d \in Accounts : Ways(l, d) => Ways(l, d)'
        BY <1>4, ConnectionsCarry
    <2> QED
        BY <1>3, <2>1, <2>2, StandsAsBefore, StaysRemembered
<1>5. CASE ConnectWorkFails(l2, d2)
    <2>1. fails' # 0
        BY <1>1, <1>5 DEF ConnectWorkFails, BoundsOK
    <2> QED
        BY <1>3, <2>1 DEF Remembered
<1>6. CASE LoginRemoveServer(l2, d2)
    <2>1. dbLosses' # 0
        BY <1>1, <1>6 DEF LoginRemoveServer, BoundsOK
    <2> QED
        BY <1>3, <2>1 DEF Remembered
<1> QED
    BY <1>4, <1>5, <1>6

(* However often connections to the master are lost, refused and made again, *)
(* and in whatever order the master hears of it: of a login server and an    *)
(* account server that are both registered under the connections they have,  *)
(* the first is connected to the second, or a message that leads there is    *)
(* under way, as long as no connection between the two was refused or lost.  *)
THEOREM ServersRemembered == Spec => []NobodyForgotten
<1>1. Init => LinkOwned /\ Remembered
    <2> SUFFICES ASSUME Init PROVE LinkOwned /\ Remembered
        OBVIOUS
    <2>1. \A s \in Servers : link[s] = None /\ outbox[s] = <<>>
        BY DEF Init
    <2>2. LinkOwned
        BY <2>1, HeldOne DEF LinkOwned, NoRemoval
    <2>3. Remembered
        BY <2>1, LeadingAre DEF Remembered, Stands
    <2> QED
        BY <2>2, <2>3
<1>2. IInv /\ LinkOwned /\ Remembered /\ [Next]_vars => LinkOwned' /\ Remembered'
    <2> SUFFICES ASSUME IInv, LinkOwned, Remembered, [Next]_vars PROVE LinkOwned' /\ Remembered'
        OBVIOUS
    <2>1. CASE UNCHANGED vars
        <3>1. /\ LinkOwned => LinkOwned'
              /\ \A s \in Servers : Stands(s)' => Stands(s)
              /\ UNCHANGED <<fails, dbLosses>>
            BY <2>1 DEF vars, netVars, masterVars, serverVars, bounds, LinkOwned, NoRemoval, Stands
        <3>2. UNCHANGED netVars /\ UNCHANGED serverVars /\ UNCHANGED dbVars
            BY <2>1 DEF vars
        <3>3. \A l \in Logins, d \in Accounts : Ways(l, d) => Ways(l, d)'
            BY <3>2 DEF netVars, serverVars, dbVars, Ways, Made, Told, Asks, HasAsked, IsAsked,
               Answers, HasAnswered
        <3> QED
            BY <3>1, <3>3, StaysRemembered
    <2>2. CASE \E k \in Sessions : MasterThread(k)
        BY <2>2, MasterRemembers
    <2>3. CASE (\E l \in Logins : LoginThread(l)) \/ (\E d \in Accounts : AccountThread(d))
        BY <2>3, ThreadsRemember
    <2>4. CASE \E s \in Servers : NetThread(s) \/ LinkLost(s) \/ MainCounts(s)
        BY <2>4, NetRemembers
    <2>5. CASE \E l \in Logins, d \in Accounts :
                    \/ ConnectWork(l, d) \/ ConnectWorkFails(l, d)
                    \/ LoginAddServer(l, d) \/ LoginRemoveServer(l, d)
        BY <2>5, ConnectionsRemember
    <2> QED
        BY <2>1, <2>2, <2>3, <2>4, <2>5, Zenon DEF Next
<1>3. Remembered => NobodyForgotten
    BY UnderwayIs DEF Remembered, NobodyForgotten
<1> QED
    BY Invariance, <1>1, <1>2, <1>3, PTL DEF Spec
=============================================================================
