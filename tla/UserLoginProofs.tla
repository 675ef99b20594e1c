-------------------------- MODULE UserLoginProofs --------------------------
(***************************************************************************)
(* What holds of the logins for every number of users, clients, attempts   *)
(* and lost links.                                                         *)
(***************************************************************************)
EXTENDS UserLogin, FiniteSetTheorems, TLAPS

USE UserLoginAssumption

-----------------------------------------------------------------------------
(* The inductive invariant.  What is known of every message of a queue is    *)
(* said as the set the queue is made of.                                     *)

\* A key opens the gate to nobody but user u.
OpensOnly(key, u) == key \in 1 .. keys /\ \A v \in Users : wills[v] = key => v = u

LoginMsgs == {m \in ToLogin : m.ok => OpensOnly(m.key, m.u)}
GateMsgs == {m \in ToGate : m.kind = "online" => uid[m.c] # None}
MasterMsgs == {m \in ToMaster : /\ m.kind = "online" => uid[m.c] # None
                                /\ m.kind = "will" => m.key = 0 \/ OpensOnly(m.key, m.u)}

QueuesOK ==
    /\ l2m \in Seq(Asks) /\ m2l \in Seq(LoginMsgs)
    /\ m2g \in Seq(GateMsgs) /\ g2m \in Seq(MasterMsgs)

LoginOK ==
    /\ conn \in [Conns -> {"new", "open", "refused", "closed"}]
    /\ closing \subseteq Conns /\ kicked \subseteq Conns /\ told \subseteq Conns
    /\ asks \in Seq(Asks) /\ asked \in Nat

LinkOK == loginSess \in Nat /\ epoch \in Nat /\ losses \in Nat /\ gateUp \in BOOLEAN

GateOK ==
    /\ keys \in Nat /\ wills \in [Users -> 0 .. keys]
    /\ client \in [GateConns -> ClientStates] /\ uid \in [GateConns -> Users \cup {None}]
    /\ byUid \in [Users -> GateConns \cup {None}]
    /\ gone \subseteq GateConns /\ gateClosing \subseteq GateConns /\ gateKicked \subseteq GateConns
    /\ sendClass \in SendClasses
    /\ \A c \in GateConns : client[c] = "Logined" => uid[c] # None

UsersOK == users \in [Users -> UserStates]

\* Announcements of user u in a queue.
Announces(m, u) == m.kind = "will" /\ m.u = u
NoneOf(q, u) == \A i \in DOMAIN q : ~Announces(q[i], u)
AtMostOne(q, u) == \A i, j \in DOMAIN q : Announces(q[i], u) /\ Announces(q[j], u) => i = j

\* OneAnnouncement without cardinalities.
Announced(u) ==
    /\ AtMostOne(m2g, u) /\ AtMostOne(g2m, u)
    /\ NoneOf(m2g, u) \/ NoneOf(g2m, u)
    /\ users[u] \in {"absent", "Created", "Waiting_GateServer_Login"} => NoneOf(m2g, u) /\ NoneOf(g2m, u)
    /\ users[u] = "Waiting_GateServer_Reponse" /\ losses = 0 => ~NoneOf(m2g, u) \/ ~NoneOf(g2m, u)

AllAnnounced == \A u \in Users : Announced(u)

IInv == LoginOK /\ LinkOK /\ GateOK /\ UsersOK /\ QueuesOK /\ AllAnnounced

-----------------------------------------------------------------------------
(* Queues.                                                                   *)

LEMMA Wider ==
    ASSUME NEW S, NEW T, S \subseteq T, NEW q \in Seq(S) PROVE q \in Seq(T)
OBVIOUS

LEMMA TakenFrom ==
    ASSUME NEW S, NEW q \in Seq(S), q # <<>>
    PROVE  /\ Head(q) \in S /\ Tail(q) \in Seq(S)
           /\ \A u \in Users : NoneOf(q, u) => NoneOf(Tail(q), u)
           /\ \A u \in Users : AtMostOne(q, u) => AtMostOne(Tail(q), u)
           /\ \A u \in Users : ~Announces(Head(q), u) /\ NoneOf(Tail(q), u) => NoneOf(q, u)
           /\ \A u \in Users : NoneOf(q, u) => ~Announces(Head(q), u)
           /\ \A u \in Users : AtMostOne(q, u) /\ Announces(Head(q), u) => NoneOf(Tail(q), u)
<1> DEFINE t == Tail(q)
<1>1. /\ t \in Seq(S) /\ Head(q) \in S /\ Head(q) = q[1] /\ 1 \in DOMAIN q
      /\ Len(q) \in Nat \ {0} /\ DOMAIN q = 1 .. Len(q) /\ Len(t) = Len(q) - 1
      /\ \A i \in 1 .. Len(q) - 1 : t[i] = q[i + 1]
    OBVIOUS
<1>2. /\ \A i \in DOMAIN t : i \in Int /\ i + 1 \in DOMAIN q /\ i + 1 # 1 /\ t[i] = q[i + 1]
      /\ \A i \in DOMAIN q : i = 1 \/ (i - 1 \in DOMAIN t /\ q[i] = t[i - 1])
    BY <1>1
<1> HIDE DEF t
<1>3. ASSUME NEW u \in Users
      PROVE  /\ NoneOf(q, u) => NoneOf(t, u)
             /\ AtMostOne(q, u) => AtMostOne(t, u)
             /\ ~Announces(Head(q), u) /\ NoneOf(t, u) => NoneOf(q, u)
             /\ NoneOf(q, u) => ~Announces(Head(q), u)
             /\ AtMostOne(q, u) /\ Announces(Head(q), u) => NoneOf(t, u)
    <2>1. NoneOf(q, u) => NoneOf(t, u)
        BY <1>2 DEF NoneOf
    <2>2. AtMostOne(q, u) => AtMostOne(t, u)
        BY <1>2 DEF AtMostOne
    <2>3. ~Announces(Head(q), u) /\ NoneOf(t, u) => NoneOf(q, u)
        BY <1>1, <1>2 DEF NoneOf
    <2>4. NoneOf(q, u) => ~Announces(Head(q), u)
        BY <1>1 DEF NoneOf
    <2>5. AtMostOne(q, u) /\ Announces(Head(q), u) => NoneOf(t, u)
        BY <1>1, <1>2 DEF AtMostOne, NoneOf
    <2> QED
        BY <2>1, <2>2, <2>3, <2>4, <2>5
<1> QED
    BY <1>1, <1>3 DEF t

LEMMA AppendedTo ==
    ASSUME NEW S, NEW q \in Seq(S), NEW m \in S
    PROVE  /\ Append(q, m) \in Seq(S)
           /\ \A u \in Users : ~Announces(m, u) => /\ NoneOf(Append(q, m), u) <=> NoneOf(q, u)
                                                   /\ AtMostOne(q, u) => AtMostOne(Append(q, m), u)
           /\ \A u \in Users : Announces(m, u) => /\ ~NoneOf(Append(q, m), u)
                                                  /\ NoneOf(q, u) => AtMostOne(Append(q, m), u)
<1> DEFINE a == Append(q, m)
<1>1. /\ a \in Seq(S) /\ Len(q) \in Nat
      /\ \A i \in DOMAIN q : i \in DOMAIN a /\ a[i] = q[i]
      /\ Len(q) + 1 \in DOMAIN a /\ a[Len(q) + 1] = m
      /\ \A i \in DOMAIN a : i \in DOMAIN q \/ i = Len(q) + 1
    OBVIOUS
<1> HIDE DEF a
<1>2. ASSUME NEW u \in Users, ~Announces(m, u)
      PROVE  (NoneOf(a, u) <=> NoneOf(q, u)) /\ (AtMostOne(q, u) => AtMostOne(a, u))
    BY <1>1, <1>2 DEF NoneOf, AtMostOne
<1>3. ASSUME NEW u \in Users, Announces(m, u)
      PROVE  ~NoneOf(a, u) /\ (NoneOf(q, u) => AtMostOne(a, u))
    BY <1>1, <1>3 DEF NoneOf, AtMostOne
<1> QED
    BY <1>1, <1>2, <1>3 DEF a

LEMMA OneMore ==
    ASSUME NEW S, NEW q \in Seq(S), NEW m \in S PROVE Append(q, m) \in Seq(S)
OBVIOUS

LEMMA PartOf ==
    ASSUME NEW S, NEW q \in Seq(S), NEW p \in Prefixes(q) \cup Suffixes(q)
    PROVE  /\ p \in Seq(S)
           /\ \A u \in Users : NoneOf(q, u) => NoneOf(p, u)
           /\ \A u \in Users : AtMostOne(q, u) => AtMostOne(p, u)
<1>1. CASE p \in Prefixes(q)
    <2>1. PICK n \in 0 .. Len(q) : p = SubSeq(q, 1, n)
        BY <1>1 DEF Prefixes
    <2>2. p \in Seq(S) /\ \A i \in DOMAIN p : i \in DOMAIN q /\ p[i] = q[i]
        BY <2>1
    <2> QED
        BY <2>2 DEF NoneOf, AtMostOne
<1>2. CASE p \in Suffixes(q)
    <2>1. PICK n \in 1 .. Len(q) + 1 : p = SubSeq(q, n, Len(q))
        BY <1>2 DEF Suffixes
    <2>2. p \in Seq(S) /\ Len(p) = Len(q) - n + 1 /\ Len(q) \in Nat /\ n \in Nat
        BY <2>1
    <2>3. \A i \in DOMAIN p : i \in Int /\ n - 1 + i \in DOMAIN q /\ p[i] = q[n - 1 + i]
        BY <2>1, <2>2
    <2>4. \A u \in Users : NoneOf(q, u) => NoneOf(p, u)
        BY <2>3 DEF NoneOf
    <2>5. \A u \in Users : AtMostOne(q, u) => AtMostOne(p, u)
        BY <2>2, <2>3 DEF AtMostOne
    <2> QED
        BY <2>2, <2>4, <2>5
<1> QED
    BY <1>1, <1>2

-----------------------------------------------------------------------------
(* What a step leaves alone.                                                 *)

LEMMA Kept ==
    /\ LoginOK /\ UNCHANGED loginVars => LoginOK'
    /\ LinkOK /\ UNCHANGED linkVars => LinkOK'
    /\ GateOK /\ UNCHANGED gateVars => GateOK'
    /\ UsersOK /\ UNCHANGED users => UsersOK'
    /\ AllAnnounced /\ UNCHANGED <<m2g, g2m, users, losses>> => AllAnnounced'
<1>1. LoginOK /\ UNCHANGED loginVars => LoginOK'
    BY DEF LoginOK, loginVars
<1>2. LinkOK /\ UNCHANGED linkVars => LinkOK'
    BY DEF LinkOK, linkVars
<1>3. GateOK /\ UNCHANGED gateVars => GateOK'
    BY DEF GateOK, gateVars
<1>4. UsersOK /\ UNCHANGED users => UsersOK'
    BY DEF UsersOK
<1>5. AllAnnounced /\ UNCHANGED <<m2g, g2m, users, losses>> => AllAnnounced'
    BY DEF AllAnnounced, Announced, AtMostOne, NoneOf, Announces
<1> QED
    BY <1>1, <1>2, <1>3, <1>4, <1>5

\* Later announcements have larger keys and a client keeps its user, so what was said of
\* a message stays true.
LEMMA MessagesStay ==
    ASSUME GateOK, keys' \in Nat, keys' >= keys,
           \A v \in Users : wills'[v] = wills[v] \/ wills'[v] = 0 \/ wills'[v] > keys,
           \A c \in GateConns : uid[c] # None => uid'[c] # None
    PROVE  LoginMsgs \subseteq LoginMsgs' /\ GateMsgs \subseteq GateMsgs' /\ MasterMsgs \subseteq MasterMsgs'
<1>1. ASSUME NEW key, NEW u, OpensOnly(key, u) PROVE OpensOnly(key, u)'
    BY <1>1 DEF OpensOnly, GateOK
<1>2. ASSUME NEW m \in ToGate, m.kind = "online" PROVE m.c \in GateConns
    BY <1>2 DEF ToGate
<1>3. ASSUME NEW m \in ToMaster, m.kind = "online" PROVE m.c \in GateConns
    BY <1>3 DEF ToMaster
<1>4. LoginMsgs \subseteq LoginMsgs'
    BY <1>1 DEF LoginMsgs
<1>5. GateMsgs \subseteq GateMsgs'
    BY <1>2 DEF GateMsgs
<1>6. MasterMsgs \subseteq MasterMsgs'
    BY <1>1, <1>3 DEF MasterMsgs
<1> QED
    BY <1>4, <1>5, <1>6

LEMMA QueuesStay ==
    ASSUME GateOK, keys' \in Nat, keys' >= keys,
           \A v \in Users : wills'[v] = wills[v] \/ wills'[v] = 0 \/ wills'[v] > keys,
           \A c \in GateConns : uid[c] # None => uid'[c] # None,
           l2m' \in Seq(Asks), m2l' \in Seq(LoginMsgs), m2g' \in Seq(GateMsgs), g2m' \in Seq(MasterMsgs)
    PROVE  QueuesOK'
BY MessagesStay, Wider DEF QueuesOK

LEMMA QueuesSame ==
    ASSUME GateOK, UNCHANGED gateVars,
           l2m' \in Seq(Asks), m2l' \in Seq(LoginMsgs), m2g' \in Seq(GateMsgs), g2m' \in Seq(MasterMsgs)
    PROVE  QueuesOK'
<1>1. UNCHANGED <<wills, keys, uid>>
    BY DEF gateVars
<1>2. keys' \in Nat /\ keys' >= keys
    BY <1>1 DEF GateOK
<1> QED
    BY <1>1, <1>2, QueuesStay

-----------------------------------------------------------------------------
(* The steps of the login server.                                            *)

LEMMA InitInv == Init => IInv
<1> SUFFICES ASSUME Init PROVE IInv
    OBVIOUS
<1>1. LoginOK /\ UsersOK /\ QueuesOK
    BY DEF Init, LoginOK, UsersOK, UserStates, QueuesOK
<1>2. LinkOK /\ GateOK
    BY DEF Init, LinkOK, GateOK, ClientStates
<1>3. AllAnnounced
    BY DEF Init, AllAnnounced, Announced, AtMostOne, NoneOf
<1> QED
    BY <1>1, <1>2, <1>3 DEF IInv

\* A step of the login server that touches nobody else's state.
LEMMA LoginStep ==
    ASSUME IInv, LoginOK', UNCHANGED linkVars, UNCHANGED gateVars, UNCHANGED <<m2g, g2m>>,
           UNCHANGED users, l2m' \in Seq(Asks), m2l' \in Seq(LoginMsgs)
    PROVE  IInv'
<1>1. LinkOK' /\ GateOK' /\ UsersOK' /\ AllAnnounced'
    BY Kept DEF IInv, linkVars
<1>2. QueuesOK'
    BY QueuesSame DEF IInv, QueuesOK
<1> QED
    BY <1>1, <1>2 DEF IInv

LEMMA LoginSessionsInv ==
    ASSUME IInv, NEW c \in Conns, LoginAddSession(c) \/ LoginRemoveSession(c) \/ LoginKickOut(c)
    PROVE  IInv'
<1>1. LoginOK /\ QueuesOK
    BY DEF IInv
<1>2. UNCHANGED linkVars /\ UNCHANGED gateVars /\ UNCHANGED <<l2m, m2l, m2g, g2m>> /\ UNCHANGED users
    BY DEF LoginAddSession, LoginRemoveSession, LoginKickOut, chanVars
<1>3. LoginOK'
    BY <1>1 DEF LoginOK, LoginAddSession, LoginRemoveSession, LoginKickOut
<1> QED
    BY <1>1, <1>2, <1>3, LoginStep DEF QueuesOK

LEMMA LoginUserIdAndPasswordInv ==
    ASSUME IInv, NEW c \in Conns, NEW u \in Users, LoginUserIdAndPassword(c, u) PROVE IInv'
<1>1. LoginOK /\ QueuesOK
    BY DEF IInv
<1>2. UNCHANGED linkVars /\ UNCHANGED gateVars /\ UNCHANGED <<l2m, m2l, m2g, g2m>> /\ UNCHANGED users
    BY DEF LoginUserIdAndPassword, chanVars
<1>3. [s |-> c, u |-> u] \in Asks
    BY DEF Asks
<1>4. LoginOK'
    BY <1>1, <1>3 DEF LoginOK, LoginUserIdAndPassword
<1> QED
    BY <1>1, <1>2, <1>4, LoginStep DEF QueuesOK

LEMMA LoginUserVerifyInv ==
    ASSUME IInv, NEW i \in DOMAIN asks, NEW ok \in BOOLEAN, LoginUserVerify(i, ok) PROVE IInv'
<1>1. LoginOK /\ QueuesOK
    BY DEF IInv
<1>2. asks[i] \in Asks /\ asks[i].s \in Conns
    <2>1. asks \in Seq(Asks)
        BY <1>1 DEF LoginOK
    <2>2. asks[i] \in Asks
        BY <2>1
    <2> QED
        BY <2>2 DEF Asks
<1>3. UNCHANGED linkVars /\ UNCHANGED gateVars /\ UNCHANGED <<m2l, m2g, g2m>> /\ UNCHANGED users
    BY DEF LoginUserVerify
<1>4. l2m' \in Seq(Asks)
    BY <1>1, <1>2 DEF LoginUserVerify, QueuesOK
<1>5. asks' \in Seq(Asks)
    <2>1. i \in 1 .. Len(asks) /\ asks \in Seq(Asks)
        BY <1>1 DEF LoginOK
    <2>2. SubSeq(asks, 1, i - 1) \in Seq(Asks) /\ SubSeq(asks, i + 1, Len(asks)) \in Seq(Asks)
        BY <2>1
    <2>3. asks' = SubSeq(asks, 1, i - 1) \o SubSeq(asks, i + 1, Len(asks))
        BY DEF LoginUserVerify
    <2> QED
        BY <2>2, <2>3
<1>6. kicked' \subseteq Conns
    BY <1>1, <1>2 DEF LoginOK, LoginUserVerify
<1>7. LoginOK'
    BY <1>1, <1>5, <1>6 DEF LoginOK, LoginUserVerify
<1> QED
    BY <1>1, <1>3, <1>4, <1>7, LoginStep DEF QueuesOK

LEMMA LoginUserOnlineVerifyInv ==
    ASSUME IInv, LoginUserOnlineVerify PROVE IInv'
<1>1. LoginOK /\ QueuesOK
    BY DEF IInv
<1>2. /\ m2l # <<>> /\ m2l' = Tail(m2l)
      /\ UNCHANGED linkVars /\ UNCHANGED gateVars /\ UNCHANGED <<l2m, m2g, g2m>> /\ UNCHANGED users
    BY DEF LoginUserOnlineVerify
<1>3. Head(m2l) \in LoginMsgs /\ Tail(m2l) \in Seq(LoginMsgs)
    BY <1>1, <1>2, TakenFrom DEF QueuesOK
<1>4. Head(m2l).s \in Conns
    BY <1>3 DEF LoginMsgs, ToLogin
<1>5. told' \subseteq Conns /\ kicked' \subseteq Conns /\ UNCHANGED <<conn, closing, asks, asked>>
    BY <1>1, <1>4 DEF LoginUserOnlineVerify, LoginOK
<1>6. LoginOK'
    BY <1>1, <1>5 DEF LoginOK
<1> QED
    BY <1>1, <1>2, <1>3, <1>6, LoginStep DEF QueuesOK

-----------------------------------------------------------------------------
(* The links.                                                                *)

LEMMA LoginLinkInv ==
    ASSUME IInv, LoginLinkLost \/ LoginLinkUp PROVE IInv'
<1>1. LoginOK /\ LinkOK /\ GateOK /\ UsersOK /\ QueuesOK /\ AllAnnounced
    BY DEF IInv
<1>2. UNCHANGED loginVars /\ UNCHANGED gateVars /\ UNCHANGED <<m2g, g2m>> /\ UNCHANGED users
    BY DEF LoginLinkLost, LoginLinkUp, chanVars
<1>3. LoginOK' /\ GateOK' /\ UsersOK'
    BY <1>1, <1>2, Kept
<1>4. LinkOK'
    BY <1>1 DEF LoginLinkLost, LoginLinkUp, LinkOK
<1>5. losses' = losses \/ losses' # 0
    BY <1>1 DEF LoginLinkLost, LoginLinkUp, LinkOK
<1>6. AllAnnounced'
    BY <1>1, <1>2, <1>5 DEF AllAnnounced, Announced, AtMostOne, NoneOf, Announces
<1>7. l2m' \in Seq(Asks) /\ m2l' \in Seq(LoginMsgs)
    <2>1. CASE LoginLinkLost
        <3>1. m2l' \in Prefixes(m2l) /\ l2m' \in Suffixes(l2m)
            BY <2>1 DEF LoginLinkLost
        <3> QED
            BY <1>1, <3>1, PartOf DEF QueuesOK
    <2>2. CASE LoginLinkUp
        BY <1>1, <2>2 DEF LoginLinkUp, chanVars, QueuesOK
    <2> QED
        BY <2>1, <2>2
<1>8. QueuesOK'
    BY <1>1, <1>2, <1>7, QueuesSame DEF QueuesOK
<1> QED
    BY <1>3, <1>4, <1>6, <1>8 DEF IInv

LEMMA GateLinkInv ==
    ASSUME IInv, GateLinkLost \/ GateLinkUp PROVE IInv'
<1>1. LoginOK /\ LinkOK /\ GateOK /\ UsersOK /\ QueuesOK /\ AllAnnounced
    BY DEF IInv
<1>2. UNCHANGED loginVars /\ UNCHANGED gateVars /\ UNCHANGED <<l2m, m2l>> /\ UNCHANGED users
    BY DEF GateLinkLost, GateLinkUp, chanVars
<1>3. LoginOK' /\ GateOK' /\ UsersOK'
    BY <1>1, <1>2, Kept
<1>4. LinkOK'
    <2>1. gateUp' \in BOOLEAN
        BY Zenon DEF GateLinkLost, GateLinkUp
    <2>2. loginSess' \in Nat /\ epoch' \in Nat /\ losses' \in Nat
        BY <1>1 DEF GateLinkLost, GateLinkUp, LinkOK
    <2> QED
        BY <2>1, <2>2 DEF LinkOK
<1>5. CASE GateLinkLost
    <2>1. m2g' \in Prefixes(m2g) /\ g2m' \in Suffixes(g2m) /\ losses' # 0
        BY <1>1, <1>5 DEF GateLinkLost, LinkOK
    <2>2. /\ m2g' \in Seq(GateMsgs) /\ g2m' \in Seq(MasterMsgs)
          /\ \A u \in Users : /\ NoneOf(m2g, u) => NoneOf(m2g', u)
                              /\ AtMostOne(m2g, u) => AtMostOne(m2g', u)
                              /\ NoneOf(g2m, u) => NoneOf(g2m', u)
                              /\ AtMostOne(g2m, u) => AtMostOne(g2m', u)
        BY <1>1, <2>1, PartOf DEF QueuesOK
    <2>3. QueuesOK'
        BY <1>1, <1>2, <2>2, QueuesSame DEF QueuesOK
    <2>4. AllAnnounced'
        BY <1>1, <1>2, <2>1, <2>2 DEF AllAnnounced, Announced
    <2> QED
        BY <1>3, <1>4, <2>3, <2>4 DEF IInv
<1>6. CASE GateLinkUp
    <2>1. UNCHANGED <<m2g, g2m, losses>>
        BY <1>6 DEF GateLinkUp, chanVars
    <2>2. QueuesOK'
        BY <1>1, <1>2, <2>1, QueuesSame DEF QueuesOK
    <2> QED
        BY <1>1, <1>2, <1>3, <1>4, <2>1, <2>2, Kept DEF IInv
<1> QED
    BY <1>5, <1>6

-----------------------------------------------------------------------------
(* The steps of the master server.                                           *)

\* A step of the master leaves the login server, the links and the gate alone.
LEMMA MasterStep ==
    ASSUME IInv, UNCHANGED loginVars, UNCHANGED linkVars, UNCHANGED gateVars,
           l2m' \in Seq(Asks), m2l' \in Seq(LoginMsgs), m2g' \in Seq(GateMsgs),
           g2m' \in Seq(MasterMsgs), UsersOK', AllAnnounced'
    PROVE  IInv'
<1>1. LoginOK' /\ LinkOK' /\ GateOK'
    BY Kept DEF IInv
<1>2. QueuesOK'
    BY QueuesSame DEF IInv
<1> QED
    BY <1>1, <1>2 DEF IInv

\* What the head of a queue is.
LEMMA HeadOfMaster ==
    ASSUME QueuesOK, g2m # <<>>
    PROVE  /\ Head(g2m) \in MasterMsgs /\ Tail(g2m) \in Seq(MasterMsgs) /\ Head(g2m).u \in Users
           /\ Head(g2m).kind = "will" =>
                /\ Head(g2m).s \in Conns /\ Head(g2m).ok \in BOOLEAN /\ Head(g2m).key \in Nat
                /\ Head(g2m).from \in Nat
                /\ Head(g2m).key # 0 => OpensOnly(Head(g2m).key, Head(g2m).u)
           /\ Head(g2m).kind # "will" => Head(g2m).c \in GateConns
           /\ Head(g2m).kind = "online" => uid[Head(g2m).c] # None
<1> DEFINE m == Head(g2m)
<1>1. m \in MasterMsgs /\ Tail(g2m) \in Seq(MasterMsgs)
    BY TakenFrom DEF QueuesOK
<1> HIDE DEF m
<1>2. m.u \in Users
    BY <1>1 DEF MasterMsgs, ToMaster
<1>3. m.kind = "will" => /\ m.s \in Conns /\ m.ok \in BOOLEAN /\ m.key \in Nat /\ m.from \in Nat
                         /\ m.key # 0 => OpensOnly(m.key, m.u)
    BY <1>1 DEF MasterMsgs, ToMaster
<1>4. m.kind # "will" => m.c \in GateConns
    BY <1>1 DEF MasterMsgs, ToMaster
<1>5. m.kind = "online" => uid[m.c] # None
    BY <1>1 DEF MasterMsgs
<1> QED
    BY <1>1, <1>2, <1>3, <1>4, <1>5 DEF m

LEMMA HeadOfGate ==
    ASSUME QueuesOK, m2g # <<>>
    PROVE  /\ Head(m2g) \in GateMsgs /\ Tail(m2g) \in Seq(GateMsgs) /\ Head(m2g).u \in Users
           /\ Head(m2g).kind = "will" => Head(m2g).s \in Conns /\ Head(m2g).from \in Nat
           /\ Head(m2g).kind = "online" => Head(m2g).c \in GateConns /\ uid[Head(m2g).c] # None
<1> DEFINE m == Head(m2g)
<1>1. m \in GateMsgs /\ Tail(m2g) \in Seq(GateMsgs)
    BY TakenFrom DEF QueuesOK
<1> HIDE DEF m
<1>2. m.u \in Users
    BY <1>1 DEF GateMsgs, ToGate
<1>3. m.kind = "will" => m.s \in Conns /\ m.from \in Nat
    BY <1>1 DEF GateMsgs, ToGate
<1>4. m.kind = "online" => m.c \in GateConns /\ uid[m.c] # None
    BY <1>1 DEF GateMsgs, ToGate
<1> QED
    BY <1>1, <1>2, <1>3, <1>4 DEF m

LEMMA MasterUserOnlineInv ==
    ASSUME IInv, MasterUserOnline PROVE IInv'
<1>1. LinkOK /\ UsersOK /\ QueuesOK /\ AllAnnounced
    BY DEF IInv
<1> DEFINE m == Head(l2m)
<1>2. m \in Asks /\ Tail(l2m) \in Seq(Asks) /\ l2m # <<>>
    BY <1>1, TakenFrom DEF MasterUserOnline, QueuesOK
<1>3. m.s \in Conns /\ m.u \in Users
    BY <1>2 DEF Asks
<1> DEFINE w == [kind |-> "will", s |-> m.s, u |-> m.u, from |-> loginSess]
<1> DEFINE v == Verdict(m, FALSE, 0)
<1>4. /\ l2m' = Tail(l2m) /\ g2m' = g2m
      /\ UNCHANGED loginVars /\ UNCHANGED linkVars /\ UNCHANGED gateVars
      /\ users' = IF ~Fresh(m.u) THEN users
                  ELSE [users EXCEPT ![m.u] = IF gateUp THEN "Waiting_GateServer_Reponse"
                                              ELSE "Created"]
      /\ m2g' = IF Fresh(m.u) /\ gateUp THEN Append(m2g, w) ELSE m2g
      /\ m2l' = IF Fresh(m.u) /\ gateUp THEN m2l ELSE Append(m2l, v)
    BY DEF MasterUserOnline
<1>5. w \in GateMsgs /\ w.kind = "will" /\ w.u = m.u
    BY <1>1, <1>3 DEF GateMsgs, ToGate, LinkOK
<1>6. v \in LoginMsgs
    BY <1>3 DEF Verdict, LoginMsgs, ToLogin
<1> HIDE DEF m, w, v
<1>7. UsersOK'
    BY <1>1, <1>3, <1>4 DEF UsersOK, UserStates
<1>8. m2l' \in Seq(LoginMsgs) /\ m2g' \in Seq(GateMsgs)
    BY <1>1, <1>4, <1>5, <1>6, AppendedTo DEF QueuesOK
<1>9. AllAnnounced'
    <2>1. losses' = losses
        BY <1>4 DEF linkVars
    <2>2. CASE ~Fresh(m.u)
        BY <1>1, <1>4, <2>1, <2>2, Kept
    <2>3. CASE Fresh(m.u) /\ ~gateUp
        <3>1. users' = [users EXCEPT ![m.u] = "Created"] /\ users[m.u] = "absent" /\ m2g' = m2g
            BY <1>4, <2>3 DEF Fresh
        <3> QED
            BY <1>1, <1>3, <1>4, <2>1, <3>1 DEF AllAnnounced, Announced, UsersOK
    <2>4. CASE Fresh(m.u) /\ gateUp
        <3>1. /\ users' = [users EXCEPT ![m.u] = "Waiting_GateServer_Reponse"]
              /\ users[m.u] = "absent" /\ m2g' = Append(m2g, w)
            BY <1>4, <2>4 DEF Fresh
        <3>2. ASSUME NEW u \in Users, u # m.u PROVE Announced(u)'
            <4>1. ~Announces(w, u)
                BY <1>5, <3>2 DEF Announces
            <4>2. (NoneOf(m2g', u) <=> NoneOf(m2g, u)) /\ (AtMostOne(m2g, u) => AtMostOne(m2g', u))
                BY <1>1, <1>5, <3>1, <4>1, AppendedTo DEF QueuesOK
            <4>3. users'[u] = users[u]
                BY <1>1, <1>3, <3>1, <3>2 DEF UsersOK
            <4> QED
                BY <1>1, <1>4, <2>1, <4>2, <4>3 DEF AllAnnounced, Announced
        <3>3. ASSUME NEW u \in Users, u = m.u PROVE Announced(u)'
            <4>1. Announces(w, u)
                BY <1>5, <3>3 DEF Announces
            <4>2. NoneOf(m2g, u) /\ NoneOf(g2m, u) /\ AtMostOne(g2m, u)
                BY <1>1, <3>1, <3>3 DEF AllAnnounced, Announced
            <4>3. ~NoneOf(m2g', u) /\ AtMostOne(m2g', u)
                BY <1>1, <1>5, <3>1, <4>1, <4>2, AppendedTo DEF QueuesOK
            <4>4. users'[u] = "Waiting_GateServer_Reponse"
                BY <1>1, <3>1, <3>3 DEF UsersOK
            <4> QED
                BY <1>4, <4>2, <4>3, <4>4 DEF Announced
        <3> QED
            BY <3>2, <3>3 DEF AllAnnounced
    <2> QED
        BY <2>2, <2>3, <2>4
<1> QED
    BY <1>1, <1>2, <1>4, <1>7, <1>8, <1>9, MasterStep DEF QueuesOK

LEMMA MasterUserWillLoginInv ==
    ASSUME IInv, MasterUserWillLogin PROVE IInv'
<1>1. LinkOK /\ UsersOK /\ QueuesOK /\ AllAnnounced
    BY DEF IInv
<1> DEFINE m == Head(g2m)
<1> DEFINE good == m.ok /\ m.key # 0
<1>2. g2m # <<>> /\ m.kind = "will"
    BY DEF MasterUserWillLogin
<1>3. /\ Tail(g2m) \in Seq(MasterMsgs) /\ m.u \in Users /\ m.s \in Conns
      /\ m.ok \in BOOLEAN /\ m.key \in Nat /\ (m.key # 0 => OpensOnly(m.key, m.u))
    BY <1>1, <1>2, HeadOfMaster
<1> DEFINE v == Verdict(m, good, m.key)
<1>4. v \in LoginMsgs
    <2>1. v.s = m.s /\ v.u = m.u /\ v.ok = good /\ v.key = m.key
        BY DEF Verdict
    <2>2. v \in ToLogin
        <3>1. good \in BOOLEAN
            BY Zenon
        <3> HIDE DEF m, good
        <3> QED
            BY <1>3, <3>1 DEF Verdict, ToLogin
    <2>3. v.ok => v.key # 0
        BY <2>1
    <2> HIDE DEF v, m
    <2> QED
        BY <1>3, <2>1, <2>2, <2>3 DEF LoginMsgs
<1>5. /\ g2m' = Tail(g2m) /\ UNCHANGED <<l2m, m2g>>
      /\ UNCHANGED loginVars /\ UNCHANGED linkVars /\ UNCHANGED gateVars
      /\ m2l' = m2l \/ m2l' = Append(m2l, v)
      /\ \/ users' = users /\ users[m.u] = "absent"
         \/ users' = [users EXCEPT ![m.u] = "Waiting_GateServer_Login"]
         \/ users' = [users EXCEPT ![m.u] = "absent"]
    BY DEF MasterUserWillLogin
<1> HIDE DEF m, v, good
<1>6. m2l' \in Seq(LoginMsgs)
    <2>1. m2l \in Seq(LoginMsgs)
        BY <1>1 DEF QueuesOK
    <2>2. Append(m2l, v) \in Seq(LoginMsgs)
        BY <1>4, <2>1, OneMore
    <2> QED
        BY <1>5, <2>1, <2>2
<1>7. UsersOK'
    BY <1>1, <1>3, <1>5 DEF UsersOK, UserStates
<1>8. AllAnnounced'
    <2>1. losses' = losses
        BY <1>5 DEF linkVars
    <2>2. ASSUME NEW u \in Users, u # m.u PROVE Announced(u)'
        <3>1. ~Announces(Head(g2m), u)
            BY <2>2 DEF Announces, m
        <3>2. (NoneOf(g2m', u) <=> NoneOf(g2m, u)) /\ (AtMostOne(g2m, u) => AtMostOne(g2m', u))
            BY <1>1, <1>2, <1>5, <3>1, TakenFrom DEF QueuesOK
        <3>3. users'[u] = users[u] /\ m2g' = m2g
            BY <1>1, <1>3, <1>5, <2>2 DEF UsersOK
        <3> QED
            BY <1>1, <2>1, <3>2, <3>3 DEF AllAnnounced, Announced
    <2>3. ASSUME NEW u \in Users, u = m.u PROVE Announced(u)'
        <3>1. Announces(Head(g2m), u)
            BY <1>2, <2>3 DEF Announces, m
        <3>2. /\ AtMostOne(m2g, u) /\ AtMostOne(g2m, u)
              /\ NoneOf(m2g, u) \/ NoneOf(g2m, u)
            BY <1>1 DEF AllAnnounced, Announced
        <3>3. NoneOf(g2m', u) /\ AtMostOne(g2m', u) /\ ~NoneOf(g2m, u)
            BY <1>1, <1>2, <1>5, <3>1, <3>2, TakenFrom DEF QueuesOK
        <3>4. NoneOf(m2g, u) /\ m2g' = m2g
            BY <1>5, <3>2, <3>3
        <3>5. users'[u] \in {"absent", "Waiting_GateServer_Login"}
            BY <1>1, <1>5, <2>3 DEF UsersOK
        <3> QED
            BY <3>2, <3>3, <3>4, <3>5 DEF Announced
    <2> QED
        BY <2>2, <2>3 DEF AllAnnounced
<1> QED
    BY <1>1, <1>3, <1>5, <1>6, <1>7, <1>8, MasterStep DEF QueuesOK

\* The master takes a message that is not an announcement and may send one that is none.
LEMMA NoAnnouncement ==
    ASSUME QueuesOK, AllAnnounced, g2m # <<>>, Head(g2m).kind # "will", g2m' = Tail(g2m),
           NEW m \in GateMsgs, m.kind # "will", m2g' = m2g \/ m2g' = Append(m2g, m),
           losses' = losses, \A u \in Users : users'[u] \in {users[u], "Connectted_To_GateServer"}
    PROVE  AllAnnounced' /\ m2g' \in Seq(GateMsgs) /\ g2m' \in Seq(MasterMsgs)
<1>1. m2g' \in Seq(GateMsgs) /\ g2m' \in Seq(MasterMsgs)
    <2>1. m2g \in Seq(GateMsgs) /\ g2m \in Seq(MasterMsgs)
        BY DEF QueuesOK
    <2>2. Append(m2g, m) \in Seq(GateMsgs)
        BY <2>1, OneMore
    <2>3. Tail(g2m) \in Seq(MasterMsgs)
        BY <2>1, TakenFrom
    <2> QED
        BY <2>1, <2>2, <2>3
<1>2. ASSUME NEW u \in Users PROVE Announced(u)'
    <2>1. ~Announces(Head(g2m), u) /\ ~Announces(m, u)
        BY DEF Announces
    <2>2. (NoneOf(g2m', u) <=> NoneOf(g2m, u)) /\ (AtMostOne(g2m, u) => AtMostOne(g2m', u))
        BY <2>1, TakenFrom DEF QueuesOK
    <2>3. (NoneOf(m2g', u) <=> NoneOf(m2g, u)) /\ (AtMostOne(m2g, u) => AtMostOne(m2g', u))
        <3>1. m2g \in Seq(GateMsgs)
            BY DEF QueuesOK
        <3> DEFINE a == Append(m2g, m)
        <3>2. (NoneOf(a, u) <=> NoneOf(m2g, u)) /\ (AtMostOne(m2g, u) => AtMostOne(a, u))
            BY <2>1, <3>1, AppendedTo, Zenon
        <3>3. m2g' = m2g \/ m2g' = a
            OBVIOUS
        <3> HIDE DEF a
        <3> QED
            BY <3>2, <3>3
    <2> QED
        BY <2>2, <2>3 DEF AllAnnounced, Announced
<1> QED
    BY <1>1, <1>2 DEF AllAnnounced

LEMMA MasterUserGateServerOnlineInv ==
    ASSUME IInv, MasterUserGateServerOnline PROVE IInv'
<1>1. LinkOK /\ UsersOK /\ QueuesOK /\ AllAnnounced
    BY DEF IInv
<1> DEFINE m == Head(g2m)
<1>2. g2m # <<>> /\ m.kind = "online"
    BY DEF MasterUserGateServerOnline
<1>3. m.u \in Users /\ m.c \in GateConns /\ uid[m.c] # None
    BY <1>1, <1>2, HeadOfMaster
<1> DEFINE known == users[m.u] # "absent"
<1> DEFINE w == [kind |-> "online", c |-> m.c, u |-> m.u, ok |-> known]
<1>4. w \in GateMsgs /\ w.kind # "will"
    <2>1. known \in BOOLEAN
        OBVIOUS
    <2> HIDE DEF m, known
    <2> QED
        BY <1>3, <2>1 DEF GateMsgs, ToGate
<1>5. /\ g2m' = Tail(g2m) /\ m2g' = Append(m2g, w) /\ UNCHANGED <<l2m, m2l>>
      /\ UNCHANGED loginVars /\ UNCHANGED linkVars /\ UNCHANGED gateVars
      /\ users' = users \/ users' = [users EXCEPT ![m.u] = "Connectted_To_GateServer"]
    BY DEF MasterUserGateServerOnline
<1> HIDE DEF w, known
<1>6. UsersOK' /\ \A u \in Users : users'[u] \in {users[u], "Connectted_To_GateServer"}
    BY <1>1, <1>3, <1>5 DEF UsersOK, UserStates
<1>7. losses' = losses /\ Head(g2m).kind # "will"
    BY <1>2, <1>5 DEF linkVars
<1>8. AllAnnounced' /\ m2g' \in Seq(GateMsgs) /\ g2m' \in Seq(MasterMsgs)
    BY <1>1, <1>2, <1>4, <1>5, <1>6, <1>7, NoAnnouncement
<1> QED
    BY <1>1, <1>5, <1>6, <1>8, MasterStep DEF QueuesOK

LEMMA MasterSelectLobbyServerInv ==
    ASSUME IInv, MasterSelectLobbyServer PROVE IInv'
<1>1. LinkOK /\ UsersOK /\ QueuesOK /\ AllAnnounced
    BY DEF IInv
<1> DEFINE m == Head(g2m)
<1>2. g2m # <<>> /\ m.kind = "lobby" /\ Head(g2m).kind # "will"
    BY DEF MasterSelectLobbyServer
<1>3. m.u \in Users
    BY <1>1, <1>2, HeadOfMaster
<1> DEFINE w == [kind |-> "lobby", u |-> m.u]
<1>4. w \in GateMsgs /\ w.kind # "will"
    BY <1>3 DEF GateMsgs, ToGate
<1>5. /\ g2m' = Tail(g2m) /\ (m2g' = m2g \/ m2g' = Append(m2g, w))
      /\ UNCHANGED <<l2m, m2l>> /\ users' = users
      /\ UNCHANGED loginVars /\ UNCHANGED linkVars /\ UNCHANGED gateVars
    BY DEF MasterSelectLobbyServer
<1> HIDE DEF w
<1>6. losses' = losses /\ g2m' = Tail(g2m) /\ (m2g' = m2g \/ m2g' = Append(m2g, w))
    BY <1>5 DEF linkVars, MasterSelectLobbyServer, w
<1>7. AllAnnounced' /\ m2g' \in Seq(GateMsgs) /\ g2m' \in Seq(MasterMsgs)
    BY <1>1, <1>2, <1>4, <1>5, <1>6, NoAnnouncement
<1>8. /\ UNCHANGED <<l2m, m2l>> /\ users' = users
      /\ UNCHANGED loginVars /\ UNCHANGED linkVars /\ UNCHANGED gateVars
    BY DEF MasterSelectLobbyServer
<1>9. UsersOK'
    BY <1>1, <1>8, Kept
<1> QED
    BY <1>1, <1>7, <1>8, <1>9, MasterStep DEF QueuesOK

-----------------------------------------------------------------------------
(* The steps of the gate server.                                             *)

LEMMA GateStep ==
    ASSUME IInv, UNCHANGED loginVars, UNCHANGED linkVars, UNCHANGED users,
           GateOK', QueuesOK', AllAnnounced'
    PROVE  IInv'
BY Kept DEF IInv

\* The gate sends a message that is not an announcement, or none.
LEMMA GateSays ==
    ASSUME QueuesOK, AllAnnounced, NEW S, g2m \in Seq(S), NEW m \in S, m.kind # "will",
           g2m' = g2m \/ g2m' = Append(g2m, m), UNCHANGED <<m2g, users, losses>>
    PROVE  AllAnnounced' /\ g2m' \in Seq(S)
<1> DEFINE a == Append(g2m, m)
<1>1. a \in Seq(S)
    BY OneMore
<1>2. ASSUME NEW u \in Users PROVE Announced(u)'
    <2>1. ~Announces(m, u)
        BY DEF Announces
    <2>2. (NoneOf(a, u) <=> NoneOf(g2m, u)) /\ (AtMostOne(g2m, u) => AtMostOne(a, u))
        BY <2>1, AppendedTo, Zenon
    <2>3. g2m' = g2m \/ g2m' = a
        OBVIOUS
    <2> HIDE DEF a
    <2> QED
        BY <2>2, <2>3 DEF AllAnnounced, Announced
<1>3. g2m' = g2m \/ g2m' = a
    OBVIOUS
<1> HIDE DEF a
<1> QED
    BY <1>1, <1>2, <1>3 DEF AllAnnounced

\* The gate takes a message that is not an announcement.
LEMMA GateHears ==
    ASSUME QueuesOK, AllAnnounced, m2g # <<>>, Head(m2g).kind # "will", m2g' = Tail(m2g),
           UNCHANGED <<g2m, users, losses>>
    PROVE  AllAnnounced' /\ m2g' \in Seq(GateMsgs)
<1>1. m2g \in Seq(GateMsgs) /\ Tail(m2g) \in Seq(GateMsgs)
    BY TakenFrom DEF QueuesOK
<1>2. ASSUME NEW u \in Users PROVE Announced(u)'
    <2>1. ~Announces(Head(m2g), u)
        BY DEF Announces
    <2>2. (NoneOf(m2g', u) <=> NoneOf(m2g, u)) /\ (AtMostOne(m2g, u) => AtMostOne(m2g', u))
        BY <1>1, <2>1, TakenFrom
    <2> QED
        BY <2>2 DEF AllAnnounced, Announced
<1> QED
    BY <1>1, <1>2 DEF AllAnnounced

LEMMA GateSessionsInv ==
    ASSUME IInv, NEW c \in GateConns, GateAddSession(c) \/ GateRemoveSession(c) \/ GateKickOut(c)
    PROVE  IInv'
<1>1. GateOK /\ QueuesOK /\ AllAnnounced
    BY DEF IInv
<1>2. UNCHANGED loginVars /\ UNCHANGED linkVars /\ UNCHANGED users /\ UNCHANGED chanVars
      /\ UNCHANGED <<wills, keys, uid, byUid, sendClass>>
    BY DEF GateAddSession, GateRemoveSession, GateKickOut
<1>3. /\ gone' \subseteq GateConns /\ gateClosing' \subseteq GateConns /\ gateKicked' \subseteq GateConns
    BY <1>1 DEF GateOK, GateAddSession, GateRemoveSession, GateKickOut
<1>4. /\ client' \in [GateConns -> ClientStates]
      /\ \A d \in GateConns : client'[d] = "Logined" => client[d] = "Logined"
    BY <1>1 DEF GateOK, ClientStates, GateAddSession, GateRemoveSession, GateKickOut
<1>5. GateOK'
    BY <1>1, <1>2, <1>3, <1>4 DEF GateOK
<1>6. keys' \in Nat /\ keys' >= keys
    BY <1>1, <1>2 DEF GateOK
<1>7. QueuesOK'
    BY <1>1, <1>2, <1>6, QueuesStay DEF chanVars, QueuesOK
<1>8. AllAnnounced'
    BY <1>1, <1>2, Kept DEF chanVars, linkVars
<1> QED
    BY <1>2, <1>5, <1>7, <1>8, GateStep

LEMMA GateUserWillLoginInv ==
    ASSUME IInv, GateUserWillLogin PROVE IInv'
<1>1. GateOK /\ QueuesOK /\ AllAnnounced
    BY DEF IInv
<1> DEFINE m == Head(m2g)
<1> DEFINE free == byUid[m.u] = None
<1>2. m2g # <<>> /\ m.kind = "will"
    BY DEF GateUserWillLogin
<1>3. Tail(m2g) \in Seq(GateMsgs) /\ m.u \in Users /\ m.s \in Conns /\ m.from \in Nat
    BY <1>1, <1>2, HeadOfGate
<1> DEFINE a == IF free THEN Answer(m, TRUE, IF KeyFits THEN NewKey ELSE 0) ELSE Answer(m, FALSE, 0)
<1>4. /\ m2g' = Tail(m2g) /\ g2m' = g2m \o <<a>> /\ UNCHANGED <<l2m, m2l>>
      /\ keys' = (IF free THEN keys + 1 ELSE keys)
      /\ wills' = IF free /\ wills[m.u] = 0 THEN [wills EXCEPT ![m.u] = keys + 1] ELSE wills
      /\ UNCHANGED <<client, uid, byUid, gone, gateClosing, gateKicked, sendClass>>
      /\ UNCHANGED loginVars /\ UNCHANGED linkVars /\ users' = users
    BY DEF GateUserWillLogin, KeysAfter, NewKey, AddWillConnectClientInfo, Answers
<1>5. /\ a.kind = "will" /\ a.u = m.u /\ a \in ToMaster
      /\ a.key = 0 \/ (free /\ a.key = keys + 1)
    <2>1. ASSUME NEW ok \in BOOLEAN, NEW key \in Nat
          PROVE  /\ Answer(m, ok, key) \in ToMaster
                 /\ Answer(m, ok, key).kind = "will" /\ Answer(m, ok, key).u = m.u
                 /\ Answer(m, ok, key).key = key
        <3> HIDE DEF m
        <3> QED
            BY <1>3 DEF Answer, ToMaster
    <2>2. NewKey \in Nat /\ NewKey = keys + 1
        BY <1>1 DEF NewKey, GateOK
    <2>3. CASE free /\ KeyFits
        <3>1. a = Answer(m, TRUE, NewKey)
            BY <2>3
        <3> HIDE DEF a, m
        <3> QED
            BY <2>1, <2>2, <2>3, <3>1
    <2>4. CASE free /\ ~KeyFits
        <3>1. a = Answer(m, TRUE, 0)
            BY <2>4
        <3> HIDE DEF a, m
        <3> QED
            BY <2>1, <3>1
    <2>5. CASE ~free
        <3>1. a = Answer(m, FALSE, 0)
            BY <2>5
        <3> HIDE DEF a, m
        <3> QED
            BY <2>1, <3>1
    <2> QED
        BY <2>3, <2>4, <2>5
<1>6. PICK u \in Users : u = m.u
    BY <1>3
<1>7. PICK x \in ToMaster : x = a
    BY <1>5
<1>8. /\ x.kind = "will" /\ x.u = u /\ (x.key = 0 \/ (free /\ x.key = keys + 1))
      /\ m2g' = Tail(m2g) /\ g2m' = g2m \o <<x>>
      /\ keys' = (IF free THEN keys + 1 ELSE keys)
      /\ wills' = IF free /\ wills[u] = 0 THEN [wills EXCEPT ![u] = keys + 1] ELSE wills
    BY <1>4, <1>5, <1>6, <1>7
<1> HIDE DEF free, a
<1>9. /\ keys' \in Nat /\ keys' >= keys /\ wills' \in [Users -> 0 .. keys']
      /\ \A v \in Users : v # u => wills'[v] = wills[v]
      /\ \A v \in Users : wills'[v] = wills[v] \/ wills'[v] = 0 \/ wills'[v] > keys
    <2>1. keys' \in Nat /\ keys' >= keys
        BY <1>1, <1>8 DEF GateOK
    <2>2. CASE free /\ wills[u] = 0
        <3>1. keys' = keys + 1 /\ wills' = [wills EXCEPT ![u] = keys + 1]
            BY <1>8, <2>2
        <3> QED
            BY <1>1, <2>1, <3>1 DEF GateOK
    <2>3. CASE ~(free /\ wills[u] = 0)
        <3>1. wills' = wills
            BY <1>8, <2>3
        <3> QED
            BY <1>1, <2>1, <3>1 DEF GateOK
    <2> QED
        BY <2>2, <2>3
<1>10. GateOK'
    BY <1>1, <1>4, <1>9 DEF GateOK
<1>11. x \in MasterMsgs'
    <2>1. ASSUME x.key # 0 PROVE OpensOnly(x.key, x.u)'
        <3>1. x.key = keys + 1 /\ keys' = keys + 1 /\ keys \in Nat
            BY <1>1, <1>8, <2>1 DEF GateOK
        <3>2. ASSUME NEW v \in Users, wills'[v] = x.key PROVE v = u
            BY <1>1, <1>9, <3>1, <3>2 DEF GateOK
        <3> QED
            BY <1>8, <3>1, <3>2 DEF OpensOnly
    <2> QED
        BY <1>8, <2>1 DEF MasterMsgs
<1>12. GateMsgs \subseteq GateMsgs' /\ LoginMsgs \subseteq LoginMsgs' /\ MasterMsgs \subseteq MasterMsgs'
    BY <1>1, <1>4, <1>9, MessagesStay
<1>13. g2m' = Append(g2m, x)
    <2>1. g2m \in Seq(MasterMsgs)
        BY <1>1 DEF QueuesOK
    <2> QED
        BY <1>8, <2>1
<1>14. QueuesOK'
    <2>1. l2m' \in Seq(Asks) /\ m2l' \in Seq(LoginMsgs')
        BY <1>1, <1>4, <1>12, Wider DEF QueuesOK
    <2>2. m2g' \in Seq(GateMsgs')
        BY <1>3, <1>8, <1>12, Wider
    <2>3. g2m \in Seq(MasterMsgs')
        BY <1>1, <1>12, Wider DEF QueuesOK
    <2>4. g2m' \in Seq(MasterMsgs')
        BY <1>11, <1>13, <2>3, OneMore
    <2> QED
        BY <2>1, <2>2, <2>4 DEF QueuesOK
<1>15. AllAnnounced'
    <2>1. m2g \in Seq(GateMsgs) /\ g2m \in Seq(MasterMsgs) /\ g2m \in Seq(MasterMsgs')
        BY <1>1, <1>12, Wider DEF QueuesOK
    <2>2. UNCHANGED <<users, losses>>
        BY <1>4 DEF linkVars
    <2>3. ASSUME NEW v \in Users, v # u PROVE Announced(v)'
        <3>1. ~Announces(Head(m2g), v) /\ ~Announces(x, v)
            BY <1>6, <1>8, <2>3 DEF Announces
        <3>2. (NoneOf(m2g', v) <=> NoneOf(m2g, v)) /\ (AtMostOne(m2g, v) => AtMostOne(m2g', v))
            BY <1>2, <1>8, <2>1, <3>1, TakenFrom
        <3>3. (NoneOf(g2m', v) <=> NoneOf(g2m, v)) /\ (AtMostOne(g2m, v) => AtMostOne(g2m', v))
            BY <1>11, <1>13, <2>1, <3>1, AppendedTo
        <3> QED
            BY <1>1, <2>2, <3>2, <3>3 DEF AllAnnounced, Announced
    <2>4. Announced(u)'
        <3>1. Announces(Head(m2g), u) /\ Announces(x, u)
            BY <1>2, <1>6, <1>8 DEF Announces
        <3>2. Announced(u)
            BY <1>1 DEF AllAnnounced
        <3>3. ~NoneOf(m2g, u) /\ NoneOf(m2g', u) /\ AtMostOne(m2g', u)
            BY <1>2, <1>8, <2>1, <3>1, <3>2, TakenFrom DEF Announced
        <3>4. NoneOf(g2m, u)
            BY <3>2, <3>3 DEF Announced
        <3>5. ~NoneOf(g2m', u) /\ AtMostOne(g2m', u)
            BY <1>11, <1>13, <2>1, <3>1, <3>4, AppendedTo
        <3> QED
            BY <2>2, <3>2, <3>3, <3>5 DEF Announced
    <2> QED
        BY <2>3, <2>4 DEF AllAnnounced
<1> QED
    BY <1>4, <1>10, <1>14, <1>15, GateStep

LEMMA GateUserLoginKeyInv ==
    ASSUME IInv, NEW c \in GateConns, NEW u \in Users, NEW key, GateUserLoginKey(c, u, key)
    PROVE  IInv'
<1>1. GateOK /\ QueuesOK /\ AllAnnounced
    BY DEF IInv
<1> DEFINE x == [kind |-> "online", c |-> c, u |-> u]
<1> DEFINE right == byUid[u] = None /\ wills[u] # 0 /\ wills[u] = key
<1>2. /\ wills' = wills \/ wills' = [wills EXCEPT ![u] = 0]
      /\ byUid' = byUid \/ byUid' = [byUid EXCEPT ![u] = c]
      /\ uid' = IF right THEN [uid EXCEPT ![c] = u] ELSE uid
      /\ client' = client \/ client' = [client EXCEPT ![c] = "Login_Waiting_Master_Confirm"]
      /\ g2m' = IF right THEN Append(g2m, x) ELSE g2m
      /\ gateClosing' = gateClosing \/ gateClosing' = gateClosing \cup {c}
      /\ UNCHANGED loginVars /\ UNCHANGED linkVars
      /\ UNCHANGED <<keys, gone, gateKicked, sendClass, l2m, m2l, m2g, users>>
    BY Zenon DEF GateUserLoginKey, CheckClientInfo
<1>3. u # None
    OBVIOUS
<1>4. /\ keys' \in Nat /\ keys' >= keys /\ wills' \in [Users -> 0 .. keys']
      /\ \A v \in Users : wills'[v] = wills[v] \/ wills'[v] = 0 \/ wills'[v] > keys
    BY <1>1, <1>2 DEF GateOK
<1> HIDE DEF right
<1>5. /\ uid' \in [GateConns -> Users \cup {None}]
      /\ \A d \in GateConns : uid[d] # None => uid'[d] # None
      /\ right => uid'[c] # None
    BY <1>1, <1>2, <1>3 DEF GateOK
<1>6. /\ client' \in [GateConns -> ClientStates]
      /\ \A d \in GateConns : client'[d] = "Logined" => client[d] = "Logined"
    BY <1>1, <1>2 DEF GateOK, ClientStates
<1>7. byUid' \in [Users -> GateConns \cup {None}] /\ gateClosing' \subseteq GateConns
    BY <1>1, <1>2 DEF GateOK
<1>8. GateOK'
    BY <1>1, <1>2, <1>4, <1>5, <1>6, <1>7 DEF GateOK
<1>9. GateMsgs \subseteq GateMsgs' /\ LoginMsgs \subseteq LoginMsgs' /\ MasterMsgs \subseteq MasterMsgs'
    BY <1>1, <1>4, <1>5, MessagesStay
<1>10. g2m \in Seq(MasterMsgs')
    BY <1>1, <1>9, Wider DEF QueuesOK
<1>11. x.kind # "will" /\ (right => x \in MasterMsgs')
    BY <1>5 DEF MasterMsgs, ToMaster
<1>12. /\ m2g' = m2g /\ users' = users /\ losses' = losses
       /\ l2m' = l2m /\ m2l' = m2l
    BY <1>2 DEF linkVars
<1> HIDE DEF x
<1>13. AllAnnounced' /\ g2m' \in Seq(MasterMsgs')
    <2>1. CASE right
        BY <1>1, <1>2, <1>10, <1>11, <1>12, <2>1, GateSays
    <2>2. CASE ~right
        BY <1>1, <1>2, <1>10, <1>12, <2>2, Kept
    <2> QED
        BY <2>1, <2>2
<1>14. QueuesOK'
    BY <1>1, <1>9, <1>12, <1>13, Wider DEF QueuesOK
<1> QED
    BY <1>2, <1>8, <1>13, <1>14, GateStep

LEMMA GateUserOnlineInv ==
    ASSUME IInv, GateUserOnline PROVE IInv'
<1>1. GateOK /\ QueuesOK /\ AllAnnounced
    BY DEF IInv
<1> DEFINE m == Head(m2g)
<1>2. m2g # <<>> /\ m.kind = "online" /\ Head(m2g).kind # "will"
    BY DEF GateUserOnline
<1>3. m.c \in GateConns /\ uid[m.c] # None
    BY <1>1, <1>2, HeadOfGate
<1>4. /\ m2g' = Tail(m2g)
      /\ client' = client \/ client' = [client EXCEPT ![m.c] = "Logined"]
      /\ gateKicked' = gateKicked \/ gateKicked' = gateKicked \cup {m.c}
      /\ UNCHANGED <<wills, keys, uid, byUid, gone, gateClosing, sendClass, l2m, m2l, g2m, users>>
      /\ UNCHANGED loginVars /\ UNCHANGED linkVars
    BY DEF GateUserOnline
<1> HIDE DEF m
<1>5. GateOK'
    <2>1. client' \in [GateConns -> ClientStates] /\ gateKicked' \subseteq GateConns
        BY <1>1, <1>3, <1>4 DEF GateOK, ClientStates
    <2>2. \A d \in GateConns : client'[d] = "Logined" => uid[d] # None
        BY <1>1, <1>3, <1>4 DEF GateOK
    <2> QED
        BY <1>1, <1>4, <2>1, <2>2 DEF GateOK
<1>6. losses' = losses
    BY <1>4 DEF linkVars
<1>7. AllAnnounced' /\ m2g' \in Seq(GateMsgs)
    BY <1>1, <1>2, <1>4, <1>6, GateHears
<1>8. keys' \in Nat /\ keys' >= keys
    BY <1>1, <1>4 DEF GateOK
<1>9. QueuesOK'
    BY <1>1, <1>4, <1>7, <1>8, QueuesStay DEF QueuesOK
<1> QED
    BY <1>4, <1>5, <1>7, <1>9, GateStep

LEMMA GateSelectLobbyServerInv ==
    ASSUME IInv, GateSelectLobbyServer PROVE IInv'
<1>1. GateOK /\ QueuesOK /\ AllAnnounced
    BY DEF IInv
<1>2. /\ m2g # <<>> /\ Head(m2g).kind # "will" /\ m2g' = Tail(m2g)
      /\ gateKicked' = gateKicked \cup ({byUid[Head(m2g).u]} \ {None})
      /\ UNCHANGED <<wills, keys, client, uid, byUid, gone, gateClosing, sendClass, l2m, m2l, g2m,
                     users>>
      /\ UNCHANGED loginVars /\ UNCHANGED linkVars
    BY DEF GateSelectLobbyServer
<1>3. byUid[Head(m2g).u] \in GateConns \cup {None}
    BY <1>1, <1>2, HeadOfGate DEF GateOK
<1>4. gateKicked' \subseteq GateConns
    BY <1>1, <1>2, <1>3 DEF GateOK
<1>5. GateOK'
    BY <1>1, <1>2, <1>4 DEF GateOK
<1>6. losses' = losses
    BY <1>2 DEF linkVars
<1>7. AllAnnounced' /\ m2g' \in Seq(GateMsgs)
    BY <1>1, <1>2, <1>6, GateHears
<1>8. keys' \in Nat /\ keys' >= keys
    BY <1>1, <1>2 DEF GateOK
<1>9. QueuesOK'
    BY <1>1, <1>2, <1>7, <1>8, QueuesStay DEF QueuesOK
<1> QED
    BY <1>2, <1>5, <1>7, <1>9, GateStep

LEMMA GateEnterLobbyServerInv ==
    ASSUME IInv, NEW c \in GateConns, GateEnterLobbyServer(c) PROVE IInv'
<1>1. GateOK /\ QueuesOK /\ AllAnnounced
    BY DEF IInv
<1> DEFINE x == [kind |-> "lobby", c |-> c, u |-> uid[c]]
<1>2. /\ client[c] = "Logined" /\ client' = [client EXCEPT ![c] = "Request_Lobby"]
      /\ g2m' = Append(g2m, x)
      /\ UNCHANGED <<wills, keys, uid, byUid, gone, gateClosing, gateKicked, sendClass, l2m, m2l,
                     m2g, users>>
      /\ UNCHANGED loginVars /\ UNCHANGED linkVars
    BY DEF GateEnterLobbyServer, MayEnter
<1>3. uid[c] \in Users
    BY <1>1, <1>2 DEF GateOK
<1>4. x \in MasterMsgs /\ x.kind # "will"
    BY <1>3 DEF MasterMsgs, ToMaster
<1> HIDE DEF x
<1>5. GateOK'
    <2>1. /\ client' \in [GateConns -> ClientStates]
          /\ \A d \in GateConns : client'[d] = "Logined" => client[d] = "Logined"
        BY <1>1, <1>2 DEF GateOK, ClientStates
    <2> QED
        BY <1>1, <1>2, <2>1 DEF GateOK
<1>6. losses' = losses /\ g2m \in Seq(MasterMsgs)
    BY <1>1, <1>2 DEF linkVars, QueuesOK
<1>7. PICK y \in MasterMsgs : y = x
    BY <1>4
<1>8. AllAnnounced' /\ g2m' \in Seq(MasterMsgs)
    BY <1>1, <1>2, <1>4, <1>6, <1>7, GateSays
<1>9. keys' \in Nat /\ keys' >= keys
    BY <1>1, <1>2 DEF GateOK
<1>10. QueuesOK'
    BY <1>1, <1>2, <1>8, <1>9, QueuesStay DEF QueuesOK
<1> QED
    BY <1>2, <1>5, <1>8, <1>10, GateStep

-----------------------------------------------------------------------------
(* The invariant holds in every state.                                       *)
LEMMA StepInv == IInv /\ [Next]_vars => IInv'
<1> SUFFICES ASSUME IInv, [Next]_vars PROVE IInv'
    OBVIOUS
<1>1. CASE UNCHANGED vars
    <2>1. /\ UNCHANGED loginVars /\ UNCHANGED linkVars /\ UNCHANGED gateVars /\ UNCHANGED users
          /\ UNCHANGED <<l2m, m2l, m2g, g2m>>
        BY <1>1 DEF vars, chanVars
    <2>2. LoginOK'
        BY <2>1, Kept DEF IInv
    <2> QED
        BY <2>1, <2>2, LoginStep DEF IInv, QueuesOK
<1>2. CASE Handlers
    BY <1>2, MasterUserOnlineInv, MasterUserWillLoginInv, MasterUserGateServerOnlineInv,
       MasterSelectLobbyServerInv, GateUserWillLoginInv, GateUserOnlineInv,
       GateSelectLobbyServerInv, LoginUserOnlineVerifyInv, Zenon DEF Handlers
<1>3. ASSUME NEW s \in Conns, \/ LoginAddSession(s) \/ LoginRemoveSession(s) \/ LoginKickOut(s)
                              \/ \E u \in Users : LoginUserIdAndPassword(s, u)
      PROVE  IInv'
    BY <1>3, LoginSessionsInv, LoginUserIdAndPasswordInv, Zenon
<1>4. ASSUME NEW c \in GateConns, \/ GateAddSession(c) \/ GateRemoveSession(c) \/ GateKickOut(c)
                                  \/ GateEnterLobbyServer(c)
                                  \/ \E u \in Users, key \in 0 .. keys : GateUserLoginKey(c, u, key)
      PROVE  IInv'
    BY <1>4, GateSessionsInv, GateEnterLobbyServerInv, GateUserLoginKeyInv, Zenon
<1> QED
    BY <1>1, <1>2, <1>3, <1>4, LoginUserVerifyInv, LoginLinkInv, GateLinkInv, Zenon DEF Next

THEOREM Invariance == Spec => []IInv
BY InitInv, StepInv, PTL DEF Spec

(* The variables keep their types, for every number of users, clients,       *)
(* attempts and lost links.                                                  *)
THEOREM TypeCorrect == Spec => []TypeOK
<1>1. IInv => TypeOK
    <2> SUFFICES ASSUME IInv PROVE TypeOK
        OBVIOUS
    <2>1. LoginOK /\ LinkOK /\ GateOK /\ UsersOK /\ QueuesOK
        BY DEF IInv
    <2>2. LoginMsgs \subseteq ToLogin /\ GateMsgs \subseteq ToGate /\ MasterMsgs \subseteq ToMaster
        BY DEF LoginMsgs, GateMsgs, MasterMsgs
    <2>3. l2m \in Seq(Asks) /\ m2l \in Seq(ToLogin) /\ m2g \in Seq(ToGate) /\ g2m \in Seq(ToMaster)
        BY <2>1, <2>2, Wider DEF QueuesOK
    <2>4. wills \in [Users -> Nat]
        BY <2>1 DEF GateOK
    <2> QED
        BY <2>1, <2>3, <2>4 DEF TypeOK, LoginOK, LinkOK, GateOK, UsersOK
<1> QED
    BY Invariance, <1>1, PTL

(* A key that is on its way to a user opens the gate to no other user,       *)
(* whoever asked in between and however many announcements the gate dropped. *)
THEOREM KeyIsOwn == Spec => []KeyOpensOwnUser
<1>1. IInv => KeyOpensOwnUser
    <2> SUFFICES ASSUME IInv PROVE KeyOpensOwnUser
        OBVIOUS
    <2>1. g2m \in Seq(MasterMsgs) /\ m2l \in Seq(LoginMsgs)
        BY DEF IInv, QueuesOK
    <2>2. \A i \in DOMAIN g2m : g2m[i] \in MasterMsgs
        BY <2>1
    <2>3. \A i \in DOMAIN m2l : m2l[i] \in LoginMsgs
        BY <2>1
    <2>4. ASSUME NEW i \in DOMAIN g2m, NEW v \in Users, g2m[i].kind = "will", g2m[i].key # 0,
                 wills[v] = g2m[i].key
          PROVE  v = g2m[i].u
        BY <2>2, <2>4, Zenon DEF MasterMsgs, OpensOnly
    <2>5. ASSUME NEW i \in DOMAIN m2l, NEW v \in Users, m2l[i].ok, wills[v] = m2l[i].key
          PROVE  v = m2l[i].u
        BY <2>3, <2>5, Zenon DEF LoginMsgs, OpensOnly
    <2> QED
        BY <2>4, <2>5 DEF KeyOpensOwnUser
<1> QED
    BY Invariance, <1>1, PTL

\* How many announcements a queue holds.
LEMMA HowMany ==
    ASSUME NEW S, NEW q \in Seq(S), NEW u \in Users, AtMostOne(q, u)
    PROVE  IF NoneOf(q, u) THEN Cardinality(Announcing(q, u)) = 0
           ELSE Cardinality(Announcing(q, u)) = 1
<1>1. CASE NoneOf(q, u)
    <2>1. Announcing(q, u) = {}
        BY <1>1 DEF Announcing, NoneOf, Announces
    <2> QED
        BY <1>1, <2>1, FS_EmptySet
<1>2. CASE ~NoneOf(q, u)
    <2>1. PICK i \in DOMAIN q : Announces(q[i], u)
        BY <1>2 DEF NoneOf
    <2>2. Announcing(q, u) = {i}
        BY <2>1 DEF Announcing, AtMostOne, Announces
    <2> QED
        BY <1>2, <2>2, FS_Singleton
<1> QED
    BY <1>1, <1>2

(* The master has at most one announcement of a user under way, and none of  *)
(* a user it does not know, could not announce or has already accepted; a    *)
(* user who waits has one as long as no link was lost.                       *)
THEOREM AnnouncedOnce == Spec => []OneAnnouncement
<1>1. IInv => OneAnnouncement
    <2> SUFFICES ASSUME IInv, NEW u \in Users
                 PROVE  LET n == Cardinality(Announcing(m2g, u)) + Cardinality(Announcing(g2m, u)) IN
                        /\ n <= 1
                        /\ users[u] \in {"absent", "Created", "Waiting_GateServer_Login"} => n = 0
                        /\ users[u] = "Waiting_GateServer_Reponse" /\ losses = 0 => n = 1
        BY DEF OneAnnouncement
    <2>1. Announced(u) /\ m2g \in Seq(GateMsgs) /\ g2m \in Seq(MasterMsgs)
        BY DEF IInv, AllAnnounced, QueuesOK
    <2>2. /\ IF NoneOf(m2g, u) THEN Cardinality(Announcing(m2g, u)) = 0
             ELSE Cardinality(Announcing(m2g, u)) = 1
          /\ IF NoneOf(g2m, u) THEN Cardinality(Announcing(g2m, u)) = 0
             ELSE Cardinality(Announcing(g2m, u)) = 1
        BY <2>1, HowMany DEF Announced
    <2> QED
        BY <2>1, <2>2 DEF Announced
<1> QED
    BY Invariance, <1>1, PTL

(* No message, however late, takes a user offline whom the gate was told to  *)
(* expect and the master has accepted.                                       *)
THEOREM AcceptedStay == Spec => AcceptedStays
<1> DEFINE Stays(u) == users[u] = "Waiting_GateServer_Login" =>
                            users'[u] \in {"Waiting_GateServer_Login", "Connectted_To_GateServer"}
<1>1. ASSUME IInv, [Next]_vars PROVE [\A u \in Users : Stays(u)]_vars
    <2> SUFFICES ASSUME NEW u \in Users, users[u] = "Waiting_GateServer_Login"
                 PROVE  users'[u] \in {"Waiting_GateServer_Login", "Connectted_To_GateServer"}
        OBVIOUS
    <2>1. UsersOK /\ QueuesOK /\ AllAnnounced
        BY <1>1 DEF IInv
    <2>2. CASE users' = users
        BY <2>2
    <2>3. CASE MasterUserOnline
        <3>1. Fresh(Head(l2m).u) => Head(l2m).u # u
            BY DEF Fresh
        <3> QED
            BY <2>1, <2>3, <3>1 DEF MasterUserOnline, UsersOK
    <2>4. CASE MasterUserWillLogin
        <3>1. g2m # <<>> /\ Head(g2m).kind = "will"
            BY <2>4 DEF MasterUserWillLogin
        <3>2. NoneOf(g2m, u)
            BY <2>1 DEF AllAnnounced, Announced
        <3>3. ~Announces(Head(g2m), u)
            BY <2>1, <3>1, <3>2, TakenFrom DEF QueuesOK
        <3>4. Head(g2m).u # u
            BY <3>1, <3>3 DEF Announces
        <3> QED
            BY <2>1, <2>4, <3>4 DEF MasterUserWillLogin, UsersOK
    <2>5. CASE MasterUserGateServerOnline
        BY <2>1, <2>5 DEF MasterUserGateServerOnline, UsersOK
    <2>6. users' = users \/ MasterUserOnline \/ MasterUserWillLogin \/ MasterUserGateServerOnline
        BY <1>1, Zenon DEF Next, Handlers, vars, LoginAddSession, LoginRemoveSession, LoginKickOut,
           LoginUserIdAndPassword, LoginUserVerify, LoginUserOnlineVerify, MasterSelectLobbyServer,
           GateUserWillLogin, GateAddSession, GateRemoveSession, GateUserLoginKey, GateUserOnline,
           GateEnterLobbyServer, GateSelectLobbyServer, GateKickOut, LoginLinkLost, LoginLinkUp,
           GateLinkLost, GateLinkUp
    <2> QED
        BY <2>2, <2>3, <2>4, <2>5, <2>6
<1> QED
    BY Invariance, <1>1, PTL DEF Spec, AcceptedStays
=============================================================================
