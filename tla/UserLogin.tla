----------------------------- MODULE UserLogin -----------------------------
(***************************************************************************)
(* The login of a user across the processes of the cluster: the main       *)
(* threads of the login server, the master server and one gate server,     *)
(* one action per message handler.                                         *)
(*                                                                         *)
(*   client -> login -> account server -> login -> master -> gate          *)
(*   client <- login <- master <- gate          (key and address)          *)
(*   client -> gate -> master -> gate -> client (the key is shown)         *)
(*                                                                         *)
(* Each link is a TCP connection, so its messages arrive in order, and it  *)
(* may be lost with what is on its way; what a server still holds in its   *)
(* own send queue is sent when it is connected again.  Clients are free:   *)
(* they may ask twice, name any user, guess a key or leave at any time.    *)
(* Two pieces are taken as they are meant, not as they are: messages reach *)
(* the handler of their kind (SetPacketID, LPacketBase.cpp:492, does not   *)
(* count the id it writes as data), and the account server answers each    *)
(* request with yes or no (as committed it finds no database process).     *)
(***************************************************************************)
EXTENDS Integers, Sequences, FiniteSets

CONSTANTS
    Users,          \* u64UserUniqueIDInDB
    Conns,          \* sessions of the login server, each used once
    GateConns,      \* sessions of the gate server, each used once
    None,
    LoginPool,      \* m_queueClientPool of the login server
    GatePool,       \* m_queueClientPool of the gate server
    SendClasses,    \* the shortest buffers the gate's send pool may be configured with
    MaxAsks,        \* bound: passwords sent
    MaxLoss         \* bound: links lost

ASSUME UserLoginAssumption ==
    /\ None \notin Users \cup Conns \cup GateConns
    /\ LoginPool \in Nat \ {0} /\ GatePool \in Nat \ {0}
    /\ SendClasses \subseteq Nat /\ MaxAsks \in Nat /\ MaxLoss \in Nat

VARIABLES
    conn,           \* login: "new", "open" (in m_mapClientManagerBySessionID),
                    \* "refused" (no LClient was left) or "closed"
    closing,        \* login: sessions the network was told to close
    kicked,         \* login: m_mapSessionIDToKickOut
    told,           \* login: sessions that were sent the gate's address and key
    asks,           \* requests at the account server
    l2m, m2l,       \* the link of the login server with the master server
    loginSess,      \* its session id at the master, 0 while it is down
    users,          \* master: m_eUserState of m_mapUserManager
    m2g, g2m,       \* the link of the gate server with the master server
    gateUp,         \* the gate is registered at the master
    wills,          \* gate: the keys in m_mapClientWillConnectInfos
    keys,           \* gate: m_unLoginKeyWillConnect
    client,         \* gate: m_eClientState of m_mapSessionIDToClient
    uid,            \* gate: m_u64UniqueIDInDB of each client
    byUid,          \* gate: m_mapUniqueIDInDBToClient
    gone,           \* gate: sessions the network has closed
    gateClosing,    \* gate: sessions the network was told to close
    gateKicked,     \* gate: m_mapSessionIDToKickOut
    sendClass,      \* the gate's configuration
    asked, losses, epoch    \* counts for the bounds, and the next session id

loginVars == <<conn, closing, kicked, told, asks, asked>>
linkVars  == <<loginSess, gateUp, losses, epoch>>
gateVars  == <<wills, keys, client, uid, byUid, gone, gateClosing, gateKicked, sendClass>>
chanVars  == <<l2m, m2l, m2g, g2m>>
vars == <<loginVars, linkVars, gateVars, chanVars, users>>

UserStates == {"absent", "Created", "Waiting_GateServer_Reponse",
               "Waiting_GateServer_Login", "Connectted_To_GateServer"}
ClientStates == {"none", "refused", "Just_Connect", "Login_Waiting_Master_Confirm", "Logined",
                 "Request_Lobby"}

\* The lengths of the fields, as the writers and the readers lay them out.
KeyLen == 128
IpLen == 16
PortLen == 2
IdLen == 8

\* What the gate appends to its answer before the key, with the packet's header.
AnswerHead == 2 + 4 + IdLen + IdLen + 16 + IdLen

\* AddData refuses what does not fit the buffer, and the reader runs short.
KeyFits == AnswerHead + KeyLen + IpLen + PortLen <= sendClass

\* The master appends key, address and port; the login server reads an id, the
\* address, the port and the key.
AddressReadable == IdLen + IpLen + PortLen + KeyLen <= KeyLen + IpLen + PortLen

Init ==
    /\ conn = [s \in Conns |-> "new"] /\ closing = {} /\ kicked = {} /\ told = {} /\ asks = <<>>
    /\ l2m = <<>> /\ m2l = <<>> /\ m2g = <<>> /\ g2m = <<>>
    /\ loginSess = 1 /\ epoch = 1 /\ gateUp \in BOOLEAN
    /\ users = [u \in Users |-> "absent"]
    /\ wills = [u \in Users |-> 0] /\ keys = 0
    /\ client = [c \in GateConns |-> "none"] /\ uid = [c \in GateConns |-> None]
    /\ byUid = [u \in Users |-> None] /\ gone = {} /\ gateClosing = {}
    /\ gateKicked = {}
    /\ sendClass \in SendClasses /\ asked = 0 /\ losses = 0
-----------------------------------------------------------------------------
(* The login server.                                                       *)

Opened == {s \in Conns : conn[s] = "open"}

LoginAddSession(s) ==
    /\ conn[s] = "new"
    /\ LET served == Cardinality(Opened) < LoginPool IN
       /\ conn' = [conn EXCEPT ![s] = IF served THEN "open" ELSE "refused"]
       /\ closing' = IF served THEN closing ELSE closing \cup {s}
    /\ UNCHANGED <<kicked, told, asks, asked, linkVars, gateVars, chanVars, users>>

\* The client left or was kicked; the master is not told, and a time-out in
\* m_mapSessionIDToKickOut stays.
LoginRemoveSession(s) ==
    /\ conn[s] \in {"open", "refused"}
    /\ conn' = [conn EXCEPT ![s] = "closed"] /\ closing' = closing \ {s}
    /\ UNCHANGED <<kicked, told, asks, asked, linkVars, gateVars, chanVars, users>>

\* PACKET_CS_2LS_USERID_AND_PASSWORD: passed on, whatever the session asked before.
LoginUserIdAndPassword(s, u) ==
    /\ conn[s] = "open" /\ asked < MaxAsks
    /\ asks' = Append(asks, [s |-> s, u |-> u])
    /\ asked' = asked + 1
    /\ UNCHANGED <<conn, closing, kicked, told, linkVars, gateVars, chanVars, users>>

\* Packet_ADB2L_USER_VERIFY: the account server may answer a known user at once
\* and another after its database, so the answers come in any order.
LoginUserVerify(i, ok) ==
    LET m == asks[i] IN
    /\ asks' = SubSeq(asks, 1, i - 1) \o SubSeq(asks, i + 1, Len(asks))
    /\ l2m' = IF ok /\ conn[m.s] = "open" THEN Append(l2m, m) ELSE l2m
    /\ kicked' = IF ~ok /\ conn[m.s] = "open" THEN kicked \cup {m.s} ELSE kicked
    /\ UNCHANGED <<conn, closing, told, asked, linkVars, gateVars, m2l, m2g, g2m, users>>

\* Packet_M2L_USER_ONLINE_VERIFY: a success is passed on only if it can be read.
LoginUserOnlineVerify ==
    /\ m2l # <<>>
    /\ LET m == Head(m2l)
           passes == conn[m.s] = "open" /\ m.ok /\ AddressReadable
           refuses == conn[m.s] = "open" /\ ~m.ok
       IN /\ m2l' = Tail(m2l)
          /\ told' = IF passes THEN told \cup {m.s} ELSE told
          /\ kicked' = IF passes \/ refuses THEN kicked \cup {m.s} ELSE kicked
    /\ UNCHANGED <<conn, closing, asks, asked, linkVars, gateVars, l2m, m2g, g2m, users>>

\* ThreadDoing: the entry's time is up; the network is told to close the session.
LoginKickOut(s) ==
    /\ s \in kicked
    /\ kicked' = kicked \ {s}
    /\ closing' = IF conn[s] = "open" THEN closing \cup {s} ELSE closing
    /\ UNCHANGED <<conn, told, asks, asked, linkVars, gateVars, chanVars, users>>
-----------------------------------------------------------------------------
(* The master server.                                                      *)

Verdict(m, ok, key) == [s |-> m.s, u |-> m.u, ok |-> ok, key |-> key]

\* AddUser refuses a user who is registered, in whatever state.
FreshUnlessAccepted(u) == users[u] \notin {"Waiting_GateServer_Login", "Connectted_To_GateServer"}

Fresh(u) == users[u] = "absent"

\* Packet_L2M_USER_ONLINE: register the user, choose the gate and announce him.
\* When there is no gate the answer is a failure, but the user stays registered.
MasterUserOnline ==
    /\ l2m # <<>> /\ loginSess # 0
    /\ LET m == Head(l2m)
           fresh == Fresh(m.u)
       IN /\ l2m' = Tail(l2m)
          /\ users' = IF ~fresh THEN users
                      ELSE [users EXCEPT ![m.u] = IF gateUp THEN "Waiting_GateServer_Reponse"
                                                  ELSE "Created"]
          /\ m2g' = IF fresh /\ gateUp
                    THEN Append(m2g, [kind |-> "will", s |-> m.s, u |-> m.u, from |-> loginSess])
                    ELSE m2g
          /\ m2l' = IF fresh /\ gateUp THEN m2l ELSE Append(m2l, Verdict(m, FALSE, 0))
    /\ UNCHANGED <<loginVars, linkVars, gateVars, g2m>>

\* Packet_GA2M_USER_WILL_LOGIN: the gate's answer, for a login server that may
\* have been connected again under another session id since.
MasterUserWillLogin ==
    /\ g2m # <<>> /\ gateUp /\ Head(g2m).kind = "will"
    /\ LET m == Head(g2m)
           known == m.from = loginSess
           good == m.ok /\ m.key # 0
       IN /\ g2m' = Tail(g2m)
          /\ users' = IF users[m.u] = "absent" THEN users
                      ELSE [users EXCEPT ![m.u] = IF known /\ good THEN "Waiting_GateServer_Login"
                                                  ELSE "absent"]
          /\ m2l' = IF known /\ users[m.u] # "absent"
                    THEN Append(m2l, Verdict(m, good, m.key)) ELSE m2l
    /\ UNCHANGED <<loginVars, linkVars, gateVars, l2m, m2g>>

\* Packet_GA2M_USER_GATESERVER_ONLINE: confirmed for any registered user.
MasterUserGateServerOnline ==
    /\ g2m # <<>> /\ gateUp /\ Head(g2m).kind = "online"
    /\ LET m == Head(g2m)
           known == users[m.u] # "absent"
       IN /\ g2m' = Tail(g2m)
          /\ users' = IF known THEN [users EXCEPT ![m.u] = "Connectted_To_GateServer"] ELSE users
          /\ m2g' = Append(m2g, [kind |-> "online", c |-> m.c, u |-> m.u, ok |-> known])
    /\ UNCHANGED <<loginVars, linkVars, gateVars, l2m, m2l>>

\* Packet_GA2M_SELECT_LOBBYSERVER: SelectBestLobbyServerAndGameDBServer leaves the
\* server id 0, which no server has, so the gate is always sent an error, or
\* nothing for a user who is not at a gate.
MasterSelectLobbyServer ==
    /\ g2m # <<>> /\ gateUp /\ Head(g2m).kind = "lobby"
    /\ LET m == Head(g2m) IN
       /\ g2m' = Tail(g2m)
       /\ m2g' = IF users[m.u] \in {"absent", "Connectted_To_GateServer"}
                 THEN Append(m2g, [kind |-> "lobby", u |-> m.u]) ELSE m2g
    /\ UNCHANGED <<loginVars, linkVars, gateVars, l2m, m2l, users>>
-----------------------------------------------------------------------------
(* The gate server.                                                        *)

\* The key of an announcement: the counter, raised for every one that is taken.
NewKey == keys + 1

KeysKept(free) == keys

KeysAfter(free) == IF free THEN NewKey ELSE keys

AddWillConnectClientInfo(u) == IF wills[u] = 0 THEN [wills EXCEPT ![u] = NewKey] ELSE wills

\* What the gate sends back about announcement m.
Answer(m, ok, key) == [kind |-> "will", s |-> m.s, u |-> m.u, from |-> m.from,
                       ok |-> ok, key |-> key]

AnswersIfFree(m, free) == IF free THEN <<Answer(m, TRUE, IF KeyFits THEN NewKey ELSE 0)>> ELSE <<>>

Answers(m, free) == IF free THEN <<Answer(m, TRUE, IF KeyFits THEN NewKey ELSE 0)>>
                    ELSE <<Answer(m, FALSE, 0)>>

\* Packet_M2GA_USER_WILL_LOGIN: announce the user and answer with a new key.  An
\* announcement that is still there keeps its old key.
GateUserWillLogin ==
    /\ m2g # <<>> /\ Head(m2g).kind = "will"
    /\ LET m == Head(m2g)
           free == byUid[m.u] = None
       IN /\ m2g' = Tail(m2g)
          /\ keys' = KeysAfter(free)
          /\ wills' = IF free THEN AddWillConnectClientInfo(m.u) ELSE wills
          /\ g2m' = g2m \o Answers(m, free)
    /\ UNCHANGED <<loginVars, linkVars, client, uid, byUid, gone, gateClosing, gateKicked,
                   sendClass, l2m, m2l, users>>

GateClients == {c \in GateConns : client[c] \notin {"none", "refused"}}

\* OnAddSession: a session without an LClient is kicked at once.
GateAddSession(c) ==
    /\ client[c] = "none"
    /\ LET served == Cardinality(GateClients) < GatePool IN
       /\ client' = [client EXCEPT ![c] = IF served THEN "Just_Connect" ELSE "refused"]
       /\ gateClosing' = IF served THEN gateClosing ELSE gateClosing \cup {c}
    /\ UNCHANGED <<loginVars, linkVars, wills, keys, uid, byUid, gone, gateKicked, sendClass,
                   chanVars, users>>

\* OnRemoveSession calls ClientSessionDisconnect, which is empty: the client stays
\* in both maps.
GateRemoveSession(c) ==
    /\ client[c] # "none" /\ c \notin gone
    /\ gone' = gone \cup {c} /\ gateClosing' = gateClosing \ {c}
    /\ UNCHANGED <<loginVars, linkVars, wills, keys, client, uid, byUid, gateKicked, sendClass,
                   chanVars, users>>

\* The announcement is used up even by a wrong key; a client who has logged in
\* before is bound to the second user as well.
CheckClientInfo(c, u, right) ==
    /\ wills' = IF byUid[u] = None THEN [wills EXCEPT ![u] = 0] ELSE wills
    /\ byUid' = IF right THEN [byUid EXCEPT ![u] = c] ELSE byUid
    /\ uid' = IF right THEN [uid EXCEPT ![c] = u] ELSE uid

\* PACKET_C2GA_USER_LOGINKEY
GateUserLoginKey(c, u, key) ==
    /\ c \in GateClients \ gone
    /\ LET right == byUid[u] = None /\ wills[u] # 0 /\ wills[u] = key
       IN /\ CheckClientInfo(c, u, right)
          /\ client' = IF right THEN [client EXCEPT ![c] = "Login_Waiting_Master_Confirm"]
                       ELSE client
          /\ g2m' = IF right THEN Append(g2m, [kind |-> "online", c |-> c, u |-> u]) ELSE g2m
          /\ gateClosing' = IF right THEN gateClosing ELSE gateClosing \cup {c}
    /\ UNCHANGED <<loginVars, linkVars, keys, gone, gateKicked, sendClass, l2m, m2l, m2g, users>>

\* Packet_M2GA_USER_GATESERVER_ONLINE: the client is found by his session alone.
GateUserOnline ==
    /\ m2g # <<>> /\ Head(m2g).kind = "online"
    /\ LET m == Head(m2g) IN
       /\ m2g' = Tail(m2g)
       /\ client' = IF m.ok THEN [client EXCEPT ![m.c] = "Logined"] ELSE client
       /\ gateKicked' = IF m.ok THEN gateKicked ELSE gateKicked \cup {m.c}
    /\ UNCHANGED <<loginVars, linkVars, wills, keys, uid, byUid, gone, gateClosing,
                   sendClass, l2m, m2l, g2m, users>>

\* Who may ask for a lobby.
MayEnterAnyState(c) == client[c] \in ClientStates \ {"none", "refused"}

MayEnter(c) == client[c] = "Logined"

\* PACKET_C2GA_ENTER_LOBBYSERVER
GateEnterLobbyServer(c) ==
    /\ MayEnter(c) /\ c \notin gone
    /\ client' = [client EXCEPT ![c] = "Request_Lobby"]
    /\ g2m' = Append(g2m, [kind |-> "lobby", c |-> c, u |-> uid[c]])
    /\ UNCHANGED <<loginVars, linkVars, wills, keys, uid, byUid, gone, gateClosing, gateKicked,
                   sendClass, l2m, m2l, m2g, users>>

\* Packet_M2GA_SELECT_LOBBYSERVER: an error, whatever the master has chosen.
GateSelectLobbyServer ==
    /\ m2g # <<>> /\ Head(m2g).kind = "lobby"
    /\ m2g' = Tail(m2g)
    /\ gateKicked' = gateKicked \cup ({byUid[Head(m2g).u]} \ {None})
    /\ UNCHANGED <<loginVars, linkVars, wills, keys, client, uid, byUid, gone, gateClosing,
                   sendClass, l2m, m2l, g2m, users>>

\* ThreadDoing: as in the login server, but the client stays in the maps.
GateKickOut(c) ==
    /\ c \in gateKicked
    /\ gateKicked' = gateKicked \ {c}
    /\ gateClosing' = IF c \in gone THEN gateClosing ELSE gateClosing \cup {c}
    /\ UNCHANGED <<loginVars, linkVars, wills, keys, client, uid, byUid, gone, sendClass,
                   chanVars, users>>
-----------------------------------------------------------------------------
(* The links.                                                              *)

\* A client of the master keeps what is in its send queue, and what it has
\* received already.
Suffixes(q) == {SubSeq(q, n, Len(q)) : n \in 1 .. Len(q) + 1}
Prefixes(q) == {SubSeq(q, 1, n) : n \in 0 .. Len(q)}

LoginLinkLost ==
    /\ loginSess # 0 /\ losses < MaxLoss
    /\ loginSess' = 0 /\ losses' = losses + 1
    /\ m2l' \in Prefixes(m2l) /\ l2m' \in Suffixes(l2m)
    /\ UNCHANGED <<loginVars, gateUp, epoch, gateVars, m2g, g2m, users>>

LoginLinkUp ==
    /\ loginSess = 0
    /\ loginSess' = epoch + 1 /\ epoch' = epoch + 1
    /\ UNCHANGED <<loginVars, gateUp, losses, gateVars, chanVars, users>>

\* The master forgets the server, and keeps the users.
GateLinkLost ==
    /\ gateUp /\ losses < MaxLoss
    /\ gateUp' = FALSE /\ losses' = losses + 1
    /\ m2g' \in Prefixes(m2g) /\ g2m' \in Suffixes(g2m)
    /\ UNCHANGED <<loginVars, loginSess, epoch, gateVars, l2m, m2l, users>>

GateLinkUp ==
    /\ ~gateUp
    /\ gateUp' = TRUE
    /\ UNCHANGED <<loginVars, loginSess, losses, epoch, gateVars, chanVars, users>>
-----------------------------------------------------------------------------
Handlers ==
    \/ MasterUserOnline \/ MasterUserWillLogin \/ MasterUserGateServerOnline
    \/ MasterSelectLobbyServer
    \/ GateUserWillLogin \/ GateUserOnline \/ GateSelectLobbyServer
    \/ LoginUserOnlineVerify

Next ==
    \/ Handlers
    \/ \E s \in Conns : \/ LoginAddSession(s) \/ LoginRemoveSession(s) \/ LoginKickOut(s)
                        \/ \E u \in Users : LoginUserIdAndPassword(s, u)
    \/ \E i \in DOMAIN asks, ok \in BOOLEAN : LoginUserVerify(i, ok)
    \/ \E c \in GateConns : \/ GateAddSession(c) \/ GateRemoveSession(c) \/ GateKickOut(c)
                            \/ GateEnterLobbyServer(c)
                            \/ \E u \in Users, key \in 0 .. keys : GateUserLoginKey(c, u, key)
    \/ LoginLinkLost \/ LoginLinkUp \/ GateLinkLost \/ GateLinkUp

\* The main threads run on and links come back; nothing makes a client act.
Fairness == WF_vars(Handlers) /\ WF_vars(LoginLinkUp) /\ WF_vars(GateLinkUp)

Spec == Init /\ [][Next]_vars
FairSpec == Spec /\ Fairness
-----------------------------------------------------------------------------
Asks == [s : Conns, u : Users]
ToLogin == [s : Conns, u : Users, ok : BOOLEAN, key : Nat]
ToGate == [kind : {"will"}, s : Conns, u : Users, from : Nat]
          \cup [kind : {"online"}, c : GateConns, u : Users, ok : BOOLEAN]
          \cup [kind : {"lobby"}, u : Users]
ToMaster == [kind : {"will"}, s : Conns, u : Users, from : Nat, ok : BOOLEAN, key : Nat]
            \cup [kind : {"online", "lobby"}, c : GateConns, u : Users]

TypeOK ==
    /\ conn \in [Conns -> {"new", "open", "refused", "closed"}]
    /\ closing \subseteq Conns /\ kicked \subseteq Conns /\ told \subseteq Conns
    /\ asks \in Seq(Asks) /\ l2m \in Seq(Asks) /\ m2l \in Seq(ToLogin)
    /\ m2g \in Seq(ToGate) /\ g2m \in Seq(ToMaster)
    /\ users \in [Users -> UserStates]
    /\ loginSess \in Nat /\ epoch \in Nat /\ losses \in Nat /\ asked \in Nat
    /\ gateUp \in BOOLEAN
    /\ wills \in [Users -> Nat] /\ keys \in Nat
    /\ client \in [GateConns -> ClientStates] /\ uid \in [GateConns -> Users \cup {None}]
    /\ byUid \in [Users -> GateConns \cup {None}]
    /\ gone \subseteq GateConns /\ gateClosing \subseteq GateConns /\ gateKicked \subseteq GateConns
    /\ sendClass \in SendClasses

\* Announcements of user u that are on their way to the gate or back.
Announcing(q, u) == {i \in DOMAIN q : q[i].kind = "will" /\ q[i].u = u}

(* The master has at most one announcement of a user under way, and none of  *)
(* a user it does not know, could not announce, or has already accepted: a   *)
(* late answer of an earlier attempt can never decide a later one.  While no *)
(* link was lost, a user who waits has exactly one.                          *)
OneAnnouncement ==
    \A u \in Users :
        LET n == Cardinality(Announcing(m2g, u)) + Cardinality(Announcing(g2m, u)) IN
        /\ n <= 1
        /\ users[u] \in {"absent", "Created", "Waiting_GateServer_Login"} => n = 0
        /\ users[u] = "Waiting_GateServer_Reponse" /\ losses = 0 => n = 1

(* No message, however late, takes a user offline whom the gate was told to  *)
(* expect and the master has accepted.                                       *)
AcceptedStays ==
    [][\A u \in Users : users[u] = "Waiting_GateServer_Login" =>
            users'[u] \in {"Waiting_GateServer_Login", "Connectted_To_GateServer"}]_vars

(* A key that is on its way to a user opens the gate to no other user.       *)
KeyOpensOwnUser ==
    /\ \A i \in DOMAIN g2m, v \in Users :
            g2m[i].kind = "will" /\ g2m[i].key # 0 /\ wills[v] = g2m[i].key => v = g2m[i].u
    /\ \A i \in DOMAIN m2l, v \in Users : m2l[i].ok /\ wills[v] = m2l[i].key => v = m2l[i].u

(* A user whose announcement is under way is answered, unless a link is lost. *)
AnnouncementAnswered ==
    \A u \in Users : users[u] = "Waiting_GateServer_Reponse"
        ~> (users[u] # "Waiting_GateServer_Reponse" \/ losses > 0)
=============================================================================
