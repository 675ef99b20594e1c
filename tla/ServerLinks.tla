---------------------------- MODULE ServerLinks ----------------------------
(***************************************************************************)
(* How the servers find each other: the registry of the master server      *)
(* (MasterServer/LServerManager and the common packet handlers), and the   *)
(* main threads of the login servers and the account servers, one action   *)
(* per message handler.                                                    *)
(*                                                                         *)
(*   server -> master    Start_Req, Register_Server_Req1                   *)
(*   master -> login     Register_Broadcast1, Can_ConnectTo_Server_Infos   *)
(*   login -> master -> account -> master -> login    Will_Connect         *)
(*   login -> account    a connection of their own                         *)
(*                                                                         *)
(* Every server keeps one connection to the master (Connector): what waits *)
(* in its queues outlives a connection, what is on its way does not.  A    *)
(* server may be connected again before the master has heard of the loss,  *)
(* so it may own several of the master's sessions.  The packets of one     *)
(* session, its connect and its disconnect packet arrive in order, those   *)
(* of two sessions in any order (Dispatch).                                *)
(***************************************************************************)
EXTENDS Integers, Sequences, FiniteSets

CONSTANTS
    Logins,         \* servers of type E_Server_Type_Login_Server
    Accounts,       \* servers of type E_Server_Type_Account_DB_Server
    Sessions,       \* bound: sessions the master has at a time
    None,
    MaxLosses,      \* bound: connections to the master lost
    MaxCounts,      \* bound: counts sent by the servers' main loops
    MaxFails,       \* bound: connections to an account server refused
    MaxDbLosses     \* bound: connections to an account server lost

Servers == Logins \cup Accounts

ASSUME ServerLinksAssumption ==
    /\ Logins \cap Accounts = {} /\ None \notin Servers \cup Sessions
    /\ IsFiniteSet(Servers) /\ IsFiniteSet(Sessions)
    /\ MaxLosses \in Nat /\ MaxCounts \in Nat /\ MaxFails \in Nat /\ MaxDbLosses \in Nat

VARIABLES
    owner,          \* the server at the other end of a session, None when unused
    link,           \* a server's connection: its session, None while it is down
    chan,           \* what the master's main thread will be given of a session
    newUp,          \* m_mapNewUpServers
    bySession,      \* m_mapSessionToServers
    byId,           \* m_mapServers: the session of a registered server
    kicked,         \* sessions KickOutOneSession was called for
    master,         \* "runs", or "crashed" with a null pointer
    inbox,          \* a server's m_RecvedPacketQueue
    outbox,         \* a server's m_SendPacketQueue
    works,          \* LConnectorWorkManager: connections a login server wants
    opened,         \* connections made, their connect packets on the way
    linked,         \* m_mapServerIDToServer of a login server
    losses, counts, fails, dbLosses \* counts for the bounds

netVars == <<owner, link, chan>>
masterVars == <<newUp, bySession, byId, kicked, master>>
serverVars == <<inbox, outbox>>
dbVars == <<works, opened, linked>>
bounds == <<losses, counts, fails, dbLosses>>
vars == <<netVars, masterVars, serverVars, dbVars, bounds>>

Plain(kind) == [kind |-> kind, peer |-> None]
About(kind, s) == [kind |-> kind, peer |-> s]

Init ==
    /\ owner = [k \in Sessions |-> None] /\ link = [s \in Servers |-> None]
    /\ chan = [k \in Sessions |-> <<>>]
    /\ newUp = {} /\ bySession = [k \in Sessions |-> None] /\ byId = [s \in Servers |-> None]
    /\ kicked = {} /\ master = "runs"
    /\ inbox = [s \in Servers |-> <<>>] /\ outbox = [s \in Servers |-> <<>>]
    /\ works = [l \in Logins |-> [d \in Accounts |-> 0]]
    /\ opened = [l \in Logins |-> [d \in Accounts |-> 0]]
    /\ linked = [l \in Logins |-> {}]
    /\ losses = 0 /\ counts = 0 /\ fails = 0 /\ dbLosses = 0
-----------------------------------------------------------------------------
(* The connections to the master, as Connector and the master's network    *)
(* library keep them.                                                      *)

LinkUp(s, k) ==
    /\ link[s] = None /\ owner[k] = None
    /\ owner' = [owner EXCEPT ![k] = s] /\ link' = [link EXCEPT ![s] = k]
    /\ chan' = [chan EXCEPT ![k] = <<Plain("add")>>]
    /\ inbox' = [inbox EXCEPT ![s] = Append(@, Plain("connected"))]
    /\ UNCHANGED <<masterVars, outbox, dbVars, bounds>>

\* Both directions lose what is on its way; the master is given the disconnect packet,
\* and the server keeps what it has received and the announcement of its connection.
Cut(s) ==
    LET k == link[s] IN
    /\ link' = [link EXCEPT ![s] = None]
    /\ \E n \in 0 .. Len(chan[k]) :
        chan' = [chan EXCEPT ![k] = Append(SubSeq(@, 1, n), Plain("remove"))]
    /\ \E n \in 0 .. Len(inbox[s]) :
        /\ \A i \in n + 1 .. Len(inbox[s]) : inbox[s][i].kind # "connected"
        /\ inbox' = [inbox EXCEPT ![s] = SubSeq(@, 1, n)]
    /\ UNCHANGED <<owner, masterVars, outbox, dbVars, counts, fails, dbLosses>>

LinkLost(s) ==
    /\ link[s] # None /\ losses < MaxLosses
    /\ losses' = losses + 1
    /\ Cut(s)

\* The master closes a session it was told to; the packets it has received stay.
KickOut(s) ==
    /\ link[s] # None /\ link[s] \in kicked
    /\ link' = [link EXCEPT ![s] = None]
    /\ chan' = [chan EXCEPT ![link[s]] = Append(@, Plain("remove"))]
    /\ UNCHANGED <<owner, masterVars, serverVars, dbVars, bounds>>

\* The master's receive thread takes nothing more from a session that is kicked.
Send(s) ==
    /\ link[s] # None /\ outbox[s] # <<>>
    /\ outbox' = [outbox EXCEPT ![s] = Tail(@)]
    /\ chan' = IF link[s] \in kicked THEN chan
               ELSE [chan EXCEPT ![link[s]] = Append(@, Head(outbox[s]))]
    /\ UNCHANGED <<owner, link, masterVars, inbox, dbVars, bounds>>
-----------------------------------------------------------------------------
(* The master's main thread.                                               *)

\* The master's main thread is given the next packet of session k.
Given(k, kind) ==
    /\ master = "runs" /\ owner[k] # None
    /\ chan[k] # <<>> /\ Head(chan[k]).kind = kind
    /\ chan' = [chan EXCEPT ![k] = Tail(@)]

\* SendOnePacket: what is sent to a session that is gone is lost.
Reaches(k) == k \notin kicked /\ link[owner[k]] = k
Sent(k, box, m) == IF Reaches(k) THEN [box EXCEPT ![owner[k]] = Append(@, m)] ELSE box

\* AddNewUpServer
MasterAddSession(k) ==
    /\ Given(k, "add")
    /\ newUp' = newUp \cup {k}
    /\ UNCHANGED <<owner, link, bySession, byId, kicked, master, serverVars, dbVars, bounds>>

\* FindServerBySessionID looks into both maps.
Found(k) == bySession[k] # None \/ k \in newUp

MasterStartReq(k) ==
    /\ Given(k, "start")
    /\ inbox' = IF Found(k) THEN Sent(k, inbox, Plain("startRes")) ELSE inbox
    /\ UNCHANGED <<owner, link, masterVars, outbox, dbVars, bounds>>

\* AddServer refuses a server that is still registered under another session, and a
\* session that is not in m_mapNewUpServers.
AcceptsNewest(k) == k \in newUp
Accepts(k) == k \in newUp /\ byId[owner[k]] = None

\* BroadCastServerToServers
ToldOfNew(d, box) ==
    [s \in Servers |-> IF s \in Logins /\ byId[s] # None /\ Reaches(byId[s])
                       THEN Append(box[s], About("broadcast", d)) ELSE box[s]]

\* SendPacketToServerCanConnectToServerInfos, in the order of m_mapServers.
Registered == {d \in Accounts : byId[d] # None}
Infos ==
    CHOOSE q \in [1 .. Cardinality(Registered) -> {About("can", d) : d \in Registered}] :
        \A d \in Registered : \E i \in DOMAIN q : q[i].peer = d

MasterRegister(k) ==
    /\ Given(k, "register")
    /\ LET s == owner[k] IN
       /\ newUp' = newUp \ {k}
       /\ IF Accepts(k)
          THEN /\ bySession' = [bySession EXCEPT ![k] = s]
               /\ byId' = [byId EXCEPT ![s] = k]
               /\ kicked' = kicked
               /\ inbox' = IF s \in Accounts THEN ToldOfNew(s, inbox)
                           ELSE IF Reaches(k) THEN [inbox EXCEPT ![s] = @ \o Infos] ELSE inbox
          ELSE /\ kicked' = IF link[s] = k THEN kicked \cup {k} ELSE kicked
               /\ UNCHANGED <<bySession, byId, inbox>>
    /\ UNCHANGED <<owner, link, master, outbox, dbVars, bounds>>

\* Packet_SS_Server_Will_Connect_Req: passed on to the account server, or refused.
MasterWillConnectReq(k) ==
    /\ Given(k, "willReq")
    /\ LET l == owner[k]
           d == Head(chan[k]).peer
       IN inbox' = IF byId[l] = None THEN inbox
                   ELSE IF byId[d] = None THEN Sent(byId[l], inbox, About("willFail", d))
                   ELSE Sent(byId[d], inbox, About("willReq", l))
    /\ UNCHANGED <<owner, link, masterVars, outbox, dbVars, bounds>>

MasterWillConnectRes(k) ==
    /\ Given(k, "willRes")
    /\ LET l == Head(chan[k]).peer IN
       inbox' = IF byId[l] = None THEN inbox ELSE Sent(byId[l], inbox, About("willRes", owner[k]))
    /\ UNCHANGED <<owner, link, masterVars, outbox, dbVars, bounds>>

\* Packet_SS_Server_Current_Serve_Count: a session that is in no map is a null pointer.
\* The count is told to the login servers, who keep it for choosing an account server.
MasterServeCount(k) ==
    /\ Given(k, "count")
    /\ master' = IF Found(k) THEN master ELSE "crashed"
    /\ UNCHANGED <<owner, link, newUp, bySession, byId, kicked, serverVars, dbVars, bounds>>

\* RemoveServerByNetWorkSessionID, for the disconnect packet.
Unregistered(k) == IF bySession[k] = None THEN byId ELSE [byId EXCEPT ![bySession[k]] = None]

MasterRemoveSession(k) ==
    /\ master = "runs" /\ owner[k] # None
    /\ chan[k] # <<>> /\ Head(chan[k]).kind = "remove"
    /\ chan' = [chan EXCEPT ![k] = <<>>] /\ owner' = [owner EXCEPT ![k] = None]
    /\ newUp' = newUp \ {k} /\ kicked' = kicked \ {k}
    /\ byId' = Unregistered(k) /\ bySession' = [bySession EXCEPT ![k] = None]
    /\ UNCHANGED <<link, master, serverVars, dbVars, bounds>>
-----------------------------------------------------------------------------
(* The main threads of the servers.                                        *)

Takes(s, kind) ==
    /\ inbox[s] # <<>> /\ Head(inbox[s]).kind = kind
    /\ inbox' = [inbox EXCEPT ![s] = Tail(@)]
Says(s, ms) == outbox' = [outbox EXCEPT ![s] = @ \o ms]

\* The connect packet of the connector.
ServerConnected(s) ==
    /\ Takes(s, "connected")
    /\ Says(s, <<Plain("start")>>)
    /\ UNCHANGED <<netVars, masterVars, dbVars, bounds>>

\* Packet_SS_Start_Res: a login server sends its count as well.
ServerStartRes(s) ==
    /\ Takes(s, "startRes")
    /\ Says(s, IF s \in Logins THEN <<Plain("register"), Plain("count")>>
               ELSE <<Plain("register")>>)
    /\ UNCHANGED <<netVars, masterVars, dbVars, bounds>>

\* ThreadDoing sends the count from time to time, registered or not.
MainCounts(s) ==
    /\ counts < MaxCounts
    /\ counts' = counts + 1
    /\ Says(s, <<Plain("count")>>)
    /\ UNCHANGED <<netVars, masterVars, inbox, dbVars, losses, fails, dbLosses>>

\* Packet_SS_Server_Register_Broadcast1
LoginRegisterBroadcast(l) ==
    /\ Takes(l, "broadcast")
    /\ Says(l, <<About("willReq", Head(inbox[l]).peer)>>)
    /\ UNCHANGED <<netVars, masterVars, dbVars, bounds>>

\* Packet_SS_Server_Can_ConnectTo_Server_Infos: as above, unless it is connected.
AsksForConnected(l, d) == d \in linked[l]
AsksFor(l, d) == d \notin linked[l]

LoginCanConnectTo(l) ==
    /\ Takes(l, "can")
    /\ LET d == Head(inbox[l]).peer IN
       IF AsksFor(l, d) THEN Says(l, <<About("willReq", d)>>) ELSE UNCHANGED outbox
    /\ UNCHANGED <<netVars, masterVars, dbVars, bounds>>

\* Packet_SS_Server_Will_Connect_Req at the account server: its address is the answer.
AccountWillConnectReq(d) ==
    /\ Takes(d, "willReq")
    /\ Says(d, <<About("willRes", Head(inbox[d]).peer)>>)
    /\ UNCHANGED <<netVars, masterVars, dbVars, bounds>>

\* The connect works of l after it was told the address of d.
WantedAgain(l, d) == IF d \in linked[l] THEN [works EXCEPT ![l][d] = @ + 1] ELSE works
Wanted(l, d) == IF d \in linked[l] THEN works ELSE [works EXCEPT ![l][d] = @ + 1]

\* Packet_SS_Server_Will_Connect_Res: a connect work, unless it is connected.
LoginWillConnectRes(l) ==
    /\ Takes(l, "willRes")
    /\ works' = Wanted(l, Head(inbox[l]).peer)
    /\ UNCHANGED <<netVars, masterVars, outbox, opened, linked, bounds>>

LoginWillConnectFails(l) ==
    /\ Takes(l, "willFail")
    /\ UNCHANGED <<netVars, masterVars, outbox, dbVars, bounds>>
-----------------------------------------------------------------------------
(* The connections between the servers: LConnectorWorkThread and           *)
(* LLSServerManager.                                                       *)

ConnectWork(l, d) ==
    /\ works[l][d] > 0
    /\ works' = [works EXCEPT ![l][d] = @ - 1]
    /\ opened' = [opened EXCEPT ![l][d] = @ + 1]
    /\ UNCHANGED <<netVars, masterVars, serverVars, linked, bounds>>

\* A refused connect ends the work, and nobody is told.
ConnectWorkFails(l, d) ==
    /\ works[l][d] > 0 /\ fails < MaxFails
    /\ fails' = fails + 1
    /\ works' = [works EXCEPT ![l][d] = @ - 1]
    /\ UNCHANGED <<netVars, masterVars, serverVars, opened, linked, losses, counts, dbLosses>>

\* AddNewServer: a second connection to the same server is kicked out.
LoginAddServer(l, d) ==
    /\ opened[l][d] > 0
    /\ opened' = [opened EXCEPT ![l][d] = @ - 1]
    /\ linked' = [linked EXCEPT ![l] = @ \cup {d}]
    /\ UNCHANGED <<netVars, masterVars, serverVars, works, bounds>>

\* RemoveServerBySessionID; nothing asks for the connection again.
LoginRemoveServer(l, d) ==
    /\ d \in linked[l] /\ dbLosses < MaxDbLosses
    /\ dbLosses' = dbLosses + 1
    /\ linked' = [linked EXCEPT ![l] = @ \ {d}]
    /\ UNCHANGED <<netVars, masterVars, serverVars, works, opened, losses, counts, fails>>
-----------------------------------------------------------------------------
MasterThread(k) ==
    \/ MasterAddSession(k) \/ MasterStartReq(k) \/ MasterRegister(k) \/ MasterWillConnectReq(k)
    \/ MasterWillConnectRes(k) \/ MasterServeCount(k) \/ MasterRemoveSession(k)

LoginThread(l) ==
    \/ ServerConnected(l) \/ ServerStartRes(l) \/ LoginRegisterBroadcast(l)
    \/ LoginCanConnectTo(l) \/ LoginWillConnectRes(l) \/ LoginWillConnectFails(l)

AccountThread(d) == ServerConnected(d) \/ ServerStartRes(d) \/ AccountWillConnectReq(d)

NetThread(s) == Send(s) \/ KickOut(s) \/ \E k \in Sessions : LinkUp(s, k)

Next ==
    \/ \E k \in Sessions : MasterThread(k)
    \/ \E l \in Logins : LoginThread(l)
    \/ \E d \in Accounts : AccountThread(d)
    \/ \E s \in Servers : NetThread(s) \/ LinkLost(s) \/ MainCounts(s)
    \/ \E l \in Logins, d \in Accounts :
        \/ ConnectWork(l, d) \/ ConnectWorkFails(l, d)
        \/ LoginAddServer(l, d) \/ LoginRemoveServer(l, d)

\* The threads are loops that do not wait for each other.
Fairness ==
    /\ \A k \in Sessions : WF_vars(MasterThread(k))
    /\ \A l \in Logins : WF_vars(LoginThread(l))
    /\ \A d \in Accounts : WF_vars(AccountThread(d))
    /\ \A s \in Servers : WF_vars(Send(s)) /\ WF_vars(KickOut(s))
                          /\ WF_vars(\E k \in Sessions : LinkUp(s, k))
    /\ \A l \in Logins, d \in Accounts : WF_vars(ConnectWork(l, d)) /\ WF_vars(LoginAddServer(l, d))

Spec == Init /\ [][Next]_vars
FairSpec == Spec /\ Fairness
-----------------------------------------------------------------------------
PlainKinds == {"add", "start", "register", "count", "remove", "connected", "startRes"}
AboutKinds == {"willReq", "willRes", "broadcast", "can", "willFail"}
Messages == [kind : PlainKinds, peer : {None}] \cup [kind : AboutKinds, peer : Servers]

TypeOK ==
    /\ owner \in [Sessions -> Servers \cup {None}] /\ link \in [Servers -> Sessions \cup {None}]
    /\ chan \in [Sessions -> Seq(Messages)]
    /\ newUp \subseteq Sessions /\ kicked \subseteq Sessions /\ master \in {"runs", "crashed"}
    /\ bySession \in [Sessions -> Servers \cup {None}] /\ byId \in [Servers -> Sessions \cup {None}]
    /\ inbox \in [Servers -> Seq(Messages)] /\ outbox \in [Servers -> Seq(Messages)]
    /\ works \in [Logins -> [Accounts -> Nat]] /\ opened \in [Logins -> [Accounts -> Nat]]
    /\ linked \in [Logins -> SUBSET Accounts]
    /\ losses \in 0 .. MaxLosses /\ counts \in 0 .. MaxCounts /\ fails \in 0 .. MaxFails
    /\ dbLosses \in 0 .. MaxDbLosses

(* The two maps of the registry name the same servers, a session is in one of *)
(* them or in m_mapNewUpServers, and what they say of a session is said by    *)
(* the server at its other end: a server that is connected again while its    *)
(* old session is registered does not take its place, and the disconnect of   *)
(* one session never takes another one's registration away.                   *)
OneRegistration ==
    /\ \A s \in Servers : byId[s] # None => bySession[byId[s]] = s /\ owner[byId[s]] = s
    /\ \A k \in Sessions : bySession[k] # None => byId[bySession[k]] = k /\ k \notin newUp

Within(q, m) == \E i \in DOMAIN q : q[i] = m

\* Login server l has, or is about to have, a connection to account server d.
Underway(l, d) ==
    \/ d \in linked[l] \/ works[l][d] > 0 \/ opened[l][d] > 0
    \/ \E kind \in {"broadcast", "can", "willRes"} : Within(inbox[l], About(kind, d))
    \/ Within(outbox[l], About("willReq", d)) \/ Within(chan[link[l]], About("willReq", d))
    \/ Within(inbox[d], About("willReq", l))
    \/ Within(outbox[d], About("willRes", l)) \/ Within(chan[link[d]], About("willRes", l))

\* A server is registered under the connection it has.
Stands(s) == link[s] # None /\ byId[s] = link[s] /\ link[s] \notin kicked

(* Whichever of them registers first, and whatever connections to the master  *)
(* were lost before: of a login server and an account server that are both    *)
(* registered, the first is connected to the second or a message that leads   *)
(* there is under way.  A refused or a lost connection between the two is not *)
(* made up for.                                                               *)
NobodyForgotten ==
    \A l \in Logins, d \in Accounts :
        Stands(l) /\ Stands(d) /\ fails = 0 /\ dbLosses = 0 => Underway(l, d)

(* Every login server is connected to every account server in the end, though *)
(* registrations are refused while a former session is still known, and       *)
(* messages are lost with connections, unless the master has crashed.         *)
AllLinked ==
    \A l \in Logins, d \in Accounts :
        <>(d \in linked[l] \/ master = "crashed" \/ fails > 0)

(* Server_To_Server_Packet_Define.h:70: a server sends its count once it is   *)
(* registered, so the master knows whose count it is given.                   *)
CountsAreKnown == master # "crashed"
=============================================================================
