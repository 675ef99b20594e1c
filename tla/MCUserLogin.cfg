SPECIFICATION FairSpec
CONSTANTS
    Users = {u1, u2}
    Conns = {s1, s2}
    GateConns = {c1}
    None = None
    LoginPool = 1
    GatePool = 1
    SendClasses = {128, 256}
    MaxAsks = 2
    MaxLoss = 1
INVARIANTS
    TypeOK
    OneAnnouncement
    KeyOpensOwnUser
PROPERTIES
    AcceptedStays
    AnnouncementAnswered
CHECK_DEADLOCK FALSE
