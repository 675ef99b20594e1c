SPECIFICATION FairSpec
CONSTANTS
    Packets = {p1, p2}
    SendCap = 1
    RecvPool = 2
    RecvCap = 1
    TextCap = 2
    MaxFds = 1
    MaxSend = 3
    MaxPeer = 2
    MaxBreaks = 1
    MaxFails = 1
INVARIANTS  PacketsKept FramesWhole
PROPERTIES QueuedIsSent
CHECK_DEADLOCK FALSE
