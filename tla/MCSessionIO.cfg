SPECIFICATION Spec
CONSTANTS
    RingSize = 3
    SockCap = 2
    MaxAppend = 4
    MaxPacket = 2
    FrameCount = 1
    FrameLengths = {0, 2, 3}
    MaxFrame = 3
    MaxQueue = 2
    PartialSends = FALSE
    SplitHeader = TRUE
    RearmRace = FALSE
    BusyCache = TRUE
INVARIANTS
    
    DeafReasons
    
CHECK_DEADLOCK FALSE
