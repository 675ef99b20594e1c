SPECIFICATION FairSpec
CONSTANTS
    Conns = {c1, c2}
    None = none
    CacheMax = 2
    RingCaps = {2}
    OutCap = 1
    LocalCap = 2
    QueueCaps = {10}
    CommitEvery = 2
    LocalPool = 1
    GlobalPool = 1
    GlobalMax = 2
    MaxFrames = 2
    MaxStalls = 0
PROPERTIES FrameDelivered CloseReported
CHECK_DEADLOCK FALSE
