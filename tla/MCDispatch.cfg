SPECIFICATION Spec
CONSTANTS
    Conns = {c1, c2}
    None = none
    CacheMax = 2
    RingCaps = {1, 3}
    OutCap = 1
    LocalCap = 2
    QueueCaps = {1, 8}
    CommitEvery = 2
    LocalPool = 1
    GlobalPool = 1
    GlobalMax = 2
    MaxFrames = 1
    MaxStalls = 1
INVARIANTS TypeOK ConnectFirst FramesInOrder PacketsConserved NoWakeupLost
    NothingRefused
PROPERTY ViewSpec
CHECK_DEADLOCK FALSE
