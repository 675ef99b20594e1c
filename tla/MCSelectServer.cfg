SPECIFICATION Spec
CONSTANTS
    PoolSize = 2
    Packets = {p1, p2}
    RecvPool = 2
    RecvCap = 2
    BufCap = 2
    CloseCap = 1
    MainCap = 1
    SendCap = 1
    QueueCap = 2
    WorkCap = 1
    Turn = 1
    KernelCap = 1
    MaxFrames = 2
    MaxLosses = 1
    MaxArrivals = 1
    MaxAsks = 1
    MaxMessages = 2
SYMMETRY PacketSymmetry
INVARIANTS HeardInOrder ReferencesCounted
PROPERTIES  ViewSpec
CHECK_DEADLOCK FALSE
