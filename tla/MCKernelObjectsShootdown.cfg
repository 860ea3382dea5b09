SPECIFICATION SmSpec
CONSTANTS
    Timer = {1}
    TmHart = {0, 1}
    Boot = 0
    Interval = {0, 1}
    Delay = {2}
    TickLen = 1
    MaxLate = 1
    RouteFails = FALSE
    InputDev = {1, 2}
    GpuDev = 3
    BoxDepth = 1
    RingSlots = 2
    MaxWork = 1
    SmHart = {0, 1}
    SmBoot = 0
    MaxEpoch = 2
    VmTask = {1, 2}
    VmSlots = 1
    Arena = 3
    VmSize = {1, 2}
    FreeSlots = 1
    ZeroBudget = 2
    FrontierAhead = 2
    DestroySent = FALSE
    ResumeEarly = FALSE
CHECK_DEADLOCK FALSE
PROPERTY SmShootdownEnds
