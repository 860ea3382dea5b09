CONSTANTS
    p1 = p1
    p2 = p2
    p3 = p3
    None = None
    NoCap = NoCap
    Pid = {p1, p2, p3}
    Message <- MCMessage
    Cap <- MCCap
    MAX_FRAME_BYTES = 1
    MAX_DEPTH = 2
    MAX_ENDPOINTS = 2
    MAX_ENDPOINTS_PER_OWNER = 2
    MaxQueuedBytesTotal = 2
    MaxQueuedBytesPerOwner = 2
    BootEndpoints = 0
    BOOT_DEPTH = 1
    CapSlots = 2
    InitDepth = 2
    Owners <- SharedOwners
    InitCaps <- SharedCaps
    Calls <- SharedCalls
    Legacy = {}
    Exits = {p1}
    MaxNow = 3
SPECIFICATION FairSpec
PROPERTY CallsReturn
CHECK_DEADLOCK FALSE
INVARIANT NoStranded
