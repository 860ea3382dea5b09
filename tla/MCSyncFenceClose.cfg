CONSTANTS
    p1 = p1
    p2 = p2
    p3 = p3
    None = None
    NoCap = NoCap
    Pid = {p1, p2, p3}
    Message <- MCMessage
    Cap <- MCCap
    MAX_FRAME_BYTES = 0
    MAX_DEPTH = 1
    MAX_ENDPOINTS = 2
    MAX_ENDPOINTS_PER_OWNER = 2
    MaxQueuedBytesTotal = 0
    MaxQueuedBytesPerOwner = 0
    BootEndpoints = 0
    BOOT_DEPTH = 1
    CapSlots = 4
    InitDepth = 1
    Owners <- MCOwners
    InitCaps <- MCCaps
    Calls <- BothCalls
    Legacy = {}
    Exits = {p1}
    MaxNow = 2
    MAX_WAITSETS = 2
    MAX_WAITSET_MEMBERS = 2
    MAX_FENCES = 2
    MAX_FENCE_WAITERS = 2
    InitWaitsets <- MCWaitsets
    InitFences <- MCFences
    Values = {1, 2}
    Users = {p1, p2, p3}
    MaxIds = 2
SPECIFICATION PartSpec
INVARIANT NoDanglingWaiter
CHECK_DEADLOCK FALSE
