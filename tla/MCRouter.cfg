SPECIFICATION Spec
CONSTANTS
    Pid = {p1, p2}
    None = None
    Message <- MCMessage
    MAX_FRAME_BYTES = 2
    MAX_DEPTH = 2
    MAX_ENDPOINTS = 2
    MAX_ENDPOINTS_PER_OWNER = 1
    MaxQueuedBytesTotal = 4
    MaxQueuedBytesPerOwner = 3
    BootEndpoints = 0
    BOOT_DEPTH = 1
    Depth = {0, 3}
    Waiter = {p1}
INVARIANTS
    TypeOK
    Accounting
    Budgets
    WaitersOK
PROPERTIES
    IdsStable
    ImplementsMailboxes
