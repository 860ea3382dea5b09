CONSTANTS
    t1 = t1
    t2 = t2
    t3 = t3
    None = None
    TaskId = {t1, t2, t3}
    Root = t1
    Parent <- MCParent
    MAX_CPUS = 2
    Online = {0, 1}
    MaxQos = 0
    Capacity = 3
    Homes <- AnyHomes
    Masks <- BootOrAll
    Pinned = {t1, t2, t3}
    QosUsed = {}
    Exiting = {t1, t2, t3}
    Faulty = {t1, t2, t3}
SYMMETRY Siblings
SPECIFICATION Spec
INVARIANTS TablesAgree NoTaskLost
CHECK_DEADLOCK FALSE
