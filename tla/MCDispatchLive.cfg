CONSTANTS
    t1 = t1
    t2 = t2
    t3 = t3
    None = None
    TaskId = {t1, t2, t3}
    Root = t1
    Parent <- MCParent
    MAX_CPUS = 1
    Online = {0}
    MaxQos = 0
    Capacity = 3
    Homes <- AnyHomes
    Masks <- NoMasks
    Pinned = {}
    QosUsed = {}
    Exiting = {t1, t2, t3}
    Faulty = {}

SPECIFICATION FairSpec
PROPERTY NoStarvation
CHECK_DEADLOCK FALSE
INVARIANT WaitSeesZombie
