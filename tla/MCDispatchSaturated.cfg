CONSTANTS
    t1 = t1
    t2 = t2
    t3 = t3
    None = None
    TaskId = {t1, t2, t3}
    Root = t1
    Parent <- MCParent
    MAX_CPUS = 3
    Online = {0, 1, 2}
    MaxQos = 1
    Capacity = 1
    Homes <- ParentAndPinnedAtBoot
    Masks <- LastOnly
    Pinned = {t3}
    QosUsed = {0}
    Exiting = {}
    Faulty = {}
SPECIFICATION Spec
INVARIANT QueuesSound
CHECK_DEADLOCK FALSE
