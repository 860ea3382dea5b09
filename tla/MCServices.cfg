SPECIFICATION Spec
CONSTANTS
    Name = {"a", "b"}
    Value = {"x"}
    Zero = "0"
    DataBlocks = 2
    JournalBlocks = 3
    BlockSectors = 2
    SectorCells = 1
    MaxTxn = 3
    MaxGen = 3
    MaxObject = 3
    MaxBlocks = 1
    MaxDepth = 2
    RenameIntoSelf = FALSE
    Key = {"k1", "k2"}
    SfValue = {"small", "large"}
    RecordCells <- RecordSizes
    SfBlocks = 2
    SfBlockCells = 2
    MaxReplay = 5
    MaxUnflushed = 3
    VirtioMaxRetries = 1
    ReadFailures = FALSE
    Tries = {0, 2}
    MaxAttempts = 2
    MaxQueue = 1
    LoadFailures = FALSE
    StreamId = {1, 2}
    StreamName = {"x"}
    Opens <- OpensOwn
    Length = {1}
    InitialCredit = 1
    Credits = {0, 1}
    Deltas = {1}
    MaxCredit = 1
    MaxBuffered = 2
    MaxStreams = 2
    MaxInFlight = 2
    Classes = 3
    BurstLimit = 2
    MaxPicks = 2
    RecordSize = {1, 2, 4}
    CapRecords = 3
    CapBytes = 4
    AllocCap = 9
    App = {"greeter", "chat", "notes"}
    PreSession = {"greeter"}
    Permitted = {"greeter", "notes"}
    Spawnable = {"notes"}
    States = {"Stopped"}
    MaxInstances = 3
    QueueDepth = 1
CHECK_DEADLOCK FALSE
INVARIANTS NxDurable NxBlocksOwned SfDurable UpFallbackGood UpRestoreExact
    MxDataAccepted MxEndsAgree JnKeepsNewest LnNoLaunchBeforeLogin
PROPERTIES NxCrashAtomic SfCrashAtomic SfUpgradeLosesNothing UpTrialEnds MxClassServed LnRequestEnds
