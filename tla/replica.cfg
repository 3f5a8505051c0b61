SPECIFICATION SpecReplica
CONSTANTS
    Parts = {"storage", "store", "writer", "reader", "stream", "votes",
             "threads", "bootstrap"}
    MaxDecree = 3
    MaxBallot = 2
    LogLen = 1
    MaxCheckpoints = 1
    MaxLogs = 1
    MaxSaves = 2
    MaxRestarts = 1
    RecordPages <- MCRecordPages
    LogPages = 1
    KeepCheckpoints = 1
    KeepLogs = 1
    Bounds <- MCStoreBounds
    Faults = {"write", "sync"}
    WSlots = 2
    WThread = {t1, t2}
    WBlock = 2
    WSector = 2
    WMaxUnits = 7
    WChunks = {2, 3}
    WFailures = 1
    WInline = {TRUE, FALSE}
    WIgnoresErr = FALSE
    RSlots = 2
    RThread = {t1, t2}
    RBlock = 2
    RSector = 2
    RSizes = {0, 3, 7, 8}
    ROffsets = {0, 3, 9}
    RWindows = {1, 3}
    RFailures = 1
    BufSize = 4
    NumWrites = 2
    NumReads = 2
    ReadCopy = 1
    HeaderLen = 2
    Chunks = {1, 2, 5}
    StreamModes <- MCStreamModes
    CVotes <- MCVotes
    CBallots <- MCBallots
    CMaxDecree = 3
    VoteLen = 2
    MaxCacheLength = 5
    Readers = {"r1", "r2"}
    LateThreads = {"main", "fetch", "copy", "r2"}
    Sources = {s1, s2}
    MaxFetches = 1
    BMember = {1, 2, 3}
    BSets <- MCMemberSets
    BCallers = {1}
    MaxCalls = 2
    MaxCrashes = 1
INVARIANTS
    CheckpointsRestore
    StoreDurable
    StreamsFaithful
    WaitsEnd
    CachedVotesKept
    CallbacksAlone
    Bootstrapped
CHECK_DEADLOCK FALSE
