CONSTANTS
    t1 = t1
    t2 = t2
    t3 = t3
    o1 = o1
    o2 = o2
    Thread = {t1, t2, t3}
    Modes <- LockModes
    Waits = {"try", "timed", "forever"}
    MaxLockCalls = 4
    PoolThread = {t1, t2, t3}
    Object = {o1, o2}
    Uses <- ObjectUses
    PoolModes <- ObjectModes
    PoolWaits = {"timed", "forever"}
    MaxEvents = 2
    MaxPoolCalls = 4
    ExThread = {t1, t2, t3}
    ExFlags <- Flags
    ExWaits = {"try", "timed", "forever"}
    MaxExCalls = 4
    StackThread = {t1, t2}
    StackNode = {1, 2}
    AllocUnits = 2
    StackModes <- StacksOf
    StackWaits = {"no", "timed", "forever"}
    MaxStackSpins = 1
    StackGrowth = {1}
    QueueThread = {t1, t2}
    QueueNode = {1, 2, 3, 4}
    QueueUnits = 2
    QueueModes <- QueuesOf
    QueueWaits = {"no", "timed", "forever"}
    QueueSpins = 1
    QueueGrowth = {2}
    MultiModes <- WaitsFor
    MultiThread = {t1, t2}
SPECIFICATION SpecLF
INVARIANTS
    LocksExclude
    WaitersWoken
    EventInOnePlace
    ContentsKept
    ReportsWhatItDid
CHECK_DEADLOCK FALSE
