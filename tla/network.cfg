SPECIFICATION SpecNet
CONSTANTS
    Packets = {"p1", "p2", "p3"}
    ServiceModes <- MCServiceModes
    MaxCxns = 2
    MaxConnects = 2
    MaxCloses = 1
    MaxUserOps = 3
    MaxIOs = 4
    StreamModes <- MCStreamModes
    RingSize = 4
    HeaderLen = 2
    MaxBytes = 1000
    MaxSuspends = 2
    ActorPackets = {"p1", "p2"}
    ActorModes <- MCActorModes
    MaxActors = 2
    MaxDials = 2
    MaxActorCloses = 1
    SecureModes <- MCSecureModes
    ChunkLen = 2
    Flights = 4
    PageBytes = 512
    MaxSetCookie = 1
    HostRoom = 3
    Messages <- MCMessages
    SystemPage = 3
    DefaultSize = 6
    HeadSizes = {1, 3, 7}
    RequestSizes = {1, 3, 4, 8}
    MaxRequests = 5
    LearnPairs <- MCLearnPairs
    LearnStart <- MCLearnStart
    MaxRecords = 5
    LearnDecrees = 4
    LearnBallots = 3
    RecordLens = {2}
    ServedLogPages = 1
    LearnChunk = 2
    BodyPages = 3
    KeptLogs = 1
    MaxCuts = 1
INVARIANTS
    PacketsConserved
    PacketsInOrder
    NothingStalls
    NothingDangles
    MessagesFaithful
    LearnedWhole
PROPERTY
    KeepsSendContract
CHECK_DEADLOCK FALSE
