CONSTANTS
    NoValue = NoValue
    Member = {1, 2, 3}
    Candidates = {1, 2}
    Value = {v1}
    MaxBallotId = 2
    MaxDecree = 2
    Scenarios <- ConsensusScenarios
SPECIFICATION MCSpec
INVARIANTS
    TypeOK
    OneVotePerBallot
    PassedChosen
    HandlerAsserts
    Agreement
    PromiseKept
    RestoreSound
    LogSequential
    LearnAligned
    PassInOrder
PROPERTY
    ImplementsReplicatedLog
CHECK_DEADLOCK FALSE
