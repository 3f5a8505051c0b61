SPECIFICATION SpecMembers
CONSTANTS
    Concerns = {"configuration", "health"}
    N = 3
    Start <- MCStart
    NewMembers <- MCNewMembers
    Candidates <- MCCandidates
    MaxBallotId <- MCMaxBallotId
    MaxDecree = 3
    MaxConfig = 2
    HMember = {1}
    HAddress = {1, 2}
    HKnown <- MCKnown
    MaxOutstandingPerReplica = 1
    MaxMoves = 1
INVARIANTS
    ConfigurationsAgree
    RestoresConfiguration
    HealthTruthful
PROPERTY
    MembersReached
CHECK_DEADLOCK FALSE
