SPECIFICATION SpecMembers
CONSTANTS
    Concerns = {"configuration"}
    N = 3
    Start <- OverlappingElections
    NewMembers <- MCNewMembers
    Candidates <- MCCandidates
    MaxBallotId <- MCMaxBallotId
    MaxDecree = 3
    MaxConfig = 2
    HMember = {1}
    HAddress = {1, 2}
    HKnown <- MCKnown
    MaxOutstandingPerReplica = 1
    MaxMoves = 1
PROPERTY
    MembersJoinAlways
CHECK_DEADLOCK FALSE
