CONSTANTS
    NoValue = NoValue
    Member = {1, 2, 3}
    Candidates = {1, 2}
    Value = {}
    MaxBallotId = 2
    MaxDecree = 2
    Scenarios <- DemotedWhileRelinquishing
SPECIFICATION MCSpec
INVARIANT
    ResendAssert
CHECK_DEADLOCK FALSE
