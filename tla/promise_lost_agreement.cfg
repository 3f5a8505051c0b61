CONSTANTS
    NoValue = NoValue
    Member = {1, 2, 3}
    Candidates = {1, 2}
    Value = {v1}
    MaxBallotId = 3
    MaxDecree = 2
    Scenarios <- TwoRestarts
SPECIFICATION MCSpecAnyRestart
INVARIANT
    Agreement
CHECK_DEADLOCK FALSE
