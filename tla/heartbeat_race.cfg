SPECIFICATION SpecClients
CONSTANTS
    Groups = {"clients"}
    MaxVotes = 5
    VoteSize <- MCVoteSize
    QueueSize = 3
    ReadSize = 2
    LogVotes = 2
    SaveVotes = {2}
    MaxTakeovers = 1
    Cookie = {c1}
    CatchingUp = FALSE
    SpawnThread = TRUE
    MaxTerms = 2
    MaxOthers = 2
    MaxBeats = 1
    Read = {r1, r2}
    ReadThread = {t1, t2}
    SeqThreshold = 1
    MaxSeq = 1
    MaxTime = 1
INVARIANT
    HeartbeatAlone
CHECK_DEADLOCK FALSE
