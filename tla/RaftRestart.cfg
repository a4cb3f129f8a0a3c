SPECIFICATION RestartSpec
CONSTANTS
    Server = {s1, s2, s3}
    Proposal = {}
    Nil = Nil
    MaxTerm = 1
    MaxInFlight = 3
    MaxStopped = 0
    MaxExpired = 0
INVARIANT OneLeaderDespiteRestarts
CHECK_DEADLOCK FALSE
