SPECIFICATION Spec
CONSTANTS
    Server = {s1, s2, s3}
    Proposal = {p1, p2, p3}
    Nil = Nil
    MaxTerm = 3
    MaxInFlight = 1
    MaxStopped = 0
    MaxExpired = 1
SYMMETRY Symmetry
VIEW View
INVARIANTS LogMatching LeaderCompleteness CommittedOutvotesTheRest FuturesMatchLog
CHECK_DEADLOCK FALSE
CONSTRAINT CallsAndTerms
