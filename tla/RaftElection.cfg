SPECIFICATION Spec
CONSTANTS
    Server = {s1, s2, s3, s4, s5}
    Proposal = {}
    Nil = Nil
    MaxTerm = 1
    MaxInFlight = 3
    MaxStopped = 1
    MaxExpired = 0
SYMMETRY Symmetry
VIEW View
INVARIANTS ElectionSafety
CHECK_DEADLOCK FALSE
