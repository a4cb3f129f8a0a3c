SPECIFICATION Spec
CONSTANTS
    Server = {s1, s2, s3}
    Proposal = {p1, p2}
    Nil = Nil
    MaxTerm = 2
    MaxInFlight = 2
    MaxStopped = 0
    MaxExpired = 0
SYMMETRY Symmetry
VIEW View
INVARIANTS StateMachineSafety AckedIsDurable MatchIndexIsReal
PROPERTY CommittedIsFinal
CHECK_DEADLOCK FALSE
CONSTRAINT EveryTermHasLeader
