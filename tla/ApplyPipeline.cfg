SPECIFICATION Spec
CONSTANTS
    Caller = {c1, c2}
    Foreign = Foreign
    None = None
    MaxLog = 2
    QueueCap = 1
    ChCap = 1
INVARIANTS FutureHasOneOwner AppliedOnce OkMeansCommitted InOrderUntilOverflow
PROPERTIES CommittedGetsApplied CommittedGetsAnswered
CHECK_DEADLOCK FALSE
