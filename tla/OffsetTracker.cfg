SPECIFICATION Spec
CONSTANTS
    MaxOffset = 4
    Concurrency = 2
    MaxCrashes = 2
INVARIANTS NothingSkipped FailedIsRedelivered UncommittedIsKept
PROPERTY EverythingHandled
CHECK_DEADLOCK FALSE
