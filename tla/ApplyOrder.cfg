SPECIFICATION Spec
CONSTANTS
    Caller = {c1}
    Foreign = Foreign
    None = None
    MaxLog = 3
    QueueCap = 1
    ChCap = 1
INVARIANT AppliedInOrder
CHECK_DEADLOCK FALSE
