\* One document with two versions, the first of them long enough for a chunk; two
\* requests, of which a deletion and an entry of the log may run at once; three
\* starts and requests, at most two of them starts.
SPECIFICATION Spec
CONSTANTS
    Url = {"u1"}
    Request = {"r1", "r2"}
    MaxVersion = 2
    Long = {1}
    Scripts <- MCScripts
    Together <- MCTogether
    MaxWork = 3
    MaxStarts = 2
INVARIANTS Agrees CountIsRight
PROPERTIES JanitorRepairs
CHECK_DEADLOCK FALSE
