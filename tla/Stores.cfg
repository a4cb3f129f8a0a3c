SPECIFICATION Spec
CONSTANTS
    Client = {c1, c2}
    u1 = u1
    Earlier <- MCEarlier
    Url = {u1, u2}
    Ttl <- MCTtl
    Deployment <- MCDeployment
    Ops = {"save", "upsert", "get", "list", "expire", "delete", "alias", "initTables"}
    MaxCalls = 2
    MaxTime = 1
    MaxCrashes = 1
    Never <- MCNever
    None = None
SYMMETRY Symmetry
INVARIANT OneVersion
PROPERTY ImplementsDocStore
CHECK_DEADLOCK FALSE
