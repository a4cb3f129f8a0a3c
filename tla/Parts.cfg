\* Nine components that share no state, each on its small instance.
SPECIFICATION PartsSpec
CONSTANTS
    Call = {"c1", "c2"}
    Site = {"s1", "s2"}
    Served <- RobotsTxt
    Path <- Paths
    Media <- MediaPaths
    MatchLength <- AgentLength
    Datacenter <- TwoProxies
    Residential <- NoProxy
    MaxEntries = 1
    MaxTime = 1
    MaxCalls = 2
    Id = {"d1", "d2"}
    Lengths = {1, 2}
    MaxSteps = 5
    DocId = {1, 3, 6}
    Frequency = {1, 3}
    TextLength = {2, 9}
    AvgLength = 4
    BlockSize = 2
    Base = 4
    MaxPostings = 3
    File = {"f1", "f2"}
    Worker = {"w1", "w2"}
    Versions = {1, 2, 3}
    Readable = {1, 2}
    QueueCap = 1
    MaxEdits = 1
    MaxPasses = 2
    Node = {"n1", "n2", "n3"}
    Self = "n1"
    Order <- MCOrder
    TokenHash <- MCTokenHash
    Key = {1, 2, 3, 4, 5, 6, 7}
    KeyHash <- MCKeyHash
    Number = {1, 2, 3}
    Relevance <- MCRelevance
    HowMany = {0, 1, 2}
    Standard = 3
    Caller = {"c1", "c2"}
    Page = {"u1", "u2", "m"}
    Picture = {"m"}
    Query = {"go", "Go", " "}
    Folded <- MCFolded
    TopK = {0}
    Default = 1
    Score <- MCScore
    Similarity <- MCSimilarity
    ConcurrencyLimit = 0
    DefaultLimit = 1
    RRFConstant = 60
    Url <- Sites
    Seed = "r"
    Allowed <- Sites
    Links <- MCLinks
    Stored <- MCStored
    Final <- MCFinal
    Subtree <- MCSubtree
    Barren = {"h", "a1", "a2"}
    Hub = {"h"}
    Segments <- MCSegments
    AnchorScore <- MCAnchorScore
    Junk = {"j"}
    Sitemaps <- MCSitemaps
    Candidates <- MCCandidates
    MaxWalk = 1
    MaxListed = 3
    MinPriority = 1000
    MaxDepth = 4
    MaxPages = 5
    Capacity = 2
    Patience = 2
    LineKind <- MCLineKind
    MaxLines = 4
    Titled = TRUE
    MaxTokens = 3
    Overlap = 1
    Tenant = {"t1", "t2"}
    Client = {"c1", "c2"}
    PlansOf <- MCPlansOf
    QuotaOf <- MCQuotaOf
    Minute = 1
    Rate = 1
    Burst = 1
    MaxTicks = 3
    MaxRequests = 3
INVARIANTS
    SearchSeesWhatIsHeld WandIsExact PassMirrors  OnlyBarrenSkipped TextIsKept
    GrantsAreBounded BetterInBothComesFirst
PROPERTIES RulesKept KeysStay CallersReturn
CHECK_DEADLOCK FALSE
