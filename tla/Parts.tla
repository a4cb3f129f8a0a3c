------------------------------- MODULE Parts -------------------------------
(***************************************************************************)
(* Nine components whose models share no state, side by side.  The first   *)
(* state chooses a part; its component then runs, with its own initial     *)
(* state and its own actions, and the others stand still.                  *)
(***************************************************************************)
EXTENDS Fetching

VARIABLE part

CONSTANTS Id, Lengths, MaxSteps
VARIABLES embedder, dimensions, precision, vectors, file, held, vxSteps
VX == INSTANCE VectorIndex WITH provider <- embedder, steps <- vxSteps
vxVars == <<embedder, dimensions, precision, vectors, file, held, vxSteps>>
vxAbsent ==
    /\ embedder = 0 /\ dimensions = 0 /\ precision = 0 /\ vectors = 0 /\ file = 0 /\ held = 0
    /\ vxSteps = 0

CONSTANTS DocId, Frequency, TextLength, AvgLength, BlockSize, Base, MaxPostings
VARIABLES blocks, tail, added, deleted, sealed
PO == INSTANCE Postings
poVars == <<blocks, tail, added, deleted, sealed>>

CONSTANTS File, Worker, Versions, Readable, QueueCap, MaxEdits, MaxPasses
VARIABLES disk, stored, indexed, pass, mode, walk, queue, worker, dealt, leftovers, calm, torn,
          edits, passes
LO == INSTANCE LocalIndexer WITH active <- dealt
loVars == <<disk, stored, indexed, pass, mode, walk, queue, worker, dealt, leftovers, calm, torn,
            edits, passes>>
loAbsent ==
    /\ disk = 0 /\ stored = 0 /\ indexed = 0 /\ pass = 0 /\ mode = 0 /\ walk = 0 /\ queue = 0
    /\ worker = 0 /\ dealt = 0 /\ leftovers = 0 /\ calm = 0 /\ torn = 0 /\ edits = 0 /\ passes = 0

\* Documents are numbers here, for their place in the order of names.
CONSTANTS Node, Self, Order, TokenHash, Key, KeyHash, Number, Relevance, HowMany, Standard
VARIABLES nodes, ring, askedNodes, answers, topK, result, sgSteps
SG == INSTANCE ScatterGather WITH
    Url <- Number, Score <- Relevance, TopK <- HowMany, Default <- Standard,
    tokens <- ring, asked <- askedNodes, steps <- sgSteps
sgVars == <<nodes, ring, askedNodes, answers, topK, result, sgSteps>>

CONSTANTS Caller, Page, Picture, Query, Folded, TopK, Default, Score, Similarity,
          ConcurrencyLimit, DefaultLimit, RRFConstant
VARIABLES provider, pagesIn, flights, waiting, searches
ME == INSTANCE Metasearch WITH
    Url <- Page, Media <- Picture, indexed <- pagesIn, flight <- flights, calls <- searches
meVars == <<provider, pagesIn, flights, waiting, searches>>
meAbsent ==
    /\ provider = "" /\ pagesIn = {} /\ flights = [f \in ME!FlightKey |-> ME!Grounded]
    /\ waiting = [c \in Caller |-> ME!NoKey] /\ searches = 0

CONSTANTS Url, Seed, Allowed, Links, Stored, Final, Subtree, Barren, Hub, Segments, AnchorScore,
          Junk, Sitemaps, Candidates, MaxWalk, MaxListed, MinPriority, MaxDepth, MaxPages,
          Capacity, Patience
VARIABLES heap, seen, closed, low, pruned, crawl, listed, pc, item, left, active, pages, cancelled,
          visited, lost
AC == INSTANCE AdaptiveCrawl WITH Path <- Segments, phase <- crawl
acVars == <<heap, seen, closed, low, pruned, crawl, listed, pc, item, left, active, pages, cancelled,
            visited, lost>>
acAbsent ==
    /\ heap = 0 /\ seen = 0 /\ closed = 0 /\ low = 0 /\ pruned = 0 /\ crawl = 0 /\ listed = 0
    /\ pc = 0 /\ item = 0 /\ left = 0 /\ active = 0 /\ pages = 0 /\ cancelled = 0
    /\ visited = 0 /\ lost = 0

CONSTANTS LineKind, MaxLines, Titled, MaxTokens, Overlap
VARIABLES lines, lineNo, startLine, buffer, tokens, breadcrumb, chunks
CK == INSTANCE Chunking WITH i <- lineNo
ckVars == <<lines, lineNo, startLine, buffer, tokens, breadcrumb, chunks>>
ckAbsent ==
    /\ lines = 0 /\ lineNo = 0 /\ startLine = 0 /\ buffer = 0 /\ tokens = 0 /\ breadcrumb = 0 /\ chunks = 0

CONSTANTS Tenant, Client, PlansOf, QuotaOf, Minute, Rate, Burst, MaxTicks, MaxRequests
VARIABLES today, requests, lastReset, bucket, admitted, passed, served, asked
QU == INSTANCE Quotas WITH MaxTime <- MaxTicks, now <- today, waiting <- admitted
quVars == <<today, requests, lastReset, bucket, admitted, passed, served, asked>>

PartsAssumption ==
    /\ VX!VectorIndexAssumption /\ PO!PostingsAssumption /\ FetchingAssumption
    /\ LO!LocalIndexerAssumption /\ SG!ScatterGatherAssumption /\ AC!AdaptiveCrawlAssumption
    /\ CK!ChunkingAssumption /\ ME!MetasearchAssumption /\ QU!QuotasAssumption

partVars == <<part, vxVars, poVars, vars, loVars, sgVars, acVars, ckVars, quVars, meVars>>

PartsInit ==
    /\ part \in {"vectors", "postings", "fetching", "local", "gather", "adaptive", "chunking", "quotas",
                 "metasearch"}
    /\ Init /\ PO!Init /\ SG!Init /\ QU!Init
    /\ IF part = "metasearch" THEN ME!Init ELSE meAbsent
    /\ IF part = "vectors" THEN VX!Init ELSE vxAbsent
    /\ IF part = "local" THEN LO!Init ELSE loAbsent
    /\ IF part = "adaptive" THEN AC!Init ELSE acAbsent
    /\ IF part = "chunking" THEN CK!Init ELSE ckAbsent

\* A step of one part.
Keeps(p, v) == IF part = p THEN TRUE ELSE UNCHANGED v
Of(p, A) ==
    /\ part = p /\ A /\ UNCHANGED part
    /\ Keeps("vectors", vxVars) /\ Keeps("postings", poVars)
    /\ Keeps("fetching", vars) /\ Keeps("local", loVars)
    /\ Keeps("gather", sgVars) /\ Keeps("adaptive", acVars) /\ Keeps("chunking", ckVars)
    /\ Keeps("quotas", quVars) /\ Keeps("metasearch", meVars)

PartsNext ==
    \/ \E id \in Id : Of("vectors", VX!Embed(id)) \/ Of("vectors", VX!DeleteVector(id))
    \/ \E p \in VX!Precision : Of("vectors", VX!SetPrecision(p))
    \/ Of("vectors", VX!AddVectorBatch) \/ Of("vectors", VX!SaveSnapshot)
    \/ Of("vectors", VX!Restart) \/ Of("vectors", VX!Rebuild)
    \/ \E id \in DocId, tf \in Frequency, len \in TextLength : Of("postings", PO!Add(id, tf, len))
    \/ Of("postings", PO!SealTail)
    \/ \E id \in DocId : Of("postings", id \notin deleted /\ PO!MarkDeleted(id))
    \/ \E c \in Call :
          \/ Of("fetching", Begin(c)) \/ Of("fetching", EnsureRobotsCached(c))
          \/ Of("fetching", Check(c)) \/ Of("fetching", Request(c))
          \/ Of("fetching", Render(c)) \/ Of("fetching", StepUp(c))
    \/ \E s \in Site : Of("fetching", RobotsAnswered(s))
    \/ Of("fetching", Tick)
    \/ \E f \in File :
          Of("local", LO!Edit(f)) \/ Of("local", LO!Walk(f)) \/ Of("local", LO!Reconcile(f))
    \/ \E w \in Worker :
          \/ Of("local", LO!Take(w)) \/ Of("local", LO!Read(w))
          \/ Of("local", LO!Index(w)) \/ Of("local", LO!Upsert(w))
    \/ Of("local", LO!Begin) \/ Of("local", LO!WalkFails) \/ Of("local", LO!List)
    \/ Of("local", LO!Reconciled) \/ Of("local", LO!WalkFailed) \/ Of("local", LO!Exit)
    \/ \E n \in Node :
          \/ Of("gather", SG!AddNode(n)) \/ Of("gather", SG!RemoveNode(n))
          \/ Of("gather", SG!ShardAnswers(n))
    \/ \E k \in HowMany : Of("gather", SG!ScatterGatherSearch(k))
    \/ Of("gather", SG!Reduce)
    \/ Of("adaptive", AC!EnqueueListed) \/ Of("adaptive", AC!StartWorkers)
    \/ Of("adaptive", AC!Cancel) \/ Of("adaptive", AC!Watch) \/ Of("adaptive", AC!End)
    \/ \E w \in Worker :
          \/ Of("adaptive", AC!LimitReached(w)) \/ Of("adaptive", AC!Take(w))
          \/ Of("adaptive", AC!FindNothing(w)) \/ Of("adaptive", AC!Quiesce(w))
          \/ Of("adaptive", AC!Skip(w)) \/ Of("adaptive", AC!Begin(w)) \/ Of("adaptive", AC!Fail(w))
          \/ Of("adaptive", AC!NotModified(w)) \/ Of("adaptive", AC!Fetch(w))
          \/ Of("adaptive", AC!EnqueueLink(w)) \/ Of("adaptive", AC!Record(w))
          \/ Of("adaptive", AC!Count(w)) \/ Of("adaptive", AC!Leave(w))
    \/ Of("chunking", CK!WindowFull) \/ Of("chunking", CK!GiantLine)
    \/ Of("chunking", CK!AddLine) \/ Of("chunking", CK!Return)
    \/ Of("quotas", QU!Tick)
    \/ \E t \in Tenant, p \in DOMAIN QuotaOf, c \in Client : Of("quotas", QU!AskTenant(t, p, c))
    \/ \E n \in 1..Len(admitted) : Of("quotas", QU!AskBucket(n))
    \/ \E c \in Caller : Of("metasearch", ME!Search(c)) \/ Of("metasearch", ME!Leave(c))
    \/ \E f \in ME!FlightKey :
          \/ Of("metasearch", ME!ProviderAnswers(f)) \/ Of("metasearch", ME!StartFetch(f))
          \/ Of("metasearch", ME!PageFetched(f)) \/ Of("metasearch", ME!RankPages(f))
          \/ Of("metasearch", ME!Fuse(f)) \/ Of("metasearch", ME!Return(f))
    \/ \E u \in Page : Of("metasearch", ME!Elsewhere(u))

PartsSpec == PartsInit /\ [][PartsNext]_partVars /\ ME!Fairness

-----------------------------------------------------------------------------
(* The properties of the components; each says in its module what it is *)
(* about.  RulesKept is that of Fetching itself.                        *)

\* A search sees the vectors that are held (VectorIndex).
SearchSeesWhatIsHeld == part = "vectors" => VX!SearchSeesWhatIsHeld
\* The search that skips blocks finds what one that skips none finds (Postings).
WandIsExact == part = "postings" => PO!WandIsExact
\* A calm pass mirrors the directory (LocalIndexer).
PassMirrors == part = "local" => LO!PassMirrors
\* A key moves only with the node that joins or leaves (ScatterGather).
KeysStay == SG!KeysStay
\* The answer of the cluster is that of its shards (ScatterGather).
GatherIsExact == SG!GatherIsExact
\* Only barren subtrees are given up (AdaptiveCrawl).
OnlyBarrenSkipped == part = "adaptive" => AC!OnlyBarrenSkipped
\* The chunks hold the text (Chunking).
TextIsKept == part = "chunking" => CK!TextIsKept
\* No client is granted more than its bucket and its quota (Quotas).
GrantsAreBounded == QU!GrantsAreBounded
\* The fusion of two rankings respects both (Metasearch).
BetterInBothComesFirst == ME!BetterInBothComesFirst
\* Whoever waits for a shared search returns (Metasearch).
CallersReturn == ME!CallersReturn
============================================================================
