# WebLimbAI in TLA+

This directory holds TLA+ models of WebLimbAI (lightlimbs), the TLC instances
that check them and the TLAPS proofs of what matters most in them. It is kept
beside the code: `PROJECT.json` maps every definition to the lines it models.

Run a model with `tlc -workers 2 -config RaftLog.cfg MCRaft.tla`, a proof with
`tlapm RaftProofs.tla`.

## 1. The system

WebLimbAI crawls web sites and local files, extracts and indexes their text,
and answers searches; it may run as one process (`cmd/lightlimbs`), as a
cluster that replicates its index by Raft, or as services joined by Kafka.

| Component | State it keeps | Operations | What makes it correct |
|---|---|---|---|
| Raft node (`internal/cluster/raft.go`) | term, vote, role, log, commitIndex, nextIndex and matchIndex, futures of callers | timers, RequestVote, AppendEntries and their replies, Propose, Close | one leader per term; logs and state machines agree; what Propose reports stays true |
| Raft transport (`transport.go`) | none | RPC over HTTP with a timeout | may lose, delay or reorder, which Raft must stand |
| Apply pipeline, state machine (`raft.go`, `state_machine.go`) | applyTasks, applyCh, what was applied | dispatch, applyLoop, Apply, Stop | each committed entry applied once, in order; each caller answered once |
| Coordinator, hash ring (`coordinator.go`, `ring.go`) | shard list, virtual nodes | scatter-gather, AddNode, RemoveNode, GetNode(s) | a shard that fails costs its own results only; a node leaving moves its own keys only |
| Crawl job (`job_manager.go`, `frontier.go`) | job status and counters, queue, seen URLs | StartCrawl, workers, CancelJob, eviction | every URL once, limits kept, nothing left behind, every job ends |
| Adaptive crawl (`priority_frontier.go`, `adaptive.go`) | heap, seen URLs, pruned subtrees | the same with priorities | the same, save for what is pruned |
| Fetching (`client.go`, `proxy.go`, `sitemap.go`) | robots.txt cache, proxy tiers | Fetch with retries, GetProxy | rules obeyed while cached; a proxy is always found |
| Local indexer (`local.go`) | none of its own | IndexDirectory | the store mirrors the directory after a pass |
| Document store (`internal/storage`) | documents by URL, hashes, expiry, aliases | Save, Upsert, GetByURL, List, DeleteExpired | back ends agree; a crash never leaves half a document |
| Posting lists, vectors (`wand.go`, `vbyte.go`, `vector.go`, `embedder.go`) | blocks and tail, the vectors of one precision | Add, SealTail, block-max WAND; AddVector, SetPrecision, snapshots | skipping costs no hit as long as lengths agree; a search sees every vector held |
| Index engine (`internal/index`) | postings, vectors, trie, live documents | IndexDocument, DeleteDocument, LoadFromDB, TTL janitor, snapshots | index and store agree; a search sees a document whole or not at all |
| Search (`internal/search`) | caches, flights of identical queries | Search, fusion, agentic loops | one execution per query; failures are not shared for long |
| Offset tracker and indexer service (`common/kafka`, `indexer-service`) | offsets in flight, completed, failed | MarkStarted, MarkCompleted, MarkFailed, commits | no message is skipped; failed ones come again |
| Rate limits and quotas (`common/ratelimit`, `internal/auth`) | buckets, windows | Allow | no more than the rate passes |
| Progress events (`internal/ui/types.go`) | subscribers | Subscribe, Publish, Close | a slow subscriber blocks nobody |
| Chunking (`internal/chunker`) | the window of a call | ChunkDocument, ExtractBreadcrumbs | every line of text is in a chunk, under its headings |
| Extraction, stemming | none | pure functions | text processing |
| Services, MCP, CLI | none of their own | request handlers | they call the above |

How they meet: clients call Propose on the leader; committed entries reach the
index engine through the state machine. Crawl workers write the index and then
the document store; at start the engine loads the store (LoadFromDB). The
indexer service takes documents from Kafka and gives them to the index engine.

The hard behaviours, with their lines, are the `hazards` of `PROJECT.json`.

## 2. What is modelled

### Raft.tla, MCRaft.tla: the consensus node

Every handler of `raft.go` takes `rn.mu` for its whole length, so a handler is
one action: `Timeout` (startElectionLocked), `RequestVote`,
`RequestVoteReply`, `BecomeLeader`, `Heartbeat`, `AppendEntries` with
`RejectAppend`, `AppendEntriesReply`, `Propose`, `ProposeDeadline`, `Close`. An
RPC is a record that waits in `voteReqs`, `voteReps`, `appReqs` or `appReps`
until it is delivered, at any time and in any order, or lost (`Lose`). The
sender's goroutine keeps what it sent, which the reply records carry. The log
has no dummy entry at index 0, and `commitIndex` stands for lastApplied too:
each handler that moves it applies everything before it lets the lock go.
`elections` and `ledger` are history, for properties and proofs. Where
the applied entries go from there is `ApplyPipeline`.

Two rules of the code are not those of the Raft paper, and the properties are
about what makes them safe. A candidate that hears the leader of its own term
clears votedFor, so it may vote twice in one term: `ElectionInv` (section 4)
says why that elects nobody. A follower caps the leader's commit index by the
end of its own log and not by the last entry it received; that it commits
nothing unchecked is `StateMachineSafety`.

| Run | Instance | Shows |
|---|---|---|
| `raft_log` | 3 nodes, 2 proposals, 2 terms, 2 RPC halves in flight | StateMachineSafety, AckedIsDurable, MatchIndexIsReal, CommittedIsFinal |
| `raft_terms` | 3 nodes, 1 RPC half in flight; 3 terms with 2 proposals, 2 terms with 3, or 2 terms with 2 of which one expires | LogMatching, LeaderCompleteness, CommittedOutvotesTheRest (an entry of an old term is never committed by counting), FuturesMatchLog |
| `raft_election` | 5 nodes, one term, 3 in flight, one node closed | ElectionSafety |
| `raft_restart` | 3 nodes, one term, restarts (`RaftRestart.tla`) | the finding below |

Bounds. Two leaders in two terms, each with an entry of its own, are enough for
logs to diverge and be cut; a third term is what the rule about entries of older
terms needs (an entry of term 1 must be copied by the leader of term 3), and
three proposals let two logs part at one index and meet again at the next
(`CallsAndTerms` bounds the two together). With five nodes two quorums can meet in a single node, so a vote given twice shows.
`EveryTermHasLeader` keeps `raft_log` to terms somebody won; elections nobody
wins are in the other two runs. Nodes and proposals are symmetric; `View` drops
what nothing reads before it is written again.

### ApplyPipeline.tla: from a commit to the state machine and the caller

Elections, replication and commits are choices here; what is modelled step by
step is the traffic: `Dispatch` (one turn of applyCommittedEntriesLocked, with
rn.mu held), the goroutines that a full queue starts (`Enqueue`, `Abandon`),
applyLoop (`Take`, `Send`, `AnswerCaller`, `LoopEnds`), the state machine
(`Apply`, `Stop`, `MachineEnds`), callers of Propose (`Propose`, `Return`,
`GiveUp`, `Leave`) and `Close`. `Unlocked` is the guard of whatever needs rn.mu.

`apply_pipeline` (2 callers, 2 entries, queues of one place) shows that a future
has one owner, an entry is applied once, "ok" is true when it is said, order
holds until the queue overflows, and that committed entries get applied and
their callers answered. `apply_order` shows that order is lost after that. With
one place in each queue, two entries suffice for both queues to be full.

### OffsetTracker.tla: the Kafka consumer

`Read` and `Start` are the loop of `indexer-service/main.go`; `Process`,
`MarkCompleted` or `MarkFailed`, `Choose`, `Commit` and `Evict` are the steps of
one worker, cut where the tracker's mutex is released. `Commit` may succeed,
fail, or fail after Kafka has taken it. `Crash` ends the process at any point,
an orderly shutdown included. Kafka is external: it remembers the last commit
it took, even a lower one.

`offset_tracker` (4 messages, 2 workers, 2 crashes) checks that nothing is
skipped, that a failed offset stays ahead of the commit, that a failed commit
is not forgotten, and that every message is handled once the process stays up. Two workers commit beside each other, four messages let a commit
cover others, and the second crash restarts from a commit of the second process.

### CrawlJob.tla, MCCrawlJob.tla: a breadth-first crawl

The goroutine of executeCrawl (`EnqueueSitemapLink`, `StartWorkers`,
`WorkersDone`, `ReadContext`, `SetFinalStatus`, `Finish`), its workers (one
action per access to what they share: the context, the counters, the queue,
the set of seen URLs), and CancelJob in its two steps. The web is a graph; the
outcome of a fetch is a choice among failure, "304", unchanged and new. `Enqueue` is
one action from the test of the seen URLs to the send: nothing another
goroutine does in between changes more than which of its outcomes comes.

`crawl_job` (4 pages with a cycle and a page two others link to, 2 workers, a
queue of one place, a limit of 2 pages) checks `PageBudget`, `CrawledOnce`,
`NothingStranded`, `NeverSendsOnClosed` and that every job ends (`JobEnds`). The limit lies below the number of pages, and the bound it
gives, 3, below it too. `crawl_cancel` is the finding below.

### DocStore.tla, Stores.tla, MCStores.tla: the document stores

`DocStore` is what the interface `DocumentStore` promises of any driver: a set of
documents for each place they are kept in, which a call or a restart changes in
one step or not at all. `Stores` is the code: how a process chooses its store
and what it falls back to (`Start`), the operations of the four drivers, and the
file store in the steps of `atomicWriteFile` (`Load`, `WriteTemp`, `Rename`, and
`Truncate` and `WriteDirectly` when the rename meets another device), with
crashes anywhere, calls refused, answers lost, aliases, and a clock for expiry.
`ImplementsDocStore` maps the sequence of documents of each store to its set and
checks that every step is one of `DocStore`, or changes nothing there.

The exceptions are in `DocStore`, so that nobody overlooks them: a file that
cannot be read counts as empty for Save, which then writes a file with one
document (`Fail`, `Rewrite`), and DeleteCrawledDocument does nothing unless the
store is SQLite. What `GetByURL` and `List` answer is modelled, and no property
is about it: the drivers differ in which document of a source they return, and
PostgreSQL's answers are empty while `InitTables` has not run (see the hazards).

`stores` (2 clients, 2 URLs, 2 calls, a crash, one tick, four deployments that
reach every driver and every fallback) shows `OneVersion` and
`ImplementsDocStore`. Two calls let a write meet a write, a crash and expiry;
what a third would do depends on the store only, which the second already varies.

### IndexEngine.tla, MCIndexEngine.tla: the index engine

A request is a list of steps, one for each mutex the code takes: `IndexSteps`
(scrapes, crawls, the Kafka consumer), `DirectSteps` (entries of the cluster's
log and announced updates), `DeleteSteps`. The janitor is `Expire`, `ReadStore`
or `ReadStoreFails`, and `Swap`; `Start` and `Serve` are initStorage,
`SaveInverted` and `SaveVectors` saveStorage, `Exit` any end of the process. The
pointers a request captures before a swap are stale after it (`fresh`). A
version of a document is a number; postings, vectors and shards hold the version
they came from, so that a mix of two versions shows.

`Agrees` says that index and store agree on every URL that no race, no failed
save and no one-sided call has touched since the last rebuild. The code does
not keep them together beyond that: `astray` is the history variable that names
the exceptions, and `JanitorRepairs` says that they end. `CountIsRight` is about
the number BM25 divides by.

`index_engine` (one URL, two versions of which one has a chunk, two requests, a
restart) explores scripts of requests; an entry of the log and a deletion run at
once. Larger instances were explored by hand and hold: two indexing requests of
one URL at once, as when two URLs redirect to one (1,437,005 states, one start),
a deletion beside an indexing request (870,340 states). They take more than the few
minutes this project allows a run.

### Parts.tla, MCParts.tla: nine components on one page

These models share no state with each other. `Parts` instantiates each, chooses
one in the first state and lets it run while the others stand still, so that one
run explores them all and one theorem about `PartsSpec` is one about its
component. `PartsNext` names every action of every part; `MCParts` has the values
of the constants only.

- `VectorIndex` (vector.go, quantization.go, embedder.go): a vector is its length.
  Additions, batches, deletions, changes of precision, snapshots, restarts with
  another embedder, rebuilds. `SearchSeesWhatIsHeld`. The float32 sums of a batch
  (vector.go:374-379) do not overflow here: a vector that cannot be normalised is left out.
- `Postings` (wand.go, vbyte.go): the tail, `SealTail` with the entries of one document
  merged (`Dedupe`; the sort is not stable, so any of its lengths may be the one
  that is kept), blocks with their bounds and their bytes, deletions, and the
  searches, for one term and for several. A document has two lengths. The one given to
  `Add` makes the bound of its block (MinDocLen); the one in `docLengths`, or
  `int(avgdl)` where that slice is nil or too short, makes its score. Nothing in the
  code makes them agree: a text that is indexed again shorter, or a caller that passes
  nil as the benchmark `scale_1m` does, gives a score above the bound that
  wand.go:215 calls the maximum, and a block with a better hit is skipped. So `WandIsExact`
  compares the search for one term with a scan of everything under a premise: no
  sealed document is shorter to the search than its list was told (`Covers`). The
  search for several terms skips nothing and needs no such premise; its claim is for
  lists that hold no document twice, since it adds the scores of one document up. The
  run has texts of length 2 and 9 around an average of 4, and every slice of lengths for the documents of a list. Scores
  are BM25 in integers, scaled, with a whole average; VByte has base 4 instead of 128 and blocks
  have two places instead of 64, so that numbers of several bytes and several blocks occur.
- `Fetching` (client.go, render.go, proxy.go): the parser of robots.txt, the cache
  shared by all callers with its single flight, expiry and eviction, and the
  paths of Fetch, FetchWithStepping and FetchSmart. `RulesKept`: the cache
  holds one site, so that a second evicts it.
- `LocalIndexer` (local.go): a walk, a queue, two workers, files that change, a
  pass that dies. `PassMirrors` says when a pass has made store and engine equal
  to the disk; its exception `torn` is a document whose text and hash come from
  different versions, which an interrupted pass and `Save` can leave behind. The
  files are those whose size a walk takes (local.go:197).
- `ScatterGather` (coordinator.go, ring.go): `KeysStay` and `GatherIsExact`.
  Hashes are constants that collide and wrap around.
- `AdaptiveCrawl` (executeAdaptiveCrawl, priority_frontier.go, adaptive.go,
  entropy.go, sitemap.go): the heap in the order of the code's estimates, the
  tracker of barren subtrees, the sitemaps. `OnlyBarrenSkipped` says what a
  completed crawl may leave out. On a site of six pages the heap overflows, a
  redirect moves a page's yield to another subtree, and a subtree is closed. A URL is
  worth what its path, its depth and the text of the link make it: the seed comes as "Root Seed", the
  pages of a sitemap as "Sitemap", and the links of a page that has not changed without a
  text. `Enqueue` weighs a URL before it marks it as seen, so one that a poor
  link leads to may still come by a better one, and a seed worth too little makes
  an empty crawl (job_manager.go:362 drops the error).
- `Chunking` (chunker, breadcrumbs): one step for each turn of the loop.
  `TextIsKept`, over all texts of up to four lines of eight kinds, has two
  exceptions. A long line behind a blank one that the window never clears is lost
  (`Swallowed`, chunker.go:91). A chunk that begins with a blank line and goes on with a heading has the breadcrumb
  of the blank line, and so not the heading it holds (`Overlooked`, chunker.go:143-146).
- `Quotas` (tenant.go, ratelimit.go): `GrantsAreBounded`, over any stretch of time. The
  plan is that of each request's token, so a tenant's bound is the largest quota its
  tokens claim.
- `Metasearch` (metasearch.go, search_providers.go, bm25.go, rrf.go): the shared
  execution of a query as a sequence of stages, with other callers, pages and the
  rest of the engine beside it. `BetterInBothComesFirst`, `CallersReturn`.

`parts` has bounds of its own for each component; they are in `MCParts`, beside
its INSTANCE, and in `Parts.cfg` for Fetching. Each is the smallest at which all actions of the part are taken
and the mutant of its property is found.

## 3. Fairness

Safety needs none. `ApplyPipeline` assumes that goroutines which can run do:
the holder of the lock, the senders that wait for room (Go serves them in
turn), applyLoop and the state machine while they are not stopped, callers that
have an answer. It does not assume that entries commit or contexts expire.
`OffsetTracker` assumes the loop and the workers run while the process does,
and `EverythingHandled` speaks of the last process only, since a process that
always crashes handles nothing. `CrawlJob` assumes the goroutines of the job
run and fetches end (the HTTP client has a timeout), and not that anyone cancels.
Each uses weak fairness per goroutine. `Raft` has no liveness property: with
random timeouts and no bound on delays nobody need ever win.

`IndexEngine` assumes that the goroutines of the process run and the ticker
ticks; the store may fail the janitor any number of times but not for ever,
which is the one strong fairness here (`ReadStore`), and without which the code
repairs nothing. It does not assume that the process stays up: `JanitorRepairs`
is about runs in which it does. `Metasearch` assumes that an execution goes on:
each fetch has a timeout and the execution a deadline. Of the parts of `MCParts`
only this one has a liveness property, so `PartsSpec` has its fairness only.

## 4. What is proved

`RaftProofs` proves, for every finite set of servers, every set of commands and
every bound:

- `TypeCorrect`: `Spec => []TypeOK`. The invariant is `TypeInv`: the conflict
  index a follower answers is at least 1 only because no request starts before
  the log, and an entry's term is above 0 only because a leader's is.
- `OneLeaderPerTerm`: `Spec => []ElectionSafety`. ElectionSafety is not
  inductive. `ElectionInv` adds: candidates vote for themselves and leaders have
  won (`RolesInv`), requests come from candidates and winners (`RequestsInv`),
  a winner's voters are a quorum and are bound to it (`ElectionsInv`), and a vote
  in flight or counted binds its voter as long as the term has no winner
  (`GrantsInv`). Two quorums meet (`QuorumsMeet`), so the voter they share would
  be bound to both candidates. The usual "a node votes once in a term" is false
  of this code, since an AppendEntries of a candidate's own term clears its vote;
  such a message comes from a winner only, and by then the winner's quorum stands.

The rest of the module proves, under the same assumptions, every other property
the runs check of Raft. It speaks of `ledger`, a history variable
that has, for each term won, the log of its leader as it last led. No guard reads it.

- `LogsAlwaysMatch` (LogMatching), from `LedgerInv`: every log, of a node or in the
  ledger, is up to each of its entries what the ledger has for that entry's term
  (`Traced`), and every request is a window cut from the ledger's log of its
  term. `StepKinds` sorts the actions by what they do to the logs, so that each
  later proof has six cases instead of eleven.
- `CountedIsReplicated` (MatchIndexIsReal), from `ReplicaInv`: a node that has
  answered with success, however long ago, holds what it answered for until it
  moves to a later term.
- `NodesApplyTheSame`, `LeadersHoldTheCommitted`, `CommittedIsOutvoted` and
  `CommittedStays`, from `SafetyInv`. What is committed is `Chosen`: a quorum keeps
  it, that is each of its nodes holds the entry and every candidate that has its
  vote, in a reply in flight or counted, holds it too (`Kept`), and so does each
  leader since. That commits are chosen needs more than the leader's counts, since a reply may
  still be on its way when a later term begins. `AckInv` therefore follows an entry
  from the moment its leader writes it: as long as every later election has a
  voter who had acknowledged it (`Possible`), all who acknowledged it keep it. The
  entry has to be of the leader's own term (`Own`): for an older entry a
  candidate's last term may be higher without the candidate holding it, which is
  where the rule of section 5.4.2 is used. That a follower caps the leader's
  commit index by the end of its own log does no harm because a request never
  carries a commit index beyond its own last entry (`RequestsSettled`).
- `FuturesWaitForTheirOwn` and `AcknowledgedIsDurable`: a future belongs to a
  caller that still waits, and names the index and the term of its entry
  (`FuturesInv`), so an answer of success is about an entry that is chosen
  (`AnswersInv`).

`OffsetTrackerProofs` proves, for any number of messages, workers and crashes:

- `NothingIsSkipped` and `FailedStaysAhead`, from `TrackerInv`: besides the two
  properties it says where every message that was read is, and that a worker
  about to commit holds an offset below everything in flight, failed or waiting,
  though it chose that offset earlier and holds no lock.
- `CompletedIsKept` (UncommittedIsKept), from `KeptInv`: a worker that is about to
  evict has seen Kafka take a commit at or past what it evicts.

`ApplyPipelineProofs` proves every invariant the run `apply_pipeline` checks, for
any callers, any log and any capacities, from `PipeInv`, which has four parts:

- `TypeInv`, with queue and channel within their capacities (`PipelineTypeOK`);
- `OnePlace` and `RouteInv`: what was dispatched is the indexes up to lastApplied,
  and each is in one place: in the queue, with a goroutine that waits for room, in
  applyLoop's hand, in applyCh, or applied; none is missing while the node is
  open (`EntriesAppliedOnce`);
- `FutureInv`: the map, a task and applyLoop's hand hold a future only of a caller
  that has proposed that index, and no future twice. Handing it from the map
  to a task, from there to applyLoop and back to nobody keeps that, Close and
  deadlines included, which gives `FutureIsOwnedOnce` and `OkIsCommitted`.

`OrderUntilOverflow` needs an invariant about sequences, `LineInv`: while the queue
has not been full, what was applied, what is in applyCh, what applyLoop holds
and what is in the queue are, one after the other, the log up to lastApplied.

`CrawlJobProofs` proves, for any site, any number of workers and any limits, all
the invariants the run `crawl_job` checks, and two it does not spend time on. They follow from `Inv` and `DocInv`:

- `CountMove` says how one worker's move changes the number of workers in a set of
  steps. With it, `TypeInv` has activeWorkers count the workers between their two
  updates of it (`JobTypeOK`), and `BudgetInv` adds to the pages counted those the
  workers may still count without another test of the limit (`BudgetKept`).
- `PlacesInv` says that every URL seen is queued, held, visited or lost, and
  `OnceInv` that it is so once: what Enqueue takes as new was nowhere
  (`CrawledAtMostOnce`).
- `EndInv` says that while nobody cancels, workers that have all left below the
  limit have left an empty queue: the last one to leave has just read its length,
  and nobody fills it but a worker who has not left. With `PhaseInv`, which orders
  the executor's phases against the workers', it gives `NoneStranded`;
  `PhaseInv` alone gives `NoSendOnClosed`.
- `DocInv` follows a page from the fetch to the store (`StoreFollowsIndex`).

`StoresProofs` proves, for any clients, URLs, bodies and bounds, that no driver ever
keeps two documents of one URL (`StoresKeepOneVersion`) and that every driver
implements `DocStore` (`StoresImplementDocStore`). The invariant `StoreInv` says
that one call at a time has the file (`WriterInv`), and that what it is about to
write is what the file holds with its own document replaced, or without what had
expired (`ContentInv`, `Planned`). So a rename, whenever it comes, is one step of
the abstract store (`ReplacedIsPut`), and all steps before it are none; what happens
to a file whose medium has just failed is the abstract store's `Rewrite`. The facts about sequences of
documents (`KeepProperties`, `PutProperties`) are proved by induction on their
length.

`IndexEngineProofs` proves, for any finite set of URLs, any versions, requests and bounds:

- `EngineTypeOK`. The type of a request is a list of steps in which an embedding is
  followed by the vector it is for (`TaskList`), without which the step after it
  would read the wrong element.
- `CountOfDocuments` (CountIsRight). With the types, it needs `GhostInv`: postings
  of documents that are gone exist only after a start from a snapshot, which puts every URL
  `astray`.
- `IndexAgrees` (Agrees), from `AgreeInv`: while the process serves, a URL that is
  not astray is either held exactly as the store has it, or has one request
  underway. That request has not begun (`Beginning`), or it is on a
  `Course` to a version: its list is what is left of the plan for that version, in
  order (`Plan`), and the steps that are still in it say how much of the old version and
  of the new one each index holds (`Progress`). One lemma for each kind of step (`ShardOnCourse`, `InvertOnCourse`,
  ...) keeps a course; `RestStepsAre` and `DeleteStepsAre` unfold the two kinds of
  lists. A rebuild swaps in what the store holds and makes all courses stale or
  over, and what it cannot settle it leaves astray.

`PartsProofs` proves every safety property of the parts but `WandIsExact`. `PartSteps` says that a step of
`PartsSpec` is one of the part that was chosen, so what the steps of a component keep,
`PartsSpec` keeps.

- `RulesAreKept` (RulesKept), for any sites, rules and calls and any size of the
  cache. The code stores permission when it cannot get a robots.txt; that this never
  replaces good rules rests on `KnownInv`: while what a site has served is good, it
  is what the cache holds, and nobody is on the way to ask for it again.
- `SearchIsExact` (SearchSeesWhatIsHeld), for any documents and lengths of vectors.
  The invariant adds that of the three maps only the one of the current precision
  exists, that its vectors have the length of the index, and that the snapshot on
  disk is such a map too, of a precision and a length of its own, since a restart
  takes both from the file.
- `CalmPassMirrors` (PassMirrors), for any files and workers. `CleanInv` holds
  always: text and hash of a stored document differ only where `torn` says so. In a
  calm pass, `FilesInv` says that each file on the disk is still to be walked, queued, held by
  a worker or dealt with, and one that is gone is nowhere; `ListedInv` that, once the store is
  listed, nobody is at work, so the list has all that is to be removed.
- `OnlyBarrenIsSkipped` (OnlyBarrenSkipped), for any site and workers. `OncesInv`
  says that a URL is in one place, `PlacesInv` which places there are, and
  `CountsInv` that the tracker counts no barren page twice: its counter is at most the
  number of barren pages found whose workers have passed the step that counts. `EndsInv`
  finds the heap empty when the last worker leaves below the limit.
- `GrantsStayBounded` (GrantsAreBounded), for any clients, tenants, rates and quotas.
  The bound on every stretch of time is not inductive for a bucket: `ServedInv` adds
  that what was drawn since any moment, and what is left in the bucket, are within a
  full bucket and what has flowed in since (`Within`). For a tenant, `PassedInv` bounds
  by one quota each, the largest its tokens claim, the window that is open and as much of the time before it as
  a minute can still reach (`Windowed`), whatever became of the windows in between.
- `TextStaysKept` (TextIsKept), for any text and any limit of a chunk. `BufferInv` says
  that the buffer is the lines from startLine to the current one (`Plain`), or those
  behind a blank one from before lines too long for any chunk (`Behind`); `CoveredInv`
  that a line passed is in a chunk, in the buffer, blank, or swallowed by
  the exception the property names; `ChunksInv` that the chunks' first lines and breadcrumbs fit the text, and
  that a chunk is blank lines and then the lines from its first one on. Between blank
  lines and text that is no heading no context changes (`ContextSpans`), so the breadcrumb of the
  first line is that of the first text.
- `FusionIsFair` (BetterInBothComesFirst), for any documents, rankings and limits.
  `FusionInv` says that the hits of a finished search are a fusion of the two
  rankings it keeps. A hit that is before another in both has the larger
  sum of inverses (`InversesShrink`), and a fusion, sorted by that sum, lists it first.
- `GatheredIsExact` (GatherIsExact), for any nodes, documents and scores. `GatherInv`
  says that each answer is a node's own best hits, cut at k, and that the result was merged from
  such answers. Best hits have different URLs, so a hit among the first k of
  all has fewer than k before it at its own node and was in that node's answer
  (`ShortListsSuffice`). What the merged short lists have beyond the best hits of all
  is behind something that was cut, so the first k agree (`LinesAgree`).
- `KeysStayInPlace` (KeysStay), for any nodes, tokens and keys. `RingInv` says that the
  tokens are those of the nodes, in strict order also where hashes collide. So the
  search by halves (`SearchFinds`) finds the first token at or after a key, or the
  first of all; two rings that share the token one of them finds find the same
  (`OwnerStays`); and a walk around the ring meets every node (`ReplicasAreAll`).

`NaturalTheorems` has what the others cite: facts about Min and Max, induction on the
naturals as a fact about a set, the existence of recursive functions and of folds,
finite sets in the order of a relation (`InLine`, `LinesAgree`), binary search.

Assumed: the ASSUMEs of the modules and the `...Assumption` operators the
theorems name, all of which TLC evaluates. A cluster has at least two nodes;
constants are distinct, bounds are numbers; an index has finitely many URLs, a
cluster finitely many nodes and documents; scores and hashes are natural numbers, no two
nodes have one name, and each has a token (`NewHashRing` makes 0 virtual nodes 128); an
adaptive crawl has a worker (a Concurrency of 0 or less becomes 8,
`job_manager.go:314-316`) and a plan a quota.

Proved and not checked by a run: type correctness (`TypeCorrect`, `JobTypeOK`,
`PipelineTypeOK`, `TrackerTypeOK`, `EngineTypeOK`), `StoredIsIndexed`, and the inductive
invariants. TLC checked those of Raft and the offset tracker on small
instances too (`AnswersInv` with its index bounded by the length of the log it is about).

Only checked by TLC:

- Liveness (`JobEnds`, `EverythingHandled`, `JanitorRepairs`, `CallersReturn`, the two of
  ApplyPipeline), and ENABLED: out of the prover's reach.
- `WandIsExact`, which compares the posting lists of `Postings`, and the search that skips
  in them, with a definition. The bytes of a list are written and read by recursions over
  the data, blocks are flattened and sorted, and the search is a fold with a state
  of its own: what each computes for every list is an induction over data. The library's
  induction theorems cannot be instantiated here. Where an invariant needed a function's
  recursion (`Keep` of Stores, FlattenSeq in IndexEngine, the folds of `Chunking`,
  GetNodes in `ScatterGather`) it was proved for that function, from `SetInduction`,
  `RecursionExists` or `FoldExists`, and the recursion spelled out.

## 5. Findings

- `raft_restart`: the state that raft.go calls persistent is not. A node that
  restarts votes again in the same term, and two leaders win it.
- `apply_order`: applyLoop promises strict order; once applyTasks has been full,
  entries can be applied out of order, so replicas can differ.
- `crawl_cancel`: a job that CancelJob reported as cancelled can end as
  "completed", against TestJobManager_CancelJob.

## 6. What is left

The order was: what loses data silently (replication, its pipeline, the
consumer), the crawl, then stores and index, then the components around them.
Worth doing next:

1. A proof of `WandIsExact`, layer by layer, from its premise about lengths; that `Raft` implements an abstract log
   that only grows.
2. Eviction of finished jobs and the redirects of a breadth-first crawl in
   `CrawlJob`; rebalances in `OffsetTracker`, once the service reacts to them.
3. `IndexEngine` with two documents, which share terms and the trie.

### Not modelled

- Progress events: the broadcaster drops what a slow subscriber has no room for
  and promises nothing else, so a property of it would repeat its guard. The
  rest of `internal/ui` is layout.
- HTML, PDF and MIME extraction, stemming: parsers of characters, without state.
- The numbers of embeddings, quantization, similarity: floating point. Where
  scores decide an order (`Postings`, `Metasearch`) they are integers or constants.
- The agentic loop, language models, snippets: answers of services and layout.
- Request handlers, the MCP protocol and command lines: they call the components
  and keep nothing; what `main.go` does at the start and the end of a process is
  in the components it starts.
- Configuration, logging, metrics, tracing, scripts: nothing depends on them.
- HTTP itself (headers, bodies, addresses), JSON, sizes of messages.

`PROJECT.json` lists each component with what its model leaves out.
