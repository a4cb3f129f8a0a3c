----------------------------- MODULE CrawlJob -----------------------------
(***************************************************************************)
(* One crawl job of the crawler (job_manager.go) and its breadth-first     *)
(* frontier (frontier.go): the goroutine of executeCrawl, its workers, and *)
(* a client that may cancel the job at any moment.                         *)
(*                                                                         *)
(* A URL stands for its canonical form.  Links gives, for each page, the   *)
(* links that pass the frontier's filters by host and pattern, which look  *)
(* at nothing but the URL.  Whether a fetch succeeds, and whether the page *)
(* has changed since an earlier crawl stored it, are choices.  Left out:   *)
(* redirects (a page is filed under the URL that was queued), links that   *)
(* change between two crawls, events, results, and the counters that only  *)
(* the display reads.                                                      *)
(***************************************************************************)
EXTENDS Naturals, Sequences, FiniteSets

CONSTANTS
    URL, Seed,
    Links,     \* URL -> the sequence of its links
    Sitemap,   \* the URLs listed by the sitemap of the site
    Worker,    \* Concurrency of them
    MaxDepth, MaxPages,
    QueueCap,  \* capacity of the frontier's queue: 50000 in the code
    None       \* no URL

ASSUME ConstantsAssumption ==
    /\ IsFiniteSet(URL) /\ Seed \in URL /\ None \notin URL
    /\ Links \in [URL -> Seq(URL)] /\ Sitemap \in Seq(URL)
    /\ IsFiniteSet(Worker) /\ Worker # {}
    /\ MaxDepth \in Nat /\ MaxPages \in Nat \ {0} /\ QueueCap \in Nat \ {0}

VARIABLES
    queue, seen, closed,        \* the frontier
    lost,                       \* history: URLs that met a full queue
    status, cancelled,          \* of the job; cancelled is ctx.Err() # nil
    pagesCrawled, activeWorkers,
    executor, sitemapLeft,      \* where executeCrawl is
    client,                     \* where the caller of CancelJob is
    pc, item, linksLeft, page,  \* of each worker
    visited,                    \* history: URLs a worker has finished with
    indexed, stored             \* URLs in the index, and in the document store

frontierVars == <<queue, seen, closed, lost>>
jobVars      == <<status, cancelled>>
counters     == <<pagesCrawled, activeWorkers>>
outerVars    == <<executor, sitemapLeft, client>>
workerVars   == <<pc, item, linksLeft, page>>
docVars      == <<indexed, stored>>
vars == <<frontierVars, jobVars, counters, outerVars, workerVars, visited, docVars>>

Item    == [url : URL, depth : Nat]
Nothing == [url |-> None, depth |-> 0]

\* StartCrawl leaves the job with its seed queued; known is what earlier crawls
\* stored, which LoadFromDB put in the index.
Init ==
    /\ queue = <<[url |-> Seed, depth |-> 0]>> /\ seen = {Seed}
    /\ closed = FALSE /\ lost = {}
    /\ status = "running" /\ cancelled = FALSE
    /\ pagesCrawled = 0 /\ activeWorkers = 0
    /\ executor = "sitemap" /\ sitemapLeft \in {<< >>, Sitemap}
    /\ client = "idle"
    /\ pc = [w \in Worker |-> "notStarted"]
    /\ item = [w \in Worker |-> Nothing]
    /\ linksLeft = [w \in Worker |-> << >>]
    /\ page = [w \in Worker |-> "none"]
    /\ visited = {}
    /\ \E known \in {{}, {Seed}} : indexed = known /\ stored = known

-----------------------------------------------------------------------------
(* The frontier *)

TooDeep(depth) == MaxDepth > 0 /\ depth > MaxDepth

\* Mutant: the test of what has been seen is dropped.
EnqueueUnseen(url, depth) ==
    /\ IF TooDeep(depth) \/ Len(queue) = QueueCap
       THEN UNCHANGED <<queue, seen>>
       ELSE /\ queue' = Append(queue, [url |-> url, depth |-> depth])
            /\ seen' = seen \cup {url}
    /\ UNCHANGED lost

\* Enqueue, after its test of closed: a URL is marked as seen before the queue
\* is tried, and callers ignore the error a full queue gives.
Enqueue(url, depth) ==
    \/ /\ TooDeep(depth) \/ url \in seen
       /\ UNCHANGED <<queue, seen, lost>>
    \/ /\ ~TooDeep(depth) /\ url \notin seen
       /\ Len(queue) < QueueCap
       /\ seen' = seen \cup {url}
       /\ queue' = Append(queue, [url |-> url, depth |-> depth])
       /\ UNCHANGED lost
    \/ /\ ~TooDeep(depth) /\ url \notin seen
       /\ Len(queue) = QueueCap
       /\ seen' = seen \cup {url}
       /\ lost' = lost \cup {url}
       /\ UNCHANGED queue

-----------------------------------------------------------------------------
(* executeCrawl, outside its workers *)

\* The links of the sitemap that was fetched; no worker runs yet.
EnqueueSitemapLink ==
    /\ executor = "sitemap" /\ sitemapLeft # << >>
    /\ sitemapLeft' = Tail(sitemapLeft)
    /\ Enqueue(Head(sitemapLeft), 1)
    /\ UNCHANGED <<closed, jobVars, counters, executor, client, workerVars, visited, docVars>>

StartWorkers ==
    /\ executor = "sitemap" /\ sitemapLeft = << >>
    /\ executor' = "waiting"
    /\ pc' = [w \in Worker |-> "loop"]
    /\ UNCHANGED <<frontierVars, jobVars, counters, sitemapLeft, client,
                   item, linksLeft, page, visited, docVars>>

\* wg.Wait, then the reads of the status and of the context, then SetStatus.
WorkersDone ==
    /\ executor = "waiting"
    /\ \A w \in Worker : pc[w] = "ended"
    /\ executor' = IF status = "running" THEN "ending" ELSE "closing"
    /\ UNCHANGED <<frontierVars, jobVars, counters, sitemapLeft, client, workerVars, visited, docVars>>

ReadContext ==
    /\ executor = "ending"
    /\ executor' = IF cancelled THEN "cancelled" ELSE "completed"
    /\ UNCHANGED <<frontierVars, jobVars, counters, sitemapLeft, client, workerVars, visited, docVars>>

SetFinalStatus ==
    /\ executor \in {"cancelled", "completed"}
    /\ status' = executor
    /\ executor' = "closing"
    /\ UNCHANGED <<frontierVars, cancelled, counters, sitemapLeft, client, workerVars, visited, docVars>>

\* The deferred calls: CancelFunc, then Close of the frontier.
Finish ==
    /\ executor = "closing"
    /\ cancelled' = TRUE /\ closed' = TRUE
    /\ executor' = "ended"
    /\ UNCHANGED <<queue, seen, lost, status, counters, sitemapLeft, client, workerVars, visited, docVars>>

-----------------------------------------------------------------------------
(* CancelJob *)

\* Mutant: the context's end closes the frontier, as it does for an adaptive crawl.
CancelAndClose ==
    /\ client = "idle" /\ client' = "marking"
    /\ cancelled' = TRUE /\ closed' = TRUE
    /\ UNCHANGED <<queue, seen, lost, status, counters, executor, sitemapLeft, workerVars, visited, docVars>>

Cancel ==
    /\ client = "idle"
    /\ client' = "marking"
    /\ cancelled' = TRUE
    /\ UNCHANGED <<frontierVars, status, counters, executor, sitemapLeft, workerVars, visited, docVars>>

MarkCancelled ==
    /\ client = "marking"
    /\ client' = "returned"
    /\ status' = "cancelled"
    /\ UNCHANGED <<frontierVars, cancelled, counters, executor, sitemapLeft, workerVars, visited, docVars>>

-----------------------------------------------------------------------------
(* A worker *)

Goto(w, step) == pc' = [pc EXCEPT ![w] = step]

\* Mutants: the limit is tested one page late; the limit counts pages seen.
LimitPassed  == pagesCrawled > MaxPages
SeenEnough   == Cardinality(seen) >= MaxPages
LimitReached == pagesCrawled >= MaxPages

\* The two tests at the top of the loop.
BeginTurn(w) ==
    /\ pc[w] = "loop"
    /\ Goto(w, IF cancelled \/ LimitReached THEN "ended" ELSE "dequeue")
    /\ UNCHANGED <<frontierVars, jobVars, counters, outerVars, item, linksLeft, page, visited, docVars>>

Dequeue(w) ==
    /\ pc[w] = "dequeue"
    /\ queue # << >>
    /\ item' = [item EXCEPT ![w] = Head(queue)]
    /\ queue' = Tail(queue)
    /\ Goto(w, "taken")
    /\ UNCHANGED <<seen, closed, lost, jobVars, counters, outerVars, linksLeft, page, visited, docVars>>

FindNothing(w) ==
    /\ pc[w] = "dequeue"
    /\ queue = << >>
    /\ Goto(w, "quiet?")
    /\ UNCHANGED <<frontierVars, jobVars, counters, outerVars, item, linksLeft, page, visited, docVars>>

\* activeWorkers is read, and then the length of the queue; a worker that finds
\* another one active sleeps for a while, or until the context ends.
ReadActive(w) ==
    /\ pc[w] = "quiet?"
    /\ Goto(w, IF activeWorkers = 0 THEN "empty?" ELSE "loop")
    /\ UNCHANGED <<frontierVars, jobVars, counters, outerVars, item, linksLeft, page, visited, docVars>>

ReadLen(w) ==
    /\ pc[w] = "empty?"
    /\ Goto(w, IF queue = << >> THEN "ended" ELSE "loop")
    /\ UNCHANGED <<frontierVars, jobVars, counters, outerVars, item, linksLeft, page, visited, docVars>>

CountActive(w) ==
    /\ pc[w] = "taken"
    /\ activeWorkers' = activeWorkers + 1
    /\ Goto(w, "wait")
    /\ UNCHANGED <<frontierVars, jobVars, pagesCrawled, outerVars, item, linksLeft, page, visited, docVars>>

\* The rate limiter, which fails when the context has ended.
Wait(w) ==
    /\ pc[w] = "wait"
    /\ Goto(w, IF cancelled THEN "done" ELSE "fetch")
    /\ UNCHANGED <<frontierVars, jobVars, counters, outerVars, item, linksLeft, page, visited, docVars>>

\* The fetch, the status, the body or its extraction fails.
FetchFails(w) ==
    /\ pc[w] = "fetch"
    /\ Goto(w, "done")
    /\ UNCHANGED <<frontierVars, jobVars, counters, outerVars, item, linksLeft, page, visited, docVars>>

\* The page has come, changed or not ("notModified" is the answer 304).  Only a
\* stored page can be known as unchanged, and writing it again leaves it stored:
\* the Upsert that follows a 304 at once is part of this step.
Fetch(w) ==
    /\ pc[w] = "fetch"
    /\ \E kind \in IF item[w].url \in stored THEN {"notModified", "same", "new"} ELSE {"new"} :
          page' = [page EXCEPT ![w] = kind]
    /\ linksLeft' = [linksLeft EXCEPT ![w] =
                        IF item[w].depth < MaxDepth THEN Links[item[w].url] ELSE << >>]
    /\ Goto(w, "links")
    /\ UNCHANGED <<frontierVars, jobVars, counters, outerVars, item, visited, docVars>>

\* Enqueue tests closed in a step of its own: sending on a queue closed in
\* between would panic.
OfferLink(w) ==
    /\ pc[w] = "links" /\ linksLeft[w] # << >>
    /\ IF closed THEN /\ linksLeft' = [linksLeft EXCEPT ![w] = Tail(@)]
                      /\ UNCHANGED pc
                 ELSE Goto(w, "send") /\ UNCHANGED linksLeft
    /\ UNCHANGED <<frontierVars, jobVars, counters, outerVars, item, page, visited, docVars>>

SendLink(w) ==
    /\ pc[w] = "send"
    /\ Enqueue(Head(linksLeft[w]), item[w].depth + 1)
    /\ linksLeft' = [linksLeft EXCEPT ![w] = Tail(@)]
    /\ Goto(w, "links")
    /\ UNCHANGED <<closed, jobVars, counters, outerVars, item, page, visited, docVars>>

\* IndexDocumentWithSource, for a page that is new or has changed, ends with a
\* save of its own (engine.go:176), whose error is ignored.
Index(w) ==
    /\ pc[w] = "links" /\ linksLeft[w] = << >> /\ page[w] = "new"
    /\ indexed' = indexed \cup {item[w].url}
    /\ stored' \in {stored, stored \cup {item[w].url}}
    /\ Goto(w, "upsert")
    /\ UNCHANGED <<frontierVars, jobVars, counters, outerVars, item, linksLeft, page, visited>>

SkipIndex(w) ==
    /\ pc[w] = "links" /\ linksLeft[w] = << >> /\ page[w] # "new"
    /\ Goto(w, IF page[w] = "same" THEN "upsert" ELSE "count")
    /\ UNCHANGED <<frontierVars, jobVars, counters, outerVars, item, linksLeft, page, visited, docVars>>

\* UpsertCrawledDocument; its error is ignored.
Upsert(w) ==
    /\ pc[w] = "upsert"
    /\ stored' \in {stored, stored \cup {item[w].url}}
    /\ Goto(w, "count")
    /\ UNCHANGED <<frontierVars, jobVars, counters, outerVars, item, linksLeft, page, visited, indexed>>

CountPage(w) ==
    /\ pc[w] = "count"
    /\ pagesCrawled' = pagesCrawled + 1
    /\ Goto(w, "done")
    /\ UNCHANGED <<frontierVars, jobVars, activeWorkers, outerVars, item, linksLeft, page, visited, docVars>>

\* Mutant: the counter of active workers is not brought back.
DoneStaysActive(w) ==
    /\ pc[w] = "done"
    /\ visited' = visited \cup {item[w].url}
    /\ item' = [item EXCEPT ![w] = Nothing] /\ page' = [page EXCEPT ![w] = "none"]
    /\ Goto(w, "loop")
    /\ UNCHANGED <<frontierVars, jobVars, counters, outerVars, linksLeft, docVars>>

Done(w) ==
    /\ pc[w] = "done"
    /\ activeWorkers' = activeWorkers - 1
    /\ visited' = visited \cup {item[w].url}
    /\ item' = [item EXCEPT ![w] = Nothing] /\ page' = [page EXCEPT ![w] = "none"]
    /\ Goto(w, "loop")
    /\ UNCHANGED <<frontierVars, jobVars, pagesCrawled, outerVars, linksLeft, docVars>>

-----------------------------------------------------------------------------

Work(w) ==
    \/ BeginTurn(w) \/ Dequeue(w) \/ FindNothing(w) \/ ReadActive(w) \/ ReadLen(w)
    \/ CountActive(w) \/ Wait(w) \/ FetchFails(w) \/ Fetch(w)
    \/ OfferLink(w) \/ SendLink(w) \/ Index(w) \/ SkipIndex(w) \/ Upsert(w)
    \/ CountPage(w) \/ Done(w)

Execute ==
    \/ EnqueueSitemapLink \/ StartWorkers \/ WorkersDone
    \/ ReadContext \/ SetFinalStatus \/ Finish

Next == Execute \/ Cancel \/ MarkCancelled \/ \E w \in Worker : Work(w)

\* The goroutines of the job are scheduled; a client need not cancel.
Fairness == WF_vars(Execute) /\ \A w \in Worker : WF_vars(Work(w))

Spec == Init /\ [][Next]_vars /\ Fairness

-----------------------------------------------------------------------------
(* Properties *)

TypeOK ==
    /\ queue \in Seq(Item) /\ Len(queue) <= QueueCap
    /\ seen \subseteq URL /\ lost \subseteq URL /\ visited \subseteq URL
    /\ indexed \subseteq URL /\ stored \subseteq URL
    /\ closed \in BOOLEAN /\ cancelled \in BOOLEAN
    /\ status \in {"running", "completed", "cancelled"}
    /\ pagesCrawled \in Nat /\ activeWorkers \in 0..Cardinality(Worker)
    /\ executor \in {"sitemap", "waiting", "ending", "completed", "cancelled", "closing", "ended"}
    /\ sitemapLeft \in Seq(URL)
    /\ client \in {"idle", "marking", "returned"}
    /\ pc \in [Worker -> {"notStarted", "loop", "dequeue", "quiet?", "empty?", "taken", "wait",
                          "fetch", "links", "send", "upsert", "count", "done", "ended"}]
    /\ item \in [Worker -> Item \cup {Nothing}]
    /\ linksLeft \in [Worker -> Seq(URL)]
    /\ page \in [Worker -> {"none", "notModified", "same", "new"}]

\* A job goes past MaxPages only by the pages its other workers had in hand when
\* the limit was reached: the test and the count are far apart.
PageBudget == pagesCrawled <= MaxPages + Cardinality(Worker) - 1

Places(url) ==
    Cardinality({k \in DOMAIN queue : queue[k].url = url})
    + Cardinality({w \in Worker : item[w].url = url})
    + (IF url \in visited THEN 1 ELSE 0) + (IF url \in lost THEN 1 ELSE 0)

\* A URL the frontier has seen is in one place: waiting, in the hands of one
\* worker, crawled, or lost to a full queue.  None is crawled twice in a job.
CrawledOnce ==
    \A url \in URL : Places(url) = IF url \in seen THEN 1 ELSE 0

\* Workers leave when they find nothing to do, although another one may hold a
\* page whose links are still to come; yet a job that completes below its
\* limits, uncancelled, leaves no URL in the queue.
NothingStranded ==
    executor = "ended" /\ client = "idle" /\ pagesCrawled < MaxPages =>
        /\ status = "completed"
        /\ seen = visited \cup lost

\* No worker sends on a queue that is closed: closing it is left to the
\* executor, which has seen every worker leave.
NeverSendsOnClosed == \A w \in Worker : pc[w] = "send" => ~closed

\* The document store never holds a page the index has not been given.
StoredIsIndexed == stored \subseteq indexed

\* Every job ends, whatever the links and whoever cancels it.
JobEnds == <>(executor = "ended")

\* A job that CancelJob has returned true for stays cancelled, as
\* TestJobManager_CancelJob expects.
CancelSticks == client = "returned" => status = "cancelled"

=============================================================================
