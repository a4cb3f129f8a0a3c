--------------------------- MODULE AdaptiveCrawl ---------------------------
(***************************************************************************)
(* A crawl job that asked for the adaptive crawl (job_manager.go): a       *)
(* frontier ordered by an estimate of what a link is worth                 *)
(* (priority_frontier.go, entropy.go), a tracker that gives up on subtrees *)
(* of a site whose pages hold little text (adaptive.go), the walk over the *)
(* sitemaps that seeds it (sitemap.go), and the workers.                   *)
(*                                                                         *)
(* A URL stands for its canonical form; Allowed holds those that parse and *)
(* pass the filters by host and pattern.  The score of a link's text, in   *)
(* percent, is a constant.  Left out: events, results, the                 *)
(* rate limiter, the counters that only the display reads, and the         *)
(* contents of the index and of the store (see CrawlJob).                  *)
(***************************************************************************)
EXTENDS Integers, Sequences, FiniteSets

CONSTANTS
    Url, Seed, Allowed, Worker,
    Links,        \* Url -> the sequence of links of its page
    Stored,       \* for each URL that has a document, the links kept with it
    Final,        \* Url -> where the redirects of a URL end
    Subtree,      \* Url -> the first two segments of its path
    Barren, Hub,  \* pages with less than 2% of text; pages with 8 links or more
    Path,         \* Url -> [segments, technical, document]: of its path
    AnchorScore,  \* Url -> what the text of a link to it is worth
    Junk,         \* URLs with a segment such as "login" or "cart"
    Sitemaps,     \* sitemap -> the pages and the sitemaps that it lists
    Candidates,   \* the sitemaps tried, in order
    MaxWalk,      \* MaxSitemapRecursion: 2
    MaxListed,    \* MaxSitemapURLs: 50000
    MinPriority, MaxDepth, MaxPages, Capacity,
    Patience      \* barren pages in a row that close a subtree: 3 in the code

AdaptiveCrawlAssumption ==
    /\ Seed \in Url /\ Allowed \subseteq Url /\ Worker # {}
    /\ Links \in [Url -> Seq(Url)] /\ Final \in [Url -> Url]
    /\ Barren \subseteq Url /\ Hub \subseteq Url
    /\ {MinPriority, MaxDepth, MaxPages, Capacity, Patience, MaxWalk} \subseteq Nat /\ Capacity # 0

VARIABLES
    heap, seen, closed,  \* the frontier: entries [url, depth, priority]
    low, pruned,         \* the tracker: barren pages in a row; the depth still allowed
    phase, listed,       \* sitemap, working, completed, cancelled; the links of the sitemap left
    pc, item, left,      \* of each worker: the entry it holds, the links to enqueue
    active, pages,       \* activeWorkers, PagesCrawled
    cancelled,
    visited, lost        \* history: URLs taken up by a worker; those a full heap refused

frontierVars == <<heap, seen, closed, lost>>
trackerVars  == <<low, pruned>>
workerVars   == <<pc, item, left>>
vars == <<frontierVars, trackerVars, phase, listed, workerVars, active, pages, cancelled, visited>>

-----------------------------------------------------------------------------
(* What a link is worth *)

Between(least, most, n) == IF n < least THEN least ELSE IF n > most THEN most ELSE n

\* PathSemanticScore, in percent: a technical word and the extension of a
\* document raise it, more than five segments without such a word lower it.
PathScore(url) ==
    LET path == Path[url]
        bonus == (IF path.technical THEN 40 ELSE 0) + (IF path.document THEN 15 ELSE 0)
        excess == IF path.technical \/ path.segments <= 5 THEN 0 ELSE path.segments - 5
    IN  IF path.segments = 0 THEN 40 ELSE Between(5, 100, 30 + bonus - 5 * excess)

\* RuneShannonEntropy of the texts "Root Seed", "Sitemap" and "", in percent.
SeedAnchor    == 97
SitemapAnchor == 100
NoAnchor      == 5

\* ComputePriority, in units of 1/10000: the path, the anchor and the depth.
Priority(url, anchor, depth) ==
    LET score == 45 * PathScore(url) + 35 * anchor
                 + 200000 \div (100 + 35 * depth)
    IN  Between(500, 10000, IF url \in Junk THEN (15 * score) \div 100 ELSE score)

\* Enqueue refuses a URL before it marks it as seen, except when the heap is full.
Unwanted(url, anchor, depth) ==
    \/ MaxDepth > 0 /\ depth > MaxDepth
    \/ url \notin Allowed
    \/ Priority(url, anchor, depth) < MinPriority
Refused(url, anchor, depth) == closed \/ Unwanted(url, anchor, depth) \/ url \in seen

\* Mutant: a URL is marked as seen before what it is worth is looked at.
EnqueueMarksFirst(url, anchor, depth) ==
    LET refused == Refused(url, anchor, depth)
        full    == Cardinality(heap) >= Capacity
    IN  /\ seen' = IF closed THEN seen ELSE seen \cup {url}
        /\ lost' = IF full /\ ~refused THEN lost \cup {url} ELSE lost
        /\ heap' = IF full \/ refused THEN heap
                   ELSE heap \cup {[url |-> url, depth |-> depth,
                                    priority |-> Priority(url, anchor, depth)]}

Enqueue(url, anchor, depth) ==
    IF Refused(url, anchor, depth)
    THEN UNCHANGED <<heap, seen, lost>>
    ELSE /\ seen' = seen \cup {url}
         /\ IF Cardinality(heap) >= Capacity
            THEN lost' = lost \cup {url} /\ UNCHANGED heap
            ELSE /\ heap' = heap \cup {[url |-> url, depth |-> depth,
                                        priority |-> Priority(url, anchor, depth)]}
                 /\ UNCHANGED lost

Foremost(entry) == \A other \in heap : other.priority <= entry.priority

-----------------------------------------------------------------------------
(* The subtrees *)

\* RecordYield.  A page that is worth reading resets the count, and never
\* reopens the subtree; a barren page found later moves the depth that is
\* still allowed, in either direction.
RecordYield(url, barren, hub, depth) ==
    IF hub \/ depth <= 1
    THEN UNCHANGED trackerVars
    ELSE LET run == IF barren THEN low[Subtree[url]] + 1 ELSE 0
         IN  /\ low' = [low EXCEPT ![Subtree[url]] = run]
             /\ pruned' = IF barren /\ run >= Patience
                          THEN [pruned EXCEPT ![Subtree[url]] = depth]
                          ELSE pruned

\* An entry 0 stands for no entry: only depths above 1 are ever recorded.
IsPruned(entry) ==
    pruned[Subtree[entry.url]] > 0 /\ entry.depth > pruned[Subtree[entry.url]]

-----------------------------------------------------------------------------
(* The sitemaps *)

UpTo(n, s) == IF Len(s) <= n THEN s ELSE SubSeq(s, 1, n)

\* The depth-first walk of FetchAndParseSitemap through a list of sitemaps and
\* what is below each, one after the other: which sitemaps it has visited
\* and which pages it has collected.  Those in down cannot be fetched, and
\* what a walk collected before an error it keeps.
Walks == [visited : SUBSET DOMAIN Sitemaps, urls : Seq(Url)]
Walk[sites \in Seq(DOMAIN Sitemaps), depth \in Nat, down \in SUBSET DOMAIN Sitemaps, walk \in Walks] ==
    IF sites = << >> THEN walk
    ELSE LET site == Head(sites)
             entered == [walk EXCEPT !.visited = @ \cup {site}]
             read == [entered EXCEPT !.urls = UpTo(MaxListed, @ \o Sitemaps[site].pages)]
             walked == IF depth > MaxWalk \/ site \in walk.visited \/ Len(walk.urls) >= MaxListed THEN walk
                       ELSE IF site \in down THEN entered
                       ELSE IF depth = MaxWalk THEN read
                       ELSE Walk[Sitemaps[site].children, depth + 1, down, read]
         IN  Walk[Tail(sites), depth, down, walked]

\* The first candidate that lists anything is the one that is used.
Discovered(down) ==
    LET lists(k) == Walk[<<Candidates[k]>>, 0, down, [visited |-> {}, urls |-> << >>]].urls
        useful == {k \in DOMAIN Candidates : lists(k) # << >>}
    IN  IF useful = {} THEN << >> ELSE lists(CHOOSE k \in useful : \A j \in useful : k <= j)

-----------------------------------------------------------------------------
(* executeAdaptiveCrawl *)

Nothing == [url |-> Seed, depth |-> 0, priority |-> 0]

\* NewPriorityFrontier and the seed, which the filters may refuse without a word; the
\* tracker is new.
Init ==
    /\ seen = {url \in {Seed} : ~Unwanted(url, SeedAnchor, 0)}
    /\ heap = {[url |-> url, depth |-> 0, priority |-> Priority(url, SeedAnchor, 0)] : url \in seen}
    /\ closed = FALSE /\ lost = {}
    /\ low = [p \in {Subtree[u] : u \in Url} |-> 0]
    /\ pruned = [p \in {Subtree[u] : u \in Url} |-> 0]
    /\ phase = "sitemap"
    /\ \E down \in SUBSET DOMAIN Sitemaps : listed = Discovered(down)
    /\ pc = [w \in Worker |-> "loop"]
    /\ item = [w \in Worker |-> Nothing] /\ left = [w \in Worker |-> << >>]
    /\ active = 0 /\ pages = 0 /\ cancelled = FALSE /\ visited = {}

EnqueueListed ==
    /\ phase = "sitemap" /\ listed # << >>
    /\ listed' = Tail(listed)
    /\ Enqueue(Head(listed), SitemapAnchor, 1)
    /\ UNCHANGED <<closed, trackerVars, phase, workerVars, active, pages, cancelled, visited>>

StartWorkers ==
    /\ phase = "sitemap" /\ listed = << >>
    /\ phase' = "working"
    /\ UNCHANGED <<frontierVars, trackerVars, listed, workerVars, active, pages, cancelled, visited>>

\* CancelJob; the watcher of the context closes the frontier some time later.
Cancel ==
    /\ ~cancelled /\ phase \in {"sitemap", "working"}
    /\ cancelled' = TRUE
    /\ UNCHANGED <<frontierVars, trackerVars, phase, listed, workerVars, active, pages, visited>>
Watch ==
    /\ cancelled /\ ~closed
    /\ closed' = TRUE
    /\ UNCHANGED <<heap, seen, lost, trackerVars, phase, listed, workerVars, active, pages,
                   cancelled, visited>>

\* wg.Wait and the final status, "cancelled" or "completed"; the deferred Close.
End ==
    /\ phase = "working" /\ \A w \in Worker : pc[w] = "ended"
    /\ phase' = IF cancelled THEN "cancelled" ELSE "completed"
    /\ closed' = TRUE
    /\ UNCHANGED <<heap, seen, lost, trackerVars, listed, workerVars, active, pages,
                   cancelled, visited>>

-----------------------------------------------------------------------------
(* A worker *)

Move(w, from, to) == phase = "working" /\ pc[w] = from /\ pc' = [pc EXCEPT ![w] = to]

LimitReached(w) ==
    /\ cancelled \/ pages >= MaxPages
    /\ Move(w, "loop", "ended")
    /\ UNCHANGED <<frontierVars, trackerVars, phase, listed, item, left, active, pages, cancelled, visited>>

\* The context and the budget were read before, and TryDequeue finds an entry.
Take(w) ==
    /\ ~cancelled /\ pages < MaxPages /\ ~closed
    /\ \E entry \in heap :
          /\ Foremost(entry)
          /\ heap' = heap \ {entry}
          /\ item' = [item EXCEPT ![w] = entry]
    /\ Move(w, "loop", "held")
    /\ UNCHANGED <<seen, closed, lost, trackerVars, phase, listed, left, active, pages, cancelled, visited>>

\* TryDequeue finds nothing: the count of active workers is read, and then the heap.
\* A worker that reads something else sleeps and tries again.
FindNothing(w) ==
    /\ ~cancelled /\ pages < MaxPages /\ (heap = {} \/ closed)
    /\ active = 0
    /\ Move(w, "loop", "quiet")
    /\ UNCHANGED <<frontierVars, trackerVars, phase, listed, item, left, active, pages, cancelled, visited>>
Quiesce(w) ==
    /\ IF heap = {} THEN Move(w, "quiet", "ended") ELSE Move(w, "quiet", "loop")
    /\ UNCHANGED <<frontierVars, trackerVars, phase, listed, item, left, active, pages, cancelled, visited>>

\* The worker counts as active only after IsPruned has let the entry pass.
Skip(w) ==
    /\ IsPruned(item[w])
    /\ Move(w, "held", "loop")
    /\ UNCHANGED <<frontierVars, trackerVars, phase, listed, item, left, active, pages, cancelled, visited>>
Begin(w) ==
    /\ ~IsPruned(item[w])
    /\ active' = active + 1
    /\ visited' = visited \cup {item[w].url}
    /\ Move(w, "held", "fetch")
    /\ UNCHANGED <<frontierVars, trackerVars, phase, listed, item, left, pages, cancelled>>

Followed(w, links) == IF item[w].depth < MaxDepth THEN links ELSE << >>

\* The fetch, or what follows it, fails, or the context has ended.
Fail(w) ==
    /\ Move(w, "fetch", "leave")
    /\ UNCHANGED <<frontierVars, trackerVars, phase, listed, item, left, active, pages, cancelled, visited>>

\* 304: the links are those kept with the document, and no yield is recorded.
NotModified(w) ==
    /\ item[w].url \in DOMAIN Stored
    /\ left' = [left EXCEPT ![w] = Followed(w, Stored[item[w].url])]
    /\ Move(w, "fetch", "oldLinks")
    /\ UNCHANGED <<frontierVars, trackerVars, phase, listed, item, active, pages, cancelled, visited>>
Fetch(w) ==
    /\ left' = [left EXCEPT ![w] = Followed(w, Links[Final[item[w].url]])]
    /\ Move(w, "fetch", "links")
    /\ UNCHANGED <<frontierVars, trackerVars, phase, listed, item, active, pages, cancelled, visited>>

EnqueueLink(w) ==
    /\ phase = "working" /\ pc[w] \in {"links", "oldLinks"} /\ left[w] # << >>
    /\ Enqueue(Head(left[w]), IF pc[w] = "links" THEN AnchorScore[Head(left[w])] ELSE NoAnchor,
               item[w].depth + 1)
    /\ left' = [left EXCEPT ![w] = Tail(@)]
    /\ UNCHANGED <<closed, trackerVars, phase, listed, pc, item, active, pages, cancelled, visited>>

\* The page is indexed and stored, changed or not, and its yield is recorded
\* under the URL that answered.
Record(w) ==
    /\ left[w] = << >>
    /\ LET page == Final[item[w].url]
       IN  RecordYield(page, page \in Barren, page \in Hub, item[w].depth)
    /\ Move(w, "links", "count")
    /\ UNCHANGED <<frontierVars, phase, listed, item, left, active, pages, cancelled, visited>>
Count(w) ==
    /\ left[w] = << >>
    /\ pages' = pages + 1
    /\ Move(w, "count", "leave") \/ Move(w, "oldLinks", "leave")
    /\ UNCHANGED <<frontierVars, trackerVars, phase, listed, item, left, active, cancelled, visited>>
Leave(w) ==
    /\ active' = active - 1
    /\ Move(w, "leave", "loop")
    /\ UNCHANGED <<frontierVars, trackerVars, phase, listed, item, left, pages, cancelled, visited>>

WorkerStep(w) ==
    \/ LimitReached(w) \/ Take(w) \/ FindNothing(w) \/ Quiesce(w) \/ Skip(w) \/ Begin(w)
    \/ Fail(w) \/ NotModified(w) \/ Fetch(w) \/ EnqueueLink(w) \/ Record(w) \/ Count(w) \/ Leave(w)

Next ==
    \/ EnqueueListed \/ StartWorkers \/ Cancel \/ Watch \/ End
    \/ \E w \in Worker : WorkerStep(w)

Spec == Init /\ [][Next]_vars

-----------------------------------------------------------------------------
\* Pages of a subtree, as the sites answered, that hold little text.
BarrenFound(subtree) ==
    {u \in visited : Final[u] \in Barren \ Hub /\ Subtree[Final[u]] = subtree}

\* A crawl that completes below its budget of pages has taken up every URL it
\* accepted, except those a full heap refused and those of a subtree in which it
\* found as many barren pages as it has patience for: no interleaving of
\* workers that take, count themselves active and leave strands an entry
\* (job_manager.go:448-477, adaptive.go:69-110).
OnlyBarrenSkipped ==
    phase = "completed" /\ pages < MaxPages =>
        \A u \in seen \ (visited \cup lost) : Cardinality(BarrenFound(Subtree[u])) >= Patience
=============================================================================
