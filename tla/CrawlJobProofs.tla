--------------------------- MODULE CrawlJobProofs ---------------------------
(***************************************************************************)
(* Theorems about CrawlJob, for every site, any number of workers and any  *)
(* limits.                                                                 *)
(***************************************************************************)
EXTENDS CrawlJob, FiniteSetTheorems, SequenceTheorems, TLAPS

-----------------------------------------------------------------------------
(* The inductive invariants *)

\* A worker in one of these steps holds the item it took from the queue.
Active == {"wait", "fetch", "links", "send", "upsert", "count", "done"}
Busy == Active \cup {"taken"}

\* In these steps it may still count a page without testing the limit again.
Spending == {"dequeue", "taken", "wait", "fetch", "links", "send", "upsert", "count"}

Steps == {"notStarted", "loop", "dequeue", "quiet?", "empty?", "ended"} \cup Busy

StateOK ==
    /\ queue \in Seq(Item) /\ Len(queue) <= QueueCap
    /\ seen \subseteq URL /\ lost \subseteq URL /\ visited \subseteq URL
    /\ indexed \subseteq URL /\ stored \subseteq URL
    /\ closed \in BOOLEAN /\ cancelled \in BOOLEAN
    /\ status \in {"running", "completed", "cancelled"}
    /\ pagesCrawled \in Nat
    /\ executor \in {"sitemap", "waiting", "ending", "completed", "cancelled", "closing", "ended"}
    /\ sitemapLeft \in Seq(URL)
    /\ client \in {"idle", "marking", "returned"}

WorkersOK ==
    /\ pc \in [Worker -> Steps]
    /\ item \in [Worker -> Item \cup {Nothing}]
    /\ linksLeft \in [Worker -> Seq(URL)]
    /\ page \in [Worker -> {"none", "notModified", "same", "new"}]
    /\ \A w \in Worker : IF pc[w] \in Busy THEN item[w] \in Item ELSE item[w] = Nothing
    /\ \A w \in Worker : pc[w] = "send" => linksLeft[w] # << >>

\* How many workers are in a step of A.
Count(f, A) == Cardinality({w \in Worker : f[w] \in A})

\* activeWorkers counts the workers between its two updates.
ActiveOK == activeWorkers = Count(pc, Active)

TypeInv == StateOK /\ WorkersOK /\ ActiveOK

\* Workers run in one phase of the executor only, and it closes the queue last.
PhaseInv ==
    /\ \A w \in Worker : (pc[w] = "notStarted") <=> (executor = "sitemap")
    /\ executor \notin {"sitemap", "waiting"} => \A w \in Worker : pc[w] = "ended"
    /\ closed => executor = "ended"

\* A worker that will count a page tested the limit before it took the page.
BudgetInv ==
    pagesCrawled + Count(pc, Spending)
        <= (MaxPages + Cardinality(Worker)) - 1

QueuedUrls(q) == {q[k].url : k \in 1..Len(q)}
HeldUrls == {item[w].url : w \in {v \in Worker : pc[v] \in Busy}}

\* Every URL the frontier has seen is somewhere.
PlacesInv == seen = visited \cup lost \cup HeldUrls \cup QueuedUrls(queue)

Distinct(q) == \A i, j \in 1..Len(q) : q[i].url = q[j].url => i = j

OneHolder ==
    \A v, w \in Worker :
        pc[v] \in Busy /\ pc[w] \in Busy /\ item[v].url = item[w].url => v = w

\* ... and in one place only.
OnceInv ==
    /\ Distinct(queue) /\ OneHolder
    /\ QueuedUrls(queue) \cap HeldUrls = {}
    /\ (QueuedUrls(queue) \cup HeldUrls) \cap (visited \cup lost) = {}
    /\ visited \cap lost = {}

\* While nobody cancels, workers leave for good only when the queue is empty or
\* the limit is reached: the last one to leave leaves an empty queue.
EndInv ==
    client = "idle" =>
        /\ cancelled => executor = "ended"
        /\ executor # "cancelled"
        /\ status = IF executor \in {"closing", "ended"} THEN "completed" ELSE "running"
        /\ pagesCrawled < MaxPages /\ (\A w \in Worker : pc[w] = "ended") => queue = << >>

Inv == TypeInv /\ PhaseInv /\ BudgetInv /\ PlacesInv /\ OnceInv /\ EndInv

\* An unchanged page was stored, and so indexed; a new one is indexed first.
DocInv ==
    /\ StoredIsIndexed
    /\ \A w \in Worker :
          \/ pc[w] \in {"links", "send"} /\ page[w] # "new"
          \/ pc[w] = "upsert"
          => item[w].url \in indexed

-----------------------------------------------------------------------------
(* Counting the workers in a set of steps *)

\* One worker's move from a step to another changes the count of the workers in
\* A by what it leaves and what it enters.
LEMMA CountMove ==
    ASSUME NEW f \in [Worker -> Steps], NEW g \in [Worker -> Steps], NEW w \in Worker, NEW A,
           \A v \in Worker \ {w} : g[v] = f[v]
    PROVE  /\ Count(f, A) \in Nat /\ Count(g, A) \in Nat
           /\ (f[w] \in A <=> g[w] \in A) => Count(g, A) = Count(f, A)
           /\ f[w] \notin A /\ g[w] \in A => Count(g, A) = Count(f, A) + 1
           /\ f[w] \in A /\ g[w] \notin A => Count(g, A) = Count(f, A) - 1
           /\ f[w] \notin A => Count(f, A) <= Cardinality(Worker) - 1
<1> DEFINE F == {v \in Worker : f[v] \in A}
           G == {v \in Worker : g[v] \in A}
<1>1. IsFiniteSet(Worker) /\ Cardinality(Worker) \in Nat
      BY ConstantsAssumption, FS_CardinalityType
<1>2. IsFiniteSet(F) /\ IsFiniteSet(G)
      BY <1>1, FS_Subset
<1>3. Cardinality(F) \in Nat /\ Cardinality(G) \in Nat
      BY <1>2, FS_CardinalityType
<1>4. ASSUME f[w] \in A <=> g[w] \in A PROVE F = G
      BY <1>4
<1>5. ASSUME f[w] \notin A, g[w] \in A PROVE Cardinality(G) = Cardinality(F) + 1
  <2>1. G = F \cup {w} /\ w \notin F
        BY <1>5
  <2> QED BY <1>2, <2>1, FS_AddElement
<1>6. ASSUME f[w] \in A, g[w] \notin A PROVE Cardinality(G) = Cardinality(F) - 1
  <2>1. F = G \cup {w} /\ w \notin G
        BY <1>6
  <2>2. Cardinality(F) = Cardinality(G) + 1
        BY <1>2, <2>1, FS_AddElement
  <2> QED BY <1>3, <2>2
<1>7. ASSUME f[w] \notin A PROVE Cardinality(F) <= Cardinality(Worker) - 1
  <2>1. F \subseteq Worker \ {w}
        BY <1>7
  <2>2. IsFiniteSet(Worker \ {w}) /\ Cardinality(Worker \ {w}) = Cardinality(Worker) - 1
        BY <1>1, FS_RemoveElement
  <2> QED BY <2>1, <2>2, FS_Subset
<1> QED BY <1>3, <1>4, <1>5, <1>6, <1>7 DEF Count

LEMMA CountEnter ==
    ASSUME NEW f \in [Worker -> Steps], NEW g \in [Worker -> Steps], NEW w \in Worker, NEW A,
           \A v \in Worker \ {w} : g[v] = f[v], f[w] \notin A, g[w] \in A
    PROVE  /\ Count(f, A) \in Nat /\ Count(f, A) <= Cardinality(Worker) - 1
           /\ Count(g, A) = Count(f, A) + 1
BY CountMove

LEMMA CountLeave ==
    ASSUME NEW f \in [Worker -> Steps], NEW g \in [Worker -> Steps], NEW w \in Worker, NEW A,
           \A v \in Worker \ {w} : g[v] = f[v], f[w] \in A, g[w] \notin A
    PROVE  Count(f, A) \in Nat /\ Count(g, A) = Count(f, A) - 1
BY CountMove

LEMMA CountBounds ==
    ASSUME NEW f \in [Worker -> Steps], NEW A
    PROVE  /\ Count(f, A) \in 0..Cardinality(Worker)
           /\ (\A w \in Worker : f[w] \notin A) => Count(f, A) = 0
<1>1. IsFiniteSet(Worker) /\ {w \in Worker : f[w] \in A} \subseteq Worker
      BY ConstantsAssumption
<1>2. Count(f, A) \in Nat /\ Cardinality(Worker) \in Nat /\ Count(f, A) <= Cardinality(Worker)
      BY <1>1, FS_Subset, FS_CardinalityType DEF Count
<1>3. ASSUME \A w \in Worker : f[w] \notin A PROVE Count(f, A) = 0
      BY <1>3, {w \in Worker : f[w] \in A} = {}, FS_EmptySet DEF Count
<1> QED BY <1>2, <1>3

-----------------------------------------------------------------------------
(* Types *)

\* Whatever Enqueue does with a URL, the queue stays within its capacity.
LEMMA EnqueueType ==
    ASSUME StateOK, NEW url \in URL, NEW depth \in Nat, Enqueue(url, depth)
    PROVE  /\ queue' \in Seq(Item) /\ Len(queue') <= QueueCap
           /\ seen' \subseteq URL /\ lost' \subseteq URL
<1>1. [url |-> url, depth |-> depth] \in Item
      BY DEF Item
<1>2. CASE Len(queue) < QueueCap
  <2>1. Append(queue, [url |-> url, depth |-> depth]) \in Seq(Item)
        /\ Len(Append(queue, [url |-> url, depth |-> depth])) = Len(queue) + 1
        BY <1>1, AppendProperties DEF StateOK
  <2>2. Len(queue) \in Nat /\ Len(queue) + 1 <= QueueCap
        BY <1>2, LenProperties, ConstantsAssumption DEF StateOK
  <2>3. queue' = queue \/ queue' = Append(queue, [url |-> url, depth |-> depth])
        BY DEF Enqueue
  <2>4. queue' \in Seq(Item) /\ Len(queue') <= QueueCap
        BY <2>1, <2>2, <2>3 DEF StateOK
  <2> QED BY <2>4 DEF Enqueue, StateOK
<1>3. CASE ~(Len(queue) < QueueCap)
      BY <1>3 DEF Enqueue, StateOK
<1> QED BY <1>2, <1>3

LEMMA StateStep == TypeInv /\ [Next]_vars => StateOK'
<1> SUFFICES ASSUME TypeInv, [Next]_vars PROVE StateOK'
    OBVIOUS
<1> USE DEF TypeInv
<1>1. CASE EnqueueSitemapLink
  <2>1. Head(sitemapLeft) \in URL /\ Tail(sitemapLeft) \in Seq(URL)
        BY <1>1, HeadTailProperties DEF EnqueueSitemapLink, StateOK
  <2>2. queue' \in Seq(Item) /\ Len(queue') <= QueueCap /\ seen' \subseteq URL /\ lost' \subseteq URL
        BY <1>1, <2>1, EnqueueType DEF EnqueueSitemapLink
  <2> QED BY <1>1, <2>1, <2>2
          DEF EnqueueSitemapLink, StateOK, jobVars, counters, docVars
<1>2. CASE StartWorkers
      BY <1>2 DEF StartWorkers, StateOK, frontierVars, jobVars, counters, docVars
<1>3. CASE WorkersDone \/ ReadContext \/ SetFinalStatus \/ Finish
      BY <1>3 DEF WorkersDone, ReadContext, SetFinalStatus, Finish, StateOK, frontierVars, jobVars, counters, docVars
<1>4. CASE Cancel \/ MarkCancelled
      BY <1>4 DEF Cancel, MarkCancelled, StateOK, frontierVars, counters, docVars
<1>5. ASSUME NEW w \in Worker, Work(w) PROVE StateOK'
  <2>1. CASE Dequeue(w)
    <3>1. Tail(queue) \in Seq(Item) /\ Len(Tail(queue)) <= QueueCap
      <4>1. Tail(queue) \in Seq(Item) /\ Len(Tail(queue)) = Len(queue) - 1
            BY <2>1, HeadTailProperties DEF Dequeue, StateOK
      <4>2. Len(queue) \in Nat
            BY LenProperties DEF StateOK
      <4> QED BY <4>1, <4>2, ConstantsAssumption DEF StateOK
    <3> QED BY <2>1, <3>1 DEF Dequeue, StateOK, jobVars, counters, outerVars, docVars
  <2>2. CASE SendLink(w)
    <3>1. Head(linksLeft[w]) \in URL /\ item[w].depth + 1 \in Nat
      <4>1. linksLeft[w] \in Seq(URL) /\ linksLeft[w] # << >> /\ item[w] \in Item
            BY <2>2 DEF SendLink, WorkersOK, Busy, Active
      <4> QED BY <4>1, HeadTailProperties DEF Item
    <3>2. queue' \in Seq(Item) /\ Len(queue') <= QueueCap /\ seen' \subseteq URL /\ lost' \subseteq URL
          BY <2>2, <3>1, EnqueueType DEF SendLink
    <3> QED BY <2>2, <3>2 DEF SendLink, StateOK, jobVars, counters, outerVars, docVars
  <2>3. CASE Index(w) \/ Upsert(w)
    <3>1. item[w].url \in URL
          BY <2>3 DEF Index, Upsert, WorkersOK, Busy, Active, Item
    <3> QED BY <2>3, <3>1 DEF Index, Upsert, StateOK, frontierVars, jobVars, counters, outerVars
  <2>4. CASE Done(w)
    <3>1. item[w].url \in URL
          BY <2>4 DEF Done, WorkersOK, Busy, Active, Item
    <3> QED BY <2>4, <3>1 DEF Done, StateOK, frontierVars, jobVars, outerVars, docVars
  <2>5. CASE CountActive(w) \/ CountPage(w)
        BY <2>5 DEF CountActive, CountPage, StateOK, frontierVars, jobVars, outerVars, docVars
  <2>6. CASE BeginTurn(w) \/ FindNothing(w) \/ ReadActive(w) \/ ReadLen(w) \/ Wait(w)
             \/ FetchFails(w) \/ Fetch(w) \/ OfferLink(w) \/ SkipIndex(w)
        BY <2>6 DEF BeginTurn, FindNothing, ReadActive, ReadLen, Wait, FetchFails, Fetch, OfferLink, SkipIndex,
                    StateOK, frontierVars, jobVars, counters, outerVars, docVars
  <2> QED BY <1>5, <2>1, <2>2, <2>3, <2>4, <2>5, <2>6 DEF Work
<1>6. CASE UNCHANGED vars
      BY <1>6 DEF vars, StateOK, frontierVars, jobVars, counters, outerVars, docVars
<1> QED BY <1>1, <1>2, <1>3, <1>4, <1>5, <1>6 DEF Next, Execute

\* A worker holds an item from the moment it takes it until it is done with it.
LEMMA WorkersStep == TypeInv /\ PhaseInv /\ [Next]_vars => WorkersOK'
<1> SUFFICES ASSUME TypeInv, PhaseInv, [Next]_vars PROVE WorkersOK'
    OBVIOUS
<1> USE DEF TypeInv
<1>1. CASE EnqueueSitemapLink \/ WorkersDone \/ ReadContext \/ SetFinalStatus \/ Finish
           \/ Cancel \/ MarkCancelled
      BY <1>1 DEF EnqueueSitemapLink, WorkersDone, ReadContext, SetFinalStatus, Finish, Cancel, MarkCancelled,
                  WorkersOK, workerVars
<1>2. CASE StartWorkers
  <2>1. \A w \in Worker : item[w] = Nothing
        BY <1>2 DEF StartWorkers, PhaseInv, WorkersOK, Busy, Active
  <2> QED BY <1>2, <2>1 DEF StartWorkers, WorkersOK, Steps, Busy, Active
<1>3. ASSUME NEW w \in Worker, Work(w) PROVE WorkersOK'
  <2> USE DEF WorkersOK, Goto, Steps, Busy, Active
  <2>1. CASE Dequeue(w)
    <3>1. Head(queue) \in Item
          BY <2>1, HeadTailProperties DEF Dequeue, StateOK
    <3> QED BY <2>1, <3>1 DEF Dequeue
  <2>2. CASE SendLink(w)
    <3>1. Tail(linksLeft[w]) \in Seq(URL)
          BY <2>2, HeadTailProperties DEF SendLink
    <3> QED BY <2>2, <3>1 DEF SendLink
  <2>3. CASE OfferLink(w)
    <3>1. Tail(linksLeft[w]) \in Seq(URL)
          BY <2>3, HeadTailProperties DEF OfferLink
    <3> QED BY <2>3, <3>1 DEF OfferLink
  <2>4. CASE Fetch(w)
    <3>1. Links[item[w].url] \in Seq(URL) /\ << >> \in Seq(URL)
          BY <2>4, ConstantsAssumption DEF Fetch, Item
    <3> QED BY <2>4, <3>1 DEF Fetch
  <2>5. CASE Done(w)
        BY <2>5 DEF Done
  <2>6. CASE BeginTurn(w) \/ FindNothing(w) \/ ReadActive(w) \/ ReadLen(w)
    <3>1. CASE BeginTurn(w) \/ FindNothing(w)
      BY <3>1 DEF BeginTurn, FindNothing
    <3>2. CASE ReadActive(w)
      BY <3>2 DEF ReadActive
    <3>3. CASE ReadLen(w)
      BY <3>3 DEF ReadLen
    <3> QED BY <2>6, <3>1, <3>2, <3>3
  <2>7. CASE CountActive(w) \/ Wait(w) \/ FetchFails(w)
        BY <2>7 DEF CountActive, Wait, FetchFails
  <2>8. CASE Index(w) \/ SkipIndex(w) \/ Upsert(w) \/ CountPage(w)
        BY <2>8 DEF Index, SkipIndex, Upsert, CountPage
  <2> QED BY <1>3, <2>1, <2>2, <2>3, <2>4, <2>5, <2>6, <2>7, <2>8 DEF Work
<1>4. CASE UNCHANGED vars
      BY <1>4 DEF vars, WorkersOK, workerVars
<1> QED BY <1>1, <1>2, <1>3, <1>4 DEF Next, Execute

\* The counter of active workers counts them.
LEMMA ActiveStep == TypeInv /\ PhaseInv /\ [Next]_vars => ActiveOK'
<1> SUFFICES ASSUME TypeInv, PhaseInv, [Next]_vars PROVE ActiveOK'
    OBVIOUS
<1>0. pc \in [Worker -> Steps] /\ ActiveOK
      BY DEF TypeInv, WorkersOK
<1>1. CASE EnqueueSitemapLink \/ WorkersDone \/ ReadContext \/ SetFinalStatus \/ Finish
           \/ Cancel \/ MarkCancelled
      BY <1>0, <1>1 DEF EnqueueSitemapLink, WorkersDone, ReadContext, SetFinalStatus, Finish, Cancel, MarkCancelled,
                  ActiveOK, workerVars, counters
<1>2. CASE StartWorkers
  <2>1. pc' \in [Worker -> Steps]
        BY <1>2 DEF StartWorkers, Steps
  <2>2. \A w \in Worker : pc[w] \notin Active /\ pc'[w] \notin Active
        BY <1>2 DEF StartWorkers, PhaseInv, Active
  <2>3. Count(pc, Active) = 0 /\ Count(pc', Active) = 0
        BY <1>0, <2>1, <2>2, CountBounds
  <2> QED BY <1>0, <1>2, <2>3 DEF StartWorkers, ActiveOK, counters
<1>3. ASSUME NEW w \in Worker, Work(w) PROVE ActiveOK'
  <2> USE DEF Goto
  <2>1. CASE CountActive(w)
    <3>1. /\ pc' \in [Worker -> Steps] /\ \A v \in Worker \ {w} : pc'[v] = pc[v]
          /\ pc[w] \notin Active /\ pc'[w] \in Active
          BY <1>0, <2>1 DEF CountActive, Active, Steps, Busy
    <3>2. Count(pc', Active) = Count(pc, Active) + 1
          BY <1>0, <3>1, CountEnter
    <3> QED BY <1>0, <2>1, <3>2 DEF CountActive, ActiveOK
  <2>2. CASE Done(w)
    <3>1. /\ pc' \in [Worker -> Steps] /\ \A v \in Worker \ {w} : pc'[v] = pc[v]
          /\ pc[w] \in Active /\ pc'[w] \notin Active
          BY <1>0, <2>2 DEF Done, Active, Steps
    <3>2. Count(pc', Active) = Count(pc, Active) - 1
          BY <1>0, <3>1, CountLeave
    <3> QED BY <1>0, <2>2, <3>2 DEF Done, ActiveOK
  <2>3. CASE BeginTurn(w) \/ FindNothing(w) \/ ReadActive(w) \/ ReadLen(w) \/ Dequeue(w)
             \/ Wait(w) \/ FetchFails(w) \/ Fetch(w) \/ OfferLink(w) \/ SendLink(w)
             \/ Index(w) \/ SkipIndex(w) \/ Upsert(w) \/ CountPage(w)
    <3>1. PICK s \in Steps : pc' = [pc EXCEPT ![w] = s] /\ (pc[w] \in Active <=> s \in Active)
      <4>1. CASE BeginTurn(w) \/ FindNothing(w) \/ ReadActive(w) \/ ReadLen(w) \/ Dequeue(w)
            BY <4>1 DEF BeginTurn, FindNothing, ReadActive, ReadLen, Dequeue, Active, Steps, Busy
      <4>2. CASE Wait(w) \/ FetchFails(w) \/ Fetch(w) \/ SendLink(w)
            BY <4>2 DEF Wait, FetchFails, Fetch, SendLink, Active, Steps, Busy
      <4>3. CASE OfferLink(w)
        <5>1. pc' = [pc EXCEPT ![w] = IF closed THEN "links" ELSE "send"]
              BY <1>0, <4>3 DEF OfferLink
        <5> QED BY <4>3, <5>1 DEF OfferLink, Active, Steps, Busy
      <4>4. CASE Index(w) \/ SkipIndex(w) \/ Upsert(w) \/ CountPage(w)
            BY <4>4 DEF Index, SkipIndex, Upsert, CountPage, Active, Steps, Busy
      <4> QED BY <2>3, <4>1, <4>2, <4>3, <4>4
    <3>2. /\ pc' \in [Worker -> Steps] /\ \A v \in Worker \ {w} : pc'[v] = pc[v]
          /\ pc[w] \in Active <=> pc'[w] \in Active
          BY <1>0, <3>1
    <3>3. Count(pc', Active) = Count(pc, Active)
          BY <1>0, <3>2, CountMove
    <3>4. activeWorkers' = activeWorkers
          BY <2>3 DEF BeginTurn, FindNothing, ReadActive, ReadLen, Dequeue, Wait, FetchFails, Fetch,
                      OfferLink, SendLink, Index, SkipIndex, Upsert, CountPage, counters
    <3> QED BY <1>0, <3>3, <3>4 DEF ActiveOK
  <2> QED BY <1>3, <2>1, <2>2, <2>3 DEF Work
<1>4. CASE UNCHANGED vars
      BY <1>0, <1>4 DEF vars, ActiveOK, workerVars, counters
<1> QED BY <1>1, <1>2, <1>3, <1>4 DEF Next, Execute

-----------------------------------------------------------------------------
(* Phases *)

LEMMA PhaseStep == TypeInv /\ PhaseInv /\ [Next]_vars => PhaseInv'
<1> SUFFICES ASSUME TypeInv, PhaseInv, [Next]_vars PROVE PhaseInv'
    OBVIOUS
<1> USE DEF PhaseInv, TypeInv
<1>1. CASE EnqueueSitemapLink \/ Cancel \/ MarkCancelled
      BY <1>1 DEF EnqueueSitemapLink, Cancel, MarkCancelled, workerVars, frontierVars
<1>2. CASE StartWorkers
      BY <1>2 DEF StartWorkers, frontierVars
<1>3. CASE WorkersDone \/ ReadContext \/ SetFinalStatus \/ Finish
      BY <1>3 DEF WorkersDone, ReadContext, SetFinalStatus, Finish, workerVars, frontierVars
<1>4. ASSUME NEW w \in Worker, Work(w) PROVE PhaseInv'
  <2>1. pc[w] \notin {"notStarted", "ended"} /\ UNCHANGED <<executor, closed>>
        BY <1>4 DEF Work, BeginTurn, Dequeue, FindNothing, ReadActive, ReadLen, CountActive, Wait, FetchFails,
                    Fetch, OfferLink, SendLink, Index, SkipIndex, Upsert, CountPage, Done,
                    outerVars, frontierVars
  <2>2. executor = "waiting"
        BY <2>1
  <2>3. pc' = pc \/ \E s \in Steps \ {"notStarted"} : pc' = [pc EXCEPT ![w] = s]
    <3> USE DEF Goto, Steps, Busy, Active
    <3>1. CASE BeginTurn(w) \/ Dequeue(w) \/ FindNothing(w) \/ ReadActive(w) \/ ReadLen(w)
          BY <3>1 DEF BeginTurn, Dequeue, FindNothing, ReadActive, ReadLen
    <3>2. CASE CountActive(w) \/ Wait(w) \/ FetchFails(w) \/ Fetch(w)
          BY <3>2 DEF CountActive, Wait, FetchFails, Fetch
    <3>3. CASE OfferLink(w) \/ SendLink(w) \/ Index(w) \/ SkipIndex(w)
          BY <3>3 DEF OfferLink, SendLink, Index, SkipIndex
    <3>4. CASE Upsert(w) \/ CountPage(w) \/ Done(w)
          BY <3>4 DEF Upsert, CountPage, Done
    <3> QED BY <1>4, <3>1, <3>2, <3>3, <3>4 DEF Work
  <2> QED BY <2>1, <2>2, <2>3 DEF WorkersOK
<1>5. CASE UNCHANGED vars
      BY <1>5 DEF vars, workerVars, outerVars, frontierVars
<1> QED BY <1>1, <1>2, <1>3, <1>4, <1>5 DEF Next, Execute

-----------------------------------------------------------------------------
(* The budget *)

\* What is counted and what may yet be counted without a test grows together
\* only when a worker passes the test, and then all but it are within the rest.
LEMMA BudgetStep == TypeInv /\ PhaseInv /\ BudgetInv /\ [Next]_vars => BudgetInv'
<1> SUFFICES ASSUME TypeInv, PhaseInv, BudgetInv, [Next]_vars PROVE BudgetInv'
    OBVIOUS
<1> USE DEF TypeInv
<1>0. /\ MaxPages \in Nat \ {0} /\ Cardinality(Worker) \in Nat
      /\ pagesCrawled \in Nat /\ pc \in [Worker -> Steps]
      BY ConstantsAssumption, FS_CardinalityType DEF StateOK, WorkersOK
<1>1. CASE EnqueueSitemapLink \/ WorkersDone \/ ReadContext \/ SetFinalStatus \/ Finish
           \/ Cancel \/ MarkCancelled
      BY <1>1 DEF EnqueueSitemapLink, WorkersDone, ReadContext, SetFinalStatus, Finish, Cancel, MarkCancelled,
                  BudgetInv, workerVars, counters
<1>2. CASE StartWorkers
  <2>1. pc' \in [Worker -> Steps]
        BY <1>2 DEF StartWorkers, Steps
  <2>2. \A w \in Worker : pc[w] \notin Spending /\ pc'[w] \notin Spending
        BY <1>2 DEF StartWorkers, PhaseInv, Spending
  <2>3. Count(pc, Spending) = 0 /\ Count(pc', Spending) = 0
        BY <1>0, <2>1, <2>2, CountBounds
  <2> QED BY <1>2, <2>3 DEF StartWorkers, BudgetInv, counters
<1>3. ASSUME NEW w \in Worker, Work(w) PROVE BudgetInv'
  <2> USE DEF Goto
  <2>1. CASE BeginTurn(w)
    <3>1. CASE cancelled \/ LimitReached
      <4>1. /\ pc' \in [Worker -> Steps] /\ \A v \in Worker \ {w} : pc'[v] = pc[v]
            /\ pc[w] \notin Spending /\ pc'[w] \notin Spending
            BY <1>0, <2>1, <3>1 DEF BeginTurn, Spending, Steps
      <4>2. Count(pc', Spending) = Count(pc, Spending)
            BY <1>0, <4>1, CountMove
      <4> QED BY <2>1, <4>2 DEF BeginTurn, BudgetInv, counters
    <3>2. CASE ~(cancelled \/ LimitReached)
      <4>1. /\ pc' \in [Worker -> Steps] /\ \A v \in Worker \ {w} : pc'[v] = pc[v]
            /\ pc[w] \notin Spending /\ pc'[w] \in Spending
            BY <1>0, <2>1, <3>2 DEF BeginTurn, Spending, Steps
      <4>2. /\ Count(pc', Spending) = Count(pc, Spending) + 1
            /\ Count(pc, Spending) \in Nat /\ Count(pc, Spending) <= Cardinality(Worker) - 1
            BY <1>0, <4>1, CountEnter
      <4>3. pagesCrawled < MaxPages /\ pagesCrawled' = pagesCrawled
            BY <1>0, <2>1, <3>2 DEF BeginTurn, LimitReached, counters
      <4>4. pagesCrawled + (Count(pc, Spending) + 1) <= (MaxPages + Cardinality(Worker)) - 1
            BY <1>0, <4>2, <4>3
      <4> QED BY <4>2, <4>3, <4>4 DEF BudgetInv
    <3> QED BY <3>1, <3>2
  <2>2. CASE CountPage(w)
    <3>1. /\ pc' \in [Worker -> Steps] /\ \A v \in Worker \ {w} : pc'[v] = pc[v]
          /\ pc[w] \in Spending /\ pc'[w] \notin Spending
          BY <1>0, <2>2 DEF CountPage, Spending, Steps, Busy, Active
    <3>2. Count(pc', Spending) = Count(pc, Spending) - 1 /\ Count(pc, Spending) \in Nat
          BY <1>0, <3>1, CountLeave
    <3>3. pagesCrawled' = pagesCrawled + 1
          BY <2>2 DEF CountPage
    <3> QED BY <1>0, <3>2, <3>3 DEF BudgetInv
  <2>3. CASE \/ FindNothing(w) \/ Dequeue(w) \/ ReadActive(w) \/ ReadLen(w) \/ CountActive(w)
             \/ Wait(w) \/ FetchFails(w) \/ Fetch(w) \/ OfferLink(w) \/ SendLink(w)
             \/ Index(w) \/ SkipIndex(w) \/ Upsert(w) \/ Done(w)
    <3>1. PICK s \in Steps : pc' = [pc EXCEPT ![w] = s] /\ (s \in Spending => pc[w] \in Spending)
      <4> USE DEF Spending, Steps, Busy, Active
      <4>1. CASE FindNothing(w) \/ Dequeue(w) \/ ReadActive(w) \/ ReadLen(w) \/ CountActive(w)
            BY <4>1 DEF FindNothing, Dequeue, ReadActive, ReadLen, CountActive
      <4>2. CASE Wait(w) \/ FetchFails(w) \/ Fetch(w) \/ SendLink(w)
            BY <4>2 DEF Wait, FetchFails, Fetch, SendLink
      <4>3. CASE OfferLink(w)
        <5>1. pc' = [pc EXCEPT ![w] = IF closed THEN "links" ELSE "send"]
              BY <4>3, <1>0 DEF OfferLink
        <5> QED BY <4>3, <5>1 DEF OfferLink
      <4>4. CASE Index(w) \/ SkipIndex(w) \/ Upsert(w) \/ Done(w)
            BY <4>4 DEF Index, SkipIndex, Upsert, Done
      <4> QED BY <2>3, <4>1, <4>2, <4>3, <4>4
    <3>2. /\ pc' \in [Worker -> Steps] /\ \A v \in Worker \ {w} : pc'[v] = pc[v]
          /\ pc'[w] \in Spending => pc[w] \in Spending
          BY <1>0, <3>1
    <3>3. Count(pc', Spending) <= Count(pc, Spending) /\ Count(pc', Spending) \in Nat /\ Count(pc, Spending) \in Nat
          BY <1>0, <3>2, CountMove
    <3>4. pagesCrawled' = pagesCrawled
          BY <2>3 DEF FindNothing, Dequeue, ReadActive, ReadLen, CountActive, Wait, FetchFails, Fetch,
                      OfferLink, SendLink, Index, SkipIndex, Upsert, Done, counters
    <3> QED BY <1>0, <3>3, <3>4 DEF BudgetInv
  <2> QED BY <1>3, <2>1, <2>2, <2>3 DEF Work
<1>4. CASE UNCHANGED vars
      BY <1>4 DEF vars, BudgetInv, workerVars, counters
<1> QED BY <1>1, <1>2, <1>3, <1>4 DEF Next, Execute

-----------------------------------------------------------------------------
(* Places *)

LEMMA QueuedAppend ==
    ASSUME NEW q \in Seq(Item), NEW e \in Item
    PROVE  QueuedUrls(Append(q, e)) = QueuedUrls(q) \cup {e.url}
<1>1. /\ Len(q) \in Nat /\ Len(Append(q, e)) = Len(q) + 1
      /\ \A k \in 1..Len(q) : Append(q, e)[k] = q[k]
      /\ Append(q, e)[Len(q) + 1] = e
      BY AppendProperties, LenProperties
<1>2. 1..Len(Append(q, e)) = 1..Len(q) \cup {Len(q) + 1}
      BY <1>1
<1> QED BY <1>1, <1>2 DEF QueuedUrls

LEMMA QueuedTail ==
    ASSUME NEW q \in Seq(Item), q # << >>
    PROVE  QueuedUrls(q) = {Head(q).url} \cup QueuedUrls(Tail(q))
<1>1. /\ Len(q) \in Nat \ {0} /\ Len(Tail(q)) = Len(q) - 1
      /\ Head(q) = q[1]
      /\ \A k \in 1..Len(Tail(q)) : Tail(q)[k] = q[k + 1]
      BY HeadTailProperties, LenProperties, EmptySeq
<1>2. ASSUME NEW u \in QueuedUrls(q) PROVE u \in {Head(q).url} \cup QueuedUrls(Tail(q))
  <2>1. PICK k \in 1..Len(q) : u = q[k].url
        BY <1>2 DEF QueuedUrls
  <2>2. CASE k = 1
        BY <1>1, <2>1, <2>2
  <2>3. CASE k # 1
    <3>1. k - 1 \in 1..Len(Tail(q)) /\ Tail(q)[k - 1] = q[k]
          BY <1>1, <2>1, <2>3
    <3> QED BY <2>1, <3>1 DEF QueuedUrls
  <2> QED BY <2>2, <2>3
<1>3. ASSUME NEW u \in QueuedUrls(Tail(q)) PROVE u \in QueuedUrls(q)
  <2>1. PICK k \in 1..Len(Tail(q)) : u = Tail(q)[k].url
        BY <1>3 DEF QueuedUrls
  <2>2. k + 1 \in 1..Len(q) /\ u = q[k + 1].url
        BY <1>1, <2>1
  <2> QED BY <2>2 DEF QueuedUrls
<1>4. Head(q).url \in QueuedUrls(q)
      BY <1>1 DEF QueuedUrls
<1> QED BY <1>2, <1>3, <1>4

LEMMA DistinctAppend ==
    ASSUME NEW q \in Seq(Item), NEW e \in Item, Distinct(q), e.url \notin QueuedUrls(q)
    PROVE  Distinct(Append(q, e))
<1>1. /\ Len(q) \in Nat /\ Len(Append(q, e)) = Len(q) + 1
      /\ \A k \in 1..Len(q) : Append(q, e)[k] = q[k]
      /\ Append(q, e)[Len(q) + 1] = e
      BY AppendProperties, LenProperties
<1>2. \A k \in 1..Len(q) : q[k].url # e.url
      BY DEF QueuedUrls
<1>3. \A k \in 1..Len(Append(q, e)) : k \in 1..Len(q) \/ k = Len(q) + 1
      BY <1>1
<1> QED BY <1>1, <1>2, <1>3 DEF Distinct

LEMMA DistinctTail ==
    ASSUME NEW q \in Seq(Item), q # << >>, Distinct(q)
    PROVE  Distinct(Tail(q)) /\ Head(q).url \notin QueuedUrls(Tail(q))
<1>1. /\ Len(q) \in Nat \ {0} /\ Len(Tail(q)) = Len(q) - 1
      /\ Head(q) = q[1]
      /\ \A k \in 1..Len(Tail(q)) : Tail(q)[k] = q[k + 1]
      BY HeadTailProperties, LenProperties, EmptySeq
<1>2. \A k \in 1..Len(Tail(q)) : k + 1 \in 1..Len(q) /\ k + 1 # 1
      BY <1>1
<1>3. 1 \in 1..Len(q)
      BY <1>1
<1>4. Distinct(Tail(q))
  <2> SUFFICES ASSUME NEW i \in 1..Len(Tail(q)), NEW j \in 1..Len(Tail(q)),
                      Tail(q)[i].url = Tail(q)[j].url
               PROVE  i = j
      BY DEF Distinct
  <2>1. i + 1 = j + 1
        BY <1>1, <1>2 DEF Distinct
  <2> QED BY <2>1
<1>5. \A k \in 1..Len(Tail(q)) : Tail(q)[k].url # Head(q).url
      BY <1>1, <1>2, <1>3 DEF Distinct
<1> QED BY <1>4, <1>5 DEF QueuedUrls

\* Enqueue puts what it marks as seen in the queue, or among the lost, and
\* nothing that was seen before.
LEMMA EnqueuePlaces ==
    ASSUME StateOK, PlacesInv, OnceInv, NEW url \in URL, NEW depth \in Nat, Enqueue(url, depth),
           HeldUrls' = HeldUrls, visited' = visited, OneHolder'
    PROVE  PlacesInv' /\ OnceInv'
<1> DEFINE e == [url |-> url, depth |-> depth]
<1>1. e \in Item /\ e.url = url
      BY DEF Item
<1>2. CASE UNCHANGED <<queue, seen, lost>>
      BY <1>2 DEF PlacesInv, OnceInv
<1>3. ASSUME url \notin seen, seen' = seen \cup {url}, queue' = Append(queue, e), UNCHANGED lost
      PROVE  PlacesInv' /\ OnceInv'
  <2>1. QueuedUrls(queue') = QueuedUrls(queue) \cup {url}
        BY <1>1, <1>3, QueuedAppend DEF StateOK
  <2>2. url \notin visited \cup lost \cup HeldUrls \cup QueuedUrls(queue)
        BY <1>3 DEF PlacesInv
  <2>3. Distinct(queue')
        BY <1>1, <1>3, <2>2, DistinctAppend DEF StateOK, OnceInv
  <2> QED BY <1>3, <2>1, <2>2, <2>3 DEF PlacesInv, OnceInv
<1>4. ASSUME url \notin seen, seen' = seen \cup {url}, lost' = lost \cup {url}, UNCHANGED queue
      PROVE  PlacesInv' /\ OnceInv'
      BY <1>4 DEF PlacesInv, OnceInv
<1> QED BY <1>2, <1>3, <1>4 DEF Enqueue

LEMMA PlacesStep == TypeInv /\ PhaseInv /\ PlacesInv /\ OnceInv /\ [Next]_vars => PlacesInv' /\ OnceInv'
<1> SUFFICES ASSUME TypeInv, PhaseInv, PlacesInv, OnceInv, [Next]_vars PROVE PlacesInv' /\ OnceInv'
    OBVIOUS
<1> USE DEF TypeInv
<1>0. pc \in [Worker -> Steps] /\ item \in [Worker -> Item \cup {Nothing}]
      BY DEF WorkersOK
<1>1. CASE EnqueueSitemapLink
  <2>1. Head(sitemapLeft) \in URL /\ Enqueue(Head(sitemapLeft), 1)
        BY <1>1, HeadTailProperties DEF EnqueueSitemapLink, StateOK
  <2>2. HeldUrls' = HeldUrls /\ visited' = visited /\ OneHolder'
        BY <1>1 DEF EnqueueSitemapLink, HeldUrls, workerVars, OnceInv, OneHolder
  <2> QED BY <2>1, <2>2, EnqueuePlaces
<1>2. CASE StartWorkers
  <2>1. HeldUrls' = HeldUrls /\ OneHolder'
        BY <1>2 DEF StartWorkers, PhaseInv, HeldUrls, OneHolder, Busy, Active
  <2> QED BY <1>2, <2>1 DEF StartWorkers, PlacesInv, OnceInv, frontierVars
<1>3. CASE WorkersDone \/ ReadContext \/ SetFinalStatus \/ Finish \/ Cancel \/ MarkCancelled
      BY <1>3 DEF WorkersDone, ReadContext, SetFinalStatus, Finish, Cancel, MarkCancelled,
                  PlacesInv, OnceInv, OneHolder, HeldUrls, workerVars, frontierVars
<1>4. ASSUME NEW w \in Worker, Work(w) PROVE PlacesInv' /\ OnceInv'
  <2> USE DEF Goto
  <2>1. CASE Dequeue(w)
    <3>1. pc[w] \notin Busy /\ pc' = [pc EXCEPT ![w] = "taken"] /\ "taken" \in Busy
          BY <2>1 DEF Dequeue, Busy, Active
    <3>2. QueuedUrls(queue) = {Head(queue).url} \cup QueuedUrls(queue')
          BY <2>1, QueuedTail DEF Dequeue, StateOK
    <3>3. item' = [item EXCEPT ![w] = Head(queue)]
          BY <2>1 DEF Dequeue
    <3>4. HeldUrls' = HeldUrls \cup {Head(queue).url}
          BY <1>0, <3>1, <3>3 DEF HeldUrls
    <3>5. Distinct(queue') /\ Head(queue).url \notin QueuedUrls(queue')
          BY <2>1, DistinctTail DEF Dequeue, StateOK, OnceInv
    <3>6. Head(queue).url \notin HeldUrls
          BY <3>2 DEF OnceInv
    <3>7. OneHolder'
          BY <1>0, <3>1, <3>3, <3>6 DEF OneHolder, OnceInv, HeldUrls
    <3> QED BY <2>1, <3>2, <3>4, <3>5, <3>7 DEF Dequeue, PlacesInv, OnceInv
  <2>2. CASE Done(w)
    <3>1. pc[w] \in Busy /\ pc' = [pc EXCEPT ![w] = "loop"] /\ "loop" \notin Busy
          BY <2>2 DEF Done, Busy, Active
    <3>2. \A v \in Worker \ {w} : item'[v] = item[v]
          BY <1>0, <2>2 DEF Done
    <3>3. HeldUrls' \cup {item[w].url} = HeldUrls
          BY <1>0, <3>1, <3>2 DEF HeldUrls
    <3>4. item[w].url \notin HeldUrls'
          BY <1>0, <3>1, <3>2 DEF HeldUrls, OnceInv, OneHolder
    <3>5. OneHolder'
          BY <1>0, <3>1, <3>2 DEF OnceInv, OneHolder
    <3>6. UNCHANGED <<queue, seen, lost>> /\ visited' = visited \cup {item[w].url}
          BY <2>2 DEF Done, frontierVars
    <3> QED BY <3>3, <3>4, <3>5, <3>6 DEF PlacesInv, OnceInv
  <2>3. CASE SendLink(w)
    <3>1. linksLeft[w] \in Seq(URL) /\ linksLeft[w] # << >> /\ item[w] \in Item
          BY <2>3 DEF SendLink, WorkersOK, Busy, Active
    <3>2. Head(linksLeft[w]) \in URL /\ item[w].depth + 1 \in Nat
          BY <3>1, HeadTailProperties DEF Item
    <3>3. HeldUrls' = HeldUrls
          BY <1>0, <2>3 DEF SendLink, HeldUrls, Busy, Active
    <3>4. OneHolder'
          BY <1>0, <2>3 DEF SendLink, OnceInv, OneHolder, Busy, Active
    <3> QED BY <2>3, <3>2, <3>3, <3>4, EnqueuePlaces DEF SendLink
  <2>4. CASE \/ BeginTurn(w) \/ FindNothing(w) \/ ReadActive(w) \/ ReadLen(w) \/ CountActive(w)
             \/ Wait(w) \/ FetchFails(w) \/ Fetch(w) \/ OfferLink(w)
             \/ Index(w) \/ SkipIndex(w) \/ Upsert(w) \/ CountPage(w)
    <3>1. PICK s \in Steps : pc' = [pc EXCEPT ![w] = s] /\ (pc[w] \in Busy <=> s \in Busy)
      <4> USE DEF Steps, Busy, Active
      <4>1. CASE BeginTurn(w) \/ FindNothing(w) \/ ReadActive(w) \/ ReadLen(w) \/ CountActive(w)
            BY <4>1 DEF BeginTurn, FindNothing, ReadActive, ReadLen, CountActive
      <4>2. CASE Wait(w) \/ FetchFails(w) \/ Fetch(w)
            BY <4>2 DEF Wait, FetchFails, Fetch
      <4>3. CASE OfferLink(w)
        <5>1. pc' = [pc EXCEPT ![w] = IF closed THEN "links" ELSE "send"]
              BY <1>0, <4>3 DEF OfferLink
        <5> QED BY <4>3, <5>1 DEF OfferLink
      <4>4. CASE Index(w) \/ SkipIndex(w) \/ Upsert(w) \/ CountPage(w)
            BY <4>4 DEF Index, SkipIndex, Upsert, CountPage
      <4> QED BY <2>4, <4>1, <4>2, <4>3, <4>4
    <3>2. UNCHANGED <<item, queue, seen, lost, visited>>
          BY <2>4 DEF BeginTurn, FindNothing, ReadActive, ReadLen, CountActive, Wait, FetchFails, Fetch,
                      OfferLink, Index, SkipIndex, Upsert, CountPage, frontierVars
    <3>3. HeldUrls' = HeldUrls
          BY <1>0, <3>1, <3>2 DEF HeldUrls
    <3>4. OneHolder'
          BY <1>0, <3>1, <3>2 DEF OnceInv, OneHolder
    <3> QED BY <3>2, <3>3, <3>4 DEF PlacesInv, OnceInv
  <2> QED BY <1>4, <2>1, <2>2, <2>3, <2>4 DEF Work
<1>5. CASE UNCHANGED vars
      BY <1>5 DEF vars, PlacesInv, OnceInv, OneHolder, HeldUrls, workerVars, frontierVars
<1> QED BY <1>1, <1>2, <1>3, <1>4, <1>5 DEF Next, Execute

-----------------------------------------------------------------------------
(* The end of the job *)

\* A worker that leaves with nobody cancelling leaves an empty queue behind, or
\* finds the limit reached; whoever fills the queue again has not left.
LEMMA EndStep == TypeInv /\ PhaseInv /\ EndInv /\ [Next]_vars => EndInv'
<1> SUFFICES ASSUME TypeInv, PhaseInv, EndInv, [Next]_vars PROVE EndInv'
    OBVIOUS
<1>0. /\ pc \in [Worker -> Steps] /\ Worker # {}
      /\ pagesCrawled \in Nat /\ MaxPages \in Nat
      BY ConstantsAssumption DEF TypeInv, StateOK, WorkersOK
<1>1. CASE EnqueueSitemapLink
  <2>1. \A w \in Worker : pc'[w] = "notStarted"
        BY <1>1 DEF EnqueueSitemapLink, PhaseInv, workerVars
  <2> QED BY <1>0, <1>1, <2>1 DEF EnqueueSitemapLink, EndInv, jobVars
<1>2. CASE StartWorkers
  <2>1. \A w \in Worker : pc'[w] = "loop"
        BY <1>2 DEF StartWorkers
  <2> QED BY <1>0, <1>2, <2>1 DEF StartWorkers, EndInv, jobVars
<1>3. CASE WorkersDone
      BY <1>3 DEF WorkersDone, EndInv, frontierVars, jobVars, counters, workerVars
<1>4. CASE ReadContext \/ SetFinalStatus \/ Finish
      BY <1>4 DEF ReadContext, SetFinalStatus, Finish, EndInv, frontierVars, jobVars, counters, workerVars
<1>5. CASE Cancel \/ MarkCancelled
      BY <1>5 DEF Cancel, MarkCancelled, EndInv
<1>6. ASSUME NEW w \in Worker, Work(w) PROVE EndInv'
  <2> USE DEF Goto
  <2>1. pc[w] \notin {"notStarted", "ended"} /\ UNCHANGED <<executor, client, status, cancelled>>
        BY <1>6 DEF Work, BeginTurn, Dequeue, FindNothing, ReadActive, ReadLen, CountActive, Wait, FetchFails,
                    Fetch, OfferLink, SendLink, Index, SkipIndex, Upsert, CountPage, Done, outerVars, jobVars
  <2>2. executor = "waiting"
        BY <2>1 DEF PhaseInv
  <2>3. ASSUME client' = "idle", pagesCrawled' < MaxPages, \A v \in Worker : pc'[v] = "ended"
        PROVE  queue' = << >>
    <3>1. pc'[w] = "ended"
          BY <2>3
    <3>2. CASE BeginTurn(w)
      <4>1. ~cancelled
            BY <2>1, <2>2, <2>3 DEF EndInv
      <4>2. ~LimitReached
            BY <1>0, <2>3, <3>2 DEF BeginTurn, LimitReached, counters
      <4> QED BY <1>0, <3>1, <3>2, <4>1, <4>2 DEF BeginTurn
    <3>3. CASE ReadLen(w)
          BY <1>0, <3>1, <3>3 DEF ReadLen, frontierVars
    <3>4. CASE Dequeue(w) \/ FindNothing(w) \/ ReadActive(w) \/ CountActive(w) \/ Wait(w)
               \/ FetchFails(w) \/ Fetch(w)
          BY <1>0, <3>1, <3>4 DEF Dequeue, FindNothing, ReadActive, CountActive, Wait, FetchFails, Fetch
    <3>5. CASE OfferLink(w) \/ SendLink(w) \/ Index(w) \/ SkipIndex(w) \/ Upsert(w)
               \/ CountPage(w) \/ Done(w)
          BY <1>0, <3>1, <3>5 DEF OfferLink, SendLink, Index, SkipIndex, Upsert, CountPage, Done
    <3> QED BY <1>6, <3>2, <3>3, <3>4, <3>5 DEF Work
  <2> QED BY <2>1, <2>2, <2>3 DEF EndInv
<1>7. CASE UNCHANGED vars
      BY <1>7 DEF vars, EndInv, frontierVars, jobVars, counters, outerVars, workerVars
<1> QED BY <1>1, <1>2, <1>3, <1>4, <1>5, <1>6, <1>7 DEF Next, Execute

-----------------------------------------------------------------------------
(* Documents *)

LEMMA DocStep == TypeInv /\ PhaseInv /\ DocInv /\ [Next]_vars => DocInv'
<1> SUFFICES ASSUME TypeInv, PhaseInv, DocInv, [Next]_vars PROVE DocInv'
    OBVIOUS
<1> USE DEF DocInv, StoredIsIndexed
<1>0. /\ pc \in [Worker -> Steps] /\ item \in [Worker -> Item \cup {Nothing}]
      /\ page \in [Worker -> {"none", "notModified", "same", "new"}]
      BY DEF TypeInv, WorkersOK
<1>1. CASE EnqueueSitemapLink \/ WorkersDone \/ ReadContext \/ SetFinalStatus \/ Finish
           \/ Cancel \/ MarkCancelled
      BY <1>1 DEF EnqueueSitemapLink, WorkersDone, ReadContext, SetFinalStatus, Finish, Cancel, MarkCancelled,
                  workerVars, docVars
<1>2. CASE StartWorkers
      BY <1>2 DEF StartWorkers, docVars
<1>3. ASSUME NEW w \in Worker, Work(w) PROVE DocInv'
  <2> USE DEF Goto
  <2>1. CASE Fetch(w)
    <3>1. PICK kind \in {"notModified", "same", "new"} :
             page' = [page EXCEPT ![w] = kind] /\ (kind # "new" => item[w].url \in stored)
          BY <2>1 DEF Fetch
    <3> QED BY <1>0, <2>1, <3>1 DEF Fetch, docVars
  <2>2. CASE OfferLink(w)
    <3>1. pc' = [pc EXCEPT ![w] = IF closed THEN "links" ELSE "send"]
          BY <1>0, <2>2 DEF OfferLink
    <3> QED BY <1>0, <2>2, <3>1 DEF OfferLink, docVars
  <2>3. CASE SendLink(w) \/ Index(w) \/ SkipIndex(w)
        BY <1>0, <2>3 DEF SendLink, Index, SkipIndex, docVars
  <2>4. CASE Upsert(w)
        BY <1>0, <2>4 DEF Upsert
  <2>5. CASE CountPage(w) \/ Done(w)
        BY <1>0, <2>5 DEF CountPage, Done, docVars
  <2>6. CASE Dequeue(w)
        BY <1>0, <2>6 DEF Dequeue, docVars
  <2>7. CASE BeginTurn(w) \/ FindNothing(w) \/ ReadActive(w) \/ ReadLen(w) \/ CountActive(w)
             \/ Wait(w) \/ FetchFails(w)
        BY <1>0, <2>7 DEF BeginTurn, FindNothing, ReadActive, ReadLen, CountActive, Wait, FetchFails, docVars
  <2> QED BY <1>3, <2>1, <2>2, <2>3, <2>4, <2>5, <2>6, <2>7 DEF Work
<1>4. CASE UNCHANGED vars
      BY <1>4 DEF vars, workerVars, docVars
<1> QED BY <1>1, <1>2, <1>3, <1>4 DEF Next, Execute

-----------------------------------------------------------------------------
(* The theorems *)

LEMMA InitInv == Init => Inv /\ DocInv
<1> SUFFICES ASSUME Init PROVE Inv /\ DocInv
    OBVIOUS
<1>1. TypeInv
  <2>1. [url |-> Seed, depth |-> 0] \in Item
        BY ConstantsAssumption DEF Item
  <2>2. queue \in Seq(Item) /\ Len(queue) = 1
        BY <2>1 DEF Init
  <2>3. StateOK
    <3>1. sitemapLeft \in Seq(URL)
          BY ConstantsAssumption, EmptySeq DEF Init
    <3>2. indexed \subseteq URL /\ stored \subseteq URL /\ seen \subseteq URL
          BY ConstantsAssumption DEF Init
    <3>3. 1 <= QueueCap
          BY ConstantsAssumption
    <3> QED BY <2>2, <3>1, <3>2, <3>3 DEF Init, StateOK
  <2>4. WorkersOK
        BY EmptySeq DEF Init, WorkersOK, Steps, Busy, Active
  <2>5. pc \in [Worker -> Steps] /\ \A w \in Worker : pc[w] \notin Active
        BY DEF Init, Steps, Active
  <2>6. ActiveOK
        BY <2>5, CountBounds DEF Init, ActiveOK
  <2> QED BY <2>3, <2>4, <2>6 DEF TypeInv
<1>2. PhaseInv
      BY DEF Init, PhaseInv
<1>3. BudgetInv
  <2>1. pc \in [Worker -> Steps] /\ \A w \in Worker : pc[w] \notin Spending
        BY DEF Init, Steps, Spending
  <2>2. Count(pc, Spending) = 0
        BY <2>1, CountBounds
  <2>3. Cardinality(Worker) \in Nat
        BY ConstantsAssumption, FS_CardinalityType
  <2> QED BY <2>2, <2>3, ConstantsAssumption DEF Init, BudgetInv
<1>4. PlacesInv /\ OnceInv
  <2>1. queue = <<[url |-> Seed, depth |-> 0]>> /\ Len(queue) = 1
        BY DEF Init
  <2>2. QueuedUrls(queue) = {Seed}
        BY <2>1 DEF QueuedUrls
  <2>3. HeldUrls = {}
        BY DEF Init, HeldUrls, Busy, Active
  <2>4. Distinct(queue) /\ OneHolder
        BY <2>1 DEF Init, Distinct, OneHolder, Busy, Active
  <2> QED BY <2>2, <2>3, <2>4 DEF Init, PlacesInv, OnceInv
<1>5. EndInv
      BY ConstantsAssumption DEF Init, EndInv
<1>6. DocInv
      BY DEF Init, DocInv, StoredIsIndexed
<1> QED BY <1>1, <1>2, <1>3, <1>4, <1>5, <1>6 DEF Inv

LEMMA InvIsInvariant == Spec => [](Inv /\ DocInv)
<1>1. Inv /\ DocInv /\ [Next]_vars => (Inv /\ DocInv)'
  <2> SUFFICES ASSUME Inv, DocInv, [Next]_vars PROVE Inv' /\ DocInv'
      OBVIOUS
  <2>1. StateOK' /\ WorkersOK' /\ ActiveOK'
        BY StateStep, WorkersStep, ActiveStep DEF Inv
  <2>2. PhaseInv' /\ BudgetInv' /\ PlacesInv' /\ OnceInv' /\ EndInv'
        BY PhaseStep, BudgetStep, PlacesStep, EndStep DEF Inv
  <2>3. DocInv'
        BY DocStep DEF Inv
  <2> QED BY <2>1, <2>2, <2>3 DEF Inv, TypeInv
<1> QED BY InitInv, <1>1, PTL DEF Spec

\* The state of a job always has its type; in particular the queue is within its
\* capacity and activeWorkers, which workers use to decide that nobody else is
\* at work, is never negative nor above their number.
THEOREM JobTypeOK == Spec => []TypeOK
<1>1. Inv => TypeOK
  <2> SUFFICES ASSUME Inv PROVE TypeOK
      OBVIOUS
  <2>1. pc \in [Worker -> Steps] /\ activeWorkers \in 0..Cardinality(Worker)
        BY CountBounds DEF Inv, TypeInv, WorkersOK, ActiveOK
  <2> QED BY <2>1 DEF Inv, TypeInv, StateOK, WorkersOK, TypeOK, Steps, Busy, Active
<1> QED BY InvIsInvariant, <1>1, PTL

\* A crawl goes past MaxPages by less than the number of its workers, although
\* each tests the limit long before it counts a page, and without a lock.
THEOREM BudgetKept == Spec => []PageBudget
<1>1. Inv => PageBudget
  <2> SUFFICES ASSUME Inv PROVE PageBudget
      OBVIOUS
  <2>1. Count(pc, Spending) \in Nat /\ pagesCrawled \in Nat
        BY CountBounds DEF Inv, TypeInv, WorkersOK, StateOK
  <2>2. MaxPages \in Nat /\ Cardinality(Worker) \in Nat
        BY ConstantsAssumption, FS_CardinalityType
  <2> QED BY <2>1, <2>2 DEF Inv, BudgetInv, PageBudget
<1> QED BY InvIsInvariant, <1>1, PTL

\* A job that ends below its limits, with nobody cancelling it, leaves no URL
\* unvisited but those a full queue turned away, whenever its workers left.
THEOREM NoneStranded == Spec => []NothingStranded
<1>1. Inv => NothingStranded
  <2> SUFFICES ASSUME Inv, executor = "ended", client = "idle", pagesCrawled < MaxPages
               PROVE  status = "completed" /\ seen = visited \cup lost
      BY DEF NothingStranded
  <2>1. \A w \in Worker : pc[w] = "ended"
        BY DEF Inv, PhaseInv
  <2>2. status = "completed" /\ queue = << >>
        BY <2>1 DEF Inv, EndInv
  <2>3. HeldUrls = {}
        BY <2>1 DEF HeldUrls, Busy, Active
  <2>4. Len(queue) = 0
        BY <2>2
  <2>5. QueuedUrls(queue) = {}
        BY <2>4 DEF QueuedUrls
  <2> QED BY <2>2, <2>3, <2>5 DEF Inv, PlacesInv
<1> QED BY InvIsInvariant, <1>1, PTL

\* However the workers interleave, a URL the frontier has seen is waiting, in the
\* hands of one worker, crawled, or lost, once: no job crawls a URL twice.
THEOREM CrawledAtMostOnce == Spec => []CrawledOnce
<1>1. Inv => CrawledOnce
  <2> SUFFICES ASSUME Inv, NEW url \in URL
               PROVE  Places(url) = IF url \in seen THEN 1 ELSE 0
      BY DEF CrawledOnce
  <2> DEFINE Q == {k \in DOMAIN queue : queue[k].url = url}
             W == {w \in Worker : item[w].url = url}
  <2>0. /\ queue \in Seq(Item) /\ DOMAIN queue = 1..Len(queue)
        /\ \A w \in Worker : IF pc[w] \in Busy THEN item[w] \in Item ELSE item[w] = Nothing
        BY LenProperties DEF Inv, TypeInv, StateOK, WorkersOK
  <2>1. Cardinality(Q) = IF url \in QueuedUrls(queue) THEN 1 ELSE 0
    <3>1. CASE url \in QueuedUrls(queue)
      <4>1. PICK k \in DOMAIN queue : queue[k].url = url
            BY <2>0, <3>1 DEF QueuedUrls
      <4>2. Q = {k}
            BY <2>0, <4>1 DEF Inv, OnceInv, Distinct
      <4> QED BY <3>1, <4>2, FS_Singleton
    <3>2. CASE url \notin QueuedUrls(queue)
      <4>1. Q = {}
            BY <2>0, <3>2 DEF QueuedUrls
      <4> QED BY <3>2, <4>1, FS_EmptySet
    <3> QED BY <3>1, <3>2
  <2>2. Cardinality(W) = IF url \in HeldUrls THEN 1 ELSE 0
    <3>0. \A w \in Worker : item[w].url = url => pc[w] \in Busy
          BY <2>0, ConstantsAssumption DEF Nothing
    <3>1. CASE url \in HeldUrls
      <4>1. PICK w \in Worker : pc[w] \in Busy /\ item[w].url = url
            BY <3>1 DEF HeldUrls
      <4>2. W = {w}
            BY <3>0, <4>1 DEF Inv, OnceInv, OneHolder
      <4> QED BY <3>1, <4>2, FS_Singleton
    <3>2. CASE url \notin HeldUrls
      <4>1. W = {}
            BY <3>0, <3>2 DEF HeldUrls
      <4> QED BY <3>2, <4>1, FS_EmptySet
    <3> QED BY <3>1, <3>2
  <2> HIDE DEF Q, W
  <2>3. Places(url) = Cardinality(Q) + Cardinality(W)
                      + (IF url \in visited THEN 1 ELSE 0) + (IF url \in lost THEN 1 ELSE 0)
        BY DEF Places, Q, W
  <2>4. CASE url \in QueuedUrls(queue)
    <3>1. url \notin HeldUrls /\ url \notin visited /\ url \notin lost /\ url \in seen
          BY <2>4 DEF Inv, PlacesInv, OnceInv
    <3> QED BY <2>1, <2>2, <2>3, <2>4, <3>1
  <2>5. CASE url \in HeldUrls
    <3>1. url \notin QueuedUrls(queue) /\ url \notin visited /\ url \notin lost /\ url \in seen
          BY <2>5 DEF Inv, PlacesInv, OnceInv
    <3> QED BY <2>1, <2>2, <2>3, <2>5, <3>1
  <2>6. CASE url \notin QueuedUrls(queue) /\ url \notin HeldUrls
    <3>1. /\ ~(url \in visited /\ url \in lost)
          /\ url \in seen <=> (url \in visited \/ url \in lost)
          BY <2>6 DEF Inv, PlacesInv, OnceInv
    <3> QED BY <2>1, <2>2, <2>3, <2>6, <3>1
  <2> QED BY <2>4, <2>5, <2>6
<1> QED BY InvIsInvariant, <1>1, PTL

\* No worker is between its test of closed and its send when Close runs: the
\* send on a closed channel, which panics in Go, never happens.
THEOREM NoSendOnClosed == Spec => []NeverSendsOnClosed
<1>1. Inv => NeverSendsOnClosed
      BY DEF Inv, PhaseInv, NeverSendsOnClosed
<1> QED BY InvIsInvariant, <1>1, PTL

\* The document store never holds a page that the index has not been given,
\* whichever workers index, skip and store it, and however they interleave.
THEOREM StoreFollowsIndex == Spec => []StoredIsIndexed
<1>1. DocInv => StoredIsIndexed
      BY DEF DocInv
<1> QED BY InvIsInvariant, <1>1, PTL

=============================================================================
