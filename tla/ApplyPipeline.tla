--------------------------- MODULE ApplyPipeline ---------------------------
(***************************************************************************)
(* How one node hands its committed entries to its state machine, and how  *)
(* the callers blocked in Propose get their answers (raft.go, from         *)
(* applyCommittedEntriesLocked to applyLoop, and state_machine.go).        *)
(*                                                                         *)
(* Raft.tla says which entries commit; here elections, conflicts and       *)
(* commits are choices, and what is modelled is the traffic between the    *)
(* handlers that hold rn.mu, the goroutine of applyLoop, the goroutines    *)
(* that wait for room in applyTasks, the goroutine of the state machine    *)
(* and the callers.  rn.mu is held from the moment commitIndex moves until *)
(* lastApplied has caught up.                                              *)
(***************************************************************************)
EXTENDS Naturals, Sequences, FiniteSets, SequencesExt

CONSTANTS
    Caller,    \* calls of Propose, each with its own command
    Foreign,   \* the command of an entry another node appended
    None,      \* the nil future, and the empty hand
    MaxLog,    \* bound: length of the log
    QueueCap,  \* capacity of applyTasks: 1024 in the code
    ChCap      \* capacity of applyCh: 1000 in cmd/lightlimbs

ASSUME ConstantsAssumption ==
    /\ Foreign \notin Caller /\ None \notin Caller
    /\ MaxLog \in Nat /\ QueueCap \in Nat \ {0} /\ ChCap \in Nat \ {0}

VARIABLES
    leading, log, commitIndex, lastApplied,
    proposals,   \* index -> the caller whose future waits there
    call,        \* what each call of Propose is doing, and at which index
    future,      \* the value in each call's channel, of capacity one
    applyTasks,  \* the queue of tasks
    waiting,     \* tasks held by goroutines that wait for room in it
    overflowed,  \* history: a task has been given to such a goroutine
    hand,        \* the task applyLoop has taken, and what it does next
    applyCh, applied, \* indexes on the way to the state machine, and applied by it
    nodeStopped, machine

raftVars == <<leading, log, commitIndex, lastApplied>>
callVars == <<proposals, call, future>>
pipeVars == <<applyTasks, waiting, overflowed, hand>>
smVars   == <<applyCh, applied, machine>>
vars == <<raftVars, callVars, pipeVars, smVars, nodeStopped>>

Index == 1..MaxLog
Task  == [idx : Index, by : Caller \cup {None}]

Unlocked == commitIndex = lastApplied

Init ==
    /\ leading = FALSE /\ log = << >> /\ commitIndex = 0 /\ lastApplied = 0
    /\ proposals = [n \in Index |-> None]
    /\ call = [c \in Caller |-> [state |-> "idle", idx |-> 0]]
    /\ future = [c \in Caller |-> "empty"]
    /\ applyTasks = << >> /\ waiting = {} /\ overflowed = FALSE
    /\ hand = [task |-> None, next |-> "take"]
    /\ applyCh = << >> /\ applied = << >>
    /\ nodeStopped = FALSE /\ machine = "running"

\* Mutant: the loop of applyLoop forgets to answer.
AnswerNobody(c, value) == UNCHANGED future

\* A value sent to the future of a task, if the task has one.
Answer(c, value) == future' = IF c = None THEN future ELSE [future EXCEPT ![c] = value]

\* Mutant: a node that steps down keeps its futures.
KeepPending == UNCHANGED <<proposals, future>>

\* failPendingProposalsLocked.
FailPending ==
    /\ proposals' = [n \in Index |-> None]
    /\ future' = [c \in Caller |->
                    IF \E n \in Index : proposals[n] = c THEN "error" ELSE future[c]]

-----------------------------------------------------------------------------
(* What the handlers of Raft do to this node *)

Win ==
    /\ Unlocked /\ ~leading
    /\ leading' = TRUE
    /\ UNCHANGED <<log, commitIndex, lastApplied, callVars, pipeVars, smVars, nodeStopped>>

StepDown ==
    /\ Unlocked /\ leading
    /\ leading' = FALSE
    /\ FailPending
    /\ UNCHANGED <<log, commitIndex, lastApplied, call, pipeVars, smVars, nodeStopped>>

\* A follower loses the uncommitted entries after n, and may get a new one.
Replicate ==
    /\ Unlocked /\ ~leading
    /\ \E n \in commitIndex..Len(log) : \E new \in {<< >>, <<Foreign>>} :
          /\ n + Len(new) <= MaxLog
          /\ log' = SubSeq(log, 1, n) \o new
    /\ UNCHANGED <<leading, commitIndex, lastApplied, callVars, pipeVars, smVars, nodeStopped>>

Commit ==
    /\ Unlocked
    /\ \E n \in (commitIndex + 1)..Len(log) : commitIndex' = n
    /\ UNCHANGED <<leading, log, lastApplied, callVars, pipeVars, smVars, nodeStopped>>

\* Mutants: a full queue drops the task; every
\* task gets a goroutine of its own.
OfferOrDrop(t) ==
    /\ applyTasks' = IF Len(applyTasks) < QueueCap THEN Append(applyTasks, t) ELSE applyTasks
    /\ UNCHANGED <<waiting, overflowed>>
OfferByGoroutine(t) ==
    waiting' = waiting \cup {t} /\ UNCHANGED <<applyTasks, overflowed>>

\* The select of applyCommittedEntriesLocked.
Offer(t) ==
    \/ /\ Len(applyTasks) < QueueCap
       /\ applyTasks' = Append(applyTasks, t)
       /\ UNCHANGED <<waiting, overflowed>>
    \/ /\ Len(applyTasks) = QueueCap
       /\ waiting' = waiting \cup {t}
       /\ overflowed' = TRUE
       /\ UNCHANGED applyTasks

\* Mutant: the future stays in the map.
LeaveFuture(n) == UNCHANGED proposals

TakeFuture(n) == proposals' = [proposals EXCEPT ![n] = None]

\* One turn of the loop of applyCommittedEntriesLocked.
Dispatch ==
    /\ commitIndex > lastApplied
    /\ lastApplied' = lastApplied + 1
    /\ TakeFuture(lastApplied + 1)
    /\ Offer([idx |-> lastApplied + 1, by |-> proposals[lastApplied + 1]])
    /\ UNCHANGED <<leading, log, commitIndex, call, future, hand, smVars, nodeStopped>>

-----------------------------------------------------------------------------
(* The goroutines that wait for room in the queue *)

Enqueue(t) ==
    /\ Len(applyTasks) < QueueCap
    /\ applyTasks' = Append(applyTasks, t)
    /\ waiting' = waiting \ {t}
    /\ UNCHANGED <<raftVars, callVars, overflowed, hand, smVars, nodeStopped>>

Abandon(t) ==
    /\ nodeStopped
    /\ waiting' = waiting \ {t}
    /\ Answer(t.by, "error")
    /\ UNCHANGED <<raftVars, proposals, call, applyTasks, overflowed, hand, smVars, nodeStopped>>

-----------------------------------------------------------------------------
(* applyLoop *)

Take ==
    /\ hand.next = "take"
    /\ applyTasks # << >>
    /\ hand' = [task |-> Head(applyTasks), next |-> "send"]
    /\ applyTasks' = Tail(applyTasks)
    /\ UNCHANGED <<raftVars, callVars, waiting, overflowed, smVars, nodeStopped>>

Send ==
    /\ hand.next = "send"
    /\ Len(applyCh) < ChCap
    /\ applyCh' = Append(applyCh, hand.task.idx)
    /\ hand' = [hand EXCEPT !.next = "answer"]
    /\ UNCHANGED <<raftVars, callVars, applyTasks, waiting, overflowed, applied, machine, nodeStopped>>

AnswerCaller ==
    /\ hand.next = "answer"
    /\ Answer(hand.task.by, "ok")
    /\ hand' = [task |-> None, next |-> "take"]
    /\ UNCHANGED <<raftVars, proposals, call, applyTasks, waiting, overflowed, smVars, nodeStopped>>

LoopEnds ==
    /\ hand.next = "take"
    /\ nodeStopped
    /\ hand' = [task |-> None, next |-> "ended"]
    /\ UNCHANGED <<raftVars, callVars, applyTasks, waiting, overflowed, smVars, nodeStopped>>

-----------------------------------------------------------------------------
(* The state machine.  Its loop may still take a command once it is asked to *)
(* stop: the select picks either branch.                                     *)

Apply ==
    /\ machine # "ended"
    /\ applyCh # << >>
    /\ applied' = Append(applied, Head(applyCh))
    /\ applyCh' = Tail(applyCh)
    /\ UNCHANGED <<raftVars, callVars, pipeVars, machine, nodeStopped>>

\* cmd/lightlimbs stops the state machine after it has closed the node.
Stop ==
    /\ nodeStopped /\ machine = "running"
    /\ machine' = "stopping"
    /\ UNCHANGED <<raftVars, callVars, pipeVars, applyCh, applied, nodeStopped>>

MachineEnds ==
    /\ machine = "stopping"
    /\ machine' = "ended"
    /\ UNCHANGED <<raftVars, callVars, pipeVars, applyCh, applied, nodeStopped>>

-----------------------------------------------------------------------------
(* The callers *)

Propose(c) ==
    LET idx == Len(log) + 1
    IN  /\ Unlocked /\ leading
        /\ call[c].state = "idle"
        /\ idx <= MaxLog
        /\ log' = Append(log, c)
        /\ proposals' = [proposals EXCEPT ![idx] = c]
        /\ call' = [call EXCEPT ![c] = [state |-> "blocked", idx |-> idx]]
        /\ UNCHANGED <<leading, commitIndex, lastApplied, future, pipeVars, smVars, nodeStopped>>

Return(c) ==
    /\ call[c].state = "blocked"
    /\ future[c] # "empty"
    /\ call' = [call EXCEPT ![c].state = future[c]]
    /\ UNCHANGED <<raftVars, proposals, future, pipeVars, smVars, nodeStopped>>

\* The context is done: the select may take this branch even when the answer
\* is there.  The future is dropped by its index, in a second step.
GiveUp(c) ==
    /\ call[c].state = "blocked"
    /\ call' = [call EXCEPT ![c].state = "leaving"]
    /\ UNCHANGED <<raftVars, proposals, future, pipeVars, smVars, nodeStopped>>

Leave(c) ==
    /\ Unlocked
    /\ call[c].state = "leaving"
    /\ proposals' = [proposals EXCEPT ![call[c].idx] = None]
    /\ call' = [call EXCEPT ![c].state = "expired"]
    /\ UNCHANGED <<raftVars, future, pipeVars, smVars, nodeStopped>>

Close ==
    /\ Unlocked /\ ~nodeStopped
    /\ nodeStopped' = TRUE
    /\ FailPending
    /\ UNCHANGED <<raftVars, call, pipeVars, smVars>>

-----------------------------------------------------------------------------

Next ==
    \/ Win \/ StepDown \/ Replicate \/ Commit \/ Dispatch
    \/ \E t \in waiting : Enqueue(t)
    \/ \E t \in waiting : Abandon(t)
    \/ Take \/ Send \/ AnswerCaller \/ LoopEnds
    \/ Apply \/ Stop \/ MachineEnds
    \/ \E c \in Caller : Propose(c)
    \/ \E c \in Caller : Return(c)
    \/ \E c \in Caller : GiveUp(c)
    \/ \E c \in Caller : Leave(c)
    \/ Close

\* Every goroutine that can run does: the holder of the lock, those that wait
\* for room (a channel serves its waiters), applyLoop and the state machine.
\* Nothing makes an entry commit, a context expire or a node close.
Fairness ==
    /\ WF_vars(Dispatch)
    /\ \A t \in Task : WF_vars(t \in waiting /\ Enqueue(t))
    /\ WF_vars(Take) /\ WF_vars(Send) /\ WF_vars(AnswerCaller)
    /\ WF_vars(Apply)
    /\ \A c \in Caller : WF_vars(Return(c)) /\ WF_vars(Leave(c))

Spec == Init /\ [][Next]_vars /\ Fairness

-----------------------------------------------------------------------------
(* Properties *)

Held == IF hand.next \in {"send", "answer"} THEN <<hand.task>> ELSE << >>

\* The tasks that still hold a future, in no order.
Tasks == waiting \cup ToSet(applyTasks) \cup ToSet(Held)

\* A future is in one place at most, and nowhere once it has been answered: a
\* second value would block its sender for ever, with rn.mu held in
\* failPendingProposalsLocked.
FutureHasOneOwner ==
    \A c \in Caller :
        Cardinality({n \in Index : proposals[n] = c}) + Cardinality({t \in Tasks : t.by = c})
            + (IF future[c] = "empty" THEN 0 ELSE 1) <= 1

\* Where an index is between its commit and the state machine.
Copies(n) ==
    Cardinality({t \in waiting : t.idx = n})
    + Cardinality({k \in DOMAIN applyTasks : applyTasks[k].idx = n})
    + (IF hand.next = "send" /\ hand.task.idx = n THEN 1 ELSE 0)
    + Cardinality({k \in DOMAIN applyCh : applyCh[k] = n})
    + Cardinality({k \in DOMAIN applied : applied[k] = n})

\* Every committed entry is on its way to the state machine exactly once, or
\* there exactly once; only closing the node may lose one.
AppliedOnce ==
    \A n \in Index :
        /\ Copies(n) <= IF n <= lastApplied THEN 1 ELSE 0
        /\ n <= lastApplied /\ ~nodeStopped => Copies(n) = 1

\* A caller is told its command is committed only when it is: the entry at its
\* index is its own, and the state machine has it or will get it.
OkMeansCommitted ==
    \A c \in Caller : future[c] = "ok" =>
        /\ call[c].idx <= commitIndex
        /\ log[call[c].idx] = c
        /\ call[c].idx \in ToSet(applied) \cup ToSet(applyCh)

\* As long as the queue has never been full, the state machine gets the entries
\* in the order of the log.
InOrderUntilOverflow ==
    ~overflowed =>
        applied \o applyCh \o (IF hand.next = "send" THEN <<hand.task.idx>> ELSE << >>)
            \o [k \in DOMAIN applyTasks |-> applyTasks[k].idx]
        = [n \in 1..lastApplied |-> n]

\* The state machine gets the entries in the order of the log ("in strict
\* monotonic sequence", says applyLoop).
AppliedInOrder ==
    \A k \in 1..(Len(applied) - 1) : applied[k] < applied[k + 1]

\* A committed entry reaches the state machine of a node that is not closed.
CommittedGetsApplied ==
    \A n \in Index : (lastApplied >= n) ~> (n \in ToSet(applied) \/ nodeStopped)

\* A caller whose future went out with its entry is answered, or has left,
\* unless the node is closed.
CommittedGetsAnswered ==
    \A c \in Caller : (\E t \in Tasks : t.by = c)
        ~> (call[c].state \in {"ok", "error", "expired"} \/ nodeStopped)

=============================================================================
