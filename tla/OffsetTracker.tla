--------------------------- MODULE OffsetTracker ---------------------------
(***************************************************************************)
(* The consumer of indexer-service/main.go with the OffsetTracker of       *)
(* common/kafka/tracker.go: one loop reads the messages of a partition in  *)
(* order, a bounded number of workers process them in any order, and the   *)
(* tracker commits to Kafka the offsets behind which all work is done.     *)
(*                                                                         *)
(* The tracker keeps each partition apart, so one partition is modelled.   *)
(* The mutex of the tracker is released between the three steps of a       *)
(* worker's call: marking its offset, choosing what to commit, and         *)
(* evicting what has been committed; the commit itself runs without it.    *)
(* Kafka is external: it remembers the offset of the last commit it got,   *)
(* and a process that starts reads on from there.                          *)
(***************************************************************************)
EXTENDS Naturals, FiniteSets, FiniteSetsExt

CONSTANTS
    MaxOffset,    \* bound: messages in the partition, at offsets 1..MaxOffset
    Concurrency,  \* capacity of sem: 10 in the code
    MaxCrashes    \* bound: ends of the process

ASSUME ConstantsAssumption ==
    MaxOffset \in Nat /\ Concurrency \in Nat \ {0} /\ MaxCrashes \in Nat

Offset == 1..MaxOffset

VARIABLES
    committed,  \* Kafka: the last offset committed, 0 for none
    position,   \* the offset of the last message read
    held,       \* read, and waiting for a place among the workers (0: none)
    inFlight, completed, failed,  \* the tracker's sets
    worker,     \* what the worker of each offset is doing
    target,     \* the offset each worker is about to commit, or has committed
    done,       \* history: offsets processed with success, in any process
    reached,    \* history: the furthest commit Kafka took from this process
    crashes

trackerVars == <<inFlight, completed, failed>>
vars == <<committed, position, held, trackerVars, worker, target, done, reached, crashes>>

Init ==
    /\ committed = 0 /\ position = 0 /\ held = 0
    /\ inFlight = {} /\ completed = {} /\ failed = {}
    /\ worker = [o \in Offset |-> "none"]
    /\ target = [o \in Offset |-> 0]
    /\ done = {} /\ reached = 0 /\ crashes = 0

\* Mutant: a worker that fails does not give its place back.
FailedStay == {o \in Offset : worker[o] # "none" \/ o \in failed}

\* The places taken in sem.
Working == {o \in Offset : worker[o] # "none"}

\* Where Kafka starts a new process: behind the last offset committed.
Resume == committed

-----------------------------------------------------------------------------
(* The reading loop *)

Read ==
    /\ held = 0 /\ position < MaxOffset
    /\ position' = position + 1
    /\ held' = position + 1
    /\ UNCHANGED <<committed, trackerVars, worker, target, done, reached, crashes>>

\* Mutant: the offset is not registered before the worker starts.
NotRegistered(o) == inFlight

Registered(o) == inFlight \cup {o}

\* A worker is free: MarkStarted, and the goroutine is started.
Start ==
    /\ held # 0
    /\ Cardinality(Working) < Concurrency
    /\ inFlight' = Registered(held)
    /\ worker' = [worker EXCEPT ![held] = "processing"]
    /\ held' = 0
    /\ UNCHANGED <<committed, position, completed, failed, target, done, reached, crashes>>

-----------------------------------------------------------------------------
(* A worker.  It may fail: a message that cannot be parsed, or a panic. *)

Process(o) ==
    /\ worker[o] = "processing"
    /\ \/ worker' = [worker EXCEPT ![o] = "succeeded"] /\ done' = done \cup {o}
       \/ worker' = [worker EXCEPT ![o] = "erred"] /\ UNCHANGED done
    /\ UNCHANGED <<committed, position, held, trackerVars, target, reached, crashes>>

\* The first half of MarkCompleted.
MarkCompleted(o) ==
    /\ worker[o] = "succeeded"
    /\ completed' = completed \cup {o}
    /\ inFlight' = inFlight \ {o}
    /\ worker' = [worker EXCEPT ![o] = "marked"]
    /\ UNCHANGED <<committed, position, held, failed, target, done, reached, crashes>>

RecordFailed(o) == failed \cup {o}

\* The first half of MarkFailed.
MarkFailed(o) ==
    /\ worker[o] = "erred"
    /\ failed' = RecordFailed(o)
    /\ inFlight' = inFlight \ {o}
    /\ completed' = completed \ {o}
    /\ worker' = [worker EXCEPT ![o] = "marked"]
    /\ UNCHANGED <<committed, position, held, target, done, reached, crashes>>

\* Mutant: failed offsets do not hold the commit back.
CommittablePastFailed ==
    {o \in completed : \A b \in inFlight : o < b}

\* What commitContiguous may commit: the completed offsets below every offset
\* in flight or failed.
Committable == {o \in completed : \A b \in inFlight \cup failed : o < b}

\* commitContiguous, up to the release of the mutex.
Choose(o) ==
    /\ worker[o] = "marked"
    /\ IF Committable = {}
       THEN /\ worker' = [worker EXCEPT ![o] = "none"]
            /\ UNCHANGED target
       ELSE /\ worker' = [worker EXCEPT ![o] = "committing"]
            /\ target' = [target EXCEPT ![o] = Max(Committable)]
    /\ UNCHANGED <<committed, position, held, trackerVars, done, reached, crashes>>

\* consumer.Commit: it succeeds, it fails, or it fails after Kafka has taken it.
Commit(o) ==
    /\ worker[o] = "committing"
    /\ \/ /\ committed' = target[o]
          /\ reached' = Max({reached, target[o]})
          /\ \E next \in {"evicting", "none"} : worker' = [worker EXCEPT ![o] = next]
       \/ /\ worker' = [worker EXCEPT ![o] = "none"]
          /\ UNCHANGED <<committed, reached>>
    /\ UNCHANGED <<position, held, trackerVars, target, done, crashes>>

\* Mutant: the whole buffer is emptied after a commit.
EvictAll(o) == {}

Evicted(o) == {c \in completed : c > target[o]}

\* The rest of commitContiguous.
Evict(o) ==
    /\ worker[o] = "evicting"
    /\ completed' = Evicted(o)
    /\ worker' = [worker EXCEPT ![o] = "none"]
    /\ UNCHANGED <<committed, position, held, inFlight, failed, target, done, reached, crashes>>

-----------------------------------------------------------------------------
(* The process ends, at any point, and another one starts. *)

Crash ==
    /\ crashes < MaxCrashes
    /\ crashes' = crashes + 1
    /\ position' = Resume
    /\ reached' = committed
    /\ held' = 0
    /\ inFlight' = {} /\ completed' = {} /\ failed' = {}
    /\ worker' = [o \in Offset |-> "none"]
    /\ target' = [o \in Offset |-> 0]
    /\ UNCHANGED <<committed, done>>

Next ==
    \/ Read \/ Start \/ Crash
    \/ \E o \in Offset : Process(o)
    \/ \E o \in Offset : MarkCompleted(o)
    \/ \E o \in Offset : MarkFailed(o)
    \/ \E o \in Offset : Choose(o)
    \/ \E o \in Offset : Commit(o)
    \/ \E o \in Offset : Evict(o)

\* The loop and the workers keep running while the process does.
Fairness ==
    /\ WF_vars(Read) /\ WF_vars(Start)
    /\ \A o \in Offset : /\ WF_vars(Process(o)) /\ WF_vars(MarkCompleted(o)) /\ WF_vars(MarkFailed(o))
                         /\ WF_vars(Choose(o)) /\ WF_vars(Commit(o)) /\ WF_vars(Evict(o))

Spec == Init /\ [][Next]_vars /\ Fairness

-----------------------------------------------------------------------------
(* Properties *)

States == {"none", "processing", "succeeded", "erred", "marked", "committing", "evicting"}

TypeOK ==
    /\ committed \in 0..MaxOffset /\ position \in 0..MaxOffset /\ held \in 0..MaxOffset
    /\ inFlight \subseteq Offset /\ completed \subseteq Offset /\ failed \subseteq Offset
    /\ worker \in [Offset -> States]
    /\ target \in [Offset -> 0..MaxOffset]
    /\ done \subseteq Offset
    /\ reached \in 0..MaxOffset
    /\ crashes \in 0..MaxCrashes

\* Nothing is lost: Kafka is never told that an offset is done before its
\* message has been processed, crashes and failed commits or not.
NothingSkipped == 1..committed \subseteq done

\* An offset that failed in this process stays ahead of what is committed, so a
\* restart delivers it again ("NEVER commit at or past this failed offset").
FailedIsRedelivered == \A f \in failed : committed < f

\* A commit that failed is not forgotten: an offset a worker has marked as
\* completed is in the buffer, for the next commit to take, or Kafka has taken a
\* commit at or past it from this process.
UncommittedIsKept ==
    \A o \in Offset :
        o <= position /\ o # held /\ o \notin inFlight \cup failed => o \in completed \/ o <= reached

\* The reader is never stuck behind its own workers: once the process stays up,
\* every message is processed or recorded as failed.
EverythingHandled ==
    \A o \in Offset : (crashes = MaxCrashes) ~> (o \in done \cup failed)

\* Why nothing is skipped: what was read and is not done is with the reading
\* loop, in flight or failed, and no worker has chosen a commit at or past such
\* an offset, even though it commits without the mutex.
TrackerInv ==
    /\ NothingSkipped /\ FailedIsRedelivered
    /\ committed <= position
    /\ held # 0 => /\ held = position
                   /\ committed < held
                   /\ \A o \in inFlight \cup failed \cup completed : o < held
    /\ \A o \in inFlight \cup failed \cup completed : o <= position
    /\ \A o \in inFlight : committed < o
    /\ completed \subseteq done
    /\ \A o \in 1..position : o \in done \/ o = held \/ o \in inFlight \cup failed
    /\ \A o \in Offset :
          /\ worker[o] \in {"processing", "succeeded", "erred"} => o \in inFlight
          /\ worker[o] = "succeeded" => o \in done
          /\ worker[o] = "committing" =>
                /\ target[o] <= position
                /\ 1..target[o] \subseteq done
                /\ \A b \in inFlight \cup failed : target[o] < b
                /\ held # 0 => target[o] < held

=============================================================================
