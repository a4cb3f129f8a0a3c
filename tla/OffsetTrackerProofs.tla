------------------------ MODULE OffsetTrackerProofs ------------------------
(***************************************************************************)
(* Theorems about OffsetTracker, for any number of messages, of workers    *)
(* and of crashes.                                                         *)
(***************************************************************************)
EXTENDS OffsetTracker, NaturalTheorems

\* What commitContiguous chooses is one of the offsets it may commit.
LEMMA ChoiceIsCommittable ==
    ASSUME TypeOK, Committable # {}
    PROVE  Max(Committable) \in Committable /\ Max(Committable) \in Offset
<1>1. Committable \in SUBSET (0..MaxOffset) /\ MaxOffset \in Nat
  <2>1. Committable \subseteq completed /\ completed \subseteq Offset
    BY DEF Committable, TypeOK
  <2>2. MaxOffset \in Nat /\ Offset \subseteq 0..MaxOffset
    BY ConstantsAssumption DEF Offset
  <2> QED
    BY <2>1, <2>2
<1>2. Max(Committable) \in Committable
  BY <1>1, MaxOfInterval
<1> QED
  BY <1>2 DEF TypeOK, Committable

LEMMA TypeStep == TypeOK /\ [Next]_vars => TypeOK'
<1> SUFFICES ASSUME TypeOK, [Next]_vars
             PROVE  TypeOK'
  OBVIOUS
<1> USE ConstantsAssumption DEF TypeOK, Offset, States, trackerVars
<1>1. CASE Read
  BY <1>1 DEF Read
<1>2. CASE Start
  BY <1>2 DEF Start, Registered
<1>3. CASE Crash
  BY <1>3 DEF Crash, Resume
<1>4. ASSUME NEW o \in Offset, Process(o)
      PROVE  TypeOK'
  BY <1>4 DEF Process
<1>5. ASSUME NEW o \in Offset, MarkCompleted(o)
      PROVE  TypeOK'
  BY <1>5 DEF MarkCompleted
<1>6. ASSUME NEW o \in Offset, MarkFailed(o)
      PROVE  TypeOK'
  BY <1>6 DEF MarkFailed, RecordFailed
<1>7. ASSUME NEW o \in Offset, Choose(o)
      PROVE  TypeOK'
  <2>1. Committable # {} => Max(Committable) \in 0..MaxOffset
    BY ChoiceIsCommittable
  <2> QED
    BY <1>7, <2>1 DEF Choose
<1>8. ASSUME NEW o \in Offset, Commit(o)
      PROVE  TypeOK'
  <2>1. Max({reached, target[o]}) \in {reached, target[o]}
    <3>1. reached \in Nat /\ target[o] \in Nat
      OBVIOUS
    <3> QED
      BY <3>1, MaxOfPair
  <2>2. Max({reached, target[o]}) \in 0..MaxOffset
    BY <2>1
  <2>3. worker' \in [Offset -> States] /\ committed' \in 0..MaxOffset /\ reached' \in 0..MaxOffset
    BY <1>8, <2>2 DEF Commit
  <2> QED
    BY <1>8, <2>3 DEF Commit
<1>9. ASSUME NEW o \in Offset, Evict(o)
      PROVE  TypeOK'
  BY <1>9 DEF Evict, Evicted
<1>10. CASE UNCHANGED vars
  BY <1>10 DEF vars
<1> QED
  BY <1>1, <1>2, <1>3, <1>4, <1>5, <1>6, <1>7, <1>8, <1>9, <1>10 DEF Next

\* The tracker, the reading loop and the workers account for every offset.
LEMMA TrackerStep == TypeOK /\ TrackerInv /\ [Next]_vars => TrackerInv'
<1> SUFFICES ASSUME TypeOK, TrackerInv, [Next]_vars
             PROVE  TrackerInv'
  OBVIOUS
<1> USE ConstantsAssumption DEF TypeOK, TrackerInv, NothingSkipped, FailedIsRedelivered,
                                Offset, States, trackerVars
<1>1. CASE Read
  <2>1. /\ held = 0 /\ position \in Nat /\ position' = position + 1 /\ held' = position'
        /\ UNCHANGED <<committed, inFlight, completed, failed, worker, target, done>>
    BY <1>1 DEF Read
  <2>2. \A o \in 1..position' : o \in done \/ o = held' \/ o \in inFlight \cup failed
    BY <2>1
  <2>3. \A o \in Offset : worker[o] = "committing" =>
            target[o] < position' /\ 1..target[o] \subseteq done
    BY <2>1
  <2>4. 1..committed' \subseteq done' /\ committed' <= position' /\ committed' < held'
    BY <2>1
  <2>5. /\ \A o \in inFlight' \cup failed' \cup completed' : o < held' /\ o <= position'
        /\ \A o \in inFlight' \cup failed' : committed' < o
    BY <2>1
  <2>6. \A o \in Offset :
          /\ worker'[o] \in {"processing", "succeeded", "erred"} => o \in inFlight'
          /\ worker'[o] = "succeeded" => o \in done'
          /\ worker'[o] = "committing" =>
                /\ target'[o] <= position' /\ target'[o] < held'
                /\ 1..target'[o] \subseteq done'
                /\ \A b \in inFlight' \cup failed' : target'[o] < b
    BY <2>1, <2>3
  <2> QED
    BY <2>1, <2>2, <2>4, <2>5, <2>6
<1>2. CASE Start
  BY <1>2 DEF Start, Registered
<1>3. CASE Crash
  BY <1>3 DEF Crash, Resume
<1>4. ASSUME NEW o \in Offset, Process(o)
      PROVE  TrackerInv'
  BY <1>4 DEF Process
<1>5. ASSUME NEW o \in Offset, MarkCompleted(o)
      PROVE  TrackerInv'
  BY <1>5 DEF MarkCompleted
<1>6. ASSUME NEW o \in Offset, MarkFailed(o)
      PROVE  TrackerInv'
  BY <1>6 DEF MarkFailed, RecordFailed
<1>7. ASSUME NEW o \in Offset, Choose(o)
      PROVE  TrackerInv'
  <2>1. CASE Committable = {}
    BY <1>7, <2>1 DEF Choose
  <2>2. CASE Committable # {}
    <3> DEFINE t == Max(Committable)
    <3>1. t \in completed /\ t \in Offset /\ \A b \in inFlight \cup failed : t < b
      BY <2>2, ChoiceIsCommittable DEF Committable
    <3>2. t <= position /\ (held # 0 => t < held)
      BY <3>1
    <3>3. 1..t \subseteq done
      <4>1. ASSUME NEW x \in 1..t PROVE x \in done
        <5>1. x \in 1..position /\ ~(t < x)
          BY <3>1, <3>2
        <5>2. x \notin inFlight \cup failed
          BY <3>1, <5>1
        <5>3. x # held
          BY <3>2, <5>1
        <5> QED
          BY <5>1, <5>2, <5>3
      <4> QED
        BY <4>1
    <3>4. /\ worker' = [worker EXCEPT ![o] = "committing"]
          /\ target' = [target EXCEPT ![o] = t]
          /\ UNCHANGED <<committed, position, held, inFlight, completed, failed, done>>
      BY <1>7, <2>2 DEF Choose
    <3> HIDE DEF t
    <3> QED
      BY <3>1, <3>2, <3>3, <3>4
  <2> QED
    BY <2>1, <2>2
<1>8. ASSUME NEW o \in Offset, Commit(o)
      PROVE  TrackerInv'
  BY <1>8 DEF Commit
<1>9. ASSUME NEW o \in Offset, Evict(o)
      PROVE  TrackerInv'
  BY <1>9 DEF Evict, Evicted
<1>10. CASE UNCHANGED vars
  BY <1>10 DEF vars
<1> QED
  BY <1>1, <1>2, <1>3, <1>4, <1>5, <1>6, <1>7, <1>8, <1>9, <1>10 DEF Next

LEMMA TrackerInit == Init => TypeOK /\ TrackerInv
  BY ConstantsAssumption
     DEF Init, TypeOK, TrackerInv, NothingSkipped, FailedIsRedelivered, Offset, States

\* At-least-once delivery: whatever the order in which the workers finish, fail
\* and commit, and wherever the process crashes, Kafka is never told that a
\* message is done before it has been processed.
THEOREM NothingIsSkipped == Spec => []NothingSkipped
<1>1. TypeOK /\ TrackerInv /\ [Next]_vars => TypeOK' /\ TrackerInv'
  BY TypeStep, TrackerStep
<1>2. TrackerInv => NothingSkipped
  BY DEF TrackerInv
<1> QED
  BY <1>1, <1>2, TrackerInit, PTL DEF Spec

\* MarkFailed keeps its promise: nothing is committed at or past an offset that
\* failed in this process.
THEOREM FailedStaysAhead == Spec => []FailedIsRedelivered
<1>1. TypeOK /\ TrackerInv /\ [Next]_vars => TypeOK' /\ TrackerInv'
  BY TypeStep, TrackerStep
<1>2. TrackerInv => FailedIsRedelivered
  BY DEF TrackerInv
<1> QED
  BY <1>1, <1>2, TrackerInit, PTL DEF Spec

-----------------------------------------------------------------------------
(* A commit that failed is not forgotten *)

\* What a worker evicts, Kafka has taken a commit at or past it.
KeptInv ==
    /\ UncommittedIsKept
    /\ \A o \in Offset : worker[o] = "evicting" => target[o] <= reached

LEMMA KeptInit == Init => KeptInv
  BY ConstantsAssumption DEF Init, KeptInv, UncommittedIsKept, Offset

LEMMA KeptStep == TypeOK /\ TrackerInv /\ KeptInv /\ [Next]_vars => KeptInv'
<1> SUFFICES ASSUME TypeOK, TrackerInv, KeptInv, [Next]_vars
             PROVE  KeptInv'
  OBVIOUS
<1> USE ConstantsAssumption DEF TypeOK, KeptInv, UncommittedIsKept, Offset, States, trackerVars
<1>1. CASE Read
  BY <1>1 DEF Read
<1>2. CASE Start
  BY <1>2 DEF Start, Registered
<1>3. CASE Crash
  BY <1>3 DEF Crash, Resume
<1>4. ASSUME NEW o \in Offset, Process(o)
      PROVE  KeptInv'
  BY <1>4 DEF Process
<1>5. ASSUME NEW o \in Offset, MarkCompleted(o)
      PROVE  KeptInv'
  BY <1>5 DEF MarkCompleted
<1>6. ASSUME NEW o \in Offset, MarkFailed(o)
      PROVE  KeptInv'
  BY <1>6 DEF MarkFailed, RecordFailed
<1>7. ASSUME NEW o \in Offset, Choose(o)
      PROVE  KeptInv'
  BY <1>7 DEF Choose
<1>8. ASSUME NEW o \in Offset, Commit(o)
      PROVE  KeptInv'
  <2>1. reached \in Nat /\ target[o] \in Nat
    OBVIOUS
  <2>2. /\ reached <= Max({reached, target[o]}) /\ target[o] <= Max({reached, target[o]})
        /\ Max({reached, target[o]}) \in Nat
    BY <2>1, MaxOfPair
  <2>3. /\ reached' \in Nat /\ reached <= reached'
        /\ worker'[o] = "evicting" => target[o] <= reached'
        /\ \A p \in Offset \ {o} : worker'[p] = worker[p]
        /\ UNCHANGED <<position, held, inFlight, completed, failed, target>>
    BY <1>8, <2>2 DEF Commit
  <2> QED
    BY <2>3
<1>9. ASSUME NEW o \in Offset, Evict(o)
      PROVE  KeptInv'
  BY <1>9 DEF Evict, Evicted
<1>10. CASE UNCHANGED vars
  BY <1>10 DEF vars
<1> QED
  BY <1>1, <1>2, <1>3, <1>4, <1>5, <1>6, <1>7, <1>8, <1>9, <1>10 DEF Next

\* An offset a worker has marked as completed stays in the buffer until Kafka has
\* taken a commit at or past it, however many commits fail or lose their answer
\* (commitContiguous evicts only after Commit has returned).
THEOREM CompletedIsKept == Spec => []UncommittedIsKept
<1>1. TypeOK /\ TrackerInv /\ KeptInv /\ [Next]_vars => TypeOK' /\ TrackerInv' /\ KeptInv'
  BY TypeStep, TrackerStep, KeptStep
<1>2. KeptInv => UncommittedIsKept
  BY DEF KeptInv
<1> QED
  BY <1>1, <1>2, TrackerInit, KeptInit, PTL DEF Spec

\* The tracker's sets, the workers and what Kafka knows have their types.
THEOREM TrackerTypeOK == Spec => []TypeOK
<1>1. TypeOK /\ [Next]_vars => TypeOK'
  BY TypeStep
<1> QED
  BY <1>1, TrackerInit, PTL DEF Spec

=============================================================================
