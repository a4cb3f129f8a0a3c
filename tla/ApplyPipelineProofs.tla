------------------------ MODULE ApplyPipelineProofs ------------------------
(***************************************************************************)
(* Theorems about ApplyPipeline, for any callers, any length of the log    *)
(* and any capacities of the two channels.                                 *)
(***************************************************************************)
EXTENDS ApplyPipeline, SequenceTheorems, FiniteSetTheorems, TLAPS

(* Elements of sequences *)

LEMMA AppendElements ==
    ASSUME NEW S, NEW s \in Seq(S), NEW x \in S
    PROVE  /\ Append(s, x) \in Seq(S)
           /\ ToSet(Append(s, x)) = ToSet(s) \cup {x}
           /\ IsInjective(s) /\ x \notin ToSet(s) => IsInjective(Append(s, x))
<1> DEFINE t == Append(s, x)
<1>1. /\ t \in Seq(S) /\ Len(s) \in Nat /\ Len(t) = Len(s) + 1
      /\ \A i \in 1..Len(s) : t[i] = s[i]
      /\ t[Len(s) + 1] = x
      /\ DOMAIN s = 1..Len(s) /\ DOMAIN t = 1..Len(t)
  BY AppendProperties, LenProperties
<1> HIDE DEF t
<1>2. ToSet(t) = ToSet(s) \cup {x}
  <2>1. DOMAIN t = DOMAIN s \cup {Len(s) + 1}
    BY <1>1
  <2> QED
    BY <1>1, <2>1 DEF ToSet
<1>3. ASSUME IsInjective(s), x \notin ToSet(s)
      PROVE  IsInjective(t)
  BY <1>1, <1>3 DEF IsInjective, ToSet
<1> QED
  BY <1>1, <1>2, <1>3 DEF t

LEMMA TailElements ==
    ASSUME NEW S, NEW s \in Seq(S), s # << >>
    PROVE  /\ Head(s) \in S /\ Tail(s) \in Seq(S)
           /\ ToSet(s) = ToSet(Tail(s)) \cup {Head(s)}
           /\ IsInjective(s) => IsInjective(Tail(s)) /\ Head(s) \notin ToSet(Tail(s))
<1> DEFINE t == Tail(s)
<1>1. /\ t \in Seq(S) /\ Len(s) \in Nat /\ Len(s) # 0 /\ Len(t) = Len(s) - 1
      /\ \A i \in 1..Len(t) : t[i] = s[i + 1]
      /\ DOMAIN s = 1..Len(s) /\ DOMAIN t = 1..Len(t) /\ Head(s) = s[1] /\ Head(s) \in S
  BY HeadTailProperties, LenProperties, EmptySeq
<1> HIDE DEF t
<1>2. DOMAIN s = {1} \cup {i + 1 : i \in DOMAIN t}
  <2>1. ASSUME NEW i \in 1..Len(s), i # 1
        PROVE  i - 1 \in 1..Len(t) /\ i = (i - 1) + 1
    BY <1>1, <2>1
  <2>2. ASSUME NEW i \in 1..Len(t)
        PROVE  i + 1 \in 1..Len(s)
    BY <1>1
  <2>3. 1 \in 1..Len(s)
    BY <1>1
  <2> DEFINE Shifted == {i + 1 : i \in DOMAIN t}
  <2>4. ASSUME NEW i \in DOMAIN s, i # 1
        PROVE  i \in Shifted
    <3>1. i - 1 \in DOMAIN t /\ i = (i - 1) + 1
      BY <1>1, <2>1, <2>4
    <3> QED
      BY <3>1, Zenon
  <2>5. \A i \in Shifted : i \in DOMAIN s
    BY <1>1, <2>2
  <2> QED
    BY <1>1, <2>3, <2>4, <2>5
<1>3. ASSUME NEW i \in DOMAIN t
      PROVE  i + 1 \in DOMAIN s /\ i + 1 # 1 /\ t[i] = s[i + 1]
  BY <1>1, <1>2
<1>4. ToSet(s) = ToSet(t) \cup {s[1]}
  <2>1. \A x : x \in ToSet(s) => x = s[1] \/ x \in ToSet(t)
    BY <1>2, <1>3 DEF ToSet
  <2>2. \A x \in ToSet(t) : x \in ToSet(s)
    BY <1>3 DEF ToSet
  <2>3. s[1] \in ToSet(s)
    BY <1>2 DEF ToSet
  <2> QED
    BY <2>1, <2>2, <2>3
<1>5. ASSUME IsInjective(s)
      PROVE  IsInjective(t) /\ s[1] \notin ToSet(t)
  <2>1. ASSUME NEW i \in DOMAIN t, NEW j \in DOMAIN t, t[i] = t[j]
        PROVE  i = j
    <3>1. i + 1 = j + 1
      BY <1>3, <1>5, <2>1 DEF IsInjective
    <3> QED
      BY <1>1, <3>1
  <2>2. ASSUME NEW i \in DOMAIN t
        PROVE  t[i] # s[1]
    <3>1. 1 \in DOMAIN s
      BY <1>2
    <3> QED
      BY <1>3, <1>5, <3>1 DEF IsInjective
  <2>3. IsInjective(t)
    BY <2>1 DEF IsInjective
  <2> QED
    BY <2>2, <2>3 DEF ToSet
<1> QED
  BY <1>1, <1>4, <1>5 DEF t

LEMMA EmptyElements == ToSet(<< >>) = {} /\ IsInjective(<< >>)
  BY DEF ToSet, IsInjective

-----------------------------------------------------------------------------
(* The inductive invariant *)

Command == Caller \cup {Foreign}
CallStates == {"idle", "blocked", "leaving", "expired", "ok", "error"}

TypeInv ==
    /\ leading \in BOOLEAN /\ nodeStopped \in BOOLEAN /\ overflowed \in BOOLEAN
    /\ log \in Seq(Command) /\ Len(log) <= MaxLog
    /\ commitIndex \in 0..Len(log) /\ lastApplied \in 0..commitIndex
    /\ proposals \in [Index -> Caller \cup {None}]
    /\ call \in [Caller -> [state : CallStates, idx : 0..MaxLog]]
    /\ future \in [Caller -> {"empty", "ok", "error"}]
    /\ applyTasks \in Seq(Task) /\ waiting \subseteq Task
    /\ hand \in [task : Task \cup {None}, next : {"take", "send", "answer", "ended"}]
    /\ hand.next \in {"send", "answer"} => hand.task \in Task
    /\ applyCh \in Seq(Index) /\ applied \in Seq(Index)

\* The tasks whose entry has not been sent, and the entries that were.
Pending == waiting \cup ToSet(applyTasks) \cup (IF hand.next = "send" THEN {hand.task} ELSE {})
Delivered == ToSet(applyCh) \cup ToSet(applied)

\* A task or an entry is in one place only.
OnePlace ==
    /\ IsInjective(applyTasks) /\ IsInjective(applyCh) /\ IsInjective(applied)
    /\ waiting \cap ToSet(applyTasks) = {}
    /\ hand.next = "send" => hand.task \notin waiting \cup ToSet(applyTasks)
    /\ ToSet(applyCh) \cap ToSet(applied) = {}

\* What has been dispatched is the indexes up to lastApplied, each of them once.
RouteInv ==
    /\ \A t, u \in Pending : t.idx = u.idx => t = u
    /\ \A t \in Pending : t.idx <= lastApplied /\ t.idx \notin Delivered
    /\ \A n \in Delivered : n <= lastApplied
    /\ hand.next = "answer" => hand.task.idx \in Delivered
    /\ ~nodeStopped => \A n \in 1..lastApplied : n \in Delivered \/ \E t \in Pending : t.idx = n

\* The future of c waits for the entry at n, and for nothing else.
Awaits(c, n) == call[c].idx = n /\ call[c].state # "idle" /\ future[c] = "empty"

\* Whoever has a future has proposed the entry it belongs to.
FutureInv ==
    /\ \A n \in Index : proposals[n] \in Caller =>
          /\ leading /\ n \in (lastApplied + 1)..Len(log)
          /\ log[n] = proposals[n] /\ Awaits(proposals[n], n)
    /\ \A t \in Tasks : t.by \in Caller => log[t.idx] = t.by /\ Awaits(t.by, t.idx)
    /\ \A c \in Caller : future[c] # "empty" => call[c].state # "idle"
    /\ \A c \in Caller : future[c] = "ok" => call[c].idx \in Delivered /\ log[call[c].idx] = c

PipeInv == TypeInv /\ OnePlace /\ RouteInv /\ FutureInv

LEMMA PipeInit == ConstantsAssumption /\ Init => PipeInv
<1> SUFFICES ASSUME ConstantsAssumption, Init
             PROVE  PipeInv
  OBVIOUS
<1>1. TypeInv
  <2>1. /\ log \in Seq(Command) /\ Len(log) = 0 /\ applyTasks \in Seq(Task)
        /\ applyCh \in Seq(Index) /\ applied \in Seq(Index)
    BY EmptySeq DEF Init
  <2>2. /\ 0 \in 0..MaxLog /\ commitIndex = 0 /\ lastApplied = 0
        /\ commitIndex \in 0..Len(log) /\ lastApplied \in 0..commitIndex /\ Len(log) <= MaxLog
    BY <2>1 DEF ConstantsAssumption, Init
  <2> QED
    BY <2>1, <2>2 DEF Init, TypeInv, CallStates
<1>2. /\ Pending = {} /\ Delivered = {} /\ Tasks = {}
  BY EmptyElements DEF Init, Pending, Delivered, Tasks, Held
<1>3. OnePlace
  BY EmptyElements DEF Init, OnePlace
<1>4. RouteInv
  BY <1>2 DEF Init, RouteInv
<1>5. FutureInv
  BY <1>2 DEF Init, FutureInv, ConstantsAssumption
<1> QED
  BY <1>1, <1>3, <1>4, <1>5 DEF PipeInv

-----------------------------------------------------------------------------
(* Types *)

LEMMA TypeStep == ConstantsAssumption /\ TypeInv /\ [Next]_vars => TypeInv'
<1> SUFFICES ASSUME ConstantsAssumption, TypeInv, [Next]_vars
             PROVE  TypeInv'
  OBVIOUS
<1> USE DEF ConstantsAssumption
<1>1. MaxLog \in Nat /\ Len(log) \in Nat /\ commitIndex \in Nat /\ lastApplied \in Nat
  BY LenProperties DEF TypeInv
<1>2. FailPending => /\ proposals' \in [Index -> Caller \cup {None}]
                     /\ future' \in [Caller -> {"empty", "ok", "error"}]
  BY DEF TypeInv, FailPending
<1>3. ASSUME NEW c \in Caller \cup {None}, NEW value \in {"ok", "error"}, Answer(c, value)
      PROVE  future' \in [Caller -> {"empty", "ok", "error"}]
  BY <1>3 DEF TypeInv, Answer
<1>4. ASSUME NEW c \in Caller, NEW st \in CallStates
      PROVE  [call EXCEPT ![c].state = st] \in [Caller -> [state : CallStates, idx : 0..MaxLog]]
  <2>1. [call[c] EXCEPT !.state = st] \in [state : CallStates, idx : 0..MaxLog]
    BY DEF TypeInv
  <2> QED
    BY <2>1 DEF TypeInv
<1>5. CASE Win
  BY <1>5 DEF TypeInv, Win, callVars, pipeVars, smVars
<1>6. CASE StepDown
  BY <1>2, <1>6 DEF TypeInv, StepDown, pipeVars, smVars
<1>7. CASE Replicate
  <2>1. PICK n \in commitIndex..Len(log), new \in {<< >>, <<Foreign>>} :
           n + Len(new) <= MaxLog /\ log' = SubSeq(log, 1, n) \o new
    BY <1>7 DEF Replicate
  <2>2. new \in Seq(Command)
    <3>1. Foreign \in Command
      BY DEF Command
    <3>2. << >> \in Seq(Command) /\ <<Foreign>> \in Seq(Command)
      BY <3>1, EmptySeq
    <3> QED
      BY <2>1, <3>2
  <2>3. SubSeq(log, 1, n) \in Seq(Command) /\ Len(SubSeq(log, 1, n)) = n
    BY <1>1, SubSeqProperties, 1 \in 1..(Len(log) + 1), n \in 0..Len(log) DEF TypeInv
  <2>4. log' \in Seq(Command) /\ Len(log') = n + Len(new) /\ Len(new) \in Nat
    BY <2>1, <2>2, <2>3, ConcatProperties, LenProperties
  <2>5. Len(log') <= MaxLog /\ commitIndex \in 0..Len(log')
    BY <1>1, <2>1, <2>4
  <2> QED
    BY <1>7, <2>4, <2>5 DEF TypeInv, Replicate, callVars, pipeVars, smVars
<1>8. CASE Commit
  <2>1. commitIndex' \in (commitIndex + 1)..Len(log)
    BY <1>8 DEF Commit
  <2>2. commitIndex' \in 0..Len(log) /\ lastApplied \in 0..commitIndex'
    BY <1>1, <2>1 DEF TypeInv
  <2> QED
    BY <1>8, <2>2 DEF TypeInv, Commit, callVars, pipeVars, smVars
<1>9. CASE Dispatch
  <2> DEFINE n == lastApplied + 1
             t == [idx |-> n, by |-> proposals[n]]
  <2>1. n \in Index /\ n \in 0..commitIndex
    BY <1>1, <1>9 DEF Dispatch, Index, TypeInv
  <2>2. t \in Task
    BY <2>1 DEF Task, TypeInv
  <2>3. proposals' \in [Index -> Caller \cup {None}]
    BY <1>9 DEF Dispatch, TakeFuture, TypeInv
  <2> HIDE DEF n, t
  <2>4. Offer(t)
    BY <1>9 DEF Dispatch, n, t
  <2>5. applyTasks' \in Seq(Task) /\ waiting' \subseteq Task /\ overflowed' \in BOOLEAN
    <3>1. Append(applyTasks, t) \in Seq(Task)
      BY <2>2, AppendProperties DEF TypeInv
    <3> QED
      BY <2>2, <2>4, <3>1 DEF Offer, TypeInv
  <2>6. lastApplied' \in 0..commitIndex
    BY <1>9, <2>1 DEF Dispatch, n
  <2> QED
    BY <1>9, <2>3, <2>5, <2>6 DEF TypeInv, Dispatch, smVars
<1>10. ASSUME NEW t \in waiting, Enqueue(t)
      PROVE  TypeInv'
  <2>1. t \in Task
    BY DEF TypeInv
  <2>2. applyTasks' \in Seq(Task)
    BY <1>10, <2>1, AppendProperties DEF TypeInv, Enqueue
  <2> QED
    BY <1>10, <2>2 DEF TypeInv, Enqueue, raftVars, callVars, smVars
<1>11. ASSUME NEW t \in waiting, Abandon(t)
       PROVE  TypeInv'
  <2>1. t.by \in Caller \cup {None}
    BY DEF TypeInv, Task
  <2>2. future' \in [Caller -> {"empty", "ok", "error"}]
    BY <1>3, <1>11, <2>1 DEF Abandon
  <2> QED
    BY <1>11, <2>2 DEF TypeInv, Abandon, raftVars, smVars
<1>12. CASE Take
  <2>1. Head(applyTasks) \in Task /\ Tail(applyTasks) \in Seq(Task)
    BY <1>12, TailElements DEF TypeInv, Take
  <2> QED
    BY <1>12, <2>1 DEF TypeInv, Take, raftVars, callVars, smVars
<1>13. CASE Send
  <2>1. hand.task \in Task /\ hand.task.idx \in Index
    BY <1>13 DEF TypeInv, Send, Task
  <2>2. applyCh' \in Seq(Index)
    BY <1>13, <2>1, AppendProperties DEF TypeInv, Send
  <2>3. /\ hand' \in [task : Task \cup {None}, next : {"take", "send", "answer", "ended"}]
        /\ hand'.task \in Task
    BY <1>13, <2>1 DEF TypeInv, Send
  <2> QED
    BY <1>13, <2>2, <2>3 DEF TypeInv, Send, raftVars, callVars
<1>14. CASE AnswerCaller
  <2>1. hand.task.by \in Caller \cup {None}
    BY <1>14 DEF TypeInv, AnswerCaller, Task
  <2>2. future' \in [Caller -> {"empty", "ok", "error"}]
    BY <1>3, <1>14, <2>1 DEF AnswerCaller
  <2> QED
    BY <1>14, <2>2 DEF TypeInv, AnswerCaller, raftVars, smVars
<1>15. CASE LoopEnds
  BY <1>15 DEF TypeInv, LoopEnds, raftVars, callVars, smVars
<1>16. CASE Apply
  <2>1. Head(applyCh) \in Index /\ Tail(applyCh) \in Seq(Index)
    BY <1>16, TailElements DEF TypeInv, Apply
  <2>2. applied' \in Seq(Index)
    BY <1>16, <2>1, AppendProperties DEF TypeInv, Apply
  <2> QED
    BY <1>16, <2>1, <2>2 DEF TypeInv, Apply, raftVars, callVars, pipeVars
<1>17. CASE Stop \/ MachineEnds
  BY <1>17 DEF TypeInv, Stop, MachineEnds, raftVars, callVars, pipeVars
<1>18. ASSUME NEW c \in Caller, Propose(c)
       PROVE  TypeInv'
  <2>1. Len(log) + 1 \in Index
    BY <1>1, <1>18 DEF Propose, Index
  <2>2. log' \in Seq(Command) /\ Len(log') = Len(log) + 1
    BY <1>18, AppendProperties DEF Propose, Command, TypeInv
  <2>3. Len(log') <= MaxLog /\ commitIndex \in 0..Len(log')
    BY <1>1, <2>1, <2>2 DEF TypeInv, Index
  <2>4. proposals' \in [Index -> Caller \cup {None}]
    BY <1>18 DEF Propose, TypeInv
  <2>5. call' \in [Caller -> [state : CallStates, idx : 0..MaxLog]]
    BY <1>18, <2>1 DEF Propose, TypeInv, CallStates, Index
  <2> QED
    BY <1>18, <2>2, <2>3, <2>4, <2>5 DEF Propose, TypeInv, pipeVars, smVars
<1>19. ASSUME NEW c \in Caller, Return(c) \/ GiveUp(c)
       PROVE  TypeInv'
  <2>1. call' \in [Caller -> [state : CallStates, idx : 0..MaxLog]]
    <3>1. PICK st \in CallStates : call' = [call EXCEPT ![c].state = st]
      <4>1. future[c] # "empty" => future[c] \in CallStates
        BY DEF TypeInv, CallStates
      <4>2. "leaving" \in CallStates
        BY DEF CallStates
      <4> QED
        BY <1>19, <4>1, <4>2 DEF Return, GiveUp
    <3> QED
      BY <1>4, <3>1
  <2> QED
    BY <1>19, <2>1 DEF Return, GiveUp, TypeInv, raftVars, pipeVars, smVars
<1>20. ASSUME NEW c \in Caller, Leave(c)
       PROVE  TypeInv'
  <2>1. call' \in [Caller -> [state : CallStates, idx : 0..MaxLog]]
    BY <1>20, <1>4, "expired" \in CallStates DEF Leave, CallStates
  <2>2. proposals' \in [Index -> Caller \cup {None}]
    BY <1>20 DEF Leave, TypeInv
  <2> QED
    BY <1>20, <2>1, <2>2 DEF Leave, TypeInv, raftVars, pipeVars, smVars
<1>21. CASE Close
  BY <1>2, <1>21 DEF TypeInv, Close, raftVars, pipeVars, smVars
<1>22. CASE UNCHANGED vars
  BY <1>22 DEF TypeInv, vars, raftVars, callVars, pipeVars, smVars
<1> QED
  BY <1>5, <1>6, <1>7, <1>8, <1>9, <1>10, <1>11, <1>12, <1>13, <1>14, <1>15, <1>16, <1>17,
     <1>18, <1>19, <1>20, <1>21, <1>22 DEF Next

-----------------------------------------------------------------------------
(* The places of a task and of an entry *)

\* What a step leaves where it was.
SamePlaces == UNCHANGED <<applyTasks, waiting, hand, applyCh, applied, lastApplied>>

LEMMA PlacesKept ==
    OnePlace /\ RouteInv /\ SamePlaces /\ (nodeStopped => nodeStopped') => OnePlace' /\ RouteInv'
<1> SUFFICES ASSUME OnePlace, RouteInv, SamePlaces, nodeStopped => nodeStopped'
             PROVE  OnePlace' /\ RouteInv'
  OBVIOUS
<1>1. Pending' = Pending /\ Delivered' = Delivered
  BY DEF SamePlaces, Pending, Delivered
<1>2. OnePlace'
  BY DEF SamePlaces, OnePlace
<1>3. RouteInv'
  BY <1>1 DEF SamePlaces, RouteInv
<1> QED
  BY <1>2, <1>3

LEMMA RouteStep ==
    ConstantsAssumption /\ TypeInv /\ OnePlace /\ RouteInv /\ [Next]_vars => OnePlace' /\ RouteInv'
<1> SUFFICES ASSUME ConstantsAssumption, TypeInv, OnePlace, RouteInv, [Next]_vars
             PROVE  OnePlace' /\ RouteInv'
  OBVIOUS
<1>1. /\ commitIndex \in Nat /\ lastApplied \in Nat
      /\ Pending \subseteq Task /\ Delivered \subseteq Index
      /\ Index \subseteq Nat
  <2>1. /\ ToSet(applyTasks) \subseteq Task
        /\ ToSet(applyCh) \subseteq Index /\ ToSet(applied) \subseteq Index
    BY DEF TypeInv, ToSet
  <2> QED
    BY <2>1, LenProperties DEF TypeInv, Pending, Delivered, Index
<1>2. CASE Win \/ StepDown \/ Replicate \/ Commit \/ Stop \/ MachineEnds \/ Close \/ UNCHANGED vars
  <2>1. SamePlaces /\ (nodeStopped => nodeStopped')
    BY <1>2 DEF Win, StepDown, Replicate, Commit, Stop, MachineEnds, Close, vars, raftVars,
                callVars, pipeVars, smVars, SamePlaces
  <2> QED
    BY <2>1, PlacesKept
<1>3. ASSUME NEW c \in Caller, Propose(c) \/ Return(c) \/ GiveUp(c) \/ Leave(c)
      PROVE  OnePlace' /\ RouteInv'
  <2>1. SamePlaces /\ (nodeStopped => nodeStopped')
    BY <1>3 DEF Propose, Return, GiveUp, Leave, raftVars, pipeVars, smVars, SamePlaces
  <2> QED
    BY <2>1, PlacesKept
<1>4. CASE Dispatch
  <2> DEFINE n == lastApplied + 1
             t == [idx |-> n, by |-> proposals[n]]
  <2>1. t \in Task /\ t.idx = n
    <3>1. n \in Index
      BY <1>1, <1>4, LenProperties DEF Dispatch, Index, TypeInv
    <3> QED
      BY <3>1 DEF Task, TypeInv
  <2>2. Offer(t) /\ UNCHANGED <<hand, applyCh, applied, nodeStopped>> /\ lastApplied' = n
    BY <1>4 DEF Dispatch, smVars
  <2> HIDE DEF t
  <2>3. t \notin Pending /\ \A u \in Pending : u.idx # n
    BY <1>1, <2>1 DEF RouteInv
  <2>4. n \notin Delivered
    BY <1>1 DEF RouteInv
  <2>5. Delivered' = Delivered
    BY <2>2 DEF Delivered
  <2>6. OnePlace' /\ Pending' = Pending \cup {t}
    <3>1. CASE applyTasks' = Append(applyTasks, t) /\ UNCHANGED waiting
      <4>1. /\ ToSet(applyTasks') = ToSet(applyTasks) \cup {t}
            /\ IsInjective(applyTasks')
        BY <2>1, <2>3, <3>1, AppendElements DEF TypeInv, OnePlace, Pending
      <4> QED
        BY <2>2, <2>3, <3>1, <4>1 DEF OnePlace, Pending
    <3>2. CASE waiting' = waiting \cup {t} /\ UNCHANGED applyTasks
      BY <2>2, <2>3, <3>2 DEF OnePlace, Pending
    <3> QED
      BY <2>2, <3>1, <3>2 DEF Offer
  <2>7. RouteInv'
    <3>1. \A u, v \in Pending' : u.idx = v.idx => u = v
      BY <2>1, <2>3, <2>6 DEF RouteInv
    <3>2. \A u \in Pending' : u.idx <= lastApplied' /\ u.idx \notin Delivered'
      <4>1. \A u \in Pending : u.idx \in Nat /\ u.idx <= lastApplied
        BY <1>1 DEF RouteInv, Task
      <4> QED
        BY <1>1, <2>1, <2>2, <2>4, <2>5, <2>6, <4>1 DEF RouteInv
    <3>3. \A m \in Delivered' : m <= lastApplied'
      <4>1. \A m \in Delivered : m \in Nat /\ m <= lastApplied
        BY <1>1 DEF RouteInv
      <4> QED
        BY <1>1, <2>2, <2>5, <4>1
    <3>4. ~nodeStopped => \A m \in 1..n : m \in Delivered' \/ \E u \in Pending' : u.idx = m
      <4>1. \A m \in 1..n : m = n \/ m \in 1..lastApplied
        BY <1>1
      <4> QED
        BY <2>1, <2>5, <2>6, <4>1 DEF RouteInv
    <3> QED
      BY <2>2, <2>5, <3>1, <3>2, <3>3, <3>4 DEF RouteInv
  <2> QED
    BY <2>6, <2>7
<1>5. ASSUME NEW t \in waiting, Enqueue(t)
      PROVE  OnePlace' /\ RouteInv'
  <2>1. t \in Task
    BY DEF TypeInv
  <2>2. /\ ToSet(applyTasks') = ToSet(applyTasks) \cup {t} /\ IsInjective(applyTasks')
        /\ waiting' = waiting \ {t}
        /\ UNCHANGED <<hand, applyCh, applied, nodeStopped, lastApplied>>
    BY <1>5, <2>1, AppendElements DEF Enqueue, TypeInv, OnePlace, raftVars, smVars
  <2>3. Pending' = Pending /\ Delivered' = Delivered
    BY <2>2 DEF Pending, Delivered
  <2>4. OnePlace'
    BY <2>2 DEF OnePlace
  <2>5. RouteInv'
    BY <2>2, <2>3 DEF RouteInv
  <2> QED
    BY <2>4, <2>5
<1>6. ASSUME NEW t \in waiting, Abandon(t)
      PROVE  OnePlace' /\ RouteInv'
  <2>1. /\ waiting' = waiting \ {t} /\ nodeStopped'
        /\ UNCHANGED <<applyTasks, hand, applyCh, applied, lastApplied>>
    BY <1>6 DEF Abandon, raftVars, smVars
  <2>2. Pending' \subseteq Pending /\ Delivered' = Delivered
    BY <2>1 DEF Pending, Delivered
  <2>3. OnePlace'
    BY <2>1 DEF OnePlace
  <2>4. RouteInv'
    BY <2>1, <2>2 DEF RouteInv
  <2> QED
    BY <2>3, <2>4
<1>7. CASE Take
  <2>1. /\ ToSet(applyTasks) = ToSet(applyTasks') \cup {Head(applyTasks)}
        /\ IsInjective(applyTasks') /\ Head(applyTasks) \notin ToSet(applyTasks')
        /\ hand.next = "take" /\ hand'.next = "send" /\ hand'.task = Head(applyTasks)
        /\ UNCHANGED <<waiting, applyCh, applied, nodeStopped, lastApplied>>
    BY <1>7, TailElements DEF Take, TypeInv, OnePlace, raftVars, smVars
  <2>2. Pending' = Pending /\ Delivered' = Delivered
    BY <2>1 DEF Pending, Delivered
  <2>3. OnePlace'
    BY <2>1 DEF OnePlace
  <2>4. RouteInv'
    BY <2>1, <2>2 DEF RouteInv
  <2> QED
    BY <2>3, <2>4
<1>8. CASE Send
  <2> DEFINE t == hand.task
  <2>1. t \in Task /\ t.idx \in Index /\ t \in Pending
    BY <1>8 DEF Send, TypeInv, Task, Pending
  <2>2. t.idx \notin Delivered /\ t.idx <= lastApplied
    BY <2>1 DEF RouteInv
  <2>3. /\ ToSet(applyCh') = ToSet(applyCh) \cup {t.idx} /\ IsInjective(applyCh')
        /\ hand.next = "send" /\ hand'.next = "answer" /\ hand'.task = t
        /\ UNCHANGED <<waiting, applyTasks, applied, nodeStopped, lastApplied>>
    BY <1>8, <2>1, <2>2, AppendElements DEF Send, TypeInv, OnePlace, raftVars, Delivered
  <2>4. Pending = Pending' \cup {t} /\ Delivered' = Delivered \cup {t.idx}
    BY <2>3 DEF Pending, Delivered
  <2>5. OnePlace'
    BY <2>2, <2>3 DEF OnePlace, Delivered
  <2>6. t \notin Pending'
    BY <2>3 DEF OnePlace, Pending
  <2>7. RouteInv'
    BY <2>2, <2>3, <2>4, <2>6 DEF RouteInv
  <2> QED
    BY <2>5, <2>7
<1>9. CASE AnswerCaller \/ LoopEnds
  <2>1. /\ hand.next # "send" /\ hand'.next \notin {"send", "answer"}
        /\ UNCHANGED <<waiting, applyTasks, applyCh, applied, nodeStopped, lastApplied>>
    BY <1>9 DEF AnswerCaller, LoopEnds, raftVars, smVars
  <2>2. Pending' = Pending /\ Delivered' = Delivered
    BY <2>1 DEF Pending, Delivered
  <2>3. OnePlace'
    BY <2>1 DEF OnePlace
  <2>4. RouteInv'
    BY <2>1, <2>2 DEF RouteInv
  <2> QED
    BY <2>3, <2>4
<1>10. CASE Apply
  <2> DEFINE n == Head(applyCh)
  <2>1. /\ n \in Index /\ ToSet(applyCh) = ToSet(applyCh') \cup {n}
        /\ IsInjective(applyCh') /\ n \notin ToSet(applyCh')
        /\ applied' = Append(applied, n)
        /\ UNCHANGED <<waiting, applyTasks, hand, nodeStopped, lastApplied>>
    BY <1>10, TailElements DEF Apply, TypeInv, OnePlace, raftVars, pipeVars
  <2>2. n \notin ToSet(applied)
    BY <2>1 DEF OnePlace
  <2>3. ToSet(applied') = ToSet(applied) \cup {n} /\ IsInjective(applied')
    BY <2>1, <2>2, AppendElements DEF TypeInv, OnePlace
  <2>4. Pending' = Pending /\ Delivered' = Delivered
    BY <2>1, <2>3 DEF Pending, Delivered
  <2>5. OnePlace'
    BY <2>1, <2>3 DEF OnePlace
  <2>6. RouteInv'
    BY <2>1, <2>4 DEF RouteInv
  <2> QED
    BY <2>5, <2>6
<1> QED
  BY <1>2, <1>3, <1>4, <1>5, <1>6, <1>7, <1>8, <1>9, <1>10 DEF Next

-----------------------------------------------------------------------------
(* The futures *)

\* A task that still holds a future is waiting for its entry to be sent, or is
\* the one whose entry has just been.
LEMMA TaskPlaces ==
    TypeInv /\ RouteInv =>
        /\ Tasks \subseteq Task
        /\ \A t \in Tasks : t \in Pending \/ (hand.next = "answer" /\ t = hand.task)
        /\ \A t \in Tasks : t.idx <= lastApplied
<1> SUFFICES ASSUME TypeInv, RouteInv
             PROVE  /\ Tasks \subseteq Task
                    /\ \A t \in Tasks : t \in Pending \/ (hand.next = "answer" /\ t = hand.task)
                    /\ \A t \in Tasks : t.idx <= lastApplied
  OBVIOUS
<1>1. Tasks \subseteq Task
  BY DEF TypeInv, Tasks, ToSet, Held
<1>2. ToSet(Held) = IF hand.next \in {"send", "answer"} THEN {hand.task} ELSE {}
  BY EmptyElements DEF ToSet, Held
<1>3. \A t \in Tasks : t \in Pending \/ (hand.next = "answer" /\ t = hand.task)
  <2>1. CASE hand.next = "send"
    BY <1>2, <2>1 DEF Tasks, Pending
  <2>2. CASE hand.next = "answer"
    BY <1>2, <2>2 DEF Tasks, Pending
  <2>3. CASE hand.next \notin {"send", "answer"}
    BY <1>2, <2>3 DEF Tasks, Pending
  <2> QED
    BY <2>1, <2>2, <2>3
<1> QED
  BY <1>1, <1>3 DEF RouteInv

\* A caller's future is at one index, or with one task.
LEMMA OneHold ==
    ASSUME ConstantsAssumption, PipeInv
    PROVE  /\ \A m, n \in Index : proposals[m] \in Caller /\ proposals[m] = proposals[n] => m = n
           /\ \A n \in Index : \A t \in Tasks : proposals[n] \in Caller => t.by # proposals[n]
           /\ \A t, u \in Tasks : t.by \in Caller /\ t.by = u.by => t = u
<1> USE DEF PipeInv
<1>1. /\ commitIndex \in Nat /\ lastApplied \in Nat /\ Len(log) \in Nat /\ Index \subseteq Nat
      /\ \A t \in Tasks : t.idx \in Nat /\ t.idx <= lastApplied
  BY LenProperties, TaskPlaces DEF TypeInv, Index, Task
<1>2. ASSUME NEW m \in Index, NEW n \in Index, proposals[m] \in Caller, proposals[m] = proposals[n]
      PROVE  m = n
  BY <1>2 DEF FutureInv, Awaits
<1>3. ASSUME NEW n \in Index, NEW t \in Tasks, proposals[n] \in Caller, t.by = proposals[n]
      PROVE  FALSE
  <2>1. n > lastApplied /\ Awaits(proposals[n], n)
    BY <1>1, <1>3 DEF FutureInv
  <2>2. t.idx = n
    BY <1>3, <2>1 DEF FutureInv, Awaits
  <2> QED
    BY <1>1, <2>1, <2>2
<1>4. ASSUME NEW t \in Tasks, NEW u \in Tasks, t.by \in Caller, t.by = u.by
      PROVE  t = u
  <2>1. t.idx = u.idx
    BY <1>4 DEF FutureInv, Awaits
  <2> QED
    BY <2>1, TaskPlaces DEF RouteInv
<1> QED
  BY <1>2, <1>3, <1>4

LEMMA FutureStep ==
    ConstantsAssumption /\ PipeInv /\ [Next]_vars => FutureInv'
<1> SUFFICES ASSUME ConstantsAssumption, PipeInv, [Next]_vars
             PROVE  FutureInv'
  OBVIOUS
<1> USE DEF PipeInv
<1>1. /\ commitIndex \in Nat /\ lastApplied \in Nat /\ Len(log) \in Nat
      /\ lastApplied <= commitIndex /\ commitIndex <= Len(log)
      /\ None \notin Caller /\ Foreign \notin Caller
      /\ Index \subseteq Nat
  BY LenProperties DEF TypeInv, Index, ConstantsAssumption
<1>2. /\ Tasks \subseteq Task
      /\ \A t \in Tasks : t.idx <= lastApplied
  BY TaskPlaces
<1>3. ASSUME NEW c \in Caller, NEW n \in Index, proposals[n] = c
      PROVE  \A t \in Tasks : t.by # c
  BY <1>3, OneHold
<1>4. ASSUME NEW t \in Tasks, NEW u \in Tasks, t.by \in Caller, u.by = t.by
      PROVE  t = u
  BY <1>4, OneHold
<1>5. ASSUME UNCHANGED <<applyTasks, waiting, hand>>
      PROVE  Tasks' = Tasks
  BY <1>5 DEF Tasks, Held
<1>6. ASSUME UNCHANGED <<applyCh, applied>>
      PROVE  Delivered' = Delivered
  BY <1>6 DEF Delivered
\* Steps that take futures away and answer none.
<1>7. ASSUME UNCHANGED <<log, future, lastApplied>>, leading => leading',
             Tasks' \subseteq Tasks, Delivered \subseteq Delivered',
             \A n \in Index : proposals'[n] \in {proposals[n], None},
             \A c \in Caller : /\ call'[c].idx = call[c].idx
                               /\ call[c].state # "idle" => call'[c].state # "idle"
      PROVE  FutureInv'
  <2>1. ASSUME NEW c \in Caller, NEW n, Awaits(c, n)
        PROVE  Awaits(c, n)'
    BY <1>7, <2>1 DEF Awaits
  <2>2. ASSUME NEW n \in Index, proposals'[n] \in Caller
        PROVE  /\ leading' /\ n \in (lastApplied' + 1)..Len(log')
               /\ log'[n] = proposals'[n] /\ Awaits(proposals[n], n)' /\ proposals'[n] = proposals[n]
    BY <1>1, <1>7, <2>1, <2>2 DEF FutureInv
  <2>3. \A t \in Tasks' : t.by \in Caller => log'[t.idx] = t.by /\ Awaits(t.by, t.idx)'
    BY <1>7, <2>1 DEF FutureInv
  <2> QED
    BY <1>7, <2>2, <2>3 DEF FutureInv, Awaits
<1>8. ASSUME UNCHANGED callVars
      PROVE  /\ UNCHANGED future
             /\ \A n \in Index : proposals'[n] \in {proposals[n], None}
             /\ \A c \in Caller : /\ call'[c].idx = call[c].idx
                                  /\ call[c].state # "idle" => call'[c].state # "idle"
  BY <1>8 DEF callVars
<1>9. CASE Win \/ Commit \/ Stop \/ MachineEnds \/ UNCHANGED vars
  <2>1. /\ UNCHANGED <<log, lastApplied, callVars, applyTasks, waiting, hand, applyCh, applied>>
        /\ leading => leading'
    BY <1>9 DEF Win, Commit, Stop, MachineEnds, vars, raftVars, pipeVars, smVars
  <2> QED
    BY <1>5, <1>6, <1>7, <1>8, <2>1
<1>10. CASE Take \/ LoopEnds
  <2>1. UNCHANGED <<log, leading, lastApplied, callVars, waiting, applyCh, applied>>
    BY <1>10 DEF Take, LoopEnds, raftVars, smVars
  <2>2. Tasks' \subseteq Tasks
    <3>1. CASE Take
      <4>1. Head(applyTasks) \in ToSet(applyTasks) /\ ToSet(applyTasks') \subseteq ToSet(applyTasks)
        BY <3>1, TailElements DEF Take, TypeInv
      <4>2. ToSet(Held') = {Head(applyTasks)}
        BY <3>1 DEF Take, Held, ToSet
      <4> QED
        BY <2>1, <4>1, <4>2 DEF Tasks
    <3>2. CASE LoopEnds
      <4>1. Held' = << >> /\ UNCHANGED applyTasks
        BY <3>2 DEF LoopEnds, Held
      <4> QED
        BY <2>1, <4>1, EmptyElements DEF Tasks
    <3> QED
      BY <1>10, <3>1, <3>2
  <2> QED
    BY <1>6, <1>7, <1>8, <2>1, <2>2
<1>11. ASSUME NEW t \in waiting, Enqueue(t)
       PROVE  FutureInv'
  <2>1. UNCHANGED <<log, leading, lastApplied, callVars, hand, applyCh, applied>>
    BY <1>11 DEF Enqueue, raftVars, smVars
  <2>2. ToSet(applyTasks') = ToSet(applyTasks) \cup {t} /\ waiting' = waiting \ {t}
    BY <1>11, AppendElements DEF Enqueue, TypeInv
  <2>3. Tasks' \subseteq Tasks
    BY <2>1, <2>2 DEF Tasks, Held
  <2> QED
    BY <1>6, <1>7, <1>8, <2>1, <2>3
<1>12. CASE Send
  <2>1. UNCHANGED <<log, leading, lastApplied, callVars, applyTasks, waiting, applied>>
    BY <1>12 DEF Send, raftVars
  <2>2. Held' = Held
    BY <1>12 DEF Send, Held, TypeInv
  <2>3. Tasks' \subseteq Tasks
    BY <2>1, <2>2 DEF Tasks
  <2>4. Delivered \subseteq Delivered'
    <3>1. hand.task.idx \in Index
      BY <1>12 DEF Send, TypeInv, Task
    <3> QED
      BY <1>12, <2>1, <3>1, AppendElements DEF Send, TypeInv, Delivered
  <2> QED
    BY <1>7, <1>8, <2>1, <2>3, <2>4
<1>13. CASE Apply
  <2>1. UNCHANGED <<log, leading, lastApplied, callVars, applyTasks, waiting, hand>>
    BY <1>13 DEF Apply, raftVars, pipeVars
  <2>2. Delivered \subseteq Delivered'
    <3>1. Head(applyCh) \in Index /\ ToSet(applyCh) = ToSet(applyCh') \cup {Head(applyCh)}
      BY <1>13, TailElements DEF Apply, TypeInv
    <3>2. ToSet(applied') = ToSet(applied) \cup {Head(applyCh)}
      BY <1>13, <3>1, AppendElements DEF Apply, TypeInv
    <3> QED
      BY <3>1, <3>2 DEF Delivered
  <2> QED
    BY <1>5, <1>7, <1>8, <2>1, <2>2
<1>14. ASSUME NEW c \in Caller, Return(c) \/ GiveUp(c) \/ Leave(c)
       PROVE  FutureInv'
  <2>1. UNCHANGED <<log, leading, lastApplied, future, applyTasks, waiting, hand, applyCh, applied>>
    BY <1>14 DEF Return, GiveUp, Leave, raftVars, pipeVars, smVars
  <2>2. \A n \in Index : proposals'[n] \in {proposals[n], None}
    BY <1>14 DEF Return, GiveUp, Leave, TypeInv
  <2>3. PICK st \in {"ok", "error", "leaving", "expired"} : call' = [call EXCEPT ![c].state = st]
    BY <1>14 DEF Return, GiveUp, Leave, TypeInv
  <2>4. \A d \in Caller : /\ call'[d].idx = call[d].idx
                          /\ call[d].state # "idle" => call'[d].state # "idle"
    BY <2>3 DEF TypeInv
  <2> QED
    BY <1>5, <1>6, <1>7, <2>1, <2>2, <2>4
<1>15. CASE StepDown \/ Close
  <2>1. /\ FailPending
        /\ UNCHANGED <<log, lastApplied, call, applyTasks, waiting, hand, applyCh, applied>>
    BY <1>15 DEF StepDown, Close, raftVars, pipeVars, smVars
  <2>2. Tasks' = Tasks /\ Delivered' = Delivered
    BY <1>5, <1>6, <2>1
  <2>3. \A n \in Index : proposals'[n] \notin Caller
    BY <1>1, <2>1 DEF FailPending
  <2>4. ASSUME NEW t \in Tasks, t.by \in Caller
        PROVE  log'[t.idx] = t.by /\ Awaits(t.by, t.idx)'
    <3>1. future'[t.by] = future[t.by]
      BY <1>3, <2>1, <2>4 DEF FailPending
    <3> QED
      BY <2>1, <2>4, <3>1 DEF FutureInv, Awaits
  <2>5. ASSUME NEW c \in Caller
        PROVE  /\ future'[c] # "empty" => call'[c].state # "idle"
               /\ future'[c] = "ok" => call'[c].idx \in Delivered' /\ log'[call'[c].idx] = c
    BY <2>1, <2>2 DEF FailPending, FutureInv, Awaits
  <2> QED
    BY <2>2, <2>3, <2>4, <2>5 DEF FutureInv
<1>16. CASE Replicate
  <2>1. PICK kept \in commitIndex..Len(log), new \in {<< >>, <<Foreign>>} :
           log' = SubSeq(log, 1, kept) \o new
    BY <1>16 DEF Replicate
  <2>2. \A i \in 1..lastApplied : log'[i] = log[i]
    BY <1>1, <2>1 DEF TypeInv
  <2>3. /\ ~leading /\ ~leading'
        /\ UNCHANGED <<lastApplied, callVars, applyTasks, waiting, hand, applyCh, applied>>
    BY <1>16 DEF Replicate, pipeVars, smVars
  <2>4. Tasks' = Tasks /\ Delivered' = Delivered
    BY <1>5, <1>6, <2>3
  <2>5. \A n \in Index : proposals'[n] \notin Caller
    BY <2>3 DEF FutureInv, callVars
  <2>6. \A t \in Tasks : t.idx \in 1..lastApplied
    BY <1>1, <1>2 DEF Task, Index
  <2>7. ASSUME NEW m \in Delivered
        PROVE  m \in 1..lastApplied
    <3>1. m \in Index
      BY DEF TypeInv, Delivered, ToSet
    <3>2. m <= lastApplied
      BY DEF RouteInv
    <3> QED
      BY <1>1, <3>1, <3>2 DEF Index
  <2> QED
    BY <2>2, <2>3, <2>4, <2>5, <2>6, <2>7 DEF FutureInv, Awaits, callVars
<1>17. CASE Dispatch
  <2> DEFINE n == lastApplied + 1
             t == [idx |-> n, by |-> proposals[n]]
  <2>1. n \in Index /\ n <= Len(log) /\ t \in Task /\ t.idx = n /\ t.by = proposals[n]
    <3>1. n \in Index /\ n <= Len(log)
      BY <1>1, <1>17 DEF Dispatch, Index, TypeInv, ConstantsAssumption
    <3> QED
      BY <3>1 DEF Task, TypeInv
  <2>2. /\ UNCHANGED <<leading, log, call, future, hand, applyCh, applied>> /\ lastApplied' = n
        /\ proposals' = [proposals EXCEPT ![n] = None]
    BY <1>17 DEF Dispatch, TakeFuture, smVars
  <2>3. Offer(t)
    BY <1>17 DEF Dispatch
  <2> HIDE DEF t
  <2>4. Tasks' = Tasks \cup {t}
    <3>1. CASE applyTasks' = Append(applyTasks, t) /\ UNCHANGED waiting
      <4>1. ToSet(applyTasks') = ToSet(applyTasks) \cup {t}
        BY <2>1, <3>1, AppendElements DEF TypeInv
      <4> QED
        BY <2>2, <3>1, <4>1 DEF Tasks, Held
    <3>2. CASE waiting' = waiting \cup {t} /\ UNCHANGED applyTasks
      BY <2>2, <3>2 DEF Tasks, Held
    <3> QED
      BY <2>3, <3>1, <3>2 DEF Offer
  <2>5. Delivered' = Delivered
    BY <1>6, <2>2
  <2>6. ASSUME NEW m \in Index, proposals'[m] \in Caller
        PROVE  m # n /\ proposals'[m] = proposals[m] /\ m \in (lastApplied' + 1)..Len(log')
    <3>1. m # n /\ proposals'[m] = proposals[m]
      BY <1>1, <2>1, <2>2, <2>6 DEF TypeInv
    <3>2. m \in (lastApplied + 1)..Len(log)
      BY <2>6, <3>1 DEF FutureInv
    <3> QED
      BY <1>1, <2>2, <3>1, <3>2
  <2>7. t.by \in Caller => log[t.idx] = t.by /\ Awaits(t.by, t.idx)
    BY <2>1 DEF FutureInv
  <2> QED
    BY <2>2, <2>4, <2>5, <2>6, <2>7 DEF FutureInv, Awaits
\* A task that has left takes the only hold on its future with it.
<1>18. ASSUME NEW t \in Tasks, NEW value \in {"ok", "error"}, Answer(t.by, value),
              Tasks' \subseteq Tasks \ {t},
              UNCHANGED <<log, leading, lastApplied, proposals, call>>, Delivered' = Delivered,
              value = "ok" => t.idx \in Delivered
       PROVE  FutureInv'
  <2>1. CASE t.by = None
    BY <1>7, <1>18, <2>1 DEF Answer
  <2>2. CASE t.by \in Caller
    <3>1. future' = [future EXCEPT ![t.by] = value]
      BY <1>1, <1>18, <2>2 DEF Answer
    <3>2. \A n \in Index : proposals[n] # t.by
      BY <1>3, <2>2
    <3>3. \A u \in Tasks' : u.by # t.by
      BY <1>4, <1>18, <2>2
    <3>4. Awaits(t.by, t.idx) /\ log[t.idx] = t.by
      BY <2>2 DEF FutureInv
    <3>5. \A n \in Index : proposals'[n] \in Caller =>
            /\ leading' /\ n \in (lastApplied' + 1)..Len(log')
            /\ log'[n] = proposals'[n] /\ Awaits(proposals[n], n)'
      BY <1>18, <3>1, <3>2 DEF FutureInv, Awaits, TypeInv
    <3>6. \A u \in Tasks' : u.by \in Caller => log'[u.idx] = u.by /\ Awaits(u.by, u.idx)'
      BY <1>18, <3>1, <3>3 DEF FutureInv, Awaits, TypeInv
    <3>7. ASSUME NEW c \in Caller
          PROVE  /\ future'[c] # "empty" => call'[c].state # "idle"
                 /\ future'[c] = "ok" => call'[c].idx \in Delivered' /\ log'[call'[c].idx] = c
      <4>1. CASE c = t.by
        BY <1>18, <3>1, <3>4, <4>1 DEF Awaits, TypeInv
      <4>2. CASE c # t.by
        BY <1>18, <3>1, <4>2 DEF FutureInv, TypeInv
      <4> QED
        BY <4>1, <4>2
    <3> QED
      BY <1>18, <3>5, <3>6, <3>7 DEF FutureInv
  <2> QED
    BY <1>2, <2>1, <2>2 DEF Task
<1>19. ASSUME NEW t \in waiting, Abandon(t)
       PROVE  FutureInv'
  <2>1. /\ waiting' = waiting \ {t} /\ Answer(t.by, "error")
        /\ UNCHANGED <<log, leading, lastApplied, proposals, call, applyTasks, hand, applyCh, applied>>
    BY <1>19 DEF Abandon, raftVars, smVars
  <2>2. t \in Tasks /\ t \in Pending
    BY DEF Tasks, Pending
  <2>3. t \notin ToSet(applyTasks)
    BY DEF OnePlace
  <2>4. t \notin ToSet(Held)
    BY <2>2 DEF Held, OnePlace, RouteInv, ToSet
  <2>5. Tasks' \subseteq Tasks \ {t}
    BY <2>1, <2>3, <2>4 DEF Tasks, Held
  <2> QED
    BY <1>6, <1>18, <2>1, <2>2, <2>5
<1>20. CASE AnswerCaller
  <2> DEFINE t == hand.task
  <2>1. /\ hand.next = "answer" /\ Held' = << >> /\ Held = <<t>> /\ Answer(t.by, "ok")
        /\ UNCHANGED <<log, leading, lastApplied, proposals, call, applyTasks, waiting, applyCh, applied>>
    BY <1>20 DEF AnswerCaller, Held, raftVars, smVars
  <2>2. t \in Tasks /\ t.idx \in Delivered
    BY <2>1 DEF Tasks, ToSet, RouteInv
  <2>3. t \notin waiting \cup ToSet(applyTasks)
    BY <2>2 DEF RouteInv, Pending
  <2>4. Tasks' = waiting \cup ToSet(applyTasks)
    BY <2>1, EmptyElements DEF Tasks
  <2>5. Tasks' \subseteq Tasks \ {t}
    BY <2>3, <2>4 DEF Tasks
  <2> QED
    BY <1>6, <1>18, <2>1, <2>2, <2>5
<1>21. ASSUME NEW c \in Caller, Propose(c)
       PROVE  FutureInv'
  <2> PICK n : n = Len(log) + 1
    OBVIOUS
  <2>1. /\ leading /\ call[c].state = "idle" /\ n \in Index /\ log' = Append(log, c)
        /\ proposals' = [proposals EXCEPT ![n] = c]
        /\ call' = [call EXCEPT ![c] = [state |-> "blocked", idx |-> n]]
        /\ UNCHANGED <<leading, lastApplied, future, applyTasks, waiting, hand, applyCh, applied>>
    BY <1>1, <1>21 DEF Propose, Index, pipeVars, smVars, ConstantsAssumption
  <2>2. /\ Len(log') = n /\ log'[n] = c
        /\ \A i \in 1..Len(log) : log'[i] = log[i]
    BY <2>1, AppendProperties DEF TypeInv
  <2>3. Tasks' = Tasks /\ Delivered' = Delivered
    BY <1>5, <1>6, <2>1
  <2>4. future[c] = "empty"
    BY <2>1 DEF FutureInv
  <2>5. Awaits(c, n)' /\ \A d \in Caller, m \in Index : Awaits(d, m) => d # c /\ Awaits(d, m)'
    <3>1. call'[c] = [state |-> "blocked", idx |-> n] /\ future'[c] = "empty"
      BY <2>1, <2>4 DEF TypeInv
    <3>2. ASSUME NEW d \in Caller, d # c
          PROVE  call'[d] = call[d] /\ future'[d] = future[d]
      BY <2>1, <3>2 DEF TypeInv
    <3>3. Awaits(c, n)'
      BY <3>1 DEF Awaits
    <3>4. ASSUME NEW d \in Caller, NEW m \in Index, Awaits(d, m)
          PROVE  d # c /\ Awaits(d, m)'
      <4>1. d # c
        BY <2>1, <3>4 DEF Awaits
      <4> QED
        BY <3>2, <3>4, <4>1 DEF Awaits
    <3> QED
      BY <3>3, <3>4
  <2>6. ASSUME NEW m \in Index, proposals'[m] \in Caller
        PROVE  /\ leading' /\ m \in (lastApplied' + 1)..Len(log')
               /\ log'[m] = proposals'[m] /\ Awaits(proposals[m], m)'
    <3>1. CASE m = n
      BY <1>1, <2>1, <2>2, <2>5, <3>1 DEF TypeInv, Awaits
    <3>2. CASE m # n
      <4>1. proposals'[m] = proposals[m]
        BY <2>1, <3>2 DEF TypeInv
      <4>2. /\ m \in (lastApplied + 1)..Len(log) /\ log[m] = proposals[m]
            /\ Awaits(proposals[m], m)
        BY <2>6, <4>1 DEF FutureInv
      <4> QED
        BY <1>1, <2>1, <2>2, <2>5, <2>6, <4>1, <4>2 DEF Awaits
    <3> QED
      BY <3>1, <3>2
  <2>7. \A t \in Tasks : t.idx \in Index /\ t.idx \in 1..Len(log)
    BY <1>1, <1>2 DEF Task, Index
  <2>8. \A t \in Tasks' : t.by \in Caller => log'[t.idx] = t.by /\ Awaits(t.by, t.idx)'
    BY <2>2, <2>3, <2>5, <2>7 DEF FutureInv
  <2>9. ASSUME NEW d \in Caller
        PROVE  /\ future'[d] # "empty" => call'[d].state # "idle"
               /\ future'[d] = "ok" => call'[d].idx \in Delivered' /\ log'[call'[d].idx] = d
    <3>1. ASSUME NEW m \in Delivered
          PROVE  m \in 1..Len(log)
      <4>1. m \in Index
        BY DEF TypeInv, Delivered, ToSet
      <4>2. m <= lastApplied
        BY DEF RouteInv
      <4> QED
        BY <1>1, <4>1, <4>2 DEF Index
    <3> QED
      BY <2>1, <2>2, <2>3, <2>4, <3>1 DEF FutureInv, TypeInv
  <2> QED
    BY <2>6, <2>8, <2>9 DEF FutureInv, Awaits
<1> QED
  BY <1>9, <1>10, <1>11, <1>12, <1>13, <1>14, <1>15, <1>16, <1>17, <1>19, <1>20, <1>21 DEF Next

-----------------------------------------------------------------------------
(* The theorems *)

THEOREM PipeInvariant == Spec => []PipeInv
<1>1. PipeInv /\ [Next]_vars => PipeInv'
  BY ConstantsAssumption, TypeStep, RouteStep, FutureStep DEF PipeInv
<1> QED
  BY <1>1, ConstantsAssumption, PipeInit, PTL DEF Spec

\* Every variable keeps its type: the queues hold tasks and entries of the log,
\* and no call has a future that is neither empty nor an answer.
THEOREM PipelineTypeOK == Spec => []TypeInv
<1>1. PipeInv => TypeInv
  BY DEF PipeInv
<1> QED
  BY <1>1, PipeInvariant, PTL

LEMMA AtMostOne ==
    ASSUME NEW S, \A x, y \in S : x = y
    PROVE  Cardinality(S) = IF S = {} THEN 0 ELSE 1
<1>1. CASE S = {}
  BY <1>1, FS_EmptySet
<1>2. CASE S # {}
  <2>1. PICK x \in S : TRUE
    BY <1>2
  <2>2. S = {x}
    BY <2>1
  <2> QED
    BY <1>2, <2>2, FS_Singleton
<1> QED
  BY <1>1, <1>2

\* A future is in the map, or with one task, or answered: no handler ever sends
\* it a second value.
THEOREM FutureIsOwnedOnce == Spec => []FutureHasOneOwner
<1>1. ASSUME PipeInv
      PROVE  FutureHasOneOwner
  <2> SUFFICES ASSUME NEW c \in Caller
               PROVE  Cardinality({n \in Index : proposals[n] = c})
                        + Cardinality({t \in Tasks : t.by = c})
                        + (IF future[c] = "empty" THEN 0 ELSE 1) <= 1
    BY DEF FutureHasOneOwner
  <2> DEFINE P == {n \in Index : proposals[n] = c}
             T == {t \in Tasks : t.by = c}
  <2>1. /\ \A m, n \in P : m = n
        /\ \A t, u \in T : t = u
        /\ P = {} \/ T = {}
    BY <1>1, ConstantsAssumption, OneHold
  <2>2. P # {} \/ T # {} => future[c] = "empty"
    BY <1>1 DEF PipeInv, FutureInv, Awaits
  <2> HIDE DEF P, T
  <2>3. /\ Cardinality(P) = IF P = {} THEN 0 ELSE 1
        /\ Cardinality(T) = IF T = {} THEN 0 ELSE 1
    BY <2>1, AtMostOne
  <2>4. Cardinality(P) + Cardinality(T) + (IF future[c] = "empty" THEN 0 ELSE 1) <= 1
    BY <2>1, <2>2, <2>3
  <2> QED
    BY <2>4 DEF P, T
<1> QED
  BY <1>1, PipeInvariant, PTL

\* A caller that is told its command is committed finds it in the log, at an
\* index that is committed and has been given to the state machine's channel.
THEOREM OkIsCommitted == Spec => []OkMeansCommitted
<1>1. ASSUME PipeInv
      PROVE  OkMeansCommitted
  <2> SUFFICES ASSUME NEW c \in Caller, future[c] = "ok"
               PROVE  /\ call[c].idx <= commitIndex
                      /\ log[call[c].idx] = c
                      /\ call[c].idx \in ToSet(applied) \cup ToSet(applyCh)
    BY DEF OkMeansCommitted
  <2>1. call[c].idx \in Delivered /\ log[call[c].idx] = c
    BY <1>1 DEF PipeInv, FutureInv
  <2>2. call[c].idx \in 0..MaxLog /\ MaxLog \in Nat
        /\ commitIndex \in Nat /\ lastApplied \in 0..commitIndex
    BY <1>1, LenProperties, ConstantsAssumption DEF PipeInv, TypeInv, ConstantsAssumption
  <2>3. call[c].idx <= lastApplied
    BY <1>1, <2>1 DEF PipeInv, RouteInv
  <2> QED
    BY <2>1, <2>2, <2>3 DEF Delivered
<1> QED
  BY <1>1, PipeInvariant, PTL

\* An entry that has been dispatched is in one place between the dispatcher and
\* the state machine, and no entry is there before; while the node is open,
\* none is missing.
THEOREM EntriesAppliedOnce == Spec => []AppliedOnce
<1>1. ASSUME PipeInv
      PROVE  AppliedOnce
  <2> SUFFICES ASSUME NEW n \in Index
               PROVE  /\ Copies(n) <= IF n <= lastApplied THEN 1 ELSE 0
                      /\ n <= lastApplied /\ ~nodeStopped => Copies(n) = 1
    BY DEF AppliedOnce
  <2> DEFINE W == {t \in waiting : t.idx = n}
             Q == {k \in DOMAIN applyTasks : applyTasks[k].idx = n}
             H == hand.next = "send" /\ hand.task.idx = n
             C == {k \in DOMAIN applyCh : applyCh[k] = n}
             D == {k \in DOMAIN applied : applied[k] = n}
  <2> USE <1>1 DEF PipeInv
  <2>1. \A t, u \in Pending : t.idx = n /\ u.idx = n => t = u
    BY DEF RouteInv
  <2>2. \A k \in Q : applyTasks[k] \in Pending /\ applyTasks[k] \in ToSet(applyTasks)
    BY DEF Pending, ToSet
  <2>3. H => hand.task \in Pending
    BY DEF Pending
  <2>4. \A t \in W : t \in Pending
    BY DEF Pending
  <2>5. \A t, u \in W : t = u
    BY <2>1, <2>4
  <2>6. \A j, k \in Q : j = k
    BY <2>1, <2>2 DEF OnePlace, IsInjective
  <2>7. (\A j, k \in C : j = k) /\ (\A j, k \in D : j = k)
    BY DEF OnePlace, IsInjective
  <2>8. C # {} => n \in ToSet(applyCh)
    BY DEF ToSet
  <2>9. D # {} => n \in ToSet(applied)
    BY DEF ToSet
  <2>10. W # {} \/ Q # {} \/ H => n \notin Delivered
    BY <2>2, <2>3, <2>4 DEF RouteInv
  <2>11. /\ C = {} \/ D = {}
         /\ (C # {} \/ D # {}) => n \in Delivered
    BY <2>8, <2>9 DEF OnePlace, Delivered
  <2>12. /\ W # {} => Q = {} /\ ~H
         /\ Q # {} => ~H
    BY <2>1, <2>2, <2>3, <2>4 DEF OnePlace
  <2>13. W # {} \/ Q # {} \/ H \/ C # {} \/ D # {} => n <= lastApplied
    BY <2>2, <2>3, <2>4, <2>11 DEF RouteInv
  <2>14. n <= lastApplied /\ ~nodeStopped => W # {} \/ Q # {} \/ H \/ C # {} \/ D # {}
    <3> SUFFICES ASSUME n <= lastApplied, ~nodeStopped
                 PROVE  W # {} \/ Q # {} \/ H \/ C # {} \/ D # {}
      OBVIOUS
    <3>1. n \in 1..lastApplied
      BY LenProperties DEF Index, TypeInv
    <3>2. CASE n \in Delivered
      BY <3>2 DEF Delivered, ToSet
    <3>3. ASSUME NEW t \in Pending, t.idx = n
          PROVE  W # {} \/ Q # {} \/ H
      <4>1. CASE t \in waiting
        BY <3>3, <4>1
      <4>2. CASE t \in ToSet(applyTasks)
        BY <3>3, <4>2 DEF ToSet
      <4>3. CASE hand.next = "send" /\ t = hand.task
        BY <3>3, <4>3
      <4> QED
        BY <3>3, <4>1, <4>2, <4>3 DEF Pending
    <3> QED
      BY <3>1, <3>2, <3>3 DEF RouteInv
  <2>15. Copies(n) = Cardinality(W) + Cardinality(Q) + (IF H THEN 1 ELSE 0)
                       + Cardinality(C) + Cardinality(D)
    BY DEF Copies
  <2> HIDE DEF W, Q, H, C, D
  <2>16. /\ Cardinality(W) = IF W = {} THEN 0 ELSE 1
         /\ Cardinality(Q) = IF Q = {} THEN 0 ELSE 1
         /\ Cardinality(C) = IF C = {} THEN 0 ELSE 1
         /\ Cardinality(D) = IF D = {} THEN 0 ELSE 1
    BY <2>5, <2>6, <2>7, AtMostOne
  <2> QED
    BY <2>10, <2>11, <2>12, <2>13, <2>14, <2>15, <2>16
<1> QED
  BY <1>1, PipeInvariant, PTL

-----------------------------------------------------------------------------
(* The order of the entries *)

Idx(s) == [k \in DOMAIN s |-> s[k].idx]
Sending == IF hand.next = "send" THEN <<hand.task.idx>> ELSE << >>
UpTo(n) == [k \in 1..n |-> k]

\* As long as the queue has not been full nobody waits for room, and the line
\* of entries is the log up to lastApplied.
LineInv ==
    ~overflowed => /\ waiting = {}
                   /\ applied \o applyCh \o Sending \o Idx(applyTasks) = UpTo(lastApplied)

LEMMA HeadThenTail ==
    ASSUME NEW S, NEW s \in Seq(S), s # << >>
    PROVE  s = <<Head(s)>> \o Tail(s)
<1>1. Head(s) \in S /\ Tail(s) \in Seq(S) /\ Head(s) = s[1] /\ Len(s) \in Nat /\ Len(s) # 0
  BY HeadTailProperties, EmptySeq, LenProperties
<1>2. <<Head(s)>> \in Seq(S) /\ Len(<<Head(s)>>) = 1
  BY <1>1
<1>3. /\ <<Head(s)>> \o Tail(s) \in Seq(S)
      /\ Len(<<Head(s)>> \o Tail(s)) = Len(s)
  BY <1>1, <1>2, ConcatProperties, HeadTailProperties
<1>4. ASSUME NEW i \in 1..Len(s)
      PROVE  s[i] = (<<Head(s)>> \o Tail(s))[i]
  <2>1. CASE i = 1
    BY <1>1, <1>2, <2>1, ConcatProperties, HeadTailProperties
  <2>2. CASE i # 1
    <3>1. i - 1 \in 1..Len(Tail(s)) /\ Tail(s)[i - 1] = s[i]
      BY <1>1, <2>2, HeadTailProperties
    <3> QED
      BY <1>1, <1>2, <2>2, <3>1, ConcatProperties, HeadTailProperties
  <2> QED
    BY <2>1, <2>2
<1> QED
  BY <1>3, <1>4, SeqEqual

LEMMA IdxType ==
    ASSUME NEW s \in Seq(Task)
    PROVE  /\ Idx(s) \in Seq(Index) /\ Len(Idx(s)) = Len(s)
           /\ \A k \in 1..Len(s) : Idx(s)[k] = s[k].idx
<1>1. DOMAIN s = 1..Len(s) /\ Len(s) \in Nat
  BY LenProperties
<1>2. ASSUME NEW k \in 1..Len(s)
      PROVE  s[k].idx \in Index
  <2>1. s[k] \in Task
    BY ElementOfSeq
  <2> QED
    BY <2>1 DEF Task
<1> QED
  BY <1>1, <1>2 DEF Idx

LEMMA IdxAppend ==
    ASSUME NEW s \in Seq(Task), NEW t \in Task
    PROVE  Idx(Append(s, t)) = Idx(s) \o <<t.idx>>
<1> DEFINE u == Append(s, t)
           v == Append(Idx(s), t.idx)
<1>1. /\ u \in Seq(Task) /\ Len(s) \in Nat /\ Len(u) = Len(s) + 1
      /\ \A i \in 1..Len(s) : u[i] = s[i]
      /\ u[Len(s) + 1] = t
  BY AppendProperties, LenProperties
<1>2. t.idx \in Index
  BY DEF Task
<1>3. /\ v \in Seq(Index) /\ Len(v) = Len(s) + 1
      /\ \A i \in 1..Len(s) : v[i] = s[i].idx
      /\ v[Len(s) + 1] = t.idx
  BY <1>2, IdxType, AppendProperties
<1> HIDE DEF u, v
<1>4. Idx(u) \in Seq(Index) /\ Len(Idx(u)) = Len(u) /\ \A i \in 1..Len(u) : Idx(u)[i] = u[i].idx
  BY <1>1, IdxType
<1>5. ASSUME NEW i \in 1..Len(u)
      PROVE  Idx(u)[i] = v[i]
  <2>1. i \in 1..Len(s) \/ i = Len(s) + 1
    BY <1>1
  <2> QED
    BY <1>1, <1>3, <1>4, <2>1
<1>6. Idx(u) = v
  BY <1>1, <1>3, <1>4, <1>5, SeqEqual
<1>7. v = Idx(s) \o <<t.idx>>
  BY <1>2, IdxType, AppendIsConcat DEF v
<1> QED
  BY <1>6, <1>7 DEF u

LEMMA IdxTail ==
    ASSUME NEW s \in Seq(Task), s # << >>
    PROVE  Idx(s) = <<Head(s).idx>> \o Idx(Tail(s))
<1> DEFINE u == Idx(s)
           t == Tail(s)
<1>1. /\ t \in Seq(Task) /\ Head(s) = s[1]
      /\ Len(s) \in Nat /\ Len(s) # 0 /\ Len(t) = Len(s) - 1
      /\ \A i \in 1..Len(t) : t[i] = s[i + 1]
  BY HeadTailProperties, EmptySeq, LenProperties
<1>2. /\ u \in Seq(Index) /\ Len(u) = Len(s)
      /\ \A i \in 1..Len(s) : u[i] = s[i].idx
  BY IdxType
<1> HIDE DEF u, t
<1>3. u # << >>
  BY <1>1, <1>2, EmptySeq
<1>4. /\ Tail(u) \in Seq(Index) /\ Len(Tail(u)) = Len(t) /\ Head(u) = u[1]
      /\ \A i \in 1..Len(t) : Tail(u)[i] = u[i + 1]
  BY <1>1, <1>2, <1>3, HeadTailProperties
<1>5. Idx(t) \in Seq(Index) /\ Len(Idx(t)) = Len(t) /\ \A i \in 1..Len(t) : Idx(t)[i] = t[i].idx
  BY <1>1, IdxType
<1>6. ASSUME NEW i \in 1..Len(t)
      PROVE  Tail(u)[i] = Idx(t)[i]
  <2>1. i + 1 \in 1..Len(s)
    BY <1>1
  <2> QED
    BY <1>1, <1>2, <1>4, <1>5, <2>1
<1>7. Tail(u) = Idx(t)
  BY <1>4, <1>5, <1>6, SeqEqual
<1>8. Head(u) = Head(s).idx
  <2>1. 1 \in 1..Len(s)
    BY <1>1
  <2> QED
    BY <1>1, <1>2, <1>4, <2>1
<1>9. u = <<Head(u)>> \o Tail(u)
  BY <1>2, <1>3, HeadThenTail
<1> QED
  BY <1>7, <1>8, <1>9 DEF u, t

LEMMA UpToNext ==
    ASSUME NEW n \in Nat
    PROVE  UpTo(n + 1) = UpTo(n) \o <<n + 1>>
<1>1. /\ UpTo(n) \in Seq(Nat) /\ Len(UpTo(n)) = n
      /\ UpTo(n + 1) \in Seq(Nat) /\ Len(UpTo(n + 1)) = n + 1
  BY DEF UpTo
<1>2. /\ Append(UpTo(n), n + 1) \in Seq(Nat) /\ Len(Append(UpTo(n), n + 1)) = n + 1
      /\ \A i \in 1..n : Append(UpTo(n), n + 1)[i] = UpTo(n)[i]
      /\ Append(UpTo(n), n + 1)[n + 1] = n + 1
  BY <1>1, n + 1 \in Nat, AppendProperties
<1>3. ASSUME NEW i \in 1..(n + 1)
      PROVE  UpTo(n + 1)[i] = Append(UpTo(n), n + 1)[i]
  <2>1. UpTo(n + 1)[i] = i
    BY DEF UpTo
  <2>2. i \in 1..n => UpTo(n)[i] = i
    BY DEF UpTo
  <2> QED
    BY <1>2, <2>1, <2>2
<1>4. UpTo(n + 1) = Append(UpTo(n), n + 1)
  BY <1>1, <1>2, <1>3, SeqEqual
<1> QED
  BY <1>1, <1>4, n + 1 \in Nat, AppendIsConcat

LEMMA LineStep == ConstantsAssumption /\ TypeInv /\ LineInv /\ [Next]_vars => LineInv'
<1> SUFFICES ASSUME ConstantsAssumption, TypeInv, LineInv, [Next]_vars, ~overflowed'
             PROVE  LineInv'
  BY DEF LineInv
<1>1. /\ applied \in Seq(Index) /\ applyCh \in Seq(Index) /\ Sending \in Seq(Index)
      /\ Idx(applyTasks) \in Seq(Index)
  <2>1. hand.next = "send" => hand.task.idx \in Index
    BY DEF TypeInv, Task
  <2>2. << >> \in Seq(Index)
    BY EmptySeq
  <2>3. Sending \in Seq(Index)
    BY <2>1, <2>2 DEF Sending
  <2> QED
    BY <2>3, IdxType DEF TypeInv
<1>2. ASSUME UNCHANGED <<applyTasks, waiting, overflowed, hand, applyCh, applied, lastApplied>>
      PROVE  LineInv'
  <2>1. Sending' = Sending /\ Idx(applyTasks)' = Idx(applyTasks)
    BY <1>2 DEF Sending, Idx
  <2> QED
    BY <1>2, <2>1 DEF LineInv
<1>3. CASE Win \/ StepDown \/ Replicate \/ Commit \/ Stop \/ MachineEnds \/ Close \/ UNCHANGED vars
  BY <1>2, <1>3 DEF Win, StepDown, Replicate, Commit, Stop, MachineEnds, Close, vars, raftVars,
                    callVars, pipeVars, smVars
<1>4. ASSUME NEW c \in Caller, Propose(c) \/ Return(c) \/ GiveUp(c) \/ Leave(c)
      PROVE  LineInv'
  BY <1>2, <1>4 DEF Propose, Return, GiveUp, Leave, raftVars, pipeVars, smVars
<1>5. ASSUME NEW t \in waiting, Enqueue(t) \/ Abandon(t)
      PROVE  FALSE
  BY <1>5 DEF Enqueue, Abandon, LineInv
<1>6. CASE AnswerCaller \/ LoopEnds
  <2>1. /\ hand.next # "send" /\ hand'.next # "send"
        /\ UNCHANGED <<applyTasks, waiting, overflowed, applyCh, applied, lastApplied>>
    BY <1>6 DEF AnswerCaller, LoopEnds, raftVars, smVars
  <2>2. Sending' = Sending /\ Idx(applyTasks)' = Idx(applyTasks)
    BY <2>1 DEF Sending, Idx
  <2> QED
    BY <2>1, <2>2 DEF LineInv
<1>7. CASE Dispatch
  <2> PICK n : n = lastApplied + 1
    OBVIOUS
  <2> PICK t : t = [idx |-> n, by |-> proposals[n]]
    OBVIOUS
  <2>1. n \in Index /\ t \in Task /\ t.idx = n /\ lastApplied \in Nat
    <3>1. n \in Index /\ lastApplied \in Nat
      BY <1>7, LenProperties DEF Dispatch, Index, TypeInv, ConstantsAssumption
    <3> QED
      BY <3>1 DEF Task, TypeInv
  <2>2. Offer(t) /\ UNCHANGED <<hand, applyCh, applied>> /\ lastApplied' = n
    BY <1>7 DEF Dispatch, smVars
  <2>3. applyTasks' = Append(applyTasks, t) /\ UNCHANGED <<waiting, overflowed>>
    BY <2>2 DEF Offer
  <2>4. Idx(applyTasks)' = Idx(applyTasks) \o <<n>>
    <3>1. Idx(applyTasks') = Idx(Append(applyTasks, t))
      BY <2>3
    <3>2. Idx(Append(applyTasks, t)) = Idx(applyTasks) \o <<n>>
      <4> applyTasks \in Seq(Task)
        BY DEF TypeInv
      <4> QED
        BY <2>1, IdxAppend
    <3> QED
      BY <3>1, <3>2 DEF Idx
  <2>5. <<n>> \in Seq(Index)
    BY <2>1
  <2>6. applied \o applyCh \o Sending \in Seq(Index)
    BY <1>1, ConcatProperties
  <2>7. (applied \o applyCh \o Sending) \o (Idx(applyTasks) \o <<n>>)
          = ((applied \o applyCh \o Sending) \o Idx(applyTasks)) \o <<n>>
    BY <1>1, <2>5, <2>6, ConcatAssociative
  <2>8. UpTo(n) = UpTo(lastApplied) \o <<n>>
    BY <2>1, UpToNext
  <2>9. Sending' = Sending
    BY <2>2 DEF Sending
  <2> QED
    BY <2>2, <2>3, <2>4, <2>7, <2>8, <2>9 DEF LineInv
<1>8. CASE Take
  <2> PICK n : n = Head(applyTasks).idx
    OBVIOUS
  <2>1. /\ Head(applyTasks) \in Task /\ applyTasks' = Tail(applyTasks) /\ applyTasks # << >>
        /\ applyTasks' \in Seq(Task) /\ n \in Index
    <3>1. Head(applyTasks) \in Task /\ Tail(applyTasks) \in Seq(Task)
      BY <1>8, TailElements DEF Take, TypeInv
    <3>2. Head(applyTasks).idx \in Index
      BY <3>1 DEF Task
    <3> QED
      BY <1>8, <3>1, <3>2 DEF Take
  <2>2. Sending = << >> /\ Sending' = <<n>>
    BY <1>8 DEF Take, Sending
  <2>3. UNCHANGED <<waiting, overflowed, applyCh, applied, lastApplied>>
    BY <1>8 DEF Take, raftVars, smVars
  <2>4. Idx(applyTasks) = <<n>> \o Idx(applyTasks')
    BY <2>1, IdxTail DEF TypeInv
  <2>5. /\ <<n>> \in Seq(Index) /\ Idx(applyTasks') \in Seq(Index) /\ applied \o applyCh \in Seq(Index)
        /\ Idx(applyTasks)' = Idx(applyTasks')
    BY <1>1, <2>1, ConcatProperties, IdxType DEF Idx
  <2>6. applied \o applyCh \o Sending = applied \o applyCh
    BY <2>2, <2>5, ConcatEmptySeq
  <2>7. (applied \o applyCh) \o (<<n>> \o Idx(applyTasks'))
          = ((applied \o applyCh) \o <<n>>) \o Idx(applyTasks')
    BY <2>5, ConcatAssociative
  <2> QED
    BY <2>2, <2>3, <2>4, <2>5, <2>6, <2>7 DEF LineInv
<1>9. CASE Send
  <2> PICK n : n = hand.task.idx
    OBVIOUS
  <2>1. /\ n \in Index /\ Sending = <<n>> /\ Sending' = << >> /\ applyCh' = Append(applyCh, n)
        /\ UNCHANGED <<applyTasks, waiting, overflowed, applied, lastApplied>>
    BY <1>9 DEF Send, Sending, TypeInv, Task, raftVars
  <2>2. applyCh' = applyCh \o <<n>> /\ <<n>> \in Seq(Index) /\ applyCh' \in Seq(Index)
    BY <1>1, <2>1, AppendIsConcat, AppendProperties
  <2>3. applied \o applyCh' = applied \o applyCh \o Sending
    BY <1>1, <2>1, <2>2, ConcatAssociative
  <2>4. applied \o applyCh' \o Sending' = applied \o applyCh'
    BY <1>1, <2>1, <2>2, ConcatProperties, ConcatEmptySeq
  <2>5. Idx(applyTasks)' = Idx(applyTasks)
    BY <2>1 DEF Idx
  <2> QED
    BY <2>1, <2>3, <2>4, <2>5 DEF LineInv
<1>10. CASE Apply
  <2> PICK n : n = Head(applyCh)
    OBVIOUS
  <2>1. /\ n \in Index /\ applyCh = <<n>> \o applyCh' /\ applyCh' \in Seq(Index)
        /\ applied' = applied \o <<n>> /\ <<n>> \in Seq(Index)
        /\ UNCHANGED <<applyTasks, waiting, overflowed, hand, lastApplied>>
    BY <1>1, <1>10, TailElements, HeadThenTail, AppendIsConcat DEF Apply, raftVars, pipeVars
  <2>2. applied' \o applyCh' = applied \o applyCh
    BY <1>1, <2>1, ConcatAssociative
  <2>3. Sending' = Sending /\ Idx(applyTasks)' = Idx(applyTasks)
    BY <2>1 DEF Sending, Idx
  <2> QED
    BY <2>1, <2>2, <2>3 DEF LineInv
<1> QED
  BY <1>3, <1>4, <1>5, <1>6, <1>7, <1>8, <1>9, <1>10 DEF Next

\* Until the queue has been full once, what the state machine has applied and
\* what is on its way to it is the log up to lastApplied, in its order.
THEOREM OrderUntilOverflow == Spec => []InOrderUntilOverflow
<1>1. Init => LineInv
  <2> SUFFICES ASSUME Init
               PROVE  LineInv
    OBVIOUS
  <2>1. Idx(<< >>) = << >> /\ UpTo(0) = << >>
    BY DEF Idx, UpTo
  <2>2. << >> \o << >> = << >>
    BY EmptySeq, ConcatEmptySeq
  <2>3. /\ waiting = {} /\ Sending = << >> /\ lastApplied = 0
        /\ applied = << >> /\ applyCh = << >> /\ applyTasks = << >>
    BY DEF Init, Sending
  <2> QED
    BY <2>1, <2>2, <2>3 DEF LineInv
<1>2. PipeInv /\ LineInv /\ [Next]_vars => LineInv'
  BY ConstantsAssumption, LineStep DEF PipeInv
<1>3. LineInv => InOrderUntilOverflow
  BY DEF LineInv, InOrderUntilOverflow, Sending, Idx, UpTo
<1> QED
  BY <1>1, <1>2, <1>3, PipeInvariant, PTL DEF Spec

=============================================================================
