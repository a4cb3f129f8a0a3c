----------------------------- MODULE RaftProofs -----------------------------
(***************************************************************************)
(* Theorems about Raft, for every set of servers, of commands and every    *)
(* bound, in three parts: types and elections; the logs; and what commits. *)
(***************************************************************************)
EXTENDS Raft, NaturalTheorems, SequenceTheorems

-----------------------------------------------------------------------------
(* Types of the operators *)

LEMMA EntryType ==
    ASSUME NEW l \in Seq(Entry), NEW k \in 1..Len(l)
    PROVE  l[k] \in Entry /\ l[k].term \in Nat \ {0}
<1>1. l[k] \in Entry
  BY ElementOfSeq
<1> QED
  BY <1>1 DEF Entry

LEMMA TermAtType ==
    ASSUME NEW l \in Seq(Entry), NEW k \in Int
    PROVE  TermAt(l, k) \in Nat
<1>1. CASE k \in 1..Len(l)
  BY <1>1, EntryType DEF TermAt
<1>2. CASE k \notin 1..Len(l)
  BY <1>2 DEF TermAt
<1> QED
  BY <1>1, <1>2

\* An AppendEntries that starts at the first entry has term 0 before it.
WellFormedAppend(m) == m \in AppReqs /\ (m.prev = 0 => m.prevTerm = 0)

LEMMA AppendRequestType ==
    ASSUME TypeOK, NEW i \in Server, NEW j \in Server,
           NEW l \in Seq(Entry), NEW next \in Nat \ {0}
    PROVE  WellFormedAppend(AppendRequest(i, j, l, next))
<1>1. SubSeq(l, next, Len(l)) \in Seq(Entry)
  <2>1. \A k \in next..Len(l) : l[k] \in Entry
    BY ElementOfSeq, LenProperties
  <2> QED
    BY <2>1, SubSeqProperties, LenProperties
<1>2. TermAt(l, next - 1) \in Nat /\ (next - 1 = 0 => TermAt(l, next - 1) = 0)
  BY TermAtType DEF TermAt
<1>3. currentTerm[i] \in Nat /\ commitIndex[i] \in Nat
  BY DEF TypeOK
<1> QED
  BY <1>1, <1>2, <1>3 DEF WellFormedAppend, AppendRequest, AppReqs

LEMMA FromFirstType ==
    ASSUME NEW next \in Nat
    PROVE  FromFirst(next) \in Nat \ {0}
BY DEF FromFirst

\* A broadcast adds well-formed requests only.
LEMMA BroadcastType ==
    ASSUME TypeOK, \A m \in appReqs : WellFormedAppend(m),
           NEW i \in Server, NEW l \in Seq(Entry),
           NEW next \in [Server -> Nat], Broadcast(i, l, next)
    PROVE  /\ appReqs' \subseteq AppReqs
           /\ \A m \in appReqs' : WellFormedAppend(m)
<1>1. PICK reached \in SUBSET Others(i) :
         appReqs' = appReqs \cup {AppendRequest(i, j, l, FromFirst(next[j])) : j \in reached}
  BY DEF Broadcast
<1>2. \A j \in reached : WellFormedAppend(AppendRequest(i, j, l, FromFirst(next[j])))
  BY AppendRequestType, FromFirstType DEF Others
<1>3. \A m \in appReqs' : WellFormedAppend(m)
  BY <1>1, <1>2
<1> QED
  BY <1>3 DEF WellFormedAppend

\* The log r is l up to the k-th of the entries, which is the first whose term
\* differs, and the entries from there.
TakesFrom(r, l, prev, entries, k) ==
    /\ TermAt(l, prev + k) # entries[k].term
    /\ \A h \in 1..(k - 1) : TermAt(l, prev + h) = entries[h].term
    /\ prev + k <= Len(l) + 1
    /\ r \in Seq(Entry)
    /\ Len(r) = prev + Len(entries)
    /\ \A h \in 1..(prev + k - 1) : r[h] = l[h]
    /\ \A h \in k..Len(entries) : r[prev + h] = entries[h]

LEMMA MergeShape ==
    ASSUME NEW l \in Seq(Entry), NEW entries \in Seq(Entry),
           NEW prev \in Nat, prev <= Len(l)
    PROVE  \/ /\ Merge(l, prev, entries) = l
              /\ \A k \in 1..Len(entries) : TermAt(l, prev + k) = entries[k].term
           \/ \E k \in 1..Len(entries) : TakesFrom(Merge(l, prev, entries), l, prev, entries, k)
<1> DEFINE diverges == {k \in 1..Len(entries) : TermAt(l, prev + k) # entries[k].term}
<1>1. CASE diverges = {}
  BY <1>1 DEF Merge
<1>2. CASE diverges # {}
  <2> DEFINE k == Min(diverges)
             kept == SubSeq(l, 1, prev + k - 1)
             new  == SubSeq(entries, k, Len(entries))
  <2>0. Len(l) \in Nat /\ Len(entries) \in Nat
    BY LenProperties
  <2>1. k \in 1..Len(entries) /\ TermAt(l, prev + k) # entries[k].term
        /\ \A h \in diverges : k <= h
    BY <1>2, MinOfNaturals, <2>0, diverges \in SUBSET Nat
  <2> HIDE DEF k
  <2>2. \A h \in 1..(k - 1) : TermAt(l, prev + h) = entries[h].term
    <3>1. ASSUME NEW h \in 1..(k - 1)
          PROVE  TermAt(l, prev + h) = entries[h].term
      <4>1. h \in 1..Len(entries) /\ ~(k <= h)
        BY <2>0, <2>1
      <4> QED
        BY <2>1, <4>1
    <3> QED
      BY <3>1
  <2>3. prev + k - 1 <= Len(l)
    <3>1. CASE k = 1
      BY <2>0, <3>1
    <3>2. CASE k # 1
      <4>1. k - 1 \in 1..(k - 1) /\ k - 1 \in 1..Len(entries)
        BY <2>0, <2>1, <3>2
      <4>2. TermAt(l, prev + (k - 1)) # 0
        BY <2>2, <4>1, EntryType
      <4>3. prev + (k - 1) \in 1..Len(l)
        BY <4>2 DEF TermAt
      <4> QED
        BY <2>0, <2>1, <4>3
    <3> QED
      BY <3>1, <3>2
  <2>4. /\ kept \in Seq(Entry) /\ Len(kept) = prev + k - 1
        /\ \A h \in 1..(prev + k - 1) : kept[h] = l[h]
    <3>1. prev + k - 1 \in Nat /\ \A h \in 1..(prev + k - 1) : l[h] \in Entry
      BY <2>0, <2>1, <2>3, ElementOfSeq
    <3> QED
      BY <2>1, <3>1, SubSeqProperties
  <2>5. /\ new \in Seq(Entry) /\ Len(new) = Len(entries) - k + 1
        /\ \A h \in 1..(Len(entries) - k + 1) : new[h] = entries[k + h - 1]
    <3>1. \A h \in k..Len(entries) : entries[h] \in Entry
      BY <2>0, <2>1, ElementOfSeq
    <3> QED
      BY <2>0, <2>1, <3>1, SubSeqProperties
  <2>6. Merge(l, prev, entries) = kept \o new
    BY <1>2 DEF Merge, k
  <2> HIDE DEF kept, new
  <2>7. /\ kept \o new \in Seq(Entry) /\ Len(kept \o new) = prev + Len(entries)
        /\ \A h \in 1..(prev + k - 1) : (kept \o new)[h] = l[h]
    <3>1. /\ kept \o new \in Seq(Entry) /\ Len(kept \o new) = Len(kept) + Len(new)
          /\ \A h \in 1..(Len(kept) + Len(new)) :
                (kept \o new)[h] = IF h <= Len(kept) THEN kept[h] ELSE new[h - Len(kept)]
      BY <2>4, <2>5, ConcatProperties
    <3>2. Len(kept) + Len(new) = prev + Len(entries) /\ Len(kept) <= prev + Len(entries)
      BY <2>0, <2>1, <2>4, <2>5
    <3>3. ASSUME NEW h \in 1..(prev + k - 1)
          PROVE  (kept \o new)[h] = l[h]
      <4>1. h \in 1..(Len(kept) + Len(new)) /\ h <= Len(kept)
        BY <2>0, <2>1, <2>4, <3>2
      <4> QED
        BY <2>4, <3>1, <4>1
    <3> QED
      BY <3>1, <3>2, <3>3
  <2>8. ASSUME NEW h \in k..Len(entries)
        PROVE  (kept \o new)[prev + h] = entries[h]
    <3> DEFINE n == prev + h
               o == h - k + 1
    <3>1. n \in 1..(Len(kept) + Len(new)) /\ ~(n <= Len(kept)) /\ n - Len(kept) = o
          /\ o \in 1..(Len(entries) - k + 1) /\ k + o - 1 = h
      BY <2>0, <2>1, <2>4, <2>5
    <3> HIDE DEF n, o
    <3>2. (kept \o new)[n] = new[o]
      BY <2>4, <2>5, <3>1, ConcatProperties
    <3>3. new[o] = entries[h]
      BY <2>5, <3>1
    <3> QED
      BY <3>2, <3>3 DEF n
  <2>9. prev + k <= Len(l) + 1
    BY <2>0, <2>1, <2>3
  <2>10. TakesFrom(kept \o new, l, prev, entries, k)
    BY <2>1, <2>2, <2>7, <2>8, <2>9 DEF TakesFrom
  <2> QED
    BY <2>1, <2>6, <2>10
<1> QED
  BY <1>1, <1>2

LEMMA MergeType ==
    ASSUME NEW l \in Seq(Entry), NEW entries \in Seq(Entry),
           NEW prev \in Nat, prev <= Len(l)
    PROVE  Merge(l, prev, entries) \in Seq(Entry)
  BY MergeShape DEF TakesFrom

LEMMA ConflictIndexType ==
    ASSUME NEW l \in Seq(Entry), NEW m, WellFormedAppend(m), ~Accepts(l, m)
    PROVE  ConflictIndex(l, m) \in Nat \ {0}
<1>1. m.prev \in Nat /\ Len(l) \in Nat
  BY LenProperties DEF WellFormedAppend, AppReqs
<1>2. CASE m.prev > Len(l)
  BY <1>1, <1>2 DEF ConflictIndex
<1>3. CASE m.prev <= Len(l)
  <2> DEFINE S == {k \in 1..m.prev : TermAt(l, k) = TermAt(l, m.prev)}
  <2>1. m.prev # 0
    BY <1>1, <1>3 DEF WellFormedAppend, Accepts, TermAt
  <2>2. m.prev \in S
    BY <1>1, <2>1
  <2>3. Min(S) \in S
    BY <2>2, MinOfNaturals, S \in SUBSET Nat, S # {}
  <2> QED
    BY <1>1, <1>3, <2>3 DEF ConflictIndex, ConflictStart
<1> QED
  BY <1>1, <1>2, <1>3

LEMMA LeaderCommitType ==
    ASSUME TypeOK, NEW i \in Server, NEW match
    PROVE  LeaderCommit(i, match) \in Nat /\ commitIndex[i] <= LeaderCommit(i, match)
<1> DEFINE ready == {n \in (commitIndex[i] + 1)..Len(log[i]) :
                        /\ log[i][n].term = currentTerm[i]
                        /\ IsQuorum(Copies(i, match, n))}
<1>1. commitIndex[i] \in Nat /\ Len(log[i]) \in Nat
  BY LenProperties DEF TypeOK
<1>2. CASE ready = {}
  BY <1>1, <1>2 DEF LeaderCommit
<1>3. CASE ready # {}
  <2>1. ready \in SUBSET (0..Len(log[i]))
    BY <1>1
  <2>2. Max(ready) \in ready
    BY <1>1, <1>3, <2>1, MaxOfInterval
  <2> QED
    BY <1>1, <1>3, <2>2 DEF LeaderCommit
<1> QED
  BY <1>2, <1>3

CallsOK == /\ proposals \in [Server -> SUBSET [idx : Nat, id : Proposal]]
           /\ call \in [Proposal -> Calls]

LEMMA CallStateType ==
    ASSUME NEW c \in Calls, NEW s \in {"idle", "waiting", "ok", "failed", "expired"}
    PROVE  [c EXCEPT !.state = s] \in Calls
  BY DEF Calls

LEMMA FailPendingType ==
    ASSUME CallsOK, NEW i \in Server, FailPending(i)
    PROVE  CallsOK'
  BY CallStateType DEF FailPending, CallsOK

LEMMA AnswerCommittedType ==
    ASSUME CallsOK, NEW i \in Server, NEW lo, NEW hi, AnswerCommitted(i, lo, hi)
    PROVE  CallsOK'
<1> DEFINE done == {q \in proposals[i] : q.idx \in (lo + 1)..hi}
<1>1. call' \in [Proposal -> Calls]
  BY CallStateType DEF AnswerCommitted, CallsOK
<1>2. proposals' \in [Server -> SUBSET [idx : Nat, id : Proposal]]
  BY DEF AnswerCommitted, CallsOK
<1> QED
  BY <1>1, <1>2 DEF CallsOK

-----------------------------------------------------------------------------
(* Type correctness *)

NodeOK == /\ currentTerm \in [Server -> Nat]
          /\ votedFor \in [Server -> Server \cup {Nil}]
          /\ role \in [Server -> {Follower, Candidate, Leader}]
          /\ leaderID \in [Server -> Server \cup {Nil}]
          /\ votes \in [Server -> SUBSET Server]
          /\ \A i \in Server : role[i] # Follower => currentTerm[i] # 0
LogOK == log \in [Server -> Seq(Entry)] /\ commitIndex \in [Server -> Nat]
LeaderOK == /\ nextIndex \in [Server -> [Server -> Nat]]
            /\ matchIndex \in [Server -> [Server -> Nat]]
RestOK == /\ stopped \subseteq Server
          /\ elections \subseteq [term : Nat, leader : Server, voters : SUBSET Server]
          /\ DOMAIN ledger \subseteq Nat
          /\ \A t \in DOMAIN ledger : ledger[t] \in Seq(Entry)
AppReqsOK == \A m \in appReqs : WellFormedAppend(m)

\* TypeOK alone is not inductive: the index a follower asks for after a
\* conflict is at least 1 only because no request starts before the log, and
\* an entry has a term above 0 only because a leader has.
TypeInv ==
    /\ NodeOK /\ LogOK /\ LeaderOK /\ RestOK /\ CallsOK /\ AppReqsOK
    /\ voteReqs \subseteq VoteReqs
    /\ voteReps \subseteq VoteReps
    /\ appReps \subseteq AppReps

LEMMA TypeInvImplies == TypeInv => TypeOK
  BY DEF TypeInv, TypeOK, NodeOK, LogOK, LeaderOK, RestOK, CallsOK, AppReqsOK, WellFormedAppend

LEMMA TypeInvInit == Init => TypeInv
<1> SUFFICES ASSUME Init PROVE TypeInv
  OBVIOUS
<1>1. << >> \in Seq(Entry)
  OBVIOUS
<1> QED
  BY <1>1 DEF Init, ForPeers, TypeInv, NodeOK, LogOK, LeaderOK, RestOK, CallsOK, AppReqsOK, Calls,
               Follower, Candidate, Leader

LEMMA TimeoutType ==
    ASSUME TypeInv, NEW i \in Server, Timeout(i)
    PROVE  TypeInv'
<1>1. PICK reached \in SUBSET Others(i) :
         voteReqs' = voteReqs \cup
             {[term |-> currentTerm[i] + 1, cand |-> i, to |-> j,
               lastIndex |-> Len(log[i]), lastTerm |-> LastTerm(log[i])] : j \in reached}
  BY DEF Timeout
<1>2. voteReqs' \subseteq VoteReqs
  <2>1. currentTerm[i] + 1 \in Nat /\ Len(log[i]) \in Nat /\ LastTerm(log[i]) \in Nat
    <3>1. currentTerm[i] \in Nat /\ log[i] \in Seq(Entry)
      BY DEF TypeInv, NodeOK, LogOK
    <3>2. Len(log[i]) \in Nat
      BY <3>1, LenProperties
    <3>3. LastTerm(log[i]) \in Nat
      BY <3>1, <3>2, TermAtType, Len(log[i]) \in Int DEF LastTerm
    <3> QED
      BY <3>1, <3>2, <3>3
  <2>2. voteReqs \subseteq VoteReqs
    BY DEF TypeInv
  <2> QED
    BY <1>1, <2>1, <2>2 DEF VoteReqs, Others
<1>3. NodeOK'
  BY DEF TypeInv, NodeOK, Timeout, Follower, Candidate, Leader
<1> QED
  BY <1>2, <1>3
     DEF TypeInv, Timeout, LogOK, LeaderOK, RestOK, CallsOK, AppReqsOK, logVars, leaderVars, callVars

LEMMA RequestVoteType ==
    ASSUME TypeInv, NEW m \in voteReqs, RequestVote(m)
    PROVE  TypeInv'
<1> DEFINE i == m.to
<1>1. /\ m.to \in Server /\ m.cand \in Server /\ m.term \in Nat
      /\ currentTerm[i] \in Nat
  BY DEF TypeInv, NodeOK, VoteReqs
<1>2. NodeOK'
  <2>1. CASE m.term > currentTerm[i]
    BY <1>1, <2>1 DEF TypeInv, NodeOK, RequestVote, Follower, Candidate, Leader
  <2>2. CASE ~(m.term > currentTerm[i])
    BY <1>1, <2>2 DEF TypeInv, NodeOK, RequestVote
  <2> QED
    BY <2>1, <2>2
<1>3. CallsOK'
  BY <1>1, FailPendingType DEF TypeInv, RequestVote, callVars, CallsOK
<1>4. voteReps' \subseteq VoteReps
  <2>1. \A g \in BOOLEAN : \A t \in Nat :
          [reqTerm |-> m.term, from |-> i, to |-> m.cand, granted |-> g, term |-> t] \in VoteReps
    BY <1>1 DEF VoteReps
  <2> QED
    BY <1>1, <2>1 DEF TypeInv, RequestVote
<1> QED
  BY <1>2, <1>3, <1>4
     DEF TypeInv, RequestVote, LogOK, LeaderOK, RestOK, AppReqsOK, logVars, leaderVars

\* A reply with a higher term, common to both kinds of reply.
LEMMA ReplyStepDownType ==
    ASSUME TypeInv, NEW i \in Server, NEW t \in Nat, t > currentTerm[i],
           ReplyStepDown(i, t), voteReps' \subseteq voteReps, appReps' \subseteq appReps
    PROVE  TypeInv'
<1>1. NodeOK'
  BY DEF TypeInv, NodeOK, ReplyStepDown, StepDown, Follower, Candidate, Leader
<1>2. CallsOK'
  BY FailPendingType DEF TypeInv, ReplyStepDown
<1> QED
  BY <1>1, <1>2
     DEF TypeInv, ReplyStepDown, LogOK, LeaderOK, RestOK, AppReqsOK, logVars, leaderVars

LEMMA BecomeLeaderType ==
    ASSUME TypeInv, NEW i \in Server, NEW voters \in SUBSET Server, BecomeLeader(i, voters),
           role[i] = Candidate, currentTerm' = currentTerm, votedFor' = votedFor,
           votes' \in [Server -> SUBSET Server], UNCHANGED stopped
    PROVE  NodeOK' /\ LeaderOK' /\ RestOK' /\ AppReqsOK'
<1>1. Len(log[i]) \in Nat /\ log[i] \in Seq(Entry) /\ currentTerm[i] \in Nat
  BY LenProperties DEF TypeInv, LogOK, NodeOK
<1>2. LeaderOK' /\ nextIndex'[i] \in [Server -> Nat]
  <2> DEFINE next == ForPeers(Len(log[i]) + 1)
             match == ForPeers(0)
  <2>1. next \in [Server -> Nat] /\ match \in [Server -> Nat]
    BY <1>1 DEF ForPeers
  <2>2. nextIndex' = [nextIndex EXCEPT ![i] = next] /\ matchIndex' = [matchIndex EXCEPT ![i] = match]
    BY DEF BecomeLeader
  <2> HIDE DEF next, match
  <2> QED
    BY <2>1, <2>2 DEF TypeInv, LeaderOK
<1>3. NodeOK'
  BY DEF TypeInv, BecomeLeader, NodeOK, Follower, Candidate, Leader
<1>4. AppReqsOK'
  <2>1. TypeOK /\ \A m \in appReqs : WellFormedAppend(m)
    BY TypeInvImplies DEF TypeInv, AppReqsOK
  <2>2. Broadcast(i, log[i], nextIndex'[i])
    BY DEF BecomeLeader
  <2> QED
    BY <1>1, <1>2, <2>1, <2>2, BroadcastType DEF AppReqsOK
<1>5. RestOK'
  <2>1. /\ DOMAIN ledger' = DOMAIN ledger \cup {currentTerm[i]}
        /\ \A t \in DOMAIN ledger' : ledger'[t] = IF t = currentTerm[i] THEN log[i] ELSE ledger[t]
    BY DEF BecomeLeader
  <2> QED
    BY <1>1, <2>1 DEF TypeInv, BecomeLeader, RestOK
<1> QED
  BY <1>2, <1>3, <1>4, <1>5

LEMMA RequestVoteReplyType ==
    ASSUME TypeInv, NEW m \in voteReps, RequestVoteReply(m)
    PROVE  TypeInv'
<1> DEFINE i == m.to
           wanted == role[i] = Candidate /\ currentTerm[i] = m.reqTerm /\ m.granted
<1>1. i \in Server /\ m.from \in Server /\ m.term \in Nat
  BY DEF TypeInv, VoteReps
<1>2. CASE m.term > currentTerm[i]
  <2>1. ReplyStepDown(i, m.term) /\ voteReps' = voteReps \ {m} /\ appReps' = appReps
    BY <1>1, <1>2 DEF TypeInv, RequestVoteReply, NodeOK
  <2> QED
    BY <1>1, <1>2, <2>1, ReplyStepDownType
<1>3. CASE ~(m.term > currentTerm[i]) /\ wanted
  <2>1. votes' = [votes EXCEPT ![i] = @ \cup {m.from}]
    BY <1>3 DEF RequestVoteReply
  <2>2. votes' \in [Server -> SUBSET Server] /\ votes'[i] \cup {i} \in SUBSET Server
    BY <1>1, <2>1 DEF TypeInv, NodeOK
  <2>3. NodeOK' /\ LeaderOK' /\ RestOK' /\ AppReqsOK'
    <3>1. CASE BecomeLeader(i, votes'[i] \cup {i})
      BY <1>1, <1>3, <2>2, <3>1, BecomeLeaderType DEF RequestVoteReply
    <3>2. CASE UNCHANGED <<role, leaderID, leaderVars, appReqs, elections, ledger>>
      BY <1>3, <2>2, <3>2
         DEF TypeInv, RequestVoteReply, NodeOK, LeaderOK, RestOK, AppReqsOK, leaderVars
    <3> QED
      BY <1>3, <3>1, <3>2 DEF RequestVoteReply
  <2> QED
    BY <1>3, <2>3
       DEF TypeInv, RequestVoteReply, LogOK, CallsOK, logVars, callVars
<1>4. CASE ~(m.term > currentTerm[i]) /\ ~wanted
  BY <1>4
     DEF TypeInv, RequestVoteReply, NodeOK, LogOK, LeaderOK, CallsOK, RestOK, AppReqsOK,
         nodeVars, logVars, leaderVars, callVars
<1> QED
  BY <1>2, <1>3, <1>4

LEMMA HeartbeatType ==
    ASSUME TypeInv, NEW i \in Server, Heartbeat(i)
    PROVE  TypeInv'
<1>1. log[i] \in Seq(Entry) /\ nextIndex[i] \in [Server -> Nat]
  BY DEF TypeInv, LogOK, LeaderOK
<1>2. AppReqsOK'
  BY <1>1, BroadcastType, TypeInvImplies DEF TypeInv, AppReqsOK, Heartbeat
<1> QED
  BY <1>2 DEF TypeInv, Heartbeat, NodeOK, LogOK, LeaderOK, CallsOK, RestOK,
              nodeVars, logVars, leaderVars, callVars

\* The reply of a follower, whatever its outcome.
LEMMA AppendReplyType ==
    ASSUME TypeInv, NEW m \in appReqs, NEW t \in Nat, NEW success \in BOOLEAN,
           NEW conflict \in Nat, AppendReply(m, t, success, conflict)
    PROVE  appReps' \subseteq AppReps
<1>1. WellFormedAppend(m)
  BY DEF TypeInv, AppReqsOK
<1>2. m.prev \in Nat /\ Len(m.entries) \in Nat /\ m.term \in Nat /\ m.leader \in Server /\ m.to \in Server
  BY <1>1, LenProperties DEF WellFormedAppend, AppReqs
<1> QED
  BY <1>2 DEF TypeInv, AppendReply, AppReps

LEMMA RejectAppendType ==
    ASSUME TypeInv, NEW m \in appReqs, RejectAppend(m)
    PROVE  TypeInv'
<1>1. m.to \in Server /\ currentTerm[m.to] \in Nat
  BY DEF TypeInv, NodeOK, AppReqsOK, WellFormedAppend, AppReqs
<1>2. appReps' \subseteq AppReps
  BY <1>1, AppendReplyType DEF RejectAppend
<1> QED
  BY <1>2 DEF TypeInv, RejectAppend, NodeOK, LogOK, LeaderOK, CallsOK, RestOK, AppReqsOK,
              nodeVars, logVars, leaderVars, callVars

LEMMA AppendEntriesType ==
    ASSUME TypeInv, NEW m \in appReqs, AppendEntries(m)
    PROVE  TypeInv'
<1> DEFINE i == m.to
           l == log[i]
           newLog == Merge(l, m.prev, m.entries)
           newCommit == IF m.commit > commitIndex[i]
                        THEN Min({m.commit, Len(newLog)}) ELSE commitIndex[i]
<1>1. WellFormedAppend(m)
  BY DEF TypeInv, AppReqsOK
<1>2. /\ i \in Server /\ m.leader \in Server /\ m.term \in Nat /\ m.prev \in Nat
      /\ m.commit \in Nat /\ m.entries \in Seq(Entry)
      /\ l \in Seq(Entry) /\ commitIndex[i] \in Nat /\ currentTerm[i] \in Nat
  BY <1>1 DEF WellFormedAppend, AppReqs, TypeInv, LogOK, NodeOK
<1>3. NodeOK'
  <2>1. CASE Yields(i, m)
    <3>1. StepDown(i, m.term)
      BY <2>1 DEF AppendEntries
    <3> QED
      BY <1>2, <3>1 DEF TypeInv, NodeOK, AppendEntries, StepDown, Follower, Candidate, Leader
  <2>2. CASE ~Yields(i, m)
    <3>1. UNCHANGED <<currentTerm, role, votedFor>>
      BY <2>2 DEF AppendEntries
    <3> QED
      BY <1>2, <3>1 DEF TypeInv, NodeOK, AppendEntries
  <2> QED
    BY <2>1, <2>2
<1>4. CallsOK'
  BY <1>2, FailPendingType, AnswerCommittedType DEF TypeInv, AppendEntries
<1>5. LogOK' /\ appReps' \subseteq AppReps
  <2>1. CASE Accepts(l, m)
    <3>1. /\ log' = [log EXCEPT ![i] = newLog]
          /\ commitIndex' = [commitIndex EXCEPT ![i] = newCommit]
          /\ AppendReply(m, m.term, TRUE, 0)
      BY <2>1 DEF AppendEntries
    <3>2. newLog \in Seq(Entry)
      BY <1>2, <2>1, MergeType DEF Accepts
    <3>3. newCommit \in Nat
      BY <1>2, <3>2, LenProperties, MinOfPair
    <3>4. LogOK'
      BY <1>2, <3>1, <3>2, <3>3 DEF TypeInv, LogOK
    <3> QED
      BY <1>2, <3>1, <3>4, AppendReplyType
  <2>2. CASE ~Accepts(l, m)
    <3>1. UNCHANGED logVars /\ AppendReply(m, m.term, FALSE, ConflictIndex(l, m))
      BY <2>2 DEF AppendEntries
    <3>2. ConflictIndex(l, m) \in Nat
      BY <1>1, <1>2, <2>2, ConflictIndexType
    <3> QED
      BY <1>2, <3>1, <3>2, AppendReplyType DEF TypeInv, LogOK, logVars
  <2> QED
    BY <2>1, <2>2
<1> QED
  BY <1>3, <1>4, <1>5 DEF TypeInv, AppendEntries, LeaderOK, RestOK, AppReqsOK, leaderVars

LEMMA AppendEntriesReplyType ==
    ASSUME TypeInv, NEW m \in appReps, AppendEntriesReply(m)
    PROVE  TypeInv'
<1> DEFINE i == m.to
           j == m.from
           current == role[i] = Leader /\ currentTerm[i] = m.reqTerm
<1>1. /\ i \in Server /\ j \in Server /\ m.term \in Nat /\ m.match \in Nat /\ m.conflict \in Nat
      /\ m.success \in BOOLEAN /\ currentTerm[i] \in Nat
      /\ nextIndex[i] \in [Server -> Nat] /\ matchIndex[i] \in [Server -> Nat]
      /\ nextIndex[i][j] \in Nat /\ matchIndex[i][j] \in Nat
  BY DEF TypeInv, AppReps, NodeOK, LeaderOK
<1>2. CASE m.term > currentTerm[i]
  <2>1. ReplyStepDown(i, m.term) /\ appReps' = appReps \ {m} /\ voteReps' = voteReps
    BY <1>1, <1>2 DEF AppendEntriesReply
  <2> QED
    BY <1>1, <1>2, <2>1, ReplyStepDownType
<1>3. CASE ~(m.term > currentTerm[i]) /\ current /\ m.success
  <2>1. /\ nextIndex' = [nextIndex EXCEPT ![i][j] = Max({@, m.match + 1})]
        /\ matchIndex' = [matchIndex EXCEPT ![i][j] = Max({@, m.match})]
        /\ commitIndex' = [commitIndex EXCEPT ![i] = LeaderCommit(i, matchIndex'[i])]
        /\ AnswerCommitted(i, commitIndex[i], commitIndex'[i])
        /\ UNCHANGED <<nodeVars, log, voteReqs, appReqs, stopped, elections, ledger>>
    BY <1>1, <1>3 DEF AppendEntriesReply
  <2>2. Max({nextIndex[i][j], m.match + 1}) \in Nat /\ Max({matchIndex[i][j], m.match}) \in Nat
    <3>1. /\ nextIndex[i][j] \in Nat /\ m.match + 1 \in Nat
          /\ matchIndex[i][j] \in Nat /\ m.match \in Nat
      BY <1>1
    <3> QED
      BY <3>1, MaxOfPair
  <2>3. LeaderOK'
    BY <1>1, <2>1, <2>2 DEF TypeInv, LeaderOK
  <2>4. LeaderCommit(i, matchIndex'[i]) \in Nat
    BY <1>1, TypeInvImplies, LeaderCommitType
  <2>5. LogOK'
    BY <1>1, <2>1, <2>4 DEF TypeInv, LogOK
  <2>6. CallsOK'
    BY <1>1, <2>1, AnswerCommittedType DEF TypeInv
  <2> QED
    BY <2>1, <2>3, <2>5, <2>6
       DEF TypeInv, AppendEntriesReply, NodeOK, RestOK, AppReqsOK, nodeVars
<1>4. CASE ~(m.term > currentTerm[i]) /\ current /\ ~m.success
  <2>1. /\ nextIndex' = [nextIndex EXCEPT ![i][j] =
               IF m.conflict > 0 THEN m.conflict ELSE IF @ > 1 THEN @ - 1 ELSE @]
        /\ UNCHANGED <<nodeVars, logVars, matchIndex, callVars,
                       voteReqs, appReqs, stopped, elections, ledger>>
    BY <1>1, <1>4 DEF AppendEntriesReply
  <2>2. LeaderOK'
    BY <1>1, <2>1 DEF TypeInv, LeaderOK
  <2> QED
    BY <2>1, <2>2
       DEF TypeInv, AppendEntriesReply, NodeOK, LogOK, CallsOK, RestOK, AppReqsOK,
           nodeVars, logVars, callVars
<1>5. CASE ~(m.term > currentTerm[i]) /\ ~current
  BY <1>5
     DEF TypeInv, AppendEntriesReply, NodeOK, LogOK, LeaderOK, CallsOK, RestOK, AppReqsOK,
         nodeVars, logVars, leaderVars, callVars
<1> QED
  BY <1>2, <1>3, <1>4, <1>5

LEMMA ProposeType ==
    ASSUME TypeInv, NEW i \in Server, NEW p \in Proposal, Propose(i, p)
    PROVE  TypeInv'
<1> DEFINE idx == Len(log[i]) + 1
           newLog == Append(log[i], [term |-> currentTerm[i], cmd |-> p])
<1>1. /\ log[i] \in Seq(Entry) /\ Len(log[i]) \in Nat /\ currentTerm[i] \in Nat \ {0}
      /\ nextIndex[i] \in [Server -> Nat]
  BY LenProperties DEF Propose, TypeInv, LogOK, NodeOK, LeaderOK, Leader, Follower
<1>2. newLog \in Seq(Entry)
  <2>1. [term |-> currentTerm[i], cmd |-> p] \in Entry
    BY <1>1 DEF Entry
  <2> QED
    BY <1>1, <2>1, AppendProperties
<1>3. LogOK'
  BY <1>2 DEF TypeInv, LogOK, Propose
<1>4. AppReqsOK'
  BY <1>1, <1>2, BroadcastType, TypeInvImplies DEF TypeInv, AppReqsOK, Propose
<1>5. CallsOK'
  <2>1. [state |-> "waiting", node |-> i, idx |-> idx, term |-> currentTerm[i]] \in Calls
    BY <1>1 DEF Calls
  <2>2. call' \in [Proposal -> Calls]
    BY <2>1 DEF TypeInv, CallsOK, Propose
  <2>3. proposals' \in [Server -> SUBSET [idx : Nat, id : Proposal]]
    BY <1>1 DEF TypeInv, CallsOK, Propose
  <2> QED
    BY <2>2, <2>3 DEF CallsOK
<1>6. RestOK'
  <2>1. /\ DOMAIN ledger' = DOMAIN ledger
        /\ \A t \in DOMAIN ledger : ledger'[t] = IF t = currentTerm[i] THEN newLog ELSE ledger[t]
    BY DEF Propose
  <2> HIDE DEF newLog
  <2> QED
    BY <1>2, <2>1 DEF TypeInv, Propose, RestOK
<1> QED
  BY <1>3, <1>4, <1>5, <1>6 DEF TypeInv, Propose, NodeOK, LeaderOK, nodeVars, leaderVars

LEMMA ClientType ==
    ASSUME TypeInv, \/ \E p \in Proposal : ProposeDeadline(p)
                    \/ \E i \in Server : Close(i)
                    \/ Lose
    PROVE  TypeInv'
<1>1. ASSUME NEW p \in Proposal, ProposeDeadline(p)
      PROVE  TypeInv'
  <2>1. [call[p] EXCEPT !.state = "expired"] \in Calls
    BY CallStateType DEF TypeInv, CallsOK
  <2>2. call' \in [Proposal -> Calls]
    BY <1>1, <2>1 DEF TypeInv, CallsOK, ProposeDeadline
  <2>3. proposals' \in [Server -> SUBSET [idx : Nat, id : Proposal]]
    BY <1>1 DEF TypeInv, CallsOK, ProposeDeadline
  <2> QED
    BY <1>1, <2>2, <2>3
       DEF TypeInv, ProposeDeadline, CallsOK, NodeOK, LogOK, LeaderOK, RestOK, AppReqsOK,
           nodeVars, logVars, leaderVars, rpcVars
<1>2. ASSUME NEW i \in Server, Close(i)
      PROVE  TypeInv'
  <2>1. CallsOK'
    BY <1>2, FailPendingType DEF TypeInv, Close
  <2> QED
    BY <1>2, <2>1
       DEF TypeInv, Close, NodeOK, LogOK, LeaderOK, RestOK, AppReqsOK,
           nodeVars, logVars, leaderVars, rpcVars
<1>3. CASE Lose
  BY <1>3
     DEF TypeInv, Lose, CallsOK, NodeOK, LogOK, LeaderOK, RestOK, AppReqsOK,
         nodeVars, logVars, leaderVars, callVars
<1> QED
  BY <1>1, <1>2, <1>3

LEMMA TypeInvStep == TypeInv /\ [Next]_vars => TypeInv'
<1> SUFFICES ASSUME TypeInv, [Next]_vars
             PROVE  TypeInv'
  OBVIOUS
<1>1. CASE UNCHANGED vars
  BY <1>1 DEF TypeInv, vars, CallsOK, NodeOK, LogOK, LeaderOK, RestOK, AppReqsOK,
              nodeVars, logVars, leaderVars, callVars, rpcVars
<1>2. CASE Next
  BY <1>2, TimeoutType, RequestVoteType, RequestVoteReplyType, HeartbeatType, RejectAppendType,
     AppendEntriesType, AppendEntriesReplyType, ProposeType, ClientType DEF Next
<1> QED
  BY <1>1, <1>2

\* Every variable keeps its type: the handlers of raft.go never leave a log, an
\* index or a message of a shape the others do not expect.
THEOREM TypeCorrect == Spec => []TypeOK
<1>1. Init => TypeInv
  BY TypeInvInit
<1>2. TypeInv /\ [Next]_vars => TypeInv'
  BY TypeInvStep
<1> QED
  BY <1>1, <1>2, TypeInvImplies, PTL DEF Spec

-----------------------------------------------------------------------------
(* One leader per term *)

\* Two quorums of the same cluster share a node.
LEMMA QuorumsMeet ==
    ASSUME NEW S \in SUBSET Server, NEW T \in SUBSET Server,
           IsQuorum(Cardinality(S)), IsQuorum(Cardinality(T))
    PROVE  \E v \in Server : v \in S /\ v \in T
<1>1. IsFiniteSet(Server) /\ Cardinality(Server) \in Nat
  BY ServerAssumption, FS_CardinalityType
<1>2. Cardinality(S) \in Nat /\ Cardinality(T) \in Nat
  BY <1>1, FS_Subset, FS_CardinalityType
<1>3. Cardinality(S) + Cardinality(T) > Cardinality(Server)
  BY <1>1, <1>2 DEF IsQuorum
<1>4. S \cap T # {}
  BY <1>1, <1>3, FS_MajoritiesIntersect
<1> QED
  BY <1>4

LEMMA GrantType ==
    ASSUME TypeInv, NEW g \in Grants
    PROVE  g.voter \in Server /\ g.cand \in Server /\ g.term \in Nat
  BY DEF Grants, TypeInv, NodeOK, VoteReps

\* No step takes a term back, nor frees a voter from a vote it is bound by.
\* The one handler that clears a vote within a term is that of an AppendEntries
\* on a candidate, and a candidate is bound by no vote of its term.
Keeps == /\ \A v \in Server : currentTerm'[v] \in Nat /\ currentTerm[v] <= currentTerm'[v]
         /\ \A v, c \in Server : \A t \in Nat : Bound(v, c, t) => Bound(v, c, t)'

\* A step of node i that takes it to a later term keeps both.
LEMMA LaterTermKeeps ==
    ASSUME TypeInv, NEW i \in Server, NEW t \in Nat, t > currentTerm[i],
           currentTerm' = [currentTerm EXCEPT ![i] = t],
           \A v \in Server \ {i} : votedFor'[v] = votedFor[v] /\ role'[v] = role[v]
    PROVE  Keeps
<1>1. \A v \in Server : /\ currentTerm[v] \in Nat
                        /\ currentTerm'[v] = IF v = i THEN t ELSE currentTerm[v]
  BY DEF TypeInv, NodeOK
<1> QED
  BY <1>1 DEF Keeps, Bound

\* What every vote in Grants promises.
GrantOK(g) == /\ g.voter # g.cand
              /\ currentTerm[g.voter] >= g.term
              /\ ~Won(g.term) => Bound(g.voter, g.cand, g.term)
              /\ \A e \in elections : e.term = g.term /\ g.voter \in e.voters => e.leader = g.cand

\* What a step that adds no election preserves.
LEMMA ElectionsKept ==
    ASSUME TypeInv, ElectionInv, Keeps, elections' = elections
    PROVE  /\ ElectionSafety' /\ ElectionsInv'
           /\ \A t : Won(t)' <=> Won(t)
           /\ \A g \in Grants : GrantOK(g)'
<1>1. ElectionSafety' /\ \A t : Won(t)' <=> Won(t)
  BY DEF ElectionInv, ElectionSafety, Won
<1>2. ElectionsInv'
  <2>1. ASSUME NEW e \in elections, NEW v \in e.voters
        PROVE  Bound(v, e.leader, e.term)'
    <3>1. v \in Server /\ e.leader \in Server /\ e.term \in Nat
      BY DEF TypeInv, RestOK
    <3>2. Bound(v, e.leader, e.term)
      BY DEF ElectionInv, ElectionsInv
    <3> QED
      BY <3>1, <3>2 DEF Keeps
  <2> QED
    BY <2>1 DEF ElectionInv, ElectionsInv
<1>3. ASSUME NEW g \in Grants
      PROVE  GrantOK(g)'
  <2>1. /\ g.voter \in Server /\ g.cand \in Server /\ g.term \in Nat
        /\ currentTerm[g.voter] \in Nat /\ currentTerm'[g.voter] \in Nat
        /\ currentTerm[g.voter] <= currentTerm'[g.voter]
    BY GrantType DEF TypeInv, NodeOK, Keeps
  <2>2. currentTerm[g.voter] >= g.term
    BY DEF ElectionInv, GrantsInv
  <2>3. currentTerm'[g.voter] >= g.term
    BY <2>1, <2>2
  <2>4. ~Won(g.term)' => Bound(g.voter, g.cand, g.term)'
    BY <1>1, <2>1 DEF ElectionInv, GrantsInv, Keeps
  <2> QED
    BY <2>3, <2>4 DEF ElectionInv, GrantsInv, GrantOK
<1> QED
  BY <1>1, <1>2, <1>3

\* What a step that adds neither a vote nor an election preserves.
LEMMA FrameKeeps ==
    ASSUME TypeInv, ElectionInv, Keeps, elections' = elections, Grants' \subseteq Grants
    PROVE  ElectionSafety' /\ ElectionsInv' /\ GrantsInv'
<1>1. /\ ElectionSafety' /\ ElectionsInv'
      /\ \A t : Won(t)' <=> Won(t)
      /\ \A g \in Grants' : GrantOK(g)'
  BY ElectionsKept
<1>2. GrantsInv'
  BY <1>1 DEF ElectionInv, GrantsInv, GrantOK
<1> QED
  BY <1>1, <1>2

LEMMA CountedGrant ==
    ASSUME NEW v \in Server, NEW i \in Server, role[i] = Candidate, v \in votes[i]
    PROVE  [voter |-> v, cand |-> i, term |-> currentTerm[i]] \in Grants
<1> DEFINE e == <<v, i>>
           F(p) == [voter |-> p[1], cand |-> p[2], term |-> currentTerm[p[2]]]
           C == {p \in Server \X Server : role[p[2]] = Candidate /\ p[1] \in votes[p[2]]}
<1>1. e \in C /\ F(e) = [voter |-> v, cand |-> i, term |-> currentTerm[i]]
  OBVIOUS
<1>2. {F(p) : p \in C} \subseteq Grants
  BY Zenon DEF Grants
<1>3. F(e) \in {F(p) : p \in C}
  <2> HIDE DEF e, C, F
  <2> QED
    BY <1>1
<1> QED
  BY <1>1, <1>2, <1>3

LEMMA GrantsShrink ==
    ASSUME TypeInv, voteReps' \subseteq voteReps,
           \A i \in Server : role'[i] = Candidate /\ votes'[i] # {} =>
               role[i] = Candidate /\ votes'[i] \subseteq votes[i] /\ currentTerm'[i] = currentTerm[i]
    PROVE  Grants' \subseteq Grants
<1>1. ASSUME NEW g \in Grants', NEW m \in voteReps', m.granted,
             g = [voter |-> m.from, cand |-> m.to, term |-> m.reqTerm]
      PROVE  g \in Grants
  BY <1>1 DEF Grants
<1>2. ASSUME NEW g \in Grants', NEW v \in Server, NEW i \in Server,
             role'[i] = Candidate, v \in votes'[i],
             g = [voter |-> v, cand |-> i, term |-> currentTerm'[i]]
      PROVE  g \in Grants
  <2>1. role[i] = Candidate /\ v \in votes[i] /\ currentTerm'[i] = currentTerm[i]
    BY <1>2
  <2> QED
    BY <1>2, <2>1, CountedGrant
<1> QED
  BY <1>1, <1>2 DEF Grants

LEMMA ElectionInvInit == Init => ElectionInv
<1> SUFFICES ASSUME Init PROVE ElectionInv
  OBVIOUS
<1>1. Grants = {}
  BY DEF Init, Grants, Follower, Candidate
<1> QED
  BY <1>1 DEF Init, ElectionInv, ElectionSafety, RolesInv, RequestsInv, ElectionsInv, GrantsInv,
              Follower, Candidate, Leader

LEMMA TimeoutElection ==
    ASSUME TypeInv, ElectionInv, NEW i \in Server, Timeout(i)
    PROVE  ElectionInv'
<1>1. /\ currentTerm[i] \in Nat
      /\ currentTerm' = [currentTerm EXCEPT ![i] = currentTerm[i] + 1]
      /\ role' = [role EXCEPT ![i] = Candidate]
      /\ votedFor' = [votedFor EXCEPT ![i] = i]
      /\ votes' = [votes EXCEPT ![i] = {}]
      /\ UNCHANGED <<voteReps, appReqs, elections>>
  BY DEF Timeout, TypeInv, NodeOK
<1>2. Keeps
  <2>1. currentTerm[i] + 1 \in Nat /\ currentTerm[i] + 1 > currentTerm[i]
    BY <1>1
  <2>2. \A v \in Server \ {i} : votedFor'[v] = votedFor[v] /\ role'[v] = role[v]
    BY <1>1 DEF TypeInv, NodeOK
  <2> QED
    BY <1>1, <2>1, <2>2, LaterTermKeeps
<1>3. Grants' \subseteq Grants
  BY <1>1, GrantsShrink DEF TypeInv, NodeOK
<1>4. RolesInv'
  BY <1>1 DEF ElectionInv, RolesInv, TypeInv, NodeOK, Candidate, Leader
<1>5. RequestsInv'
  <2>1. \A m \in voteReqs' : m \in voteReqs \/ (m.cand = i /\ m.to \in Others(i))
    BY DEF Timeout
  <2> QED
    BY <1>1, <2>1 DEF ElectionInv, RequestsInv, Others
<1> QED
  BY <1>1, <1>2, <1>3, <1>4, <1>5, FrameKeeps DEF ElectionInv

\* A step down to a later term, whatever made the node take it.
LEMMA LaterTermElection ==
    ASSUME TypeInv, ElectionInv, NEW i \in Server, NEW t \in Nat, t > currentTerm[i],
           StepDown(i, t), voteReps' \subseteq voteReps,
           voteReqs' \subseteq voteReqs, appReqs' \subseteq appReqs,
           UNCHANGED <<votes, elections>>
    PROVE  ElectionInv'
<1>1. Keeps
  BY LaterTermKeeps DEF StepDown, TypeInv, NodeOK
<1>2. Grants' \subseteq Grants
  BY GrantsShrink DEF StepDown, TypeInv, NodeOK, Follower, Candidate
<1>3. RolesInv'
  BY DEF StepDown, ElectionInv, RolesInv, TypeInv, NodeOK, Follower, Candidate, Leader
<1>4. RequestsInv'
  BY DEF ElectionInv, RequestsInv
<1> QED
  BY <1>1, <1>2, <1>3, <1>4, FrameKeeps DEF ElectionInv

\* A step that neither touches the terms, roles and votes nor adds a request.
LEMMA IdleElection ==
    ASSUME TypeInv, ElectionInv, voteReps' \subseteq voteReps, voteReqs' \subseteq voteReqs,
           UNCHANGED <<currentTerm, votedFor, role, votes, elections>>,
           \A m \in appReqs' : m \in appReqs \/ \E e \in elections : e.term = m.term /\ e.leader = m.leader
    PROVE  ElectionInv'
<1>1. Keeps
  BY DEF Keeps, Bound, TypeInv, NodeOK
<1>2. Grants' \subseteq Grants
  BY GrantsShrink
<1>3. RolesInv' /\ RequestsInv'
  BY DEF ElectionInv, RolesInv, RequestsInv
<1> QED
  BY <1>1, <1>2, <1>3, FrameKeeps DEF ElectionInv

\* What a leader broadcasts is sent in a term it won.
LEMMA BroadcastElection ==
    ASSUME NEW i \in Server, NEW l, NEW next, Broadcast(i, l, next)
    PROVE  \A m \in appReqs' : m \in appReqs \/ (m.term = currentTerm[i] /\ m.leader = i)
  BY DEF Broadcast, AppendRequest

LEMMA LeaderElection ==
    ASSUME TypeInv, ElectionInv, NEW i \in Server,
           Heartbeat(i) \/ \E p \in Proposal : Propose(i, p)
    PROVE  ElectionInv'
<1>1. /\ role[i] = Leader
      /\ UNCHANGED <<currentTerm, votedFor, role, votes, elections, voteReqs, voteReps>>
      /\ \E l, next : Broadcast(i, l, next)
  BY DEF Heartbeat, Propose, nodeVars
<1>2. \A m \in appReqs' : m \in appReqs \/ \E e \in elections : e.term = m.term /\ e.leader = m.leader
  BY <1>1, BroadcastElection DEF ElectionInv, RolesInv
<1> QED
  BY <1>1, <1>2, IdleElection

LEMMA AppendEntriesElection ==
    ASSUME TypeInv, ElectionInv, NEW m \in appReqs, AppendEntries(m)
    PROVE  ElectionInv'
<1> DEFINE i == m.to
<1>1. /\ i \in Server /\ m.term \in Nat /\ currentTerm[i] \in Nat /\ m.term >= currentTerm[i]
      /\ appReqs' \subseteq appReqs
      /\ UNCHANGED <<votes, voteReqs, voteReps, elections>>
  BY DEF AppendEntries, TypeInv, AppReqsOK, WellFormedAppend, AppReqs, NodeOK
<1>2. CASE m.term > currentTerm[i]
  <2>1. StepDown(i, m.term)
    BY <1>1, <1>2 DEF AppendEntries, Yields
  <2> QED
    BY <1>1, <1>2, <2>1, LaterTermElection
<1>3. CASE m.term = currentTerm[i] /\ role[i] = Candidate
  <2>1. StepDown(i, m.term)
    BY <1>3 DEF AppendEntries, Yields
  <2>2. Keeps
    BY <1>1, <1>3, <2>1 DEF Keeps, Bound, StepDown, TypeInv, NodeOK
  <2>3. Grants' \subseteq Grants
    BY <1>1, <2>1, GrantsShrink DEF StepDown, TypeInv, NodeOK, Follower, Candidate
  <2>4. RolesInv' /\ RequestsInv'
    BY <1>1, <1>3, <2>1
       DEF StepDown, ElectionInv, RolesInv, RequestsInv, TypeInv, NodeOK, Follower, Candidate, Leader
  <2> QED
    BY <1>1, <2>2, <2>3, <2>4, FrameKeeps DEF ElectionInv
<1>4. CASE m.term = currentTerm[i] /\ role[i] # Candidate
  <2>1. UNCHANGED <<currentTerm, role, votedFor>>
    BY <1>1, <1>4 DEF AppendEntries, Yields
  <2> QED
    BY <1>1, <2>1, IdleElection
<1> QED
  BY <1>1, <1>2, <1>3, <1>4

\* A vote is given to one candidate of a term only, before the term has a leader.
LEMMA RequestVoteElection ==
    ASSUME TypeInv, ElectionInv, NEW m \in voteReqs, RequestVote(m)
    PROVE  ElectionInv'
<1> DEFINE i     == m.to
           newer == m.term > currentTerm[i]
           free  == newer \/ votedFor[i] = Nil \/ votedFor[i] = m.cand
           grant == /\ m.term >= currentTerm[i]
                    /\ free
                    /\ UpToDate(m.lastTerm, m.lastIndex, log[i])
           new   == [voter |-> i, cand |-> m.cand, term |-> m.term]
<1>1. /\ i \in Server /\ m.cand \in Server /\ m.cand # i /\ m.term \in Nat
      /\ currentTerm[i] \in Nat /\ votedFor[i] \in Server \cup {Nil} /\ m.cand # Nil
  BY ServerAssumption DEF TypeInv, VoteReqs, NodeOK, ElectionInv, RequestsInv
<1>2. /\ currentTerm' = [currentTerm EXCEPT ![i] = IF newer THEN m.term ELSE @]
      /\ role' = [role EXCEPT ![i] = IF newer THEN Follower ELSE @]
      /\ votedFor' = [votedFor EXCEPT ![i] = IF grant THEN m.cand ELSE IF newer THEN Nil ELSE @]
      /\ voteReqs' \subseteq voteReqs
      /\ UNCHANGED <<votes, appReqs, elections>>
  BY DEF RequestVote, TypeInv, NodeOK
<1>3. Keeps
  <2>1. CASE newer
    <3>1. \A v \in Server \ {i} : votedFor'[v] = votedFor[v] /\ role'[v] = role[v]
      BY <1>2 DEF TypeInv, NodeOK
    <3>2. currentTerm' = [currentTerm EXCEPT ![i] = m.term]
      BY <1>2, <2>1
    <3> QED
      BY <1>1, <2>1, <3>1, <3>2, LaterTermKeeps
  <2>2. CASE ~newer
    <3>1. currentTerm' = currentTerm /\ role' = role
      BY <1>2, <2>2 DEF TypeInv, NodeOK
    <3>2. \A v \in Server : votedFor'[v] # votedFor[v] => v = i /\ votedFor[v] = Nil
      BY <1>2, <2>2 DEF TypeInv, NodeOK
    <3>3. \A c \in Server : c # Nil
      BY ServerAssumption
    <3> QED
      BY <3>1, <3>2, <3>3 DEF Keeps, Bound, TypeInv, NodeOK
  <2> QED
    BY <2>1, <2>2
<1>4. \A g \in Grants' : g \in Grants \/ (grant /\ g = new)
  <2>1. ASSUME NEW g \in Grants', NEW r \in voteReps', r.granted,
               g = [voter |-> r.from, cand |-> r.to, term |-> r.reqTerm]
        PROVE  g \in Grants \/ (grant /\ g = new)
    <3>1. CASE r \in voteReps
      BY <2>1, <3>1 DEF Grants
    <3>2. CASE r \notin voteReps
      <4>1. r = [reqTerm |-> m.term, from |-> i, to |-> m.cand, granted |-> grant,
                 term |-> IF newer THEN m.term ELSE currentTerm[i]]
        BY <3>2 DEF RequestVote
      <4> HIDE DEF grant, newer
      <4>2. r.granted = grant /\ r.from = i /\ r.to = m.cand /\ r.reqTerm = m.term
        BY <4>1
      <4> QED
        BY <2>1, <4>2
    <3> QED
      BY <3>1, <3>2
  <2>2. ASSUME NEW g \in Grants', NEW v \in Server, NEW j \in Server,
               role'[j] = Candidate, v \in votes'[j],
               g = [voter |-> v, cand |-> j, term |-> currentTerm'[j]]
        PROVE  g \in Grants
    <3>1. role[j] = Candidate /\ v \in votes[j] /\ currentTerm'[j] = currentTerm[j]
      BY <1>2, <2>2 DEF TypeInv, NodeOK, Follower, Candidate
    <3> QED
      BY <2>2, <3>1, CountedGrant
  <2> QED
    BY <2>1, <2>2 DEF Grants
<1>5. role[i] = Candidate /\ ~newer => ~grant
  BY <1>1, ServerAssumption DEF ElectionInv, RolesInv
<1>6. grant => GrantOK(new)'
  <2>1. SUFFICES ASSUME grant PROVE GrantOK(new)'
    OBVIOUS
  <2>2. currentTerm'[i] = m.term /\ votedFor'[i] = m.cand /\ role'[i] # Candidate
    BY <1>1, <1>2, <1>5, <2>1 DEF TypeInv, NodeOK, Follower, Candidate
  <2>3. ASSUME NEW e \in elections, e.term = m.term, i \in e.voters
        PROVE  e.leader = m.cand
    <3>1. Bound(i, e.leader, m.term) /\ e.leader \in Server
      BY <2>3 DEF ElectionInv, ElectionsInv, TypeInv, RestOK
    <3> QED
      BY <1>1, <2>1, <3>1, ServerAssumption DEF Bound
  <2> QED
    BY <1>1, <1>2, <2>2, <2>3 DEF GrantOK, Bound
<1>7. ASSUME grant, NEW g \in Grants, g.voter = i, g.term = m.term, ~Won(m.term)
      PROVE  g.cand = m.cand
  <2>1. Bound(i, g.cand, m.term) /\ g.cand \in Server
    BY <1>7, GrantType DEF ElectionInv, GrantsInv
  <2> QED
    BY <1>1, <1>7, <2>1, ServerAssumption DEF Bound
<1>8. RolesInv'
  BY <1>1, <1>2, <1>5 DEF ElectionInv, RolesInv, TypeInv, NodeOK, Follower, Candidate, Leader
<1>9. RequestsInv'
  BY <1>2 DEF ElectionInv, RequestsInv
<1>10. /\ ElectionSafety' /\ ElectionsInv'
       /\ \A t : Won(t)' <=> Won(t)
       /\ \A g \in Grants : GrantOK(g)'
  BY <1>2, <1>3, ElectionsKept
<1>11. GrantsInv'
  <2>1. \A g \in Grants' : GrantOK(g)'
    BY <1>4, <1>6, <1>10
  <2>2. ASSUME NEW g \in Grants', NEW h \in Grants',
               g.voter = h.voter, g.term = h.term, ~Won(g.term)
        PROVE  g.cand = h.cand
    <3>1. CASE g \in Grants /\ h \in Grants
      BY <2>2, <3>1 DEF ElectionInv, GrantsInv
    <3>2. CASE g \in Grants /\ grant /\ h = new
      BY <1>7, <2>2, <3>2
    <3>3. CASE h \in Grants /\ grant /\ g = new
      BY <1>7, <2>2, <3>3
    <3>4. CASE g = new /\ h = new
      BY <3>4
    <3> QED
      BY <1>4, <3>1, <3>2, <3>3, <3>4
  <2> QED
    BY <1>10, <2>1, <2>2 DEF GrantsInv, GrantOK
<1> QED
  BY <1>8, <1>9, <1>10, <1>11 DEF ElectionInv

\* A counted reply moves a vote from the network to the candidate.
LEMMA CountingKeepsGrants ==
    ASSUME TypeInv, NEW m \in voteReps, m.granted, currentTerm[m.to] = m.reqTerm,
           voteReps' \subseteq voteReps, currentTerm' = currentTerm,
           votes' = [votes EXCEPT ![m.to] = @ \cup {m.from}],
           \A j \in Server : role'[j] = Candidate => role[j] = Candidate
    PROVE  Grants' \subseteq Grants
<1>0. [voter |-> m.from, cand |-> m.to, term |-> m.reqTerm] \in Grants
  BY DEF Grants
<1>1. ASSUME NEW g \in Grants', NEW r \in voteReps', r.granted,
             g = [voter |-> r.from, cand |-> r.to, term |-> r.reqTerm]
      PROVE  g \in Grants
  BY <1>1 DEF Grants
<1>2. ASSUME NEW g \in Grants', NEW v \in Server, NEW i \in Server,
             role'[i] = Candidate, v \in votes'[i],
             g = [voter |-> v, cand |-> i, term |-> currentTerm'[i]]
      PROVE  g \in Grants
  <2>1. role[i] = Candidate /\ (v \in votes[i] \/ (i = m.to /\ v = m.from))
    BY <1>2 DEF TypeInv, NodeOK
  <2>2. CASE v \in votes[i]
    BY <1>2, <2>1, <2>2, CountedGrant
  <2>3. CASE i = m.to /\ v = m.from
    BY <1>0, <1>2, <2>3
  <2> QED
    BY <2>1, <2>2, <2>3
<1> QED
  BY <1>1, <1>2 DEF Grants

\* The voters of a winner are bound to it, and nobody else has won its term.
LEMMA WinnerIsAlone ==
    ASSUME TypeInv, ElectionInv, NEW i \in Server, role[i] = Candidate,
           NEW S \in SUBSET Server,
           \A v \in S : [voter |-> v, cand |-> i, term |-> currentTerm[i]] \in Grants,
           IsQuorum(1 + Cardinality(S))
    PROVE  /\ IsQuorum(Cardinality(S \cup {i}))
           /\ ~Won(currentTerm[i])
<1> DEFINE t == currentTerm[i]
<1>1. i \notin S
  BY DEF ElectionInv, GrantsInv
<1>2. IsQuorum(Cardinality(S \cup {i}))
  <2>1. IsFiniteSet(S) /\ Cardinality(S) \in Nat
    BY ServerAssumption, FS_Subset, FS_CardinalityType
  <2>2. Cardinality(S \cup {i}) = Cardinality(S) + 1
    BY <1>1, <2>1, FS_AddElement
  <2>3. 1 + Cardinality(S) = Cardinality(S) + 1
    BY <2>1
  <2> QED
    BY <2>2, <2>3
<1>3. ASSUME NEW e \in elections, e.term = t
      PROVE  FALSE
  <2>1. /\ e.voters \in SUBSET Server /\ IsQuorum(Cardinality(e.voters)) /\ t \in Nat
        /\ e.leader \in Server /\ e.leader \in e.voters
    BY DEF ElectionInv, ElectionsInv, TypeInv, RestOK, NodeOK
  <2>2. PICK v \in Server : v \in e.voters /\ v \in S \cup {i}
    BY <1>2, <2>1, QuorumsMeet
  <2>3. ~Bound(i, e.leader, t)
    BY <2>1 DEF Bound
  <2>4. CASE v = i
    BY <1>3, <2>2, <2>3, <2>4 DEF ElectionInv, ElectionsInv
  <2>5. CASE v \in S
    <3> DEFINE g == [voter |-> v, cand |-> i, term |-> t]
    <3>1. g \in Grants /\ g.voter = v /\ g.cand = i /\ g.term = t
      BY <2>5
    <3> HIDE DEF g
    <3>2. e.leader = i
      BY <1>3, <2>2, <3>1 DEF ElectionInv, GrantsInv
    <3> QED
      BY <1>3, <2>1, <2>3, <3>2 DEF ElectionInv, ElectionsInv
  <2> QED
    BY <2>2, <2>4, <2>5
<1> QED
  BY <1>2, <1>3 DEF Won

LEMMA BecomeLeaderElection ==
    ASSUME TypeInv, ElectionInv, NEW i \in Server, role[i] = Candidate,
           NEW S \in SUBSET Server,
           \A v \in S : [voter |-> v, cand |-> i, term |-> currentTerm[i]] \in Grants,
           IsQuorum(1 + Cardinality(S)), BecomeLeader(i, S \cup {i}),
           voteReqs' \subseteq voteReqs, currentTerm' = currentTerm, votedFor' = votedFor,
           Grants' \subseteq Grants
    PROVE  ElectionInv'
<1> DEFINE t   == currentTerm[i]
           win == [term |-> t, leader |-> i, voters |-> S \cup {i}]
<1>1. /\ IsQuorum(Cardinality(S \cup {i})) /\ ~Won(t) /\ t \in Nat
      /\ elections' = elections \cup {win}
      /\ role' = [role EXCEPT ![i] = Leader]
  BY WinnerIsAlone DEF TypeInv, NodeOK, BecomeLeader
<1>2. ElectionSafety'
  BY <1>1 DEF ElectionInv, ElectionSafety, Won
<1>3. RolesInv'
  <2>1. win \in elections' /\ win.term = t /\ win.leader = i /\ elections \subseteq elections'
    BY <1>1
  <2> HIDE DEF win
  <2>2. \A j \in Server \ {i} : role'[j] = role[j] /\ currentTerm'[j] = currentTerm[j]
                                /\ votedFor'[j] = votedFor[j]
    BY <1>1 DEF TypeInv, NodeOK
  <2>3. role'[i] = Leader /\ currentTerm'[i] = t
    BY <1>1 DEF TypeInv, NodeOK
  <2> QED
    BY <2>1, <2>2, <2>3 DEF ElectionInv, RolesInv, Candidate, Leader
<1>4. RequestsInv'
  <2>1. \A m \in appReqs' : m \in appReqs \/ (m.term = t /\ m.leader = i)
    BY BroadcastElection DEF BecomeLeader
  <2> QED
    BY <1>1, <2>1 DEF ElectionInv, RequestsInv
<1>5. Keeps
  BY <1>1 DEF Keeps, Bound, TypeInv, NodeOK, Candidate, Leader
<1>6. \A v \in S : Bound(v, i, t)
  <2>1. ASSUME NEW v \in S PROVE Bound(v, i, t)
    <3> DEFINE g == [voter |-> v, cand |-> i, term |-> t]
    <3>1. g \in Grants /\ g.voter = v /\ g.cand = i /\ g.term = t
      OBVIOUS
    <3> HIDE DEF g
    <3> QED
      BY <1>1, <3>1 DEF ElectionInv, GrantsInv
  <2> QED
    BY <2>1
<1>7. Bound(i, i, t)'
  BY <1>1 DEF Bound, ElectionInv, RolesInv, TypeInv, NodeOK, Candidate, Leader
<1>8. ElectionsInv'
  <2>1. ASSUME NEW e \in elections, NEW v \in e.voters
        PROVE  Bound(v, e.leader, e.term)'
    <3>1. v \in Server /\ e.leader \in Server /\ e.term \in Nat
      BY DEF TypeInv, RestOK
    <3>2. Bound(v, e.leader, e.term)
      BY DEF ElectionInv, ElectionsInv
    <3> QED
      BY <1>5, <3>1, <3>2 DEF Keeps
  <2>2. \A v \in S \cup {i} : Bound(v, i, t)'
    BY <1>1, <1>5, <1>6, <1>7 DEF Keeps
  <2>3. ASSUME NEW e \in elections'
        PROVE  /\ e.leader \in e.voters
               /\ IsQuorum(Cardinality(e.voters))
               /\ \A v \in e.voters : Bound(v, e.leader, e.term)'
    <3>1. CASE e \in elections
      BY <2>1, <3>1 DEF ElectionInv, ElectionsInv
    <3>2. CASE e = win
      <4>1. e.leader = i /\ e.voters = S \cup {i} /\ e.term = t
        BY <3>2
      <4> QED
        BY <1>1, <2>2, <4>1
    <3> QED
      BY <1>1, <3>1, <3>2
  <2> QED
    BY <2>3 DEF ElectionsInv
<1>9. ASSUME NEW g \in Grants, g.term = t, g.voter \in S \cup {i}
      PROVE  g.cand = i
  <2>1. CASE g.voter = i
    <3>1. Bound(i, g.cand, t)
      BY <1>1, <1>9, <2>1 DEF ElectionInv, GrantsInv
    <3> QED
      BY <1>1, <3>1 DEF Bound
  <2>2. CASE g.voter \in S
    <3> DEFINE h == [voter |-> g.voter, cand |-> i, term |-> t]
    <3>1. h \in Grants /\ h.voter = g.voter /\ h.cand = i /\ h.term = t
      BY <2>2
    <3> HIDE DEF h
    <3> QED
      BY <1>1, <1>9, <3>1 DEF ElectionInv, GrantsInv
  <2> QED
    BY <1>9, <2>1, <2>2
<1>10. GrantsInv'
  <2>1. ASSUME NEW g \in Grants
        PROVE  GrantOK(g)'
    <3>1. /\ g.voter \in Server /\ g.cand \in Server /\ g.term \in Nat
          /\ g.voter # g.cand /\ currentTerm[g.voter] >= g.term
          /\ \A e \in elections : e.term = g.term /\ g.voter \in e.voters => e.leader = g.cand
      BY GrantType DEF ElectionInv, GrantsInv
    <3>2. ~Won(g.term)' => Bound(g.voter, g.cand, g.term)'
      <4>1. ~Won(g.term)' => ~Won(g.term)
        BY <1>1 DEF Won
      <4>2. ~Won(g.term) => Bound(g.voter, g.cand, g.term)
        BY DEF ElectionInv, GrantsInv
      <4> QED
        BY <1>5, <3>1, <4>1, <4>2 DEF Keeps
    <3>3. \A e \in elections' : e.term = g.term /\ g.voter \in e.voters => e.leader = g.cand
      BY <1>1, <1>9, <3>1
    <3> QED
      BY <3>1, <3>2, <3>3 DEF GrantOK
  <2>2. \A g, h \in Grants' :
            g.voter = h.voter /\ g.term = h.term /\ ~Won(g.term)' => g.cand = h.cand
    BY <1>1 DEF ElectionInv, GrantsInv, Won
  <2> QED
    BY <2>1, <2>2 DEF GrantsInv, GrantOK
<1> QED
  BY <1>2, <1>3, <1>4, <1>8, <1>10 DEF ElectionInv

LEMMA RequestVoteReplyElection ==
    ASSUME TypeInv, ElectionInv, NEW m \in voteReps, RequestVoteReply(m)
    PROVE  ElectionInv'
<1> DEFINE i == m.to
           wanted == role[i] = Candidate /\ currentTerm[i] = m.reqTerm /\ m.granted
<1>1. i \in Server /\ m.from \in Server /\ m.term \in Nat /\ currentTerm[i] \in Nat
  BY DEF TypeInv, VoteReps, NodeOK
<1>2. CASE m.term > currentTerm[i]
  <2>1. ReplyStepDown(i, m.term) /\ voteReps' \subseteq voteReps
    BY <1>1, <1>2 DEF RequestVoteReply
  <2> QED
    BY <1>1, <1>2, <2>1, LaterTermElection DEF ReplyStepDown
<1>3. CASE ~(m.term > currentTerm[i]) /\ wanted
  <2> DEFINE S == votes[i] \cup {m.from}
  <2>1. /\ votes' = [votes EXCEPT ![i] = S] /\ votes'[i] = S /\ S \in SUBSET Server
        /\ UNCHANGED <<currentTerm, votedFor, voteReqs>> /\ voteReps' \subseteq voteReps
    BY <1>1, <1>3 DEF RequestVoteReply, TypeInv, NodeOK
  <2>2. \/ IsQuorum(1 + Cardinality(S)) /\ BecomeLeader(i, S \cup {i})
        \/ UNCHANGED <<role, leaderID, leaderVars, appReqs, elections>>
    BY <1>3, <2>1 DEF RequestVoteReply
  <2>3. Grants' \subseteq Grants
    <3>1. \A j \in Server : role'[j] = Candidate => role[j] = Candidate
      BY <1>3, <2>2 DEF BecomeLeader, TypeInv, NodeOK, Candidate, Leader
    <3> QED
      BY <1>3, <2>1, <3>1, CountingKeepsGrants
  <2>4. CASE IsQuorum(1 + Cardinality(S)) /\ BecomeLeader(i, S \cup {i})
    <3>1. \A v \in S : [voter |-> v, cand |-> i, term |-> currentTerm[i]] \in Grants
      <4>1. [voter |-> m.from, cand |-> i, term |-> m.reqTerm] \in Grants
        BY <1>3 DEF Grants
      <4>2. \A v \in votes[i] : [voter |-> v, cand |-> i, term |-> currentTerm[i]] \in Grants
        BY <1>1, <1>3, CountedGrant DEF TypeInv, NodeOK
      <4> QED
        BY <1>3, <4>1, <4>2
    <3> HIDE DEF S
    <3> QED
      BY <1>1, <1>3, <2>1, <2>3, <2>4, <3>1, BecomeLeaderElection
  <2>5. CASE UNCHANGED <<role, leaderID, leaderVars, appReqs, elections>>
    <3>1. Keeps
      BY <2>1, <2>5 DEF Keeps, Bound, TypeInv, NodeOK
    <3>2. RolesInv' /\ RequestsInv'
      BY <2>1, <2>5 DEF ElectionInv, RolesInv, RequestsInv
    <3> QED
      BY <2>3, <2>5, <3>1, <3>2, FrameKeeps DEF ElectionInv
  <2> QED
    BY <2>2, <2>4, <2>5
<1>4. CASE ~(m.term > currentTerm[i]) /\ ~wanted
  <2>1. /\ UNCHANGED <<currentTerm, votedFor, role, votes, elections, appReqs, voteReqs>>
        /\ voteReps' \subseteq voteReps
    BY <1>4 DEF RequestVoteReply, nodeVars
  <2> QED
    BY <2>1, IdleElection
<1> QED
  BY <1>2, <1>3, <1>4

LEMMA ElectionInvStep == TypeInv /\ ElectionInv /\ [Next]_vars => ElectionInv'
<1> SUFFICES ASSUME TypeInv, ElectionInv, [Next]_vars
             PROVE  ElectionInv'
  OBVIOUS
<1>1. ASSUME NEW m \in appReqs, RejectAppend(m)
      PROVE  ElectionInv'
  BY <1>1, IdleElection DEF RejectAppend, nodeVars
<1>2. ASSUME NEW m \in appReps, AppendEntriesReply(m)
      PROVE  ElectionInv'
  <2> DEFINE i == m.to
  <2>1. i \in Server /\ m.term \in Nat /\ currentTerm[i] \in Nat
    BY DEF TypeInv, AppReps, NodeOK
  <2>2. CASE m.term > currentTerm[i]
    <3>1. ReplyStepDown(i, m.term) /\ voteReps' = voteReps
      BY <1>2, <2>1, <2>2 DEF AppendEntriesReply
    <3> QED
      BY <2>1, <2>2, <3>1, LaterTermElection DEF ReplyStepDown
  <2>3. CASE ~(m.term > currentTerm[i])
    <3>1. UNCHANGED <<currentTerm, votedFor, role, votes, elections, voteReqs, voteReps, appReqs>>
      BY <1>2, <2>1, <2>3 DEF AppendEntriesReply, nodeVars
    <3> QED
      BY <3>1, IdleElection
  <2> QED
    BY <2>2, <2>3
<1>3. CASE \/ \E p \in Proposal : ProposeDeadline(p)
           \/ \E i \in Server : Close(i)
           \/ Lose
           \/ UNCHANGED vars
  <2>1. /\ UNCHANGED <<currentTerm, votedFor, role, votes, elections>>
        /\ voteReps' \subseteq voteReps /\ voteReqs' \subseteq voteReqs /\ appReqs' \subseteq appReqs
    BY <1>3 DEF ProposeDeadline, Close, Lose, vars, nodeVars, rpcVars
  <2> QED
    BY <2>1, IdleElection
<1> QED
  BY <1>1, <1>2, <1>3, TimeoutElection, RequestVoteElection, RequestVoteReplyElection,
     LeaderElection, AppendEntriesElection DEF Next

\* No term ever has two leaders, in a cluster of any size, with any delay, loss
\* and reordering of the RPCs, although AppendEntries clears the vote of a
\* candidate in its own term (raft.go:604-610).
THEOREM OneLeaderPerTerm == Spec => []ElectionSafety
<1>1. Init => TypeInv /\ ElectionInv
  BY TypeInvInit, ElectionInvInit
<1>2. TypeInv /\ ElectionInv /\ [Next]_vars => TypeInv' /\ ElectionInv'
  BY TypeInvStep, ElectionInvStep
<1>3. ElectionInv => ElectionSafety
  BY DEF ElectionInv
<1> QED
  BY <1>1, <1>2, <1>3, PTL DEF Spec

-----------------------------------------------------------------------------
(***************************************************************************)
(* The logs: that they match, and that what a leader counts as replicated  *)
(* is.                                                                     *)
(*                                                                         *)
(* The ledger keeps, for every term won, the log of its leader as it last  *)
(* led.  Every log there is, of a node or in the ledger, is cut from it:   *)
(* up to any entry it is what the leader of that entry's term wrote.       *)
(***************************************************************************)

\* The logs a and b hold the same entries up to n.
Agree(a, b, n) == n <= Len(a) /\ n <= Len(b) /\ \A h \in 1..n : a[h] = b[h]

\* The entries of a request m are those of the log l it was cut from.
WindowOf(m, l) ==
    /\ m.prevTerm # 0 => m.prevTerm = TermAt(l, m.prev)
    /\ \A k \in 1..Len(m.entries) : m.prev + k <= Len(l) /\ m.entries[k] = l[m.prev + k]

\* Up to any of its entries, l is what the ledger L has for the entry's term.
Traced(l, L) == \A n \in 1..Len(l) : l[n].term \in DOMAIN L /\ Agree(l, L[l[n].term], n)

UpTo(l, t) == \A n \in 1..Len(l) : l[n].term <= t

WinnersListed == \A e \in elections : e.term \in DOMAIN ledger
LedgerTraced ==
    \A t \in DOMAIN ledger : Won(t) /\ Traced(ledger[t], ledger) /\ UpTo(ledger[t], t)
LogsTraced == \A i \in Server : Traced(log[i], ledger) /\ UpTo(log[i], currentTerm[i])
LeadersWrite == \A i \in Server : role[i] = Leader => log[i] = ledger[currentTerm[i]]
RequestsCut == \A m \in appReqs : m.leader # m.to /\ WindowOf(m, ledger[m.term])

LedgerInv == WinnersListed /\ LedgerTraced /\ LogsTraced /\ LeadersWrite /\ RequestsCut

-----------------------------------------------------------------------------
(* Logs that agree *)

LEMMA AgreeFacts ==
    ASSUME NEW a \in Seq(Entry), NEW b \in Seq(Entry), NEW n \in Nat, Agree(a, b, n)
    PROVE  /\ Agree(b, a, n)
           /\ \A k \in Nat : k <= n => Agree(a, b, k)
           /\ \A c : Agree(b, c, n) => Agree(a, c, n)
<1>1. Len(a) \in Nat /\ Len(b) \in Nat
  BY LenProperties
<1> QED
  BY <1>1 DEF Agree

LEMMA SamePrefix ==
    ASSUME NEW a \in Seq(Entry), NEW b \in Seq(Entry), NEW n \in Nat, Agree(a, b, n)
    PROVE  SubSeq(a, 1, n) = SubSeq(b, 1, n)
<1>1. n \in 0..Len(a) /\ n \in 0..Len(b)
  BY LenProperties DEF Agree
<1>2. \A h \in 1..n : a[h] \in Entry /\ b[h] \in Entry
  BY <1>1, ElementOfSeq
<1>3. /\ SubSeq(a, 1, n) \in Seq(Entry) /\ SubSeq(b, 1, n) \in Seq(Entry)
      /\ Len(SubSeq(a, 1, n)) = n /\ Len(SubSeq(b, 1, n)) = n
      /\ \A h \in 1..n : SubSeq(a, 1, n)[h] = a[h] /\ SubSeq(b, 1, n)[h] = b[h]
  BY <1>1, <1>2, SubSeqProperties
<1>4. \A h \in 1..Len(SubSeq(a, 1, n)) : SubSeq(a, 1, n)[h] = SubSeq(b, 1, n)[h]
  BY <1>3 DEF Agree
<1> QED
  BY <1>3, <1>4, SeqEqual

LEMMA SameTermAgrees ==
    ASSUME NEW L, NEW a \in Seq(Entry), NEW b \in Seq(Entry), Traced(a, L), Traced(b, L),
           NEW n \in Nat, n <= Len(a), n <= Len(b), TermAt(a, n) = TermAt(b, n)
    PROVE  Agree(a, b, n)
<1>0. Len(a) \in Nat /\ Len(b) \in Nat
  BY LenProperties
<1>1. CASE n = 0
  BY <1>0, <1>1 DEF Agree
<1>2. CASE n # 0
  <2>1. n \in 1..Len(a) /\ n \in 1..Len(b) /\ a[n].term = b[n].term
    BY <1>0, <1>2 DEF TermAt
  <2>2. Agree(a, L[a[n].term], n) /\ Agree(b, L[a[n].term], n)
    BY <2>1 DEF Traced
  <2> QED
    BY <2>2 DEF Agree
<1> QED
  BY <1>1, <1>2

\* What is shared with a log that is traced is traced.
LEMMA SharedIsTraced ==
    ASSUME NEW L, NEW a \in Seq(Entry), NEW l \in Seq(Entry), Traced(a, L), Agree(a, l, Len(l))
    PROVE  Traced(l, L)
<1>1. Len(a) \in Nat /\ Len(l) \in Nat
  BY LenProperties
<1>2. ASSUME NEW n \in 1..Len(l)
      PROVE  l[n].term \in DOMAIN L /\ Agree(l, L[l[n].term], n)
  <2>1. n \in 1..Len(a) /\ a[n] = l[n]
    BY <1>1 DEF Agree
  <2>2. l[n].term \in DOMAIN L /\ Agree(a, L[l[n].term], n)
    BY <2>1 DEF Traced
  <2> QED
    BY <1>1, <2>2 DEF Agree
<1> QED
  BY <1>2 DEF Traced

\* A ledger M that only adds to L.
Grows(L, M) == DOMAIN L \subseteq DOMAIN M /\ \A t \in DOMAIN L : Agree(L[t], M[t], Len(L[t]))

LEMMA GrowthKeeps ==
    ASSUME NEW L, NEW M, \A t \in DOMAIN L : L[t] \in Seq(Entry),
           \A t \in DOMAIN M : M[t] \in Seq(Entry), Grows(L, M)
    PROVE  /\ \A t \in DOMAIN L : Len(L[t]) <= Len(M[t]) /\ \A n \in 1..Len(L[t]) : L[t][n] = M[t][n]
           /\ \A t \in DOMAIN L, l \in Seq(Entry), n \in Nat :
                  /\ Agree(l, L[t], n) => Agree(l, M[t], n)
                  /\ Agree(L[t], l, n) => Agree(M[t], l, n)
           /\ \A t \in DOMAIN L, u \in DOMAIN L, n \in Nat :
                  Agree(L[t], L[u], n) => Agree(M[t], M[u], n)
           /\ \A l \in Seq(Entry) : Traced(l, L) => Traced(l, M)
           /\ \A t \in DOMAIN L : \A m : WellFormedAppend(m) /\ WindowOf(m, L[t]) => WindowOf(m, M[t])
<1>1. \A t \in DOMAIN L : /\ t \in DOMAIN M /\ Len(L[t]) \in Nat /\ Len(M[t]) \in Nat
                          /\ Len(L[t]) <= Len(M[t]) /\ \A n \in 1..Len(L[t]) : L[t][n] = M[t][n]
  BY LenProperties DEF Grows, Agree
<1>2. ASSUME NEW t \in DOMAIN L, NEW l \in Seq(Entry), NEW n \in Nat
      PROVE  /\ Agree(l, L[t], n) => Agree(l, M[t], n)
             /\ Agree(L[t], l, n) => Agree(M[t], l, n)
  <2>1. n <= Len(L[t]) => n <= Len(M[t]) /\ \A h \in 1..n : L[t][h] = M[t][h]
    BY <1>1
  <2> QED
    BY <2>1 DEF Agree
<1>3. ASSUME NEW t \in DOMAIN L, NEW u \in DOMAIN L, NEW n \in Nat, Agree(L[t], L[u], n)
      PROVE  Agree(M[t], M[u], n)
  <2>1. L[u] \in Seq(Entry) /\ M[t] \in Seq(Entry)
    BY <1>1
  <2> QED
    BY <1>2, <1>3, <2>1
<1>4. ASSUME NEW l \in Seq(Entry), Traced(l, L)
      PROVE  Traced(l, M)
  <2>1. ASSUME NEW n \in 1..Len(l)
        PROVE  l[n].term \in DOMAIN M /\ Agree(l, M[l[n].term], n)
    <3>1. n \in Nat /\ l[n].term \in DOMAIN L /\ Agree(l, L[l[n].term], n)
      BY <1>4, LenProperties DEF Traced
    <3> QED
      BY <1>1, <1>2, <3>1
  <2> QED
    BY <2>1 DEF Traced
<1>5. ASSUME NEW t \in DOMAIN L, NEW m, WellFormedAppend(m), WindowOf(m, L[t])
      PROVE  WindowOf(m, M[t])
  <2>1. m.prev \in Nat /\ Len(m.entries) \in Nat
    BY <1>5, LenProperties DEF WellFormedAppend, AppReqs
  <2>2. ASSUME NEW k \in 1..Len(m.entries)
        PROVE  m.prev + k <= Len(M[t]) /\ m.entries[k] = M[t][m.prev + k]
    <3>1. m.prev + k \in 1..Len(L[t]) /\ m.entries[k] = L[t][m.prev + k]
      BY <1>1, <1>5, <2>1 DEF WindowOf
    <3> QED
      BY <1>1, <3>1
  <2>3. m.prevTerm # 0 => m.prevTerm = TermAt(M[t], m.prev)
    BY <1>1, <1>5 DEF WindowOf, TermAt
  <2> QED
    BY <2>2, <2>3 DEF WindowOf
<1> QED
  BY <1>1, <1>2, <1>3, <1>4, <1>5

\* A ledger that has one more log, or one longer.
LEMMA LedgerGrows ==
    ASSUME NEW L, NEW M, \A t \in DOMAIN L : L[t] \in Seq(Entry), DOMAIN L \subseteq DOMAIN M,
           \A t \in DOMAIN L : M[t] = L[t] \/ \E e \in Entry : M[t] = Append(L[t], e)
    PROVE  Grows(L, M)
<1>1. ASSUME NEW t \in DOMAIN L
      PROVE  Agree(L[t], M[t], Len(L[t]))
  <2>0. Len(L[t]) \in Nat
    BY LenProperties
  <2>1. CASE M[t] = L[t]
    BY <2>0, <2>1 DEF Agree
  <2>2. ASSUME NEW e \in Entry, M[t] = Append(L[t], e)
        PROVE  Agree(L[t], M[t], Len(L[t]))
    <3>1. L[t] \in Seq(Entry)
      OBVIOUS
    <3>2. Len(M[t]) = Len(L[t]) + 1 /\ \A n \in 1..Len(L[t]) : M[t][n] = L[t][n]
      BY <2>2, <3>1, AppendProperties
    <3> QED
      BY <2>0, <3>2 DEF Agree
  <2> QED
    BY <2>1, <2>2
<1> QED
  BY <1>1 DEF Grows

-----------------------------------------------------------------------------
(* What a request carries, and what its receiver makes of it *)

\* A request carries what it was cut from, to its end.
LEMMA RequestIsWindow ==
    ASSUME NEW i \in Server, NEW j \in Server, NEW l \in Seq(Entry), NEW next \in Nat \ {0}
    PROVE  /\ WindowOf(AppendRequest(i, j, l, next), l)
           /\ Len(l) <= (next - 1) + Len(SubSeq(l, next, Len(l)))
<1> DEFINE m == AppendRequest(i, j, l, next)
<1>1. m.prev = next - 1 /\ m.prevTerm = TermAt(l, next - 1) /\ m.entries = SubSeq(l, next, Len(l))
  BY DEF AppendRequest
<1>2. Len(l) \in Nat
  BY LenProperties
<1>3. \A h \in next..Len(l) : l[h] \in Entry
  BY <1>2, ElementOfSeq
<1>4. Len(m.entries) = IF next <= Len(l) THEN Len(l) - next + 1 ELSE 0
  BY <1>1, <1>2, <1>3, SubSeqProperties
<1>5. ASSUME NEW k \in 1..Len(m.entries)
      PROVE  m.prev + k \in 1..Len(l) /\ m.entries[k] = l[m.prev + k]
  <2>1. k \in Nat /\ 1 <= k /\ next <= Len(l) /\ k <= Len(l) - next + 1
    BY <1>2, <1>4
  <2>2. m.entries[k] = l[next + k - 1]
    BY <1>1, <1>2, <1>3, <1>4, <2>1, SubSeqProperties
  <2>3. next + k - 1 = m.prev + k
    BY <1>1, <2>1
  <2> QED
    BY <1>1, <1>2, <2>1, <2>2, <2>3
<1> HIDE DEF m
<1>6. WindowOf(m, l)
  BY <1>1, <1>5 DEF WindowOf
<1>7. Len(l) <= (next - 1) + Len(SubSeq(l, next, Len(l)))
  BY <1>1, <1>2, <1>4
<1> QED
  BY <1>6, <1>7 DEF m

\* What a broadcast of the log l sends.
LEMMA BroadcastWindows ==
    ASSUME NEW i \in Server, NEW l \in Seq(Entry), NEW next \in [Server -> Nat],
           Broadcast(i, l, next)
    PROVE  \A m \in appReqs' : \/ m \in appReqs
                               \/ /\ WindowOf(m, l) /\ Len(l) <= m.prev + Len(m.entries)
                                  /\ m.leader = i /\ m.to # i /\ m.term = currentTerm[i]
                                  /\ m.commit = commitIndex[i]
<1>1. PICK reached \in SUBSET Others(i) :
         appReqs' = appReqs \cup {AppendRequest(i, j, l, FromFirst(next[j])) : j \in reached}
  BY DEF Broadcast
<1>2. ASSUME NEW j \in reached
      PROVE  LET m == AppendRequest(i, j, l, FromFirst(next[j]))
             IN  /\ WindowOf(m, l) /\ Len(l) <= m.prev + Len(m.entries)
                 /\ m.leader = i /\ m.to # i /\ m.term = currentTerm[i]
                 /\ m.commit = commitIndex[i]
  <2> DEFINE m == AppendRequest(i, j, l, FromFirst(next[j]))
  <2> DEFINE first == FromFirst(next[j])
  <2>1. j \in Server /\ j # i /\ first \in Nat \ {0}
    BY FromFirstType DEF Others
  <2> HIDE DEF first
  <2>2. WindowOf(m, l) /\ Len(l) <= (first - 1) + Len(SubSeq(l, first, Len(l)))
    BY <2>1, RequestIsWindow DEF first
  <2>3. /\ m.leader = i /\ m.to # i /\ m.term = currentTerm[i] /\ m.commit = commitIndex[i]
        /\ m.prev = first - 1 /\ m.entries = SubSeq(l, first, Len(l))
    BY <2>1 DEF AppendRequest, first
  <2> HIDE DEF m
  <2>4. Len(l) <= m.prev + Len(m.entries)
    BY <2>2, <2>3
  <2> QED
    BY <2>2, <2>3, <2>4 DEF m
<1> QED
  BY <1>1, <1>2

\* A follower that merges a request of a leader keeps what it shares with it.
LEMMA MergeKeepsAgreement ==
    ASSUME NEW a \in Seq(Entry), NEW l \in Seq(Entry), NEW m, WellFormedAppend(m),
           m.prev <= Len(l), WindowOf(m, a), NEW n \in Nat, Agree(a, l, n)
    PROVE  Agree(a, Merge(l, m.prev, m.entries), n)
<1> DEFINE r == Merge(l, m.prev, m.entries)
<1>1. m.prev \in Nat /\ m.entries \in Seq(Entry) /\ Len(m.entries) \in Nat
      /\ Len(l) \in Nat /\ Len(a) \in Nat
  BY LenProperties DEF WellFormedAppend, AppReqs
<1>2. CASE r = l
  BY <1>2
<1> HIDE DEF r
<1>3. ASSUME NEW k \in 1..Len(m.entries), TakesFrom(r, l, m.prev, m.entries, k)
      PROVE  Agree(a, r, n)
  <2>0. /\ TermAt(l, m.prev + k) # m.entries[k].term
        /\ Len(r) = m.prev + Len(m.entries)
        /\ \A h \in 1..(m.prev + k - 1) : r[h] = l[h]
    BY <1>3 DEF TakesFrom
  <2>1. ~(m.prev + k <= n)
    <3>1. SUFFICES ASSUME m.prev + k <= n PROVE FALSE
      OBVIOUS
    <3>2. m.prev + k \in 1..n /\ m.prev + k \in 1..Len(l)
      BY <1>1, <3>1 DEF Agree
    <3>3. a[m.prev + k] = l[m.prev + k] /\ m.entries[k] = a[m.prev + k]
      BY <3>2 DEF Agree, WindowOf
    <3> QED
      BY <2>0, <3>2, <3>3 DEF TermAt
  <2>2. n <= Len(r) /\ \A h \in 1..n : h \in 1..(m.prev + k - 1)
    BY <1>1, <2>0, <2>1
  <2> QED
    BY <2>0, <2>2 DEF Agree
<1>4. r = l \/ \E k \in 1..Len(m.entries) : TakesFrom(r, l, m.prev, m.entries, k)
  BY <1>1, MergeShape DEF r
<1>5. Agree(a, r, n)
  BY <1>2, <1>3, <1>4
<1> QED
  BY <1>5 DEF r

\* A follower that accepts a request of a leader shares what it holds under the
\* entries it has no need to take.
LEMMA SkippedAgrees ==
    ASSUME NEW L, NEW a \in Seq(Entry), NEW l \in Seq(Entry), Traced(a, L), Traced(l, L),
           NEW m, WellFormedAppend(m), Accepts(l, m), WindowOf(m, a),
           NEW k \in 0..Len(m.entries),
           \A h \in 1..k : TermAt(l, m.prev + h) = m.entries[h].term
    PROVE  Agree(a, l, m.prev + k)
<1> DEFINE n == m.prev + k
<1>1. /\ m.prev \in Nat /\ m.entries \in Seq(Entry) /\ Len(m.entries) \in Nat
      /\ Len(l) \in Nat /\ Len(a) \in Nat /\ n \in Nat
      /\ m.prev <= Len(l) /\ TermAt(l, m.prev) = m.prevTerm
  BY LenProperties DEF WellFormedAppend, AppReqs, Accepts
<1>2. n <= Len(a) /\ n <= Len(l) /\ TermAt(a, n) = TermAt(l, n)
  <2>1. CASE k = 0
    <3>1. n = m.prev
      BY <1>1, <2>1
    <3>2. CASE m.prev = 0
      BY <1>1, <3>1, <3>2 DEF TermAt
    <3>3. CASE m.prev # 0
      <4>1. m.prev \in 1..Len(l)
        BY <1>1, <3>3
      <4>2. TermAt(l, m.prev) # 0
        BY <4>1, EntryType DEF TermAt
      <4>3. TermAt(a, m.prev) = TermAt(l, m.prev)
        BY <1>1, <4>2 DEF WindowOf
      <4>4. m.prev \in 1..Len(a)
        BY <4>2, <4>3 DEF TermAt
      <4> QED
        BY <1>1, <3>1, <4>3, <4>4
    <3> QED
      BY <3>2, <3>3
  <2>2. CASE k # 0
    <3>1. k \in 1..k /\ k \in 1..Len(m.entries) /\ n \in Nat \ {0}
      BY <1>1, <2>2
    <3>2. n \in 1..Len(a) /\ m.entries[k] = a[n]
      BY <1>1, <3>1 DEF WindowOf
    <3>3. TermAt(a, n) = m.entries[k].term /\ m.entries[k].term # 0
      BY <1>1, <3>1, <3>2, EntryType DEF TermAt
    <3>4. TermAt(l, n) = m.entries[k].term
      BY <3>1
    <3>5. n \in 1..Len(l)
      BY <3>3, <3>4 DEF TermAt
    <3> QED
      BY <1>1, <3>2, <3>3, <3>4, <3>5
  <2> QED
    BY <2>1, <2>2
<1> HIDE DEF n
<1>3. Agree(a, l, n)
  BY <1>1, <1>2, SameTermAgrees
<1> QED
  BY <1>3 DEF n

\* A follower that accepts a request of a leader holds all the leader held when
\* it was sent, up to the request's last entry, and what it had besides only if
\* it took nothing.
LEMMA MergeAgrees ==
    ASSUME NEW L, NEW a \in Seq(Entry), NEW l \in Seq(Entry), Traced(a, L), Traced(l, L),
           NEW m, WellFormedAppend(m), Accepts(l, m), WindowOf(m, a)
    PROVE  /\ Merge(l, m.prev, m.entries) \in Seq(Entry)
           /\ Agree(a, Merge(l, m.prev, m.entries), m.prev + Len(m.entries))
           /\ \/ Merge(l, m.prev, m.entries) = l
              \/ Agree(a, Merge(l, m.prev, m.entries), Len(Merge(l, m.prev, m.entries)))
<1> DEFINE r == Merge(l, m.prev, m.entries)
<1>1. /\ m.prev \in Nat /\ m.entries \in Seq(Entry) /\ Len(m.entries) \in Nat
      /\ Len(l) \in Nat /\ Len(a) \in Nat /\ m.prev <= Len(l) /\ r \in Seq(Entry)
  BY LenProperties, MergeType DEF WellFormedAppend, AppReqs, Accepts
<1>2. \/ r = l /\ \A k \in 1..Len(m.entries) : TermAt(l, m.prev + k) = m.entries[k].term
      \/ \E k \in 1..Len(m.entries) : TakesFrom(r, l, m.prev, m.entries, k)
  BY <1>1, MergeShape
<1> HIDE DEF r
<1>3. ASSUME r = l, \A k \in 1..Len(m.entries) : TermAt(l, m.prev + k) = m.entries[k].term
      PROVE  Agree(a, r, m.prev + Len(m.entries))
  <2>1. Len(m.entries) \in 0..Len(m.entries)
    BY <1>1
  <2> QED
    BY <1>1, <1>3, <2>1, SkippedAgrees
<1>4. ASSUME NEW k \in 1..Len(m.entries), TakesFrom(r, l, m.prev, m.entries, k)
      PROVE  Agree(a, r, m.prev + Len(m.entries)) /\ Len(r) = m.prev + Len(m.entries)
  <2>0. /\ \A h \in 1..(k - 1) : TermAt(l, m.prev + h) = m.entries[h].term
        /\ Len(r) = m.prev + Len(m.entries)
        /\ \A h \in 1..(m.prev + k - 1) : r[h] = l[h]
        /\ \A h \in k..Len(m.entries) : r[m.prev + h] = m.entries[h]
    BY <1>4 DEF TakesFrom
  <2>1. Agree(a, l, m.prev + (k - 1))
    <3> DEFINE h == k - 1
    <3>1. h \in 0..Len(m.entries) /\ \A g \in 1..h : TermAt(l, m.prev + g) = m.entries[g].term
      BY <1>1, <2>0
    <3> HIDE DEF h
    <3>2. Agree(a, l, m.prev + h)
      BY <1>1, <3>1, SkippedAgrees
    <3> QED
      BY <3>2 DEF h
  <2>2. m.prev + Len(m.entries) <= Len(a)
    BY <1>1, Len(m.entries) \in 1..Len(m.entries) DEF WindowOf
  <2>3. ASSUME NEW n \in 1..(m.prev + Len(m.entries))
        PROVE  a[n] = r[n]
    <3>1. CASE n < m.prev + k
      <4>1. n \in 1..(m.prev + k - 1) /\ n \in 1..(m.prev + (k - 1))
        BY <1>1, <3>1
      <4> QED
        BY <2>0, <2>1, <4>1 DEF Agree
    <3>2. CASE ~(n < m.prev + k)
      <4> DEFINE h == n - m.prev
      <4>1. h \in k..Len(m.entries) /\ h \in 1..Len(m.entries) /\ n = m.prev + h
        BY <1>1, <3>2
      <4> HIDE DEF h
      <4> QED
        BY <2>0, <4>1 DEF WindowOf
    <3> QED
      BY <3>1, <3>2
  <2> QED
    BY <1>1, <2>0, <2>2, <2>3 DEF Agree
<1>5. Agree(a, r, m.prev + Len(m.entries)) /\ (r = l \/ Agree(a, r, Len(r)))
  BY <1>2, <1>3, <1>4
<1> QED
  BY <1>1, <1>5 DEF r

-----------------------------------------------------------------------------
(* The kinds of step *)

\* A step that leaves the logs and the counts alone, sends no entries, answers
\* no request with success and elects nobody.
Rests ==
    /\ UNCHANGED <<log, commitIndex, matchIndex, ledger, elections>>
    /\ appReqs' \subseteq appReqs
    /\ \A r \in appReps' : r \in appReps \/ ~r.success
    /\ \A i \in Server : role'[i] = Leader => role[i] = Leader

Elects(i, voters) ==
    /\ role[i] = Candidate
    /\ \A v \in voters : v = i \/ [voter |-> v, cand |-> i, term |-> currentTerm[i]] \in Grants
    /\ BecomeLeader(i, voters)
    /\ UNCHANGED <<currentTerm, log, commitIndex, appReps>>

Sends(i) ==
    /\ role[i] = Leader
    /\ Broadcast(i, log[i], nextIndex[i])
    /\ UNCHANGED <<currentTerm, role, log, commitIndex, matchIndex, ledger, elections, appReps>>

Takes(m) == AppendEntries(m) /\ Accepts(log[m.to], m)

Counts(m) ==
    /\ m.success /\ role[m.to] = Leader /\ currentTerm[m.to] = m.reqTerm
    /\ matchIndex' = [matchIndex EXCEPT ![m.to][m.from] = Max({@, m.match})]
    /\ commitIndex' = [commitIndex EXCEPT ![m.to] = LeaderCommit(m.to, matchIndex'[m.to])]
    /\ appReps' \subseteq appReps
    /\ UNCHANGED <<currentTerm, role, log, ledger, elections, appReqs>>

\* Terms only grow; who leads or stands after a step without a new term did not
\* change it, nor who stands its log.
Orderly ==
    \A i \in Server :
        /\ currentTerm[i] <= currentTerm'[i]
        /\ role'[i] = Leader => currentTerm'[i] = currentTerm[i]
        /\ role'[i] = Candidate /\ currentTerm'[i] = currentTerm[i] =>
              role[i] = Candidate /\ log'[i] = log[i]

\* An AppendEntries of its own term never reaches a leader.
LEMMA LeaderGetsNoAppend ==
    ASSUME TypeInv, ElectionInv, RequestsCut, NEW m \in appReqs, AppendEntries(m)
    PROVE  /\ m.to \in Server /\ m.leader \in Server /\ m.leader # m.to /\ m.term \in Nat
           /\ role'[m.to] = Follower \/ (role'[m.to] = role[m.to] /\ role[m.to] \notin {Leader, Candidate})
           /\ currentTerm'[m.to] = m.term /\ currentTerm[m.to] <= m.term
           /\ \A j \in Server \ {m.to} : /\ role'[j] = role[j] /\ currentTerm'[j] = currentTerm[j]
                                         /\ log'[j] = log[j]
           /\ \A i \in Server : role[i] = Leader /\ currentTerm[i] = m.term => i = m.leader
<1> DEFINE j == m.to
<1>1. /\ j \in Server /\ m.leader \in Server /\ m.term \in Nat /\ currentTerm[j] \in Nat
      /\ m.term >= currentTerm[j] /\ m.leader # j
  BY DEF AppendEntries, TypeInv, AppReqsOK, WellFormedAppend, AppReqs, NodeOK, RequestsCut
<1>2. \A i \in Server : role[i] = Leader /\ currentTerm[i] = m.term => i = m.leader
  BY DEF ElectionInv, RequestsInv, RolesInv, ElectionSafety
<1>3. \A i \in Server \ {j} : log'[i] = log[i]
  BY DEF AppendEntries, logVars, TypeInv, LogOK
<1>4. CASE Yields(j, m)
  <2>1. StepDown(j, m.term)
    BY <1>4 DEF AppendEntries
  <2> QED
    BY <1>1, <1>2, <1>3, <2>1 DEF StepDown, TypeInv, NodeOK
<1>5. CASE ~Yields(j, m)
  <2>1. UNCHANGED <<currentTerm, role>>
    BY <1>5 DEF AppendEntries
  <2>2. currentTerm[j] = m.term /\ role[j] # Candidate /\ role[j] # Leader
    BY <1>1, <1>2, <1>5 DEF Yields
  <2> QED
    BY <1>1, <1>2, <1>3, <2>1, <2>2
<1> QED
  BY <1>4, <1>5

LEMMA RestIsOrderly ==
    ASSUME TypeInv, NEW i \in Server, NEW t \in Nat, t >= currentTerm[i],
           currentTerm' = [currentTerm EXCEPT ![i] = t], role' = [role EXCEPT ![i] = Follower],
           UNCHANGED <<log, commitIndex, matchIndex, ledger, elections>>,
           appReqs' \subseteq appReqs, \A r \in appReps' : r \in appReps \/ ~r.success
    PROVE  Orderly /\ Rests
  BY DEF Orderly, Rests, TypeInv, NodeOK, Follower, Candidate, Leader

LEMMA RequestVoteReplyKind ==
    ASSUME TypeInv, NEW m \in voteReps, RequestVoteReply(m)
    PROVE  Orderly /\ (Rests \/ \E i \in Server : \E voters \in SUBSET Server : Elects(i, voters))
<1> DEFINE i == m.to
           S == votes[i] \cup {m.from}
<1>1. /\ i \in Server /\ m.from \in Server /\ m.term \in Nat
      /\ \A j \in Server : currentTerm[j] \in Nat
  BY DEF TypeInv, VoteReps, NodeOK
<1>2. CASE m.term > currentTerm[i]
  <2>1. ReplyStepDown(i, m.term) /\ UNCHANGED appReps
    BY <1>1, <1>2 DEF RequestVoteReply
  <2>2. /\ UNCHANGED <<log, commitIndex, matchIndex, ledger, elections, appReqs>>
        /\ currentTerm' = [currentTerm EXCEPT ![i] = m.term]
        /\ role' = [role EXCEPT ![i] = Follower]
        /\ \A r \in appReps' : r \in appReps \/ ~r.success
    BY <2>1 DEF ReplyStepDown, StepDown, logVars, leaderVars
  <2>3. m.term >= currentTerm[i] /\ appReqs' \subseteq appReqs
    BY <1>1, <1>2, <2>2
  <2> HIDE DEF i
  <2>4. Orderly /\ Rests
    BY <1>1, <2>2, <2>3, RestIsOrderly
  <2> QED
    BY <2>4
<1>3. ASSUME ~(m.term > currentTerm[i]), role[i] = Candidate, currentTerm[i] = m.reqTerm, m.granted,
             BecomeLeader(i, votes'[i] \cup {i}), votes' = [votes EXCEPT ![i] = @ \cup {m.from}],
             UNCHANGED <<currentTerm, logVars, appReps>>
      PROVE  Orderly /\ Elects(i, S \cup {i}) /\ S \cup {i} \in SUBSET Server
  <2>1. votes'[i] = S /\ S \cup {i} \in SUBSET Server /\ votes[i] \in SUBSET Server
    BY <1>1, <1>3 DEF TypeInv, NodeOK
  <2>2. \A v \in S : [voter |-> v, cand |-> i, term |-> currentTerm[i]] \in Grants
    <3>1. [voter |-> m.from, cand |-> i, term |-> m.reqTerm] \in Grants
      BY <1>3 DEF Grants
    <3>2. \A v \in votes[i] : [voter |-> v, cand |-> i, term |-> currentTerm[i]] \in Grants
      BY <1>1, <1>3, <2>1, CountedGrant
    <3> QED
      BY <1>3, <3>1, <3>2
  <2>3. role' = [role EXCEPT ![i] = Leader]
    BY <1>3 DEF BecomeLeader
  <2>4. Orderly
    BY <1>1, <1>3, <2>3 DEF Orderly, logVars, TypeInv, NodeOK, Candidate, Leader
  <2> HIDE DEF S
  <2> QED
    BY <1>3, <2>1, <2>2, <2>4 DEF Elects, logVars
<1>4. CASE UNCHANGED <<currentTerm, role, logVars, leaderVars, appReqs, appReps, elections, ledger>>
  BY <1>1, <1>4 DEF Orderly, Rests, logVars, leaderVars
<1> HIDE DEF S
<1> QED
  BY <1>1, <1>2, <1>3, <1>4 DEF RequestVoteReply, nodeVars

LEMMA AppendEntriesKind ==
    ASSUME TypeInv, ElectionInv, RequestsCut, NEW m \in appReqs, AppendEntries(m)
    PROVE  Orderly /\ (Rests \/ Takes(m))
<1> DEFINE j == m.to
<1>1. /\ j \in Server /\ m.term \in Nat
      /\ role'[j] = Follower \/ (role'[j] = role[j] /\ role[j] \notin {Leader, Candidate})
      /\ currentTerm'[j] = m.term /\ currentTerm[j] <= m.term
      /\ \A i \in Server \ {j} : /\ role'[i] = role[i] /\ currentTerm'[i] = currentTerm[i]
                                 /\ log'[i] = log[i]
      /\ \A i \in Server : currentTerm[i] \in Nat
  BY LeaderGetsNoAppend DEF TypeInv, NodeOK
<1>2. Orderly
  BY <1>1 DEF Orderly, Follower, Candidate, Leader
<1>3. CASE Accepts(log[j], m)
  BY <1>2, <1>3 DEF Takes
<1>4. CASE ~Accepts(log[j], m)
  <2>1. /\ UNCHANGED <<log, commitIndex, matchIndex, ledger, elections>>
        /\ appReqs' \subseteq appReqs
        /\ AppendReply(m, m.term, FALSE, ConflictIndex(log[j], m))
    BY <1>4 DEF AppendEntries, logVars, leaderVars
  <2>2. \A r \in appReps' : r \in appReps \/ ~r.success
    BY <2>1 DEF AppendReply
  <2>3. \A i \in Server : role'[i] = Leader => role[i] = Leader
    BY <1>1 DEF Follower, Leader
  <2> QED
    BY <1>2, <2>1, <2>2, <2>3 DEF Rests
<1> QED
  BY <1>3, <1>4

LEMMA AppendEntriesReplyKind ==
    ASSUME TypeInv, NEW m \in appReps, AppendEntriesReply(m)
    PROVE  Orderly /\ (Rests \/ Counts(m))
<1> DEFINE i == m.to
<1>1. i \in Server /\ m.term \in Nat /\ \A j \in Server : currentTerm[j] \in Nat
  BY DEF TypeInv, AppReps, NodeOK
<1>2. CASE m.term > currentTerm[i]
  <2>1. ReplyStepDown(i, m.term) /\ appReps' \subseteq appReps
    BY <1>1, <1>2 DEF AppendEntriesReply
  <2>2. /\ UNCHANGED <<log, commitIndex, matchIndex, ledger, elections, appReqs>>
        /\ currentTerm' = [currentTerm EXCEPT ![i] = m.term]
        /\ role' = [role EXCEPT ![i] = Follower]
        /\ \A r \in appReps' : r \in appReps \/ ~r.success
    BY <2>1 DEF ReplyStepDown, StepDown, logVars, leaderVars
  <2>3. m.term >= currentTerm[i] /\ appReqs' \subseteq appReqs
    BY <1>1, <1>2, <2>2
  <2> HIDE DEF i
  <2>4. Orderly /\ Rests
    BY <1>1, <2>2, <2>3, RestIsOrderly
  <2> QED
    BY <2>4
<1>3. CASE ~(m.term > currentTerm[i])
  <2>1. UNCHANGED <<currentTerm, role, log, ledger, elections, appReqs>> /\ appReps' \subseteq appReps
    BY <1>1, <1>3 DEF AppendEntriesReply, nodeVars, logVars
  <2>2. Orderly
    BY <1>1, <2>1 DEF Orderly
  <2>3. \/ UNCHANGED <<commitIndex, matchIndex>>
        \/ Counts(m)
    BY <1>1, <1>3, <2>1 DEF AppendEntriesReply, Counts, logVars, leaderVars
  <2> QED
    BY <2>1, <2>2, <2>3 DEF Rests
<1> QED
  BY <1>2, <1>3

LEMMA StepKinds ==
    ASSUME TypeInv, ElectionInv, RequestsCut, [Next]_vars
    PROVE  /\ Orderly
           /\ \/ Rests
              \/ \E i \in Server : \E voters \in SUBSET Server : Elects(i, voters)
              \/ \E i \in Server : Sends(i)
              \/ \E i \in Server, p \in Proposal : Propose(i, p)
              \/ \E m \in appReqs : Takes(m)
              \/ \E m \in appReps : Counts(m)
<1>0. \A i \in Server : currentTerm[i] \in Nat
  BY DEF TypeInv, NodeOK
<1>1. ASSUME NEW i \in Server, Timeout(i)
      PROVE  Orderly /\ Rests
  BY <1>0, <1>1
     DEF Timeout, Orderly, Rests, logVars, leaderVars, TypeInv, NodeOK, Candidate, Leader
<1>2. ASSUME NEW m \in voteReqs, RequestVote(m)
      PROVE  Orderly /\ Rests
  <2>1. m.to \in Server /\ m.term \in Nat
    BY DEF TypeInv, VoteReqs
  <2>2. UNCHANGED <<log, commitIndex, matchIndex, ledger, elections, appReqs, appReps>>
    BY <1>2 DEF RequestVote, logVars, leaderVars
  <2>3. CASE m.term > currentTerm[m.to]
    BY <1>0, <1>2, <2>1, <2>2, <2>3, RestIsOrderly DEF RequestVote
  <2>4. CASE ~(m.term > currentTerm[m.to])
    <3>1. UNCHANGED <<currentTerm, role>>
      BY <1>2, <2>4 DEF RequestVote
    <3> QED
      BY <1>0, <2>2, <3>1 DEF Orderly, Rests
  <2> QED
    BY <2>3, <2>4
<1>3. ASSUME NEW i \in Server, Heartbeat(i)
      PROVE  Orderly /\ Sends(i)
  BY <1>0, <1>3 DEF Heartbeat, Orderly, Sends, nodeVars, logVars, leaderVars
<1>4. ASSUME NEW m \in appReqs, RejectAppend(m)
      PROVE  Orderly /\ Rests
  <2>1. /\ UNCHANGED <<currentTerm, role, log, commitIndex, matchIndex, ledger, elections>>
        /\ appReqs' \subseteq appReqs
        /\ AppendReply(m, currentTerm[m.to], FALSE, 0)
    BY <1>4 DEF RejectAppend, nodeVars, logVars, leaderVars
  <2>2. \A r \in appReps' : r \in appReps \/ ~r.success
    BY <2>1 DEF AppendReply
  <2> QED
    BY <1>0, <2>1, <2>2 DEF Orderly, Rests
<1>5. ASSUME NEW i \in Server, NEW p \in Proposal, Propose(i, p)
      PROVE  Orderly
  BY <1>0, <1>5 DEF Propose, Orderly, nodeVars, TypeInv, LogOK, Candidate, Leader
<1>6. CASE \/ \E p \in Proposal : ProposeDeadline(p)
           \/ \E i \in Server : Close(i)
           \/ Lose
           \/ UNCHANGED vars
  <2>1. UNCHANGED <<currentTerm, role, log, commitIndex, matchIndex, ledger, elections>>
        /\ appReqs' \subseteq appReqs /\ appReps' \subseteq appReps
    BY <1>6 DEF ProposeDeadline, Close, Lose, vars, nodeVars, logVars, leaderVars, rpcVars
  <2> QED
    BY <1>0, <2>1 DEF Orderly, Rests
<1> QED
  BY <1>1, <1>2, <1>3, <1>4, <1>5, <1>6, RequestVoteReplyKind, AppendEntriesKind,
     AppendEntriesReplyKind DEF Next

-----------------------------------------------------------------------------
(* Every log is cut from the ledger *)

LEMMA LedgerInvInit == Init => LedgerInv
<1> SUFFICES ASSUME Init PROVE LedgerInv
  OBVIOUS
<1>1. DOMAIN ledger = {} /\ \A i \in Server : Len(log[i]) = 0 /\ role[i] # Leader
  BY DEF Init, Follower, Leader
<1> QED
  BY <1>1 DEF Init, LedgerInv, WinnersListed, LedgerTraced, LogsTraced, LeadersWrite, RequestsCut,
              Traced, UpTo

\* The types the steps below need.
LEMMA LedgerTypes ==
    ASSUME TypeInv
    PROVE  /\ \A i \in Server : /\ currentTerm[i] \in Nat /\ log[i] \in Seq(Entry) /\ Len(log[i]) \in Nat
                                /\ commitIndex[i] \in Nat
                                /\ nextIndex[i] \in [Server -> Nat] /\ matchIndex[i] \in [Server -> Nat]
           /\ \A t \in DOMAIN ledger : t \in Nat /\ ledger[t] \in Seq(Entry) /\ Len(ledger[t]) \in Nat
           /\ \A m \in appReqs : /\ WellFormedAppend(m) /\ m.prev \in Nat /\ Len(m.entries) \in Nat
                                 /\ m.term \in Nat /\ m.commit \in Nat /\ m.leader \in Server /\ m.to \in Server
           /\ \A r \in appReps : /\ r.from \in Server /\ r.to \in Server
                                 /\ r.reqTerm \in Nat /\ r.match \in Nat
<1>1. \A i \in Server : Len(log[i]) \in Nat
  BY LenProperties DEF TypeInv, LogOK
<1>2. \A t \in DOMAIN ledger : Len(ledger[t]) \in Nat
  BY LenProperties DEF TypeInv, RestOK
<1>3. \A m \in appReqs : Len(m.entries) \in Nat
  BY LenProperties DEF TypeInv, AppReqsOK, WellFormedAppend, AppReqs
<1> QED
  BY <1>1, <1>2, <1>3
     DEF TypeInv, NodeOK, LogOK, LeaderOK, RestOK, AppReqsOK, WellFormedAppend, AppReqs, AppReps

LEMMA UpToLater ==
    ASSUME NEW l \in Seq(Entry), NEW t \in Nat, NEW u \in Nat, UpTo(l, t), t <= u
    PROVE  UpTo(l, u)
<1>1. \A n \in 1..Len(l) : l[n].term \in Nat
  BY EntryType
<1> QED
  BY <1>1 DEF UpTo

\* Whoever leads a term, or sends its entries, has its log in the ledger.
LEMMA LeaderListed ==
    ASSUME ElectionInv, LedgerInv
    PROVE  /\ \A i \in Server : role[i] = Leader => currentTerm[i] \in DOMAIN ledger
           /\ \A m \in appReqs : m.term \in DOMAIN ledger
  BY DEF ElectionInv, RolesInv, RequestsInv, LedgerInv, WinnersListed

\* What keeps the ledger as it is.
LEMMA SameLedger ==
    ASSUME LedgerInv, UNCHANGED <<ledger, elections>>, Orderly,
           \A i \in Server : role'[i] = Leader => role[i] = Leader /\ log'[i] = log[i],
           LogsTraced', RequestsCut'
    PROVE  LedgerInv'
<1>1. WinnersListed' /\ LedgerTraced'
  BY DEF LedgerInv, WinnersListed, LedgerTraced, Won
<1>2. LeadersWrite'
  BY DEF LedgerInv, LeadersWrite, Orderly
<1> QED
  BY <1>1, <1>2 DEF LedgerInv

LEMMA SameLogs ==
    ASSUME TypeInv, TypeInv', LedgerInv, UNCHANGED <<log, ledger>>, Orderly
    PROVE  LogsTraced'
<1>1. ASSUME NEW i \in Server
      PROVE  Traced(log'[i], ledger') /\ UpTo(log'[i], currentTerm'[i])
  <2>1. /\ Traced(log[i], ledger) /\ UpTo(log[i], currentTerm[i]) /\ log[i] \in Seq(Entry)
        /\ currentTerm[i] \in Nat /\ currentTerm'[i] \in Nat /\ currentTerm[i] <= currentTerm'[i]
    BY DEF LedgerInv, LogsTraced, Orderly, TypeInv, NodeOK, LogOK
  <2> QED
    BY <2>1, UpToLater
<1> QED
  BY <1>1 DEF LogsTraced

LEMMA SendsLedger ==
    ASSUME TypeInv, TypeInv', ElectionInv, LedgerInv, Orderly, NEW i \in Server, Sends(i)
    PROVE  LedgerInv'
<1>1. log[i] = ledger[currentTerm[i]]
  BY DEF Sends, LedgerInv, LeadersWrite
<1>2. \A m \in appReqs' : m \in appReqs \/ (m.leader = i /\ m.to # i /\ m.term = currentTerm[i] /\ WindowOf(m, log[i]))
  BY LedgerTypes, BroadcastWindows DEF Sends
<1>3. RequestsCut'
  BY <1>1, <1>2 DEF Sends, LedgerInv, RequestsCut
<1>4. LogsTraced'
  BY SameLogs DEF Sends
<1> QED
  BY <1>3, <1>4, SameLedger DEF Sends

\* The log of a follower that takes a request, and the log the request is from.
LEMMA TakesMerges ==
    ASSUME TypeInv, ElectionInv, LedgerInv, NEW m \in appReqs, Takes(m)
    PROVE  /\ m.to \in Server /\ m.term \in DOMAIN ledger /\ ledger[m.term] \in Seq(Entry)
           /\ Accepts(log[m.to], m) /\ WindowOf(m, ledger[m.term])
           /\ Traced(ledger[m.term], ledger) /\ Traced(log[m.to], ledger)
           /\ log'[m.to] = Merge(log[m.to], m.prev, m.entries)
           /\ \A i \in Server \ {m.to} : log'[i] = log[i]
           /\ UNCHANGED <<ledger, elections, matchIndex>>
           /\ appReqs' \subseteq appReqs
           /\ AppendReply(m, m.term, TRUE, 0)
<1>1. m.to \in Server /\ m.term \in DOMAIN ledger /\ ledger[m.term] \in Seq(Entry)
  BY LedgerTypes, LeaderListed
<1>2. /\ log' = [log EXCEPT ![m.to] = Merge(log[m.to], m.prev, m.entries)]
      /\ UNCHANGED <<ledger, elections, matchIndex>>
      /\ appReqs' \subseteq appReqs
      /\ AppendReply(m, m.term, TRUE, 0)
  BY DEF Takes, AppendEntries, leaderVars
<1>3. /\ log'[m.to] = Merge(log[m.to], m.prev, m.entries)
      /\ \A i \in Server \ {m.to} : log'[i] = log[i]
  BY <1>1, <1>2 DEF TypeInv, LogOK
<1>4. WindowOf(m, ledger[m.term]) /\ Traced(ledger[m.term], ledger) /\ Traced(log[m.to], ledger)
  BY <1>1 DEF LedgerInv, RequestsCut, LedgerTraced, LogsTraced
<1> QED
  BY <1>1, <1>2, <1>3, <1>4 DEF Takes

LEMMA TakesLedger ==
    ASSUME TypeInv, TypeInv', ElectionInv, LedgerInv, Orderly, NEW m \in appReqs, Takes(m)
    PROVE  LedgerInv'
<1> DEFINE j == m.to
           a == ledger[m.term]
           r == Merge(log[j], m.prev, m.entries)
<1>1. /\ j \in Server /\ a \in Seq(Entry) /\ log[j] \in Seq(Entry) /\ WellFormedAppend(m)
      /\ m.term \in Nat /\ Accepts(log[j], m) /\ WindowOf(m, a)
      /\ Traced(a, ledger) /\ Traced(log[j], ledger)
      /\ UNCHANGED <<ledger, elections>> /\ appReqs' \subseteq appReqs
      /\ log'[j] = r /\ \A i \in Server \ {j} : log'[i] = log[i]
  BY LedgerTypes, TakesMerges
<1>2. /\ role'[j] # Leader /\ currentTerm'[j] = m.term
      /\ \A i \in Server \ {j} : role'[i] = role[i]
  BY LeaderGetsNoAppend DEF LedgerInv, Takes, Follower, Leader
<1>3. r \in Seq(Entry) /\ (r = log[j] \/ Agree(a, r, Len(r)))
  BY <1>1, MergeAgrees
<1> HIDE DEF r
<1>4. Traced(r, ledger)
  BY <1>1, <1>3, SharedIsTraced
<1>5. UpTo(r, m.term)
  <2>1. UpTo(a, m.term)
    BY TakesMerges DEF LedgerInv, LedgerTraced
  <2>2. CASE r = log[j]
    <3>1. UpTo(log[j], currentTerm[j]) /\ currentTerm[j] \in Nat /\ currentTerm[j] <= m.term
      BY <1>1, <1>2, LedgerTypes DEF LedgerInv, LogsTraced, Orderly
    <3> QED
      BY <1>1, <2>2, <3>1, UpToLater
  <2>3. CASE Agree(a, r, Len(r))
    <3>1. Len(r) \in Nat /\ Len(a) \in Nat
      BY <1>1, <1>3, LenProperties
    <3>2. \A n \in 1..Len(r) : n \in 1..Len(a) /\ a[n] = r[n]
      BY <2>3, <3>1 DEF Agree
    <3> QED
      BY <2>1, <3>2 DEF UpTo
  <2> QED
    BY <1>3, <2>2, <2>3
<1>6. ASSUME NEW i \in Server, i # j
      PROVE  Traced(log'[i], ledger') /\ UpTo(log'[i], currentTerm'[i])
  <2>1. /\ Traced(log[i], ledger) /\ UpTo(log[i], currentTerm[i]) /\ log[i] \in Seq(Entry)
        /\ currentTerm[i] \in Nat /\ currentTerm'[i] \in Nat /\ currentTerm[i] <= currentTerm'[i]
    BY DEF LedgerInv, LogsTraced, Orderly, TypeInv, NodeOK, LogOK
  <2> QED
    BY <1>1, <1>6, <2>1, UpToLater
<1>7. LogsTraced'
  BY <1>1, <1>2, <1>4, <1>5, <1>6 DEF LogsTraced
<1>8. RequestsCut'
  BY <1>1 DEF LedgerInv, RequestsCut
<1> QED
  BY <1>1, <1>2, <1>7, <1>8, SameLedger

\* A node that becomes a leader is the first of its term.
LEMMA NewLeaderIsFirst ==
    ASSUME TypeInv, ElectionInv, ElectionInv', LedgerInv, NEW i \in Server,
           NEW voters \in SUBSET Server, Elects(i, voters)
    PROVE  /\ currentTerm[i] \notin DOMAIN ledger
           /\ DOMAIN ledger' = DOMAIN ledger \cup {currentTerm[i]}
           /\ ledger'[currentTerm[i]] = log[i]
           /\ \A t \in DOMAIN ledger : ledger'[t] = ledger[t]
           /\ \A e \in elections' : e \in elections \/ (e.term = currentTerm[i] /\ e.voters = voters)
           /\ elections \subseteq elections' /\ Won(currentTerm[i])'
           /\ Grows(ledger, ledger')
<1> DEFINE win == [term |-> currentTerm[i], leader |-> i, voters |-> voters]
<1>1. /\ elections' = elections \cup {win} /\ role[i] = Candidate
      /\ win.term = currentTerm[i] /\ win.leader = i /\ win.voters = voters
  BY DEF Elects, BecomeLeader
<1> HIDE DEF win
<1>2. ASSUME NEW e \in elections, e.term = currentTerm[i]
      PROVE  FALSE
  <2>1. e.leader = i
    BY <1>1, <1>2 DEF ElectionInv, ElectionSafety
  <2>2. Bound(i, i, currentTerm[i]) /\ currentTerm[i] \in Nat
    BY <1>2, <2>1 DEF ElectionInv, ElectionsInv, TypeInv, NodeOK
  <2> QED
    BY <1>1, <2>2 DEF Bound
<1>3. currentTerm[i] \notin DOMAIN ledger
  BY <1>2 DEF LedgerInv, LedgerTraced, Won
<1>4. ledger' = [t \in DOMAIN ledger \cup {currentTerm[i]} |->
                    IF t = currentTerm[i] THEN log[i] ELSE ledger[t]]
  BY DEF Elects, BecomeLeader
<1>5. /\ DOMAIN ledger' = DOMAIN ledger \cup {currentTerm[i]}
      /\ ledger'[currentTerm[i]] = log[i]
      /\ \A t \in DOMAIN ledger : ledger'[t] = ledger[t]
  BY <1>3, <1>4
<1>6. Grows(ledger, ledger')
  BY <1>5, LedgerTypes, LedgerGrows
<1>7. Won(currentTerm[i])'
  BY <1>1 DEF Won, Elects
<1> QED
  BY <1>1, <1>3, <1>5, <1>6, <1>7

LEMMA ElectsLedger ==
    ASSUME TypeInv, TypeInv', ElectionInv, ElectionInv', LedgerInv, Orderly,
           NEW i \in Server, NEW voters \in SUBSET Server, Elects(i, voters)
    PROVE  LedgerInv'
<1> DEFINE t == currentTerm[i]
<1>1. /\ t \notin DOMAIN ledger
      /\ DOMAIN ledger' = DOMAIN ledger \cup {t}
      /\ ledger'[t] = log[i]
      /\ \A u \in DOMAIN ledger : ledger'[u] = ledger[u]
      /\ \A e \in elections' : e \in elections \/ e.term = t
      /\ elections \subseteq elections' /\ Won(t)' /\ Grows(ledger, ledger')
  BY NewLeaderIsFirst
<1>2. /\ \A u \in DOMAIN ledger : ledger[u] \in Seq(Entry) /\ ledger'[u] \in Seq(Entry)
      /\ \A j \in Server : log[j] \in Seq(Entry)
      /\ \A u \in DOMAIN ledger' : ledger'[u] \in Seq(Entry)
  BY <1>1, LedgerTypes
<1>3. \A l \in Seq(Entry) : Traced(l, ledger) => Traced(l, ledger')
  BY <1>1, <1>2, GrowthKeeps
<1>4. /\ UNCHANGED <<currentTerm, log>> /\ Broadcast(i, log[i], nextIndex'[i])
      /\ role' = [role EXCEPT ![i] = Leader]
  BY DEF Elects, BecomeLeader
<1>5. LogsTraced'
  BY <1>2, <1>3, <1>4 DEF LedgerInv, LogsTraced
<1>6. LedgerTraced'
  <2>1. ASSUME NEW u \in DOMAIN ledger
        PROVE  Won(u)' /\ Traced(ledger'[u], ledger') /\ UpTo(ledger'[u], u)
    BY <1>1, <1>2, <1>3 DEF LedgerInv, LedgerTraced, Won
  <2>2. Won(t)' /\ Traced(ledger'[t], ledger') /\ UpTo(ledger'[t], t)
    BY <1>1, <1>2, <1>3 DEF LedgerInv, LogsTraced
  <2> QED
    BY <1>1, <1>4, <2>1, <2>2 DEF LedgerTraced, Won
<1>7. WinnersListed'
  BY <1>1 DEF LedgerInv, WinnersListed
<1>8. LeadersWrite'
  <2>1. ASSUME NEW j \in Server, role'[j] = Leader
        PROVE  log'[j] = ledger'[currentTerm'[j]]
    <3>1. CASE j = i
      BY <1>1, <1>4, <3>1
    <3>2. CASE j # i
      <4>1. role[j] = Leader
        BY <1>4, <2>1, <3>2 DEF TypeInv, NodeOK
      <4>2. currentTerm[j] \in DOMAIN ledger /\ log[j] = ledger[currentTerm[j]]
        BY <4>1, LeaderListed DEF LedgerInv, LeadersWrite
      <4> QED
        BY <1>1, <1>4, <4>2
    <3> QED
      BY <3>1, <3>2
  <2> QED
    BY <2>1 DEF LeadersWrite
<1>9. RequestsCut'
  <2>1. nextIndex'[i] \in [Server -> Nat]
    BY DEF TypeInv, LeaderOK
  <2>2. \A m \in appReqs' : m \in appReqs \/ (m.leader = i /\ m.to # i /\ m.term = t /\ WindowOf(m, log[i]))
    BY <1>2, <1>4, <2>1, BroadcastWindows
  <2>3. \A m \in appReqs : m.leader # m.to /\ WindowOf(m, ledger'[m.term])
    BY <1>1, LeaderListed DEF LedgerInv, RequestsCut
  <2> QED
    BY <1>1, <2>2, <2>3 DEF RequestsCut
<1> QED
  BY <1>5, <1>6, <1>7, <1>8, <1>9 DEF LedgerInv

\* What a leader proposes it adds to its log and to the ledger.
LEMMA ProposeAdds ==
    ASSUME TypeInv, ElectionInv, LedgerInv, NEW i \in Server, NEW p \in Proposal, Propose(i, p)
    PROVE  LET e == [term |-> currentTerm[i], cmd |-> p]
           IN  /\ e \in Entry /\ role[i] = Leader /\ currentTerm[i] \in DOMAIN ledger
               /\ log[i] = ledger[currentTerm[i]] /\ log'[i] = Append(log[i], e)
               /\ ledger'[currentTerm[i]] = Append(log[i], e) /\ DOMAIN ledger' = DOMAIN ledger
               /\ \A j \in Server \ {i} : log'[j] = log[j]
               /\ \A t \in DOMAIN ledger : t # currentTerm[i] => ledger'[t] = ledger[t]
               /\ Grows(ledger, ledger')
               /\ Broadcast(i, Append(log[i], e), nextIndex[i])
               /\ UNCHANGED <<currentTerm, role, commitIndex, matchIndex, appReps, elections>>
<1> DEFINE e == [term |-> currentTerm[i], cmd |-> p]
<1>1. /\ role[i] = Leader /\ currentTerm[i] \in Nat \ {0} /\ log[i] \in Seq(Entry)
      /\ currentTerm[i] \in DOMAIN ledger /\ log[i] = ledger[currentTerm[i]]
      /\ UNCHANGED <<currentTerm, role, commitIndex, matchIndex, appReps, elections>>
  BY LeaderListed
     DEF Propose, TypeInv, NodeOK, LogOK, Leader, Follower, LedgerInv, LeadersWrite, nodeVars, leaderVars
<1>2. e \in Entry
  BY <1>1 DEF Entry
<1>3. /\ log' = [log EXCEPT ![i] = Append(log[i], e)]
      /\ ledger' = [ledger EXCEPT ![currentTerm[i]] = Append(log[i], e)]
      /\ Broadcast(i, Append(log[i], e), nextIndex[i])
  BY DEF Propose
<1> HIDE DEF e
<1>4. /\ log'[i] = Append(log[i], e) /\ \A j \in Server \ {i} : log'[j] = log[j]
      /\ ledger'[currentTerm[i]] = Append(log[i], e) /\ DOMAIN ledger' = DOMAIN ledger
      /\ \A t \in DOMAIN ledger : t # currentTerm[i] => ledger'[t] = ledger[t]
  BY <1>1, <1>3 DEF TypeInv, LogOK
<1>5. \A t \in DOMAIN ledger : ledger[t] \in Seq(Entry)
  BY LedgerTypes
<1>6. Grows(ledger, ledger')
  <2>1. \A t \in DOMAIN ledger : ledger'[t] = ledger[t] \/ ledger'[t] = Append(ledger[t], e)
    BY <1>1, <1>4
  <2> QED
    BY <1>2, <1>4, <1>5, <2>1, LedgerGrows
<1> QED
  BY <1>1, <1>2, <1>3, <1>4, <1>6 DEF e

LEMMA ProposeLedger ==
    ASSUME TypeInv, TypeInv', ElectionInv, LedgerInv, NEW i \in Server, NEW p \in Proposal, Propose(i, p)
    PROVE  LedgerInv'
<1> DEFINE t == currentTerm[i]
           e == [term |-> t, cmd |-> p]
           l == Append(log[i], e)
<1>1. /\ e \in Entry /\ e.term = t /\ role[i] = Leader /\ t \in DOMAIN ledger
      /\ log[i] = ledger[t] /\ log'[i] = l
      /\ ledger'[t] = l /\ DOMAIN ledger' = DOMAIN ledger
      /\ \A j \in Server \ {i} : log'[j] = log[j]
      /\ \A u \in DOMAIN ledger : u # t => ledger'[u] = ledger[u]
      /\ Grows(ledger, ledger')
      /\ Broadcast(i, l, nextIndex[i])
      /\ UNCHANGED <<currentTerm, role, elections>>
  BY ProposeAdds
<1>2. /\ \A u \in DOMAIN ledger : ledger[u] \in Seq(Entry)
      /\ \A u \in DOMAIN ledger' : ledger'[u] \in Seq(Entry)
      /\ \A j \in Server : log[j] \in Seq(Entry) /\ nextIndex[j] \in [Server -> Nat]
  BY <1>1, LedgerTypes DEF TypeInv, RestOK
<1> HIDE DEF e
<1>3. l \in Seq(Entry) /\ Len(log[i]) \in Nat /\ Len(l) = Len(log[i]) + 1 /\ l[Len(log[i]) + 1] = e
      /\ \A n \in 1..Len(log[i]) : l[n] = log[i][n]
  BY <1>1, <1>2, AppendProperties, LenProperties
<1> HIDE DEF l
<1>4. /\ \A k \in Seq(Entry) : Traced(k, ledger) => Traced(k, ledger')
      /\ \A u \in DOMAIN ledger : \A m : WellFormedAppend(m) /\ WindowOf(m, ledger[u]) => WindowOf(m, ledger'[u])
  BY <1>1, <1>2, GrowthKeeps
<1>5. Traced(l, ledger') /\ UpTo(l, t)
  <2>1. Traced(log[i], ledger') /\ UpTo(log[i], t)
    BY <1>2, <1>4 DEF LedgerInv, LogsTraced
  <2>2. ASSUME NEW n \in 1..Len(l)
        PROVE  l[n].term \in DOMAIN ledger' /\ Agree(l, ledger'[l[n].term], n) /\ l[n].term <= t
    <3>1. CASE n = Len(log[i]) + 1
      <4>1. l[n].term = t /\ t <= t
        BY <1>1, <1>3, <3>1, LedgerTypes
      <4> QED
        BY <1>1, <1>3, <3>1, <4>1 DEF Agree
    <3>2. CASE n # Len(log[i]) + 1
      <4>1. n \in 1..Len(log[i]) /\ l[n] = log[i][n]
        BY <1>3, <3>2
      <4>2. l[n].term \in DOMAIN ledger' /\ Agree(log[i], ledger'[l[n].term], n) /\ l[n].term <= t
        BY <2>1, <4>1 DEF Traced, UpTo
      <4> QED
        BY <1>3, <4>1, <4>2 DEF Agree
    <3> QED
      BY <3>1, <3>2
  <2> QED
    BY <2>2 DEF Traced, UpTo
<1>6. LogsTraced'
  BY <1>1, <1>2, <1>4, <1>5 DEF LedgerInv, LogsTraced
<1>7. LedgerTraced'
  <2>1. ASSUME NEW u \in DOMAIN ledger
        PROVE  Won(u)' /\ Traced(ledger'[u], ledger') /\ UpTo(ledger'[u], u)
    <3>1. Won(u)' /\ Traced(ledger[u], ledger') /\ UpTo(ledger[u], u)
      BY <1>1, <1>2, <1>4 DEF LedgerInv, LedgerTraced, Won
    <3> QED
      BY <1>1, <1>5, <3>1
  <2> QED
    BY <1>1, <2>1 DEF LedgerTraced, Won
<1>8. WinnersListed'
  BY <1>1 DEF LedgerInv, WinnersListed
<1>9. LeadersWrite'
  <2>1. ASSUME NEW j \in Server, role[j] = Leader, j # i
        PROVE  log'[j] = ledger'[currentTerm[j]]
    <3>1. currentTerm[j] \in DOMAIN ledger /\ log[j] = ledger[currentTerm[j]]
      BY <2>1, LeaderListed DEF LedgerInv, LeadersWrite
    <3>2. currentTerm[j] # t
      BY <1>1, <2>1 DEF ElectionInv, RolesInv, ElectionSafety
    <3> QED
      BY <1>1, <2>1, <3>1, <3>2
  <2> QED
    BY <1>1, <2>1 DEF LeadersWrite
<1>10. RequestsCut'
  <2>1. \A m \in appReqs' : m \in appReqs \/ (m.leader = i /\ m.to # i /\ m.term = t /\ WindowOf(m, l))
    BY <1>1, <1>2, <1>3, BroadcastWindows
  <2>2. \A m \in appReqs : m.leader # m.to /\ WindowOf(m, ledger'[m.term])
    BY <1>4, LeaderListed, LedgerTypes DEF LedgerInv, RequestsCut
  <2> QED
    BY <1>1, <2>1, <2>2 DEF RequestsCut
<1> QED
  BY <1>6, <1>7, <1>8, <1>9, <1>10 DEF LedgerInv

LEMMA LedgerInvStep == TypeInv /\ ElectionInv /\ LedgerInv /\ [Next]_vars => LedgerInv'
<1> SUFFICES ASSUME TypeInv, ElectionInv, LedgerInv, [Next]_vars
             PROVE  LedgerInv'
  OBVIOUS
<1>0. TypeInv' /\ ElectionInv'
  BY TypeInvStep, ElectionInvStep
<1>1. /\ Orderly
      /\ \/ Rests
         \/ \E i \in Server : \E voters \in SUBSET Server : Elects(i, voters)
         \/ \E i \in Server : Sends(i)
         \/ \E i \in Server, p \in Proposal : Propose(i, p)
         \/ \E m \in appReqs : Takes(m)
         \/ \E m \in appReps : Counts(m)
  BY StepKinds DEF LedgerInv
<1>2. ASSUME Rests \/ \E m \in appReps : Counts(m)
      PROVE  LedgerInv'
  <2>1. /\ UNCHANGED <<log, ledger, elections>> /\ appReqs' \subseteq appReqs
        /\ \A i \in Server : role'[i] = Leader => role[i] = Leader
    BY <1>2 DEF Rests, Counts
  <2>2. LogsTraced' /\ RequestsCut'
    BY <1>0, <1>1, <2>1, SameLogs DEF LedgerInv, RequestsCut
  <2> QED
    BY <1>1, <2>1, <2>2, SameLedger
<1> QED
  BY <1>0, <1>1, <1>2, ElectsLedger, SendsLedger, ProposeLedger, TakesLedger

LEMMA LedgerInvImplies == TypeInv /\ LedgerInv => LogMatching
<1> SUFFICES ASSUME TypeInv, LedgerInv, NEW i \in Server, NEW j \in Server,
                    NEW n \in 1..Min({Len(log[i]), Len(log[j])}),
                    log[i][n].term = log[j][n].term
             PROVE  SubSeq(log[i], 1, n) = SubSeq(log[j], 1, n)
  BY DEF LogMatching
<1>1. log[i] \in Seq(Entry) /\ log[j] \in Seq(Entry) /\ Len(log[i]) \in Nat /\ Len(log[j]) \in Nat
  BY LedgerTypes
<1>2. n \in Nat /\ n \in 1..Len(log[i]) /\ n \in 1..Len(log[j])
  <2>1. /\ Min({Len(log[i]), Len(log[j])}) \in Nat
        /\ Min({Len(log[i]), Len(log[j])}) <= Len(log[i])
        /\ Min({Len(log[i]), Len(log[j])}) <= Len(log[j])
    BY <1>1, MinOfPair
  <2> QED
    BY <1>1, <2>1
<1>3. TermAt(log[i], n) = TermAt(log[j], n)
  BY <1>2 DEF TermAt
<1>4. Agree(log[i], log[j], n)
  BY <1>1, <1>2, <1>3, SameTermAgrees DEF LedgerInv, LogsTraced
<1> QED
  BY <1>1, <1>2, <1>4, SamePrefix

\* Two logs with an entry of one term at one index are the same up to it: what
\* the check of prevLogTerm and the cut at the first conflict (raft.go:618-650)
\* are for, in a cluster of any size and for logs of any length.
THEOREM LogsAlwaysMatch == Spec => []LogMatching
<1>1. Init => TypeInv /\ ElectionInv /\ LedgerInv
  BY TypeInvInit, ElectionInvInit, LedgerInvInit
<1>2. TypeInv /\ ElectionInv /\ LedgerInv /\ [Next]_vars => TypeInv' /\ ElectionInv' /\ LedgerInv'
  BY TypeInvStep, ElectionInvStep, LedgerInvStep
<1>3. TypeInv /\ LedgerInv => LogMatching
  BY LedgerInvImplies
<1> QED
  BY <1>1, <1>2, <1>3, PTL DEF Spec

-----------------------------------------------------------------------------
(* What a leader counts is there *)

\* Node j was told n entries of the leader of term t, and holds them at least
\* until it moves to a later term.
Holds(j, n, t) ==
    /\ currentTerm[j] >= t
    /\ n <= Len(ledger[t])
    /\ currentTerm[j] = t => Agree(ledger[t], log[j], n)

RepliesHold ==
    \A r \in appReps : r.success => r.reqTerm \in DOMAIN ledger /\ Holds(r.from, r.match, r.reqTerm)
CountsHold ==
    \A i, j \in Server : role[i] = Leader =>
        matchIndex[i][j] = 0 \/ Holds(j, matchIndex[i][j], currentTerm[i])

ReplicaInv == RepliesHold /\ CountsHold

LEMMA LedgerGrowth ==
    ASSUME TypeInv, ElectionInv, LedgerInv, [Next]_vars
    PROVE  Grows(ledger, ledger') /\ elections \subseteq elections'
<1>0. ElectionInv'
  BY ElectionInvStep
<1>1. \/ Rests
      \/ \E i \in Server : \E voters \in SUBSET Server : Elects(i, voters)
      \/ \E i \in Server : Sends(i)
      \/ \E i \in Server, p \in Proposal : Propose(i, p)
      \/ \E m \in appReqs : Takes(m)
      \/ \E m \in appReps : Counts(m)
  BY StepKinds DEF LedgerInv
<1>2. CASE UNCHANGED <<ledger, elections>>
  <2>1. Grows(ledger, ledger')
    BY <1>2, LedgerTypes, LedgerGrows
  <2> QED
    BY <1>2, <2>1
<1>3. ASSUME NEW i \in Server, NEW voters \in SUBSET Server, Elects(i, voters)
      PROVE  Grows(ledger, ledger') /\ elections \subseteq elections'
  BY <1>0, <1>3, NewLeaderIsFirst
<1>4. ASSUME NEW i \in Server, NEW p \in Proposal, Propose(i, p)
      PROVE  Grows(ledger, ledger') /\ elections \subseteq elections'
  BY <1>4, ProposeAdds
<1>5. ASSUME NEW m \in appReqs, Takes(m)
      PROVE  UNCHANGED <<ledger, elections>>
  BY <1>5, TakesMerges
<1> QED
  BY <1>1, <1>2, <1>3, <1>4, <1>5 DEF Rests, Sends, Counts

\* What a node's log shares with the ledger it goes on sharing, unless the
\* leader it listens to disagrees.
LEMMA KeepsAgreement ==
    ASSUME TypeInv, TypeInv', ElectionInv, LedgerInv, [Next]_vars,
           NEW j \in Server, NEW t \in DOMAIN ledger, NEW n \in Nat, Agree(ledger[t], log[j], n),
           \A m \in appReqs : m.to = j /\ AppendEntries(m) => Agree(ledger[m.term], ledger[t], n)
    PROVE  Agree(ledger'[t], log'[j], n)
<1>1. \/ Rests
      \/ \E i \in Server : \E voters \in SUBSET Server : Elects(i, voters)
      \/ \E i \in Server : Sends(i)
      \/ \E i \in Server, p \in Proposal : Propose(i, p)
      \/ \E m \in appReqs : Takes(m)
      \/ \E m \in appReps : Counts(m)
  BY StepKinds DEF LedgerInv
<1>2. /\ ledger[t] \in Seq(Entry) /\ log[j] \in Seq(Entry)
      /\ \A u \in DOMAIN ledger : ledger[u] \in Seq(Entry)
      /\ \A u \in DOMAIN ledger' : ledger'[u] \in Seq(Entry)
      /\ Grows(ledger, ledger')
  BY LedgerTypes, LedgerGrowth DEF TypeInv, RestOK
<1>3. Agree(ledger'[t], log[j], n)
  BY <1>2, GrowthKeeps
<1>4. CASE log'[j] = log[j]
  BY <1>3, <1>4
<1>5. ASSUME NEW i \in Server, NEW p \in Proposal, Propose(i, p)
      PROVE  Agree(ledger'[t], log'[j], n)
  <2>1. CASE i # j
    <3>1. log'[j] = log[j]
      BY <1>5, <2>1, ProposeAdds
    <3> QED
      BY <1>3, <3>1
  <2>2. CASE i = j
    <3>1. PICK e \in Entry : log'[j] = Append(log[j], e)
      BY <1>5, <2>2, ProposeAdds
    <3>2. Len(log'[j]) = Len(log[j]) + 1 /\ Len(log[j]) \in Nat
          /\ \A h \in 1..Len(log[j]) : log'[j][h] = log[j][h]
      BY <1>2, <3>1, AppendProperties, LenProperties
    <3> QED
      BY <1>3, <3>2 DEF Agree
  <2> QED
    BY <2>1, <2>2
<1>6. ASSUME NEW m \in appReqs, Takes(m)
      PROVE  Agree(ledger'[t], log'[j], n)
  <2>1. CASE m.to # j
    BY <1>4, <1>6, <2>1, TakesMerges
  <2>2. CASE m.to = j
    <3> DEFINE a == ledger[m.term]
               r == Merge(log[j], m.prev, m.entries)
    <3>1. /\ a \in Seq(Entry) /\ WellFormedAppend(m) /\ Accepts(log[j], m) /\ WindowOf(m, a)
          /\ log'[j] = r /\ ledger' = ledger
          /\ Agree(a, ledger[t], n)
      BY <1>6, <2>2, TakesMerges, LedgerTypes DEF Takes
    <3> HIDE DEF a
    <3>2. Agree(a, log[j], n)
      BY <1>2, <3>1, AgreeFacts
    <3>3. Agree(a, r, n)
      BY <1>2, <3>1, <3>2, MergeKeepsAgreement DEF Accepts
    <3> HIDE DEF r
    <3>4. Agree(ledger[t], a, n)
      BY <1>2, <3>1, AgreeFacts
    <3> QED
      BY <1>2, <3>1, <3>3, <3>4, AgreeFacts
  <2> QED
    BY <2>1, <2>2
<1> QED
  BY <1>1, <1>4, <1>5, <1>6 DEF Rests, Elects, Sends, Counts

LEMMA HoldsStep ==
    ASSUME TypeInv, TypeInv', ElectionInv, LedgerInv, [Next]_vars,
           NEW j \in Server, NEW n \in Nat, NEW t \in DOMAIN ledger, Holds(j, n, t)
    PROVE  /\ currentTerm'[j] >= t
           /\ n <= Len(ledger'[t])
           /\ currentTerm'[j] = t => Agree(ledger'[t], log'[j], n)
<1>1. /\ t \in Nat /\ currentTerm[j] \in Nat /\ currentTerm'[j] \in Nat
      /\ currentTerm[j] <= currentTerm'[j]
      /\ t \in DOMAIN ledger' /\ Len(ledger[t]) \in Nat /\ Len(ledger'[t]) \in Nat
      /\ ledger[t] \in Seq(Entry)
  <2>1. Grows(ledger, ledger') /\ Orderly
    BY LedgerGrowth, StepKinds DEF LedgerInv
  <2>2. t \in DOMAIN ledger'
    BY <2>1 DEF Grows
  <2>3. Len(ledger'[t]) \in Nat
    BY <2>2, LenProperties DEF TypeInv, RestOK
  <2> QED
    BY <2>1, <2>2, <2>3, LedgerTypes DEF Orderly, TypeInv, NodeOK
<1>2. n <= Len(ledger'[t])
  <2>1. Len(ledger[t]) <= Len(ledger'[t])
    BY LedgerGrowth DEF Grows, Agree
  <2> QED
    BY <1>1, <2>1 DEF Holds
<1>3. ASSUME currentTerm'[j] = t
      PROVE  Agree(ledger'[t], log'[j], n)
  <2>1. Agree(ledger[t], log[j], n)
    BY <1>1, <1>3 DEF Holds
  <2>2. \A m \in appReqs : m.to = j /\ AppendEntries(m) => Agree(ledger[m.term], ledger[t], n)
    <3>1. Agree(ledger[t], ledger[t], n)
      BY <2>1 DEF Agree
    <3>2. \A m \in appReqs : m.to = j /\ AppendEntries(m) => m.term = t
      BY <1>3, LeaderGetsNoAppend DEF LedgerInv
    <3> QED
      BY <3>1, <3>2
  <2> QED
    BY <2>1, <2>2, KeepsAgreement
<1>4. currentTerm'[j] >= t
  BY <1>1 DEF Holds
<1> QED
  BY <1>2, <1>3, <1>4

\* The one reply a step adds with success.
LEMMA NewSuccess ==
    ASSUME TypeInv, TypeInv', ElectionInv, LedgerInv, [Next]_vars,
           NEW r \in appReps', r \notin appReps, r.success
    PROVE  \E m \in appReqs :
              /\ Takes(m)
              /\ r.from = m.to /\ r.reqTerm = m.term /\ m.term \in DOMAIN ledger /\ ledger' = ledger
              /\ elections' = elections
              /\ currentTerm'[m.to] = m.term /\ currentTerm[m.to] <= m.term
              /\ r.match = m.prev + Len(m.entries)
              /\ Agree(ledger[m.term], log'[m.to], r.match)
<1>1. \/ Rests
      \/ \E i \in Server : \E voters \in SUBSET Server : Elects(i, voters)
      \/ \E i \in Server : Sends(i)
      \/ \E i \in Server, p \in Proposal : Propose(i, p)
      \/ \E m \in appReqs : Takes(m)
      \/ \E m \in appReps : Counts(m)
  BY StepKinds DEF LedgerInv
<1>2. PICK m \in appReqs : Takes(m)
  BY <1>1, ProposeAdds DEF Rests, Elects, Sends, Counts
<1>3. /\ m.term \in DOMAIN ledger /\ ledger[m.term] \in Seq(Entry) /\ log[m.to] \in Seq(Entry)
      /\ Accepts(log[m.to], m) /\ WindowOf(m, ledger[m.term]) /\ WellFormedAppend(m)
      /\ Traced(ledger[m.term], ledger) /\ Traced(log[m.to], ledger)
      /\ log'[m.to] = Merge(log[m.to], m.prev, m.entries)
      /\ UNCHANGED <<ledger, elections>> /\ AppendReply(m, m.term, TRUE, 0)
  BY <1>2, TakesMerges, LedgerTypes
<1>4. r.from = m.to /\ r.reqTerm = m.term /\ r.match = m.prev + Len(m.entries)
  BY <1>3 DEF AppendReply
<1>5. Agree(ledger[m.term], Merge(log[m.to], m.prev, m.entries), m.prev + Len(m.entries))
  BY <1>3, MergeAgrees
<1>6. currentTerm'[m.to] = m.term /\ currentTerm[m.to] <= m.term
  BY <1>2, LeaderGetsNoAppend DEF LedgerInv, Takes
<1> QED
  BY <1>2, <1>3, <1>4, <1>5, <1>6

\* What a leader's count may change to.
LEMMA CountMoves ==
    ASSUME TypeInv, TypeInv', ElectionInv, LedgerInv, [Next]_vars,
           NEW i \in Server, NEW j \in Server, role'[i] = Leader, matchIndex'[i][j] # 0
    PROVE  /\ role[i] = Leader /\ currentTerm'[i] = currentTerm[i]
           /\ \/ matchIndex'[i][j] = matchIndex[i][j]
              \/ \E r \in appReps : /\ r.success /\ r.from = j /\ r.reqTerm = currentTerm[i]
                                    /\ r.match = matchIndex'[i][j]
<1>1. \/ Rests
      \/ \E k \in Server : \E voters \in SUBSET Server : Elects(k, voters)
      \/ \E k \in Server : Sends(k)
      \/ \E k \in Server, p \in Proposal : Propose(k, p)
      \/ \E m \in appReqs : Takes(m)
      \/ \E m \in appReps : Counts(m)
  BY StepKinds DEF LedgerInv
<1>2. currentTerm'[i] = currentTerm[i]
  BY StepKinds DEF LedgerInv, Orderly
<1>3. CASE role[i] = Leader /\ matchIndex' = matchIndex
  BY <1>2, <1>3
<1>4. ASSUME NEW k \in Server, NEW voters \in SUBSET Server, Elects(k, voters)
      PROVE  role[i] = Leader /\ matchIndex'[i][j] = matchIndex[i][j]
  <2>1. /\ matchIndex' = [matchIndex EXCEPT ![k] = ForPeers(0)]
        /\ role' = [role EXCEPT ![k] = Leader]
    BY <1>4 DEF Elects, BecomeLeader
  <2>2. i # k
    BY <2>1 DEF TypeInv, LeaderOK, ForPeers
  <2> QED
    BY <2>1, <2>2 DEF TypeInv, LeaderOK, NodeOK
<1>5. ASSUME NEW m \in appReqs, Takes(m)
      PROVE  role[i] = Leader /\ matchIndex' = matchIndex
  <2>1. role'[i] = role[i] \/ role'[i] = Follower
    BY <1>5, LeaderGetsNoAppend DEF LedgerInv, Takes
  <2> QED
    BY <1>5, <2>1, TakesMerges DEF Follower, Leader
<1>6. ASSUME NEW r \in appReps, Counts(r)
      PROVE  /\ role[i] = Leader
             /\ \/ matchIndex'[i][j] = matchIndex[i][j]
                \/ r.success /\ r.from = j /\ r.reqTerm = currentTerm[i] /\ r.match = matchIndex'[i][j]
  <2>1. /\ r.to \in Server /\ r.from \in Server /\ r.match \in Nat /\ matchIndex[i] \in [Server -> Nat]
        /\ matchIndex' = [matchIndex EXCEPT ![r.to][r.from] = Max({@, r.match})]
        /\ UNCHANGED <<currentTerm, role>> /\ r.success /\ currentTerm[r.to] = r.reqTerm
    BY <1>6, LedgerTypes DEF Counts
  <2>2. CASE i = r.to /\ j = r.from
    <3>1. matchIndex'[i][j] = Max({matchIndex[i][j], r.match})
      BY <2>1, <2>2 DEF TypeInv, LeaderOK
    <3>2. Max({matchIndex[i][j], r.match}) \in {matchIndex[i][j], r.match}
      BY <2>1, MaxOfPair
    <3> QED
      BY <2>1, <2>2, <3>1, <3>2
  <2>3. CASE ~(i = r.to /\ j = r.from)
    BY <2>1, <2>3 DEF TypeInv, LeaderOK
  <2> QED
    BY <2>2, <2>3
<1> QED
  BY <1>1, <1>2, <1>3, <1>4, <1>5, <1>6, ProposeAdds DEF Rests, Sends

LEMMA ReplicaInvInit == Init => ReplicaInv
  BY DEF Init, ForPeers, ReplicaInv, RepliesHold, CountsHold, Follower, Leader

LEMMA ReplicaInvStep ==
    TypeInv /\ ElectionInv /\ LedgerInv /\ ReplicaInv /\ [Next]_vars => ReplicaInv'
<1> SUFFICES ASSUME TypeInv, ElectionInv, LedgerInv, ReplicaInv, [Next]_vars
             PROVE  ReplicaInv'
  OBVIOUS
<1>0. TypeInv' /\ DOMAIN ledger \subseteq DOMAIN ledger'
  BY TypeInvStep, LedgerGrowth DEF Grows
<1>1. ASSUME NEW r \in appReps', r.success
      PROVE  r.reqTerm \in DOMAIN ledger' /\ Holds(r.from, r.match, r.reqTerm)'
  <2>1. CASE r \in appReps
    <3>1. /\ r.reqTerm \in DOMAIN ledger /\ Holds(r.from, r.match, r.reqTerm)
          /\ r.from \in Server /\ r.match \in Nat
      BY <1>1, <2>1, LedgerTypes DEF ReplicaInv, RepliesHold
    <3>2. /\ currentTerm'[r.from] >= r.reqTerm
          /\ r.match <= Len(ledger'[r.reqTerm])
          /\ currentTerm'[r.from] = r.reqTerm => Agree(ledger'[r.reqTerm], log'[r.from], r.match)
      BY <1>0, <3>1, HoldsStep
    <3> QED
      BY <1>0, <3>1, <3>2 DEF Holds
  <2>2. CASE r \notin appReps
    <3>1. PICK m \in appReqs :
             /\ r.from = m.to /\ r.reqTerm = m.term /\ m.term \in DOMAIN ledger /\ ledger' = ledger
             /\ currentTerm'[m.to] = m.term
             /\ Agree(ledger[m.term], log'[m.to], r.match)
      BY <1>0, <1>1, <2>2, NewSuccess
    <3>2. m.term \in Nat
      BY LedgerTypes
    <3> QED
      BY <3>1, <3>2 DEF Holds, Agree
  <2> QED
    BY <2>1, <2>2
<1>2. ASSUME NEW i \in Server, NEW j \in Server, role'[i] = Leader, matchIndex'[i][j] # 0
      PROVE  Holds(j, matchIndex[i][j], currentTerm[i])'
  <2>1. /\ role[i] = Leader /\ currentTerm'[i] = currentTerm[i]
        /\ \/ matchIndex'[i][j] = matchIndex[i][j]
           \/ \E r \in appReps : /\ r.success /\ r.from = j /\ r.reqTerm = currentTerm[i]
                                 /\ r.match = matchIndex'[i][j]
    BY <1>0, <1>2, CountMoves
  <2>2. Holds(j, matchIndex'[i][j], currentTerm[i])
    BY <1>2, <2>1 DEF ReplicaInv, RepliesHold, CountsHold
  <2>3. currentTerm[i] \in DOMAIN ledger /\ matchIndex'[i][j] \in Nat
    BY <1>0, <2>1, LeaderListed DEF TypeInv, LeaderOK
  <2>4. /\ currentTerm'[j] >= currentTerm[i]
        /\ matchIndex'[i][j] <= Len(ledger'[currentTerm[i]])
        /\ currentTerm'[j] = currentTerm[i] =>
              Agree(ledger'[currentTerm[i]], log'[j], matchIndex'[i][j])
    BY <1>0, <2>2, <2>3, HoldsStep
  <2> QED
    BY <2>1, <2>4 DEF Holds
<1> QED
  BY <1>1, <1>2 DEF ReplicaInv, RepliesHold, CountsHold

LEMMA ReplicaInvImplies == TypeInv /\ LedgerInv /\ ReplicaInv => MatchIndexIsReal
<1> SUFFICES ASSUME TypeInv, LedgerInv, ReplicaInv, NEW i \in Server, NEW j \in Server,
                    role[i] = Leader, currentTerm[j] = currentTerm[i]
             PROVE  /\ matchIndex[i][j] <= Min({Len(log[i]), Len(log[j])})
                    /\ \A n \in 1..matchIndex[i][j] : log[i][n] = log[j][n]
  BY DEF MatchIndexIsReal
<1>1. matchIndex[i][j] \in Nat /\ Len(log[i]) \in Nat /\ Len(log[j]) \in Nat
  BY LedgerTypes
<1>2. Agree(log[i], log[j], matchIndex[i][j])
  <2>1. CASE matchIndex[i][j] = 0
    BY <1>1, <2>1 DEF Agree
  <2>2. CASE matchIndex[i][j] # 0
    BY <2>2 DEF ReplicaInv, CountsHold, Holds, LedgerInv, LeadersWrite
  <2> QED
    BY <2>1, <2>2
<1>3. Min({Len(log[i]), Len(log[j])}) \in {Len(log[i]), Len(log[j])}
  BY <1>1, MinOfPair
<1> QED
  BY <1>1, <1>2, <1>3 DEF Agree

\* What a leader counts towards a commit is in the follower's log, whatever is
\* delayed, lost or reordered: the success reply carries the index the request
\* itself reached (raft.go:425-433), not the end of the follower's log.
THEOREM CountedIsReplicated == Spec => []MatchIndexIsReal
<1>1. Init => TypeInv /\ ElectionInv /\ LedgerInv /\ ReplicaInv
  BY TypeInvInit, ElectionInvInit, LedgerInvInit, ReplicaInvInit
<1>2. TypeInv /\ ElectionInv /\ LedgerInv /\ ReplicaInv /\ [Next]_vars
      => TypeInv' /\ ElectionInv' /\ LedgerInv' /\ ReplicaInv'
  BY TypeInvStep, ElectionInvStep, LedgerInvStep, ReplicaInvStep
<1>3. TypeInv /\ LedgerInv /\ ReplicaInv => MatchIndexIsReal
  BY ReplicaInvImplies
<1> QED
  BY <1>1, <1>2, <1>3, PTL DEF Spec

-----------------------------------------------------------------------------
(***************************************************************************)
(* What commits: it is final, every later leader holds it, no two nodes    *)
(* differ on it, and whoever was told that a command is committed can rely *)
(* on it.                                                                  *)
(*                                                                         *)
(* An entry its own leader wrote is chosen once a quorum keeps it: each of *)
(* its nodes holds it, and stands behind no candidate that misses it.  The *)
(* argument follows the acknowledgements, of which the leader may know     *)
(* only some: as long as they may still be a quorum that no election of a  *)
(* later term has passed by, every node that gave one keeps the entry, and *)
(* the leaders elected since hold it.                                      *)
(***************************************************************************)

Standing(c, t) == role[c] = Candidate /\ currentTerm[c] = t

\* A request for votes tells what its candidate's log holds as long as it stands.
VoteReqsTrue ==
    \A m \in voteReqs :
        /\ m.term <= currentTerm[m.cand]
        /\ Standing(m.cand, m.term) => m.lastIndex = Len(log[m.cand]) /\ m.lastTerm = LastTerm(log[m.cand])
GrantsPast == \A g \in Grants : g.term <= currentTerm[g.cand]

VotesInv == VoteReqsTrue /\ GrantsPast

\* Entry n of the leader of term t, which that leader wrote itself.
Own(n, t) == t \in DOMAIN ledger /\ n \in 1..Len(ledger[t]) /\ ledger[t][n].term = t

\* Every leader since holds what the leader of term t held up to n.
Later(n, t) == \A u \in DOMAIN ledger : u > t => Agree(ledger[u], ledger[t], n)

\* Node w holds it, and so does each candidate that has its vote.
Kept(w, n, t) ==
    /\ currentTerm[w] >= t
    /\ Agree(ledger[t], log[w], n)
    /\ \A g \in Grants : g.voter = w /\ g.term > t /\ Standing(g.cand, g.term) =>
          Agree(ledger[t], log[g.cand], n)

\* Node w has told the leader of term t that it holds it, or is that leader.
Acked(w, n, t) ==
    \/ \E r \in appReps : r.success /\ r.from = w /\ r.reqTerm = t /\ r.match >= n
    \/ \E i \in Server : role[i] = Leader /\ currentTerm[i] = t /\ (i = w \/ matchIndex[i][w] >= n)

\* A quorum may yet be found to have acknowledged it: no later election was won
\* without a node that has.
Possible(n, t) == \A e \in elections : e.term > t => \E w \in e.voters : Acked(w, n, t)

AckInv ==
    \A t, n \in Nat : Own(n, t) /\ Possible(n, t) =>
        Later(n, t) /\ \A w \in Server : Acked(w, n, t) => Kept(w, n, t)

Chosen(n, t) ==
    /\ Own(n, t) /\ Later(n, t)
    /\ \E Q \in SUBSET Server : IsQuorum(Cardinality(Q)) /\ \A w \in Q : Kept(w, n, t)

\* The first c entries of the log l are part of what was chosen in a term up to u.
Settled(c, l, u) ==
    c = 0 \/ \E t \in DOMAIN ledger : t <= u /\ \E n \in c..Len(ledger[t]) :
                Chosen(n, t) /\ Agree(ledger[t], l, c)

NodesSettled == \A i \in Server : Settled(commitIndex[i], log[i], currentTerm[i])
RequestsSettled ==
    \A m \in appReqs : /\ m.commit <= m.prev + Len(m.entries)
                       /\ Settled(m.commit, ledger[m.term], m.term)

CommitInv == NodesSettled /\ RequestsSettled

-----------------------------------------------------------------------------
(* Votes *)

\* A step adds at most one vote, for a candidate whose log is up to date.
LEMMA RequestVoteGrants ==
    ASSUME TypeInv, NEW m \in voteReqs, RequestVote(m), NEW g \in Grants'
    PROVE  \/ g \in Grants
           \/ /\ g.voter = m.to /\ g.cand = m.cand /\ g.term = m.term
              /\ m.term >= currentTerm[m.to]
              /\ UpToDate(m.lastTerm, m.lastIndex, log[m.to])
<1> DEFINE i     == m.to
           newer == m.term > currentTerm[i]
           free  == newer \/ votedFor[i] = Nil \/ votedFor[i] = m.cand
           grant == /\ m.term >= currentTerm[i]
                    /\ free
                    /\ UpToDate(m.lastTerm, m.lastIndex, log[i])
<1>1. /\ votes' = votes /\ i \in Server
      /\ \A j \in Server : role'[j] = Candidate => role[j] = Candidate /\ currentTerm'[j] = currentTerm[j]
  BY DEF RequestVote, TypeInv, NodeOK, VoteReqs, Follower, Candidate
<1>2. ASSUME NEW r \in voteReps', r.granted,
             g = [voter |-> r.from, cand |-> r.to, term |-> r.reqTerm]
      PROVE  g \in Grants \/ (grant /\ g.voter = i /\ g.cand = m.cand /\ g.term = m.term)
  <2>1. CASE r \in voteReps
    BY <1>2, <2>1 DEF Grants
  <2>2. CASE r \notin voteReps
    <3>1. r = [reqTerm |-> m.term, from |-> i, to |-> m.cand, granted |-> grant,
               term |-> IF newer THEN m.term ELSE currentTerm[i]]
      BY <2>2 DEF RequestVote
    <3> HIDE DEF grant, newer
    <3>2. r.granted = grant /\ r.from = i /\ r.to = m.cand /\ r.reqTerm = m.term
      BY <3>1
    <3> QED
      BY <1>2, <3>2
  <2> QED
    BY <2>1, <2>2
<1>3. ASSUME NEW v \in Server, NEW j \in Server, role'[j] = Candidate, v \in votes'[j],
             g = [voter |-> v, cand |-> j, term |-> currentTerm'[j]]
      PROVE  g \in Grants
  BY <1>1, <1>3, CountedGrant
<1> QED
  BY <1>2, <1>3 DEF Grants

LEMMA GrantsGrow ==
    ASSUME TypeInv, ElectionInv, LedgerInv, [Next]_vars, NEW g \in Grants'
    PROVE  \/ g \in Grants
           \/ \E m \in voteReqs : /\ g.voter = m.to /\ g.cand = m.cand /\ g.term = m.term
                                  /\ m.term >= currentTerm[m.to]
                                  /\ UpToDate(m.lastTerm, m.lastIndex, log[m.to])
<1>0. \A j \in Server : role'[j] = Candidate /\ currentTerm'[j] = currentTerm[j] => role[j] = Candidate
  BY StepKinds DEF LedgerInv, Orderly
<1>1. ASSUME NEW i \in Server, Timeout(i)
      PROVE  Grants' \subseteq Grants
  BY <1>1, GrantsShrink DEF Timeout, TypeInv, NodeOK
<1>2. ASSUME NEW m \in voteReps, RequestVoteReply(m)
      PROVE  Grants' \subseteq Grants
  <2>1. /\ m.to \in Server /\ voteReps' \subseteq voteReps /\ m.term \in Nat
        /\ currentTerm[m.to] \in Nat
    BY <1>2 DEF RequestVoteReply, TypeInv, VoteReps, NodeOK
  <2>2. CASE m.term > currentTerm[m.to]
    <3>1. ReplyStepDown(m.to, m.term)
      BY <1>2, <2>1, <2>2 DEF RequestVoteReply
    <3> QED
      BY <2>1, <3>1, GrantsShrink DEF ReplyStepDown, StepDown, TypeInv, NodeOK, Follower, Candidate
  <2>3. CASE /\ m.granted /\ currentTerm[m.to] = m.reqTerm /\ currentTerm' = currentTerm
             /\ votes' = [votes EXCEPT ![m.to] = @ \cup {m.from}]
    BY <1>0, <2>1, <2>3, CountingKeepsGrants
  <2>4. CASE UNCHANGED <<currentTerm, role, votes>>
    BY <2>1, <2>4, GrantsShrink
  <2> QED
    BY <1>2, <2>1, <2>2, <2>3, <2>4 DEF RequestVoteReply, nodeVars
<1>3. ASSUME NEW m \in appReqs, AppendEntries(m)
      PROVE  Grants' \subseteq Grants
  <2>1. /\ m.to \in Server
        /\ role'[m.to] # Candidate
        /\ \A j \in Server \ {m.to} : role'[j] = role[j] /\ currentTerm'[j] = currentTerm[j]
    BY <1>3, LeaderGetsNoAppend DEF LedgerInv, Follower, Candidate
  <2>2. UNCHANGED <<votes, voteReps>>
    BY <1>3 DEF AppendEntries
  <2> QED
    BY <2>1, <2>2, GrantsShrink
<1>4. ASSUME NEW m \in appReps, AppendEntriesReply(m)
      PROVE  Grants' \subseteq Grants
  <2>1. m.to \in Server /\ m.term \in Nat /\ currentTerm[m.to] \in Nat /\ voteReps' = voteReps
    BY <1>4 DEF AppendEntriesReply, TypeInv, AppReps, NodeOK
  <2>2. CASE m.term > currentTerm[m.to]
    <3>1. ReplyStepDown(m.to, m.term)
      BY <1>4, <2>1, <2>2 DEF AppendEntriesReply
    <3> QED
      BY <2>1, <3>1, GrantsShrink DEF ReplyStepDown, StepDown, TypeInv, NodeOK, Follower, Candidate
  <2>3. CASE ~(m.term > currentTerm[m.to])
    <3>1. UNCHANGED <<currentTerm, role, votes>>
      BY <1>4, <2>1, <2>3 DEF AppendEntriesReply, nodeVars
    <3> QED
      BY <2>1, <3>1, GrantsShrink
  <2> QED
    BY <2>2, <2>3
<1>5. CASE \/ \E i \in Server : Heartbeat(i)
           \/ \E m \in appReqs : RejectAppend(m)
           \/ \E i \in Server, p \in Proposal : Propose(i, p)
           \/ \E p \in Proposal : ProposeDeadline(p)
           \/ \E i \in Server : Close(i)
           \/ Lose
           \/ UNCHANGED vars
  <2>1. UNCHANGED <<currentTerm, role, votes>> /\ voteReps' \subseteq voteReps
    BY <1>5 DEF Heartbeat, RejectAppend, Propose, ProposeDeadline, Close, Lose, vars, nodeVars, rpcVars
  <2> QED
    BY <2>1, GrantsShrink
<1> QED
  BY <1>1, <1>2, <1>3, <1>4, <1>5, RequestVoteGrants DEF Next

LEMMA VoteReqsGrow ==
    ASSUME [Next]_vars, NEW m \in voteReqs'
    PROVE  \/ m \in voteReqs
           \/ \E i \in Server :
                 /\ m.term = currentTerm[i] + 1 /\ m.cand = i
                 /\ m.lastIndex = Len(log[i]) /\ m.lastTerm = LastTerm(log[i])
                 /\ currentTerm' = [currentTerm EXCEPT ![i] = @ + 1] /\ log' = log
<1>1. ASSUME NEW i \in Server, Timeout(i), m \notin voteReqs
      PROVE  /\ m.term = currentTerm[i] + 1 /\ m.cand = i
             /\ m.lastIndex = Len(log[i]) /\ m.lastTerm = LastTerm(log[i])
             /\ currentTerm' = [currentTerm EXCEPT ![i] = @ + 1] /\ log' = log
  BY <1>1 DEF Timeout, logVars
<1>2. CASE \/ \E k \in voteReqs : RequestVote(k)
           \/ \E k \in voteReps : RequestVoteReply(k)
           \/ \E k \in appReqs : AppendEntries(k)
           \/ \E k \in appReps : AppendEntriesReply(k)
           \/ \E i \in Server : Heartbeat(i)
           \/ \E k \in appReqs : RejectAppend(k)
           \/ \E i \in Server, p \in Proposal : Propose(i, p)
           \/ \E p \in Proposal : ProposeDeadline(p)
           \/ \E i \in Server : Close(i)
           \/ Lose
           \/ UNCHANGED vars
  <2>1. voteReqs' \subseteq voteReqs
    BY <1>2 DEF RequestVote, RequestVoteReply, AppendEntries, AppendEntriesReply, ReplyStepDown,
                Heartbeat, RejectAppend, Propose, ProposeDeadline, Close, Lose, vars, nodeVars, rpcVars
  <2> QED
    BY <2>1
<1> QED
  BY <1>1, <1>2 DEF Next

LEMMA VotesInvInit == Init => VotesInv
<1> SUFFICES ASSUME Init PROVE VotesInv
  OBVIOUS
<1>1. Grants = {}
  BY DEF Init, Grants, Follower, Candidate
<1> QED
  BY <1>1 DEF Init, VotesInv, VoteReqsTrue, GrantsPast

\* Who stands after a step, in a term it had reached, stood before it.
LEMMA StoodBefore ==
    ASSUME TypeInv, TypeInv', Orderly, NEW c \in Server, NEW t \in Nat, t <= currentTerm[c],
           role'[c] = Candidate, currentTerm'[c] = t
    PROVE  Standing(c, t) /\ log'[c] = log[c]
<1>1. currentTerm[c] \in Nat /\ currentTerm'[c] \in Nat /\ currentTerm[c] <= currentTerm'[c]
  BY DEF Orderly, TypeInv, NodeOK
<1>2. currentTerm'[c] = currentTerm[c]
  BY <1>1
<1> QED
  BY <1>2 DEF Orderly, Standing

LEMMA VotesInvStep ==
    TypeInv /\ ElectionInv /\ LedgerInv /\ VotesInv /\ [Next]_vars => VotesInv'
<1> SUFFICES ASSUME TypeInv, ElectionInv, LedgerInv, VotesInv, [Next]_vars
             PROVE  VotesInv'
  OBVIOUS
<1>0. /\ TypeInv' /\ Orderly
      /\ \A i \in Server : currentTerm[i] \in Nat /\ currentTerm'[i] \in Nat
                           /\ currentTerm[i] <= currentTerm'[i]
  BY TypeInvStep, StepKinds DEF LedgerInv, Orderly, TypeInv, NodeOK
<1>1. \A m \in voteReqs : m.term \in Nat /\ m.cand \in Server
  BY DEF TypeInv, VoteReqs
<1>2. ASSUME NEW m \in voteReqs'
      PROVE  /\ m.term <= currentTerm'[m.cand]
             /\ role'[m.cand] = Candidate /\ currentTerm'[m.cand] = m.term =>
                   m.lastIndex = Len(log'[m.cand]) /\ m.lastTerm = LastTerm(log'[m.cand])
  <2>1. CASE m \in voteReqs
    <3>1. /\ m.term <= currentTerm[m.cand]
          /\ Standing(m.cand, m.term) => m.lastIndex = Len(log[m.cand]) /\ m.lastTerm = LastTerm(log[m.cand])
      BY <2>1 DEF VotesInv, VoteReqsTrue
    <3>2. m.term <= currentTerm'[m.cand]
      BY <1>0, <1>1, <2>1, <3>1
    <3>3. ASSUME role'[m.cand] = Candidate, currentTerm'[m.cand] = m.term
          PROVE  Standing(m.cand, m.term) /\ log'[m.cand] = log[m.cand]
      BY <1>0, <1>1, <2>1, <3>1, <3>3, StoodBefore
    <3> QED
      BY <3>1, <3>2, <3>3
  <2>2. CASE m \notin voteReqs
    <3>1. PICK i \in Server :
             /\ m.term = currentTerm[i] + 1 /\ m.cand = i
             /\ m.lastIndex = Len(log[i]) /\ m.lastTerm = LastTerm(log[i])
             /\ currentTerm' = [currentTerm EXCEPT ![i] = @ + 1] /\ log' = log
      BY <2>2, VoteReqsGrow
    <3>2. currentTerm'[i] = m.term /\ m.term \in Nat
      BY <1>0, <3>1 DEF TypeInv, NodeOK
    <3> QED
      BY <3>1, <3>2
  <2> QED
    BY <2>1, <2>2
<1>3. VoteReqsTrue'
  BY <1>2 DEF VoteReqsTrue, Standing, LastTerm, TermAt
<1>4. ASSUME NEW g \in Grants'
      PROVE  g.term <= currentTerm'[g.cand]
  <2>1. g.cand \in Server /\ g.term \in Nat /\ g.term <= currentTerm[g.cand]
    <3>1. CASE g \in Grants
      BY <3>1, GrantType DEF VotesInv, GrantsPast
    <3>2. CASE g \notin Grants
      BY <1>1, <3>2, GrantsGrow DEF VotesInv, VoteReqsTrue
    <3> QED
      BY <3>1, <3>2
  <2> QED
    BY <1>0, <2>1
<1>5. GrantsPast'
  BY <1>4 DEF GrantsPast
<1> QED
  BY <1>3, <1>5 DEF VotesInv

-----------------------------------------------------------------------------
(* What is kept stays kept *)

\* An entry its leader wrote, and the log that leader had up to it.
LEMMA OwnFacts ==
    ASSUME TypeInv, LedgerInv, NEW n \in Nat, NEW t \in Nat, Own(n, t)
    PROVE  /\ t # 0 /\ n # 0 /\ ledger[t] \in Seq(Entry) /\ Len(ledger[t]) \in Nat
           /\ Agree(ledger[t], ledger[t], n) /\ UpTo(ledger[t], t)
<1>1. t \in DOMAIN ledger /\ n \in 1..Len(ledger[t]) /\ ledger[t][n].term = t
  BY DEF Own
<1>2. ledger[t] \in Seq(Entry) /\ Len(ledger[t]) \in Nat /\ UpTo(ledger[t], t)
  BY <1>1, LedgerTypes DEF LedgerInv, LedgerTraced
<1>3. t # 0
  BY <1>1, <1>2, EntryType
<1> QED
  BY <1>1, <1>2, <1>3 DEF Agree

LEMMA OwnStays ==
    ASSUME TypeInv, TypeInv', ElectionInv, LedgerInv, [Next]_vars,
           NEW n \in Nat, NEW t \in Nat, Own(n, t)
    PROVE  Own(n, t)'
<1>1. /\ t \in DOMAIN ledger /\ Grows(ledger, ledger')
      /\ \A u \in DOMAIN ledger : ledger[u] \in Seq(Entry)
      /\ \A u \in DOMAIN ledger' : ledger'[u] \in Seq(Entry)
  BY LedgerGrowth, LedgerTypes DEF Own, TypeInv, RestOK
<1>2. /\ t \in DOMAIN ledger' /\ Len(ledger[t]) \in Nat /\ Len(ledger'[t]) \in Nat
      /\ Len(ledger[t]) <= Len(ledger'[t]) /\ \A h \in 1..Len(ledger[t]) : ledger[t][h] = ledger'[t][h]
  BY <1>1, GrowthKeeps, LenProperties DEF Grows
<1> QED
  BY <1>2 DEF Own

\* A candidate as up to date as a log that holds the entry holds it too.
LEMMA UpToDateHolds ==
    ASSUME TypeInv, LedgerInv, NEW n \in Nat, NEW t \in Nat, Own(n, t), Later(n, t),
           NEW w \in Server, NEW c \in Server, Agree(ledger[t], log[w], n),
           UpToDate(LastTerm(log[c]), Len(log[c]), log[w])
    PROVE  Agree(ledger[t], log[c], n)
<1> DEFINE p == Len(log[w])
           q == Len(log[c])
           T1 == LastTerm(log[w])
           T2 == LastTerm(log[c])
<1>1. /\ p \in Nat /\ q \in Nat /\ log[w] \in Seq(Entry) /\ log[c] \in Seq(Entry)
      /\ Traced(log[w], ledger) /\ Traced(log[c], ledger)
      /\ t \in DOMAIN ledger /\ ledger[t][n].term = t /\ n >= 1 /\ n <= p
      /\ t > 0 /\ UpTo(ledger[t], t) /\ n <= Len(ledger[t]) /\ Len(ledger[t]) \in Nat
      /\ \A h \in 1..n : ledger[t][h] = log[w][h]
  BY LedgerTypes, OwnFacts DEF LedgerInv, LogsTraced, Own, Agree
<1>2. /\ T1 = log[w][p].term /\ T1 \in DOMAIN ledger /\ T1 \in Nat /\ UpTo(ledger[T1], T1)
      /\ Agree(log[w], ledger[T1], p) /\ Len(ledger[T1]) \in Nat
  <2>1. p \in 1..Len(log[w]) /\ T1 = log[w][p].term
    BY <1>1 DEF LastTerm, TermAt
  <2>2. T1 \in DOMAIN ledger /\ Agree(log[w], ledger[T1], p)
    BY <1>1, <2>1 DEF Traced
  <2> QED
    BY <2>1, <2>2, LedgerTypes DEF LedgerInv, LedgerTraced
<1>3. t <= T1
  <2>1. n \in 1..p /\ n \in 1..Len(ledger[T1]) /\ n \in 1..n
    BY <1>1, <1>2 DEF Agree
  <2>2. ledger[T1][n] = ledger[t][n]
    BY <1>1, <1>2, <2>1 DEF Agree
  <2> QED
    BY <1>1, <1>2, <2>1, <2>2 DEF UpTo
<1>4. T2 \in Nat /\ (T2 > T1 \/ (T2 = T1 /\ q >= p))
  <2>1. T2 \in Nat /\ T1 \in Nat
    <3>1. Len(log[c]) \in Int /\ log[c] \in Seq(Entry)
      BY <1>1
    <3> QED
      BY <1>2, <3>1, TermAtType DEF LastTerm
  <2> QED
    BY <2>1 DEF UpToDate
<1>5. /\ q >= 1 /\ T2 = log[c][q].term /\ T2 \in DOMAIN ledger /\ Agree(log[c], ledger[T2], q)
      /\ ledger[T2] \in Seq(Entry)
  <2>1. T2 # 0
    BY <1>1, <1>2, <1>3, <1>4
  <2>2. q \in 1..Len(log[c]) /\ T2 = log[c][q].term
    BY <1>1, <2>1 DEF LastTerm, TermAt
  <2>3. T2 \in DOMAIN ledger /\ Agree(log[c], ledger[T2], q)
    BY <1>1, <2>2 DEF Traced
  <2> QED
    BY <1>1, <2>2, <2>3, LedgerTypes
<1> HIDE DEF p, q, T1, T2
<1>6. Agree(ledger[t], ledger[T2], n) /\ q >= n
  <2>1. CASE T2 = t
    BY <1>1, <1>2, <1>3, <1>4, <2>1 DEF Agree
  <2>2. CASE T2 # t
    <3>1. T2 > t
      BY <1>1, <1>2, <1>3, <1>4, <2>2
    <3>2. Agree(ledger[T2], ledger[t], n)
      BY <1>5, <3>1 DEF Later
    <3>3. ASSUME q < n
          PROVE  FALSE
      <4>1. q \in 1..n /\ q \in 1..q /\ q \in 1..Len(ledger[t])
        BY <1>1, <1>5, <3>3
      <4>2. ledger[t][q].term = T2
        BY <1>5, <3>2, <4>1 DEF Agree
      <4> QED
        BY <1>1, <1>4, <3>1, <4>1, <4>2 DEF UpTo
    <3> QED
      BY <1>1, <3>2, <3>3 DEF Agree
  <2> QED
    BY <2>1, <2>2
<1> QED
  BY <1>1, <1>5, <1>6 DEF Agree, p, q

LEMMA KeptStep ==
    ASSUME TypeInv, TypeInv', ElectionInv, LedgerInv, VotesInv, [Next]_vars,
           NEW n \in Nat, NEW t \in Nat, Own(n, t), Later(n, t), NEW w \in Server, Kept(w, n, t)
    PROVE  Kept(w, n, t)'
<1>1. /\ Orderly /\ Grows(ledger, ledger') /\ t \in DOMAIN ledger
      /\ currentTerm[w] \in Nat /\ currentTerm'[w] \in Nat
      /\ \A u \in DOMAIN ledger : ledger[u] \in Seq(Entry)
      /\ \A u \in DOMAIN ledger' : ledger'[u] \in Seq(Entry)
      /\ \A j \in Server : log[j] \in Seq(Entry)
  BY StepKinds, LedgerGrowth, LedgerTypes DEF LedgerInv, TypeInv, RestOK, NodeOK, Own
<1>2. currentTerm'[w] >= t
  BY <1>1 DEF Kept, Orderly
<1>3. Agree(ledger'[t], log'[w], n)
  <2>1. ASSUME NEW m \in appReqs, m.to = w, AppendEntries(m)
        PROVE  Agree(ledger[m.term], ledger[t], n)
    <3>1. m.term \in Nat /\ m.term >= t /\ m.term \in DOMAIN ledger
      BY <1>1, <2>1, LeaderGetsNoAppend, LeaderListed DEF LedgerInv, Kept
    <3> QED
      BY <3>1, OwnFacts DEF Later
  <2> QED
    BY <1>1, <2>1, KeepsAgreement DEF Kept
<1>4. ASSUME NEW g \in Grants', g.voter = w, g.term > t,
             role'[g.cand] = Candidate, currentTerm'[g.cand] = g.term
      PROVE  Agree(ledger'[t], log'[g.cand], n)
  <2> DEFINE c == g.cand
  <2>1. c \in Server /\ g.term \in Nat
    BY <1>4, GrantType, GrantsGrow DEF TypeInv, VoteReqs
  <2>2. CASE g \in Grants
    <3>1. Standing(c, g.term) /\ log'[c] = log[c]
      BY <1>1, <1>4, <2>1, <2>2, StoodBefore DEF VotesInv, GrantsPast
    <3>2. Agree(ledger[t], log[c], n)
      BY <1>4, <2>2, <3>1 DEF Kept
    <3> QED
      BY <1>1, <2>1, <3>1, <3>2, GrowthKeeps
  <2>3. CASE g \notin Grants
    <3>1. PICK m \in voteReqs : /\ g.voter = m.to /\ g.cand = m.cand /\ g.term = m.term
                                /\ UpToDate(m.lastTerm, m.lastIndex, log[m.to])
      BY <1>4, <2>3, GrantsGrow
    <3>2. m.term <= currentTerm[c]
      BY <3>1 DEF VotesInv, VoteReqsTrue
    <3>3. Standing(c, g.term) /\ log'[c] = log[c]
      BY <1>1, <1>4, <2>1, <3>1, <3>2, StoodBefore
    <3>4. m.lastIndex = Len(log[c]) /\ m.lastTerm = LastTerm(log[c])
      BY <3>1, <3>3 DEF VotesInv, VoteReqsTrue
    <3>5. Agree(ledger[t], log[c], n)
      BY <1>4, <2>1, <3>1, <3>4, UpToDateHolds DEF Kept
    <3> QED
      BY <1>1, <2>1, <3>3, <3>5, GrowthKeeps
  <2> QED
    BY <2>2, <2>3
<1> QED
  BY <1>2, <1>3, <1>4 DEF Kept, Standing

-----------------------------------------------------------------------------
(* Acknowledgements *)

\* A leader elected after t has the entry if one of its voters kept it.
LEMMA LaterStep ==
    ASSUME TypeInv, TypeInv', ElectionInv, ElectionInv', LedgerInv, [Next]_vars,
           NEW n \in Nat, NEW t \in Nat, Own(n, t), Later(n, t),
           \A i \in Server, voters \in SUBSET Server :
               Elects(i, voters) /\ currentTerm[i] > t => \E w \in voters : Kept(w, n, t)
    PROVE  Later(n, t)'
<1>1. /\ Grows(ledger, ledger') /\ t \in DOMAIN ledger
      /\ \A u \in DOMAIN ledger : ledger[u] \in Seq(Entry)
      /\ \A u \in DOMAIN ledger' : ledger'[u] \in Seq(Entry)
      /\ \A j \in Server : log[j] \in Seq(Entry)
  BY LedgerGrowth, LedgerTypes DEF TypeInv, RestOK, Own
<1>2. ASSUME NEW u \in DOMAIN ledger', u > t
      PROVE  Agree(ledger'[u], ledger'[t], n)
  <2>1. CASE u \in DOMAIN ledger
    <3>1. Agree(ledger[u], ledger[t], n)
      BY <1>2, <2>1 DEF Later
    <3> QED
      BY <1>1, <2>1, <3>1, GrowthKeeps
  <2>2. CASE u \notin DOMAIN ledger
    <3>1. PICK i \in Server, voters \in SUBSET Server : Elects(i, voters)
      <4>1. DOMAIN ledger' # DOMAIN ledger
        BY <1>2, <2>2
      <4>2. \/ Rests
            \/ \E i \in Server : \E voters \in SUBSET Server : Elects(i, voters)
            \/ \E i \in Server : Sends(i)
            \/ \E i \in Server, p \in Proposal : Propose(i, p)
            \/ \E m \in appReqs : Takes(m)
            \/ \E m \in appReps : Counts(m)
        BY StepKinds DEF LedgerInv
      <4>3. ASSUME NEW i \in Server, NEW p \in Proposal, Propose(i, p)
            PROVE  FALSE
        BY <4>1, <4>3, ProposeAdds
      <4>4. ASSUME NEW m \in appReqs, Takes(m)
            PROVE  FALSE
        BY <4>1, <4>4, TakesMerges
      <4> QED
        BY <4>1, <4>2, <4>3, <4>4 DEF Rests, Sends, Counts
    <3>2. u = currentTerm[i] /\ ledger'[u] = log[i] /\ ledger'[t] = ledger[t]
      <4>1. /\ DOMAIN ledger' = DOMAIN ledger \cup {currentTerm[i]}
            /\ ledger'[currentTerm[i]] = log[i]
            /\ \A s \in DOMAIN ledger : ledger'[s] = ledger[s]
        BY <3>1, NewLeaderIsFirst
      <4> QED
        BY <1>1, <1>2, <2>2, <4>1
    <3>3. PICK w \in voters : Kept(w, n, t)
      BY <1>2, <3>1, <3>2
    <3>4. Agree(ledger[t], log[i], n)
      BY <1>2, <3>1, <3>2, <3>3 DEF Elects, Kept, Standing
    <3> QED
      BY <1>1, <3>2, <3>4, AgreeFacts
  <2> QED
    BY <2>1, <2>2
<1> QED
  BY <1>2 DEF Later

\* Nobody begins to lead a term that has been led.
LEMMA LedBefore ==
    ASSUME TypeInv, ElectionInv, ElectionInv', LedgerInv, [Next]_vars,
           NEW i \in Server, role'[i] = Leader, currentTerm'[i] \in DOMAIN ledger
    PROVE  role[i] = Leader /\ currentTerm'[i] = currentTerm[i]
<1>1. /\ Orderly
      /\ \/ Rests
         \/ \E k \in Server : \E voters \in SUBSET Server : Elects(k, voters)
         \/ \E k \in Server : Sends(k)
         \/ \E k \in Server, p \in Proposal : Propose(k, p)
         \/ \E m \in appReqs : Takes(m)
         \/ \E m \in appReps : Counts(m)
  BY StepKinds DEF LedgerInv
<1>2. currentTerm'[i] = currentTerm[i]
  BY <1>1 DEF Orderly
<1>3. ASSUME NEW k \in Server, NEW voters \in SUBSET Server, Elects(k, voters)
      PROVE  role[i] = Leader
  <2>1. currentTerm[k] \notin DOMAIN ledger /\ role' = [role EXCEPT ![k] = Leader]
    BY <1>3, NewLeaderIsFirst DEF Elects, BecomeLeader
  <2> QED
    BY <1>2, <2>1 DEF TypeInv, NodeOK
<1>4. ASSUME NEW k \in Server, NEW p \in Proposal, Propose(k, p)
      PROVE  role[i] = Leader
  BY <1>4, ProposeAdds
<1>5. ASSUME NEW m \in appReqs, Takes(m)
      PROVE  role[i] = Leader
  BY <1>5, LeaderGetsNoAppend DEF Takes, LedgerInv, Follower, Leader
<1> QED
  BY <1>1, <1>2, <1>3, <1>4, <1>5 DEF Rests, Sends, Counts

\* A new acknowledgement is the answer of a node that takes the entry.
LEMMA AckedStep ==
    ASSUME TypeInv, TypeInv', ElectionInv, ElectionInv', LedgerInv, [Next]_vars,
           NEW n \in Nat, n # 0, NEW t \in DOMAIN ledger, NEW w \in Server, Acked(w, n, t)'
    PROVE  \/ Acked(w, n, t)
           \/ /\ currentTerm[w] <= t /\ currentTerm'[w] = t /\ ledger' = ledger
              /\ Agree(ledger'[t], log'[w], n)
<1>0. /\ t \in Nat /\ ledger[t] \in Seq(Entry) /\ log'[w] \in Seq(Entry)
      /\ \A i \in Server : matchIndex[i][w] \in Nat /\ matchIndex'[i][w] \in Nat
  BY LedgerTypes DEF TypeInv, LogOK, LeaderOK
<1>1. ASSUME NEW r \in appReps', r.success, r.from = w, r.reqTerm = t, r.match >= n
      PROVE  \/ Acked(w, n, t)
             \/ /\ currentTerm[w] <= t /\ currentTerm'[w] = t /\ ledger' = ledger
                /\ Agree(ledger'[t], log'[w], n)
  <2>1. CASE r \in appReps
    BY <1>1, <2>1 DEF Acked
  <2>2. CASE r \notin appReps
    <3>1. /\ currentTerm[w] <= t /\ currentTerm'[w] = t /\ ledger' = ledger
          /\ Agree(ledger[t], log'[w], r.match)
      BY <1>1, <2>2, NewSuccess
    <3>2. r.match \in Nat
      BY <1>1 DEF TypeInv, AppReps
    <3>3. Agree(ledger[t], log'[w], n)
      BY <1>0, <1>1, <3>1, <3>2, AgreeFacts
    <3> QED
      BY <3>1, <3>3
  <2> QED
    BY <2>1, <2>2
<1>2. ASSUME NEW i \in Server, role'[i] = Leader, currentTerm'[i] = t, i = w \/ matchIndex'[i][w] >= n
      PROVE  Acked(w, n, t)
  <2>1. role[i] = Leader /\ currentTerm[i] = t
    BY <1>2, LedBefore
  <2>2. CASE i = w
    BY <2>1, <2>2 DEF Acked
  <2>3. CASE matchIndex'[i][w] >= n
    <3>1. matchIndex'[i][w] # 0
      BY <1>0, <2>3
    <3>2. \/ matchIndex'[i][w] = matchIndex[i][w]
          \/ \E r \in appReps : /\ r.success /\ r.from = w /\ r.reqTerm = t
                                /\ r.match = matchIndex'[i][w]
      BY <1>2, <2>1, <3>1, CountMoves
    <3> QED
      BY <2>1, <2>3, <3>2 DEF Acked
  <2> QED
    BY <1>2, <2>2, <2>3
<1> QED
  BY <1>1, <1>2 DEF Acked

\* What is still possible was so before: no voter of an election won acknowledges
\* an older term afterwards.
LEMMA PossibleBefore ==
    ASSUME TypeInv, TypeInv', ElectionInv, ElectionInv', LedgerInv, [Next]_vars,
           NEW n \in Nat, n # 0, NEW t \in DOMAIN ledger, Possible(n, t)'
    PROVE  Possible(n, t)
<1>1. ASSUME NEW e \in elections, e.term > t
      PROVE  \E w \in e.voters : Acked(w, n, t)
  <2>1. e \in elections' /\ e.term \in Nat /\ e.voters \in SUBSET Server /\ t \in Nat
    BY LedgerGrowth, LedgerTypes DEF TypeInv, RestOK
  <2>2. PICK w \in e.voters : Acked(w, n, t)'
    BY <1>1, <2>1 DEF Possible
  <2>3. currentTerm[w] \in Nat /\ currentTerm[w] >= e.term
    BY <2>1 DEF ElectionInv, ElectionsInv, Bound, TypeInv, NodeOK
  <2>4. ~(currentTerm[w] <= t)
    BY <1>1, <2>1, <2>3
  <2> QED
    BY <2>1, <2>2, <2>4, AckedStep
<1> QED
  BY <1>1 DEF Possible

\* Nobody has given a vote of a term it has not reached.
LEMMA GrantsInPast ==
    ASSUME TypeInv', ElectionInv', NEW g \in Grants'
    PROVE  currentTerm'[g.voter] >= g.term /\ g.term \in Nat /\ g.cand \in Server
  BY DEF ElectionInv, GrantsInv, Grants, TypeInv, NodeOK, VoteReps

\* The entry a leader has just written is acknowledged by itself alone.
LEMMA NewEntry ==
    ASSUME TypeInv, TypeInv', ElectionInv, ElectionInv', LedgerInv, [Next]_vars,
           NEW n \in Nat, NEW t \in Nat, ~Own(n, t), Own(n, t)'
    PROVE  \E i \in Server, p \in Proposal :
               Propose(i, p) /\ t = currentTerm[i] /\ n = Len(ledger[t]) + 1
<1>1. /\ t \in DOMAIN ledger' /\ n \in 1..Len(ledger'[t]) /\ ledger'[t][n].term = t
      /\ ~(t \in DOMAIN ledger /\ ledger'[t] = ledger[t])
  BY DEF Own
<1>2. \/ Rests
      \/ \E i \in Server : \E voters \in SUBSET Server : Elects(i, voters)
      \/ \E i \in Server : Sends(i)
      \/ \E i \in Server, p \in Proposal : Propose(i, p)
      \/ \E m \in appReqs : Takes(m)
      \/ \E m \in appReps : Counts(m)
  BY StepKinds DEF LedgerInv
<1>3. ASSUME NEW i \in Server, NEW voters \in SUBSET Server, Elects(i, voters)
      PROVE  FALSE
  <2>1. /\ currentTerm[i] \notin DOMAIN ledger
        /\ DOMAIN ledger' = DOMAIN ledger \cup {currentTerm[i]}
        /\ ledger'[currentTerm[i]] = log[i]
        /\ \A s \in DOMAIN ledger : ledger'[s] = ledger[s]
    BY <1>3, NewLeaderIsFirst
  <2>2. t = currentTerm[i] /\ n \in 1..Len(log[i]) /\ log[i][n].term = t
    BY <1>1, <2>1
  <2> QED
    BY <2>1, <2>2 DEF LedgerInv, LogsTraced, Traced
<1>4. ASSUME NEW m \in appReqs, Takes(m)
      PROVE  FALSE
  BY <1>1, <1>4, TakesMerges
<1>5. ASSUME NEW i \in Server, NEW p \in Proposal, Propose(i, p)
      PROVE  t = currentTerm[i] /\ n = Len(ledger[t]) + 1
  <2> DEFINE e == [term |-> currentTerm[i], cmd |-> p]
  <2>1. /\ e \in Entry /\ DOMAIN ledger' = DOMAIN ledger
        /\ log[i] = ledger[currentTerm[i]] /\ ledger'[currentTerm[i]] = Append(log[i], e)
        /\ \A s \in DOMAIN ledger : s # currentTerm[i] => ledger'[s] = ledger[s]
    BY <1>5, ProposeAdds
  <2>2. t = currentTerm[i] /\ t \in DOMAIN ledger
    BY <1>1, <2>1
  <2>3. log[i] \in Seq(Entry) /\ Len(log[i]) \in Nat
    BY LedgerTypes
  <2> HIDE DEF e
  <2>4. /\ Len(ledger'[t]) = Len(ledger[t]) + 1
        /\ \A h \in 1..Len(ledger[t]) : ledger'[t][h] = ledger[t][h]
    BY <2>1, <2>2, <2>3, AppendProperties
  <2>5. n \notin 1..Len(ledger[t])
    BY <1>1, <2>2, <2>4 DEF Own
  <2>6. n \in 1..(Len(ledger[t]) + 1) /\ Len(ledger[t]) \in Nat
    BY <1>1, <2>1, <2>2, <2>3, <2>4
  <2> QED
    BY <2>2, <2>5, <2>6
<1> QED
  BY <1>1, <1>2, <1>3, <1>4, <1>5 DEF Rests, Sends, Counts

LEMMA NewEntryAcked ==
    ASSUME TypeInv, TypeInv', ElectionInv, ElectionInv', LedgerInv, ReplicaInv, [Next]_vars,
           NEW n \in Nat, NEW t \in Nat, ~Own(n, t), Own(n, t)', Possible(n, t)'
    PROVE  Later(n, t)' /\ \A w \in Server : Acked(w, n, t)' => Kept(w, n, t)'
<1>1. PICK i \in Server, p \in Proposal :
         Propose(i, p) /\ t = currentTerm[i] /\ n = Len(ledger[t]) + 1
  BY NewEntry
<1> DEFINE e == [term |-> t, cmd |-> p]
<1>2. /\ e \in Entry /\ role[i] = Leader /\ t \in DOMAIN ledger /\ DOMAIN ledger' = DOMAIN ledger
      /\ log[i] = ledger[t] /\ log'[i] = Append(log[i], e) /\ ledger'[t] = Append(log[i], e)
      /\ UNCHANGED <<currentTerm, role, matchIndex, appReps, elections>>
  BY <1>1, ProposeAdds
<1> HIDE DEF e
<1>3. /\ log[i] \in Seq(Entry) /\ Len(log[i]) \in Nat /\ Len(log'[i]) = n /\ n \in Nat \ {0}
      /\ \A j \in Server : currentTerm[j] \in Nat
      /\ \A j, k \in Server : matchIndex[j][k] \in Nat
      /\ \A r \in appReps : r.match \in Nat
  BY <1>1, <1>2, LedgerTypes, AppendProperties
<1>4. ASSUME NEW w \in Server, Acked(w, n, t)'
      PROVE  w = i
  <2>1. ASSUME NEW r \in appReps, r.success, r.from = w, r.reqTerm = t, r.match >= n
        PROVE  FALSE
    <3>1. r.match <= Len(log[i])
      BY <1>2, <2>1 DEF ReplicaInv, RepliesHold, Holds
    <3> QED
      BY <1>1, <1>2, <1>3, <2>1, <3>1
  <2>2. ASSUME NEW j \in Server, role[j] = Leader, currentTerm[j] = t, j = w \/ matchIndex[j][w] >= n
        PROVE  w = i
    <3>1. j = i
      BY <1>1, <1>2, <2>2 DEF ElectionInv, RolesInv, ElectionSafety
    <3>2. matchIndex[i][w] = 0 \/ matchIndex[i][w] <= Len(log[i])
      BY <1>1, <1>2 DEF ReplicaInv, CountsHold, Holds
    <3>3. ~(matchIndex[i][w] >= n)
      BY <1>1, <1>2, <1>3, <3>2
    <3> QED
      BY <2>2, <3>1, <3>3
  <2> QED
    BY <1>2, <1>4, <2>1, <2>2 DEF Acked
<1>5. ASSUME NEW u \in DOMAIN ledger', u > t
      PROVE  FALSE
  <2>1. PICK x \in elections : x.term = u
    BY <1>2, <1>5 DEF LedgerInv, LedgerTraced, Won
  <2>2. x \in elections' /\ x.voters \in SUBSET Server /\ u \in Nat
    BY <1>2, <2>1 DEF TypeInv, RestOK
  <2>3. PICK w \in x.voters : Acked(w, n, t)'
    BY <1>5, <2>1, <2>2 DEF Possible
  <2>4. i \in x.voters
    BY <1>4, <2>2, <2>3
  <2>5. currentTerm[i] >= u
    BY <1>3, <2>1, <2>2, <2>4 DEF ElectionInv, ElectionsInv, Bound
  <2> QED
    BY <1>1, <1>3, <1>5, <2>2, <2>5
<1>6. Kept(i, n, t)'
  <2>1. currentTerm'[i] = t /\ t >= t
    BY <1>1, <1>2
  <2>2. Agree(ledger'[t], log'[i], n)
    BY <1>2, <1>3 DEF Agree
  <2>3. ASSUME NEW g \in Grants', g.voter = i, g.term > t
        PROVE  FALSE
    <3>1. currentTerm'[i] >= g.term /\ g.term \in Nat
      BY <2>3, GrantsInPast
    <3> QED
      BY <2>1, <2>3, <3>1
  <2> QED
    BY <2>1, <2>2, <2>3 DEF Kept
<1> QED
  BY <1>4, <1>5, <1>6 DEF Later

LEMMA AckInvStep ==
    TypeInv /\ ElectionInv /\ LedgerInv /\ ReplicaInv /\ VotesInv /\ AckInv /\ [Next]_vars => AckInv'
<1> SUFFICES ASSUME TypeInv, ElectionInv, LedgerInv, ReplicaInv, VotesInv, AckInv, [Next]_vars,
                    NEW t \in Nat, NEW n \in Nat, Own(n, t)', Possible(n, t)'
             PROVE  Later(n, t)' /\ \A w \in Server : Acked(w, n, t)' => Kept(w, n, t)'
  BY DEF AckInv
<1>0. TypeInv' /\ ElectionInv'
  BY TypeInvStep, ElectionInvStep
<1>1. CASE ~Own(n, t)
  BY <1>0, <1>1, NewEntryAcked
<1>2. CASE Own(n, t)
  <2>1. n # 0 /\ t \in DOMAIN ledger
    BY <1>2, OwnFacts DEF Own
  <2>2. Possible(n, t)
    BY <1>0, <2>1, PossibleBefore
  <2>3. Later(n, t) /\ \A w \in Server : Acked(w, n, t) => Kept(w, n, t)
    BY <1>2, <2>2 DEF AckInv
  <2>4. ASSUME NEW i \in Server, NEW voters \in SUBSET Server, Elects(i, voters), currentTerm[i] > t
        PROVE  \E w \in voters : Kept(w, n, t)
    <3>1. /\ currentTerm[i] \notin DOMAIN ledger /\ currentTerm[i] \in DOMAIN ledger'
          /\ [term |-> currentTerm[i], leader |-> i, voters |-> voters] \in elections'
      BY <1>0, <2>4, NewLeaderIsFirst DEF Elects, BecomeLeader
    <3>2. PICK w \in voters : Acked(w, n, t)'
      BY <2>4, <3>1 DEF Possible
    <3>3. Acked(w, n, t)
      BY <1>0, <2>1, <3>1, <3>2, AckedStep
    <3> QED
      BY <2>3, <3>2, <3>3
  <2>5. Later(n, t)'
    BY <1>0, <1>2, <2>3, <2>4, LaterStep
  <2>6. ASSUME NEW w \in Server, Acked(w, n, t)'
        PROVE  Kept(w, n, t)'
    <3>1. CASE Acked(w, n, t)
      BY <1>0, <1>2, <2>3, <3>1, KeptStep
    <3>2. CASE ~Acked(w, n, t)
      <4>1. currentTerm'[w] = t /\ Agree(ledger'[t], log'[w], n)
        BY <1>0, <2>1, <2>6, <3>2, AckedStep
      <4>2. ASSUME NEW g \in Grants', g.voter = w, g.term > t
            PROVE  FALSE
        <5>1. t >= g.term /\ g.term \in Nat
          BY <1>0, <4>1, <4>2, GrantsInPast
        <5> QED
          BY <4>2, <5>1
      <4> QED
        BY <4>1, <4>2 DEF Kept
    <3> QED
      BY <3>1, <3>2
  <2> QED
    BY <2>5, <2>6
<1> QED
  BY <1>1, <1>2

LEMMA AckInvInit == Init => AckInv
  BY DEF Init, AckInv, Own

-----------------------------------------------------------------------------
(* What is chosen stays chosen *)

LEMMA ChosenHeld ==
    ASSUME TypeInv, LedgerInv, NEW n \in Nat, NEW t \in Nat, Chosen(n, t),
           NEW u \in DOMAIN ledger, t <= u
    PROVE  Agree(ledger[u], ledger[t], n)
<1>1. u \in Nat /\ Own(n, t) /\ Later(n, t)
  BY LedgerTypes DEF Chosen
<1>2. CASE u = t
  BY <1>1, <1>2, OwnFacts
<1>3. CASE u # t
  BY <1>1, <1>3 DEF Later
<1> QED
  BY <1>2, <1>3

LEMMA ChosenStep ==
    ASSUME TypeInv, TypeInv', ElectionInv, ElectionInv', LedgerInv, VotesInv, [Next]_vars,
           NEW n \in Nat, NEW t \in Nat, Chosen(n, t)
    PROVE  Chosen(n, t)'
<1>1. PICK Q \in SUBSET Server : IsQuorum(Cardinality(Q)) /\ \A w \in Q : Kept(w, n, t)
  BY DEF Chosen
<1>2. Own(n, t) /\ Later(n, t)
  BY DEF Chosen
<1>3. ASSUME NEW i \in Server, NEW voters \in SUBSET Server, Elects(i, voters)
      PROVE  \E w \in voters : Kept(w, n, t)
  <2>1. [term |-> currentTerm[i], leader |-> i, voters |-> voters] \in elections'
    BY <1>3 DEF Elects, BecomeLeader
  <2>2. IsQuorum(Cardinality(voters))
    BY <2>1 DEF ElectionInv, ElectionsInv
  <2> QED
    BY <1>1, <2>2, QuorumsMeet
<1>4. Own(n, t)' /\ Later(n, t)'
  BY <1>2, <1>3, OwnStays, LaterStep
<1>5. \A w \in Q : Kept(w, n, t)'
  BY <1>1, <1>2, KeptStep
<1> QED
  BY <1>1, <1>4, <1>5 DEF Chosen

\* The committed entries of a node are chosen after a step too, and still there.
LEMMA SettledStays ==
    ASSUME TypeInv, TypeInv', ElectionInv, ElectionInv', LedgerInv, VotesInv, [Next]_vars,
           NEW i \in Server, NEW t \in DOMAIN ledger, t <= currentTerm[i], NEW c \in Nat,
           NEW n \in c..Len(ledger[t]), Chosen(n, t), Agree(ledger[t], log[i], c)
    PROVE  /\ t \in DOMAIN ledger' /\ t <= currentTerm'[i] /\ n \in c..Len(ledger'[t])
           /\ Chosen(n, t)' /\ Agree(ledger'[t], log'[i], c) /\ Agree(log[i], log'[i], c)
<1>1. /\ Orderly /\ Grows(ledger, ledger') /\ t \in Nat /\ n \in Nat /\ c <= n
      /\ Len(ledger[t]) \in Nat /\ currentTerm[i] \in Nat /\ currentTerm'[i] \in Nat
      /\ \A u \in DOMAIN ledger : ledger[u] \in Seq(Entry)
      /\ \A u \in DOMAIN ledger' : ledger'[u] \in Seq(Entry)
      /\ log[i] \in Seq(Entry)
  BY StepKinds, LedgerGrowth, LedgerTypes DEF LedgerInv, TypeInv, RestOK, NodeOK
<1>2. t \in DOMAIN ledger' /\ t <= currentTerm'[i]
  BY <1>1 DEF Orderly, Grows
<1>3. n \in c..Len(ledger'[t])
  <2>1. Len(ledger[t]) <= Len(ledger'[t]) /\ Len(ledger'[t]) \in Nat
    BY <1>1, <1>2, GrowthKeeps, LenProperties
  <2> QED
    BY <1>1, <2>1
<1>4. Agree(ledger'[t], log'[i], c)
  <2>1. ASSUME NEW m \in appReqs, m.to = i, AppendEntries(m)
        PROVE  Agree(ledger[m.term], ledger[t], c)
    <3>1. m.term \in Nat /\ m.term >= t /\ m.term \in DOMAIN ledger
      BY <1>1, <2>1, LeaderGetsNoAppend, LeaderListed DEF LedgerInv
    <3>2. Agree(ledger[m.term], ledger[t], n)
      BY <1>1, <3>1, ChosenHeld
    <3> QED
      BY <1>1, <3>1, <3>2, AgreeFacts
  <2> QED
    BY <2>1, KeepsAgreement
<1>5. Agree(log[i], log'[i], c)
  <2>1. Agree(log[i], ledger'[t], c)
    BY <1>1, <1>2, AgreeFacts, GrowthKeeps
  <2> QED
    BY <1>1, <1>2, <1>4, <2>1, AgreeFacts
<1>6. Chosen(n, t)'
  BY <1>1, ChosenStep
<1> QED
  BY <1>2, <1>3, <1>4, <1>5, <1>6

\* A request that is new carries the log and the commit index of its leader.
LEMMA NewRequest ==
    ASSUME TypeInv, ElectionInv, LedgerInv, [Next]_vars, NEW m \in appReqs', m \notin appReqs
    PROVE  \E i \in Server : /\ role'[i] = Leader /\ m.term = currentTerm'[i]
                             /\ commitIndex'[i] = commitIndex[i] /\ m.commit = commitIndex'[i]
                             /\ Len(log'[i]) <= m.prev + Len(m.entries)
<1>1. \/ Rests
      \/ \E i \in Server : \E voters \in SUBSET Server : Elects(i, voters)
      \/ \E i \in Server : Sends(i)
      \/ \E i \in Server, p \in Proposal : Propose(i, p)
      \/ \E k \in appReqs : Takes(k)
      \/ \E k \in appReps : Counts(k)
  BY StepKinds DEF LedgerInv
<1>2. ASSUME NEW i \in Server, Sends(i)
      PROVE  /\ role'[i] = Leader /\ m.term = currentTerm'[i]
             /\ commitIndex'[i] = commitIndex[i] /\ m.commit = commitIndex'[i]
             /\ Len(log'[i]) <= m.prev + Len(m.entries)
  BY <1>2, LedgerTypes, BroadcastWindows DEF Sends
<1>3. ASSUME NEW i \in Server, NEW voters \in SUBSET Server, Elects(i, voters)
      PROVE  /\ role'[i] = Leader /\ m.term = currentTerm'[i]
             /\ commitIndex'[i] = commitIndex[i] /\ m.commit = commitIndex'[i]
             /\ Len(log'[i]) <= m.prev + Len(m.entries)
  <2>1. /\ role'[i] = Leader /\ UNCHANGED <<currentTerm, log, commitIndex>>
        /\ Broadcast(i, log[i], nextIndex'[i])
    BY <1>3 DEF Elects, BecomeLeader, TypeInv, NodeOK
  <2>2. nextIndex'[i] \in [Server -> Nat]
    <3>1. nextIndex' = [nextIndex EXCEPT ![i] = ForPeers(Len(log[i]) + 1)]
      BY <1>3 DEF Elects, BecomeLeader
    <3>2. ForPeers(Len(log[i]) + 1) \in [Server -> Nat]
      BY LedgerTypes DEF ForPeers
    <3> QED
      BY <3>1, <3>2 DEF TypeInv, LeaderOK
  <2> QED
    BY <2>1, <2>2, LedgerTypes, BroadcastWindows
<1>4. ASSUME NEW i \in Server, NEW p \in Proposal, Propose(i, p)
      PROVE  /\ role'[i] = Leader /\ m.term = currentTerm'[i]
             /\ commitIndex'[i] = commitIndex[i] /\ m.commit = commitIndex'[i]
             /\ Len(log'[i]) <= m.prev + Len(m.entries)
  <2> DEFINE e == [term |-> currentTerm[i], cmd |-> p]
  <2>1. /\ e \in Entry /\ role[i] = Leader /\ log'[i] = Append(log[i], e)
        /\ Broadcast(i, Append(log[i], e), nextIndex[i])
        /\ UNCHANGED <<currentTerm, role, commitIndex>>
    BY <1>4, ProposeAdds
  <2>2. Append(log[i], e) \in Seq(Entry) /\ nextIndex[i] \in [Server -> Nat]
    BY <2>1, LedgerTypes, AppendProperties
  <2> HIDE DEF e
  <2>3. /\ m.term = currentTerm[i] /\ m.commit = commitIndex[i]
        /\ Len(Append(log[i], e)) <= m.prev + Len(m.entries)
    BY <2>1, <2>2, BroadcastWindows
  <2> QED
    BY <2>1, <2>3
<1>5. ASSUME NEW k \in appReqs, Takes(k)
      PROVE  FALSE
  BY <1>5, TakesMerges
<1> QED
  BY <1>1, <1>2, <1>3, <1>4, <1>5 DEF Rests, Counts

-----------------------------------------------------------------------------
(* What is committed is chosen *)

LEMMA LeaderCommitReady ==
    ASSUME TypeInv, NEW i \in Server, NEW match, LeaderCommit(i, match) # commitIndex[i]
    PROVE  LET n == LeaderCommit(i, match)
           IN  /\ n \in 1..Len(log[i])
               /\ log[i][n].term = currentTerm[i]
               /\ IsQuorum(Copies(i, match, n))
<1> DEFINE ready == {n \in (commitIndex[i] + 1)..Len(log[i]) :
                        /\ log[i][n].term = currentTerm[i]
                        /\ IsQuorum(Copies(i, match, n))}
<1>1. commitIndex[i] \in Nat /\ Len(log[i]) \in Nat
  BY LedgerTypes
<1>2. LeaderCommit(i, match) = Max(ready) /\ ready # {}
  BY DEF LeaderCommit
<1>3. ready \in SUBSET (0..Len(log[i]))
  BY <1>1
<1>4. Max(ready) \in ready
  <2> HIDE DEF ready
  <2> QED
    BY <1>1, <1>2, <1>3, MaxOfInterval
<1> QED
  BY <1>1, <1>2, <1>4

\* The entry up to which a leader moves its commit index is chosen.
LEMMA CountedIsChosen ==
    ASSUME TypeInv, TypeInv', ElectionInv', LedgerInv, LedgerInv', AckInv',
           NEW m \in appReps, Counts(m), NEW i \in Server, i = m.to,
           NEW t \in Nat, t = currentTerm[i], NEW n \in Nat, n = commitIndex'[i], n # commitIndex[i]
    PROVE  /\ t \in DOMAIN ledger' /\ t = currentTerm'[i] /\ ledger'[t] = log'[i]
           /\ n \in 1..Len(ledger'[t]) /\ Chosen(n, t)'
<1> DEFINE Q == {j \in Others(i) : matchIndex'[i][j] >= n} \cup {i}
<1>1. /\ role[i] = Leader
      /\ UNCHANGED <<currentTerm, role, log, ledger, elections>>
      /\ n = LeaderCommit(i, matchIndex'[i])
  BY DEF Counts, TypeInv, LogOK
<1>2. /\ n \in 1..Len(log[i]) /\ log[i][n].term = t
      /\ IsQuorum(Copies(i, matchIndex'[i], n))
  BY <1>1, LeaderCommitReady
<1>3. t \in DOMAIN ledger /\ ledger[t] = log[i]
  <2>1. t \in DOMAIN ledger'
    BY <1>1 DEF ElectionInv, RolesInv, LedgerInv, WinnersListed
  <2> QED
    BY <1>1, <2>1 DEF LedgerInv, LeadersWrite
<1>4. Q \in SUBSET Server /\ IsQuorum(Cardinality(Q))
  <2> DEFINE S == {j \in Others(i) : matchIndex'[i][j] >= n}
  <2>1. IsFiniteSet(S) /\ i \notin S /\ Q = S \cup {i} /\ S \in SUBSET Server
    BY ServerAssumption, FS_Subset DEF Others
  <2>2. Cardinality(S) \in Nat /\ Copies(i, matchIndex'[i], n) = 1 + Cardinality(S)
    BY <2>1, FS_CardinalityType DEF Copies
  <2> HIDE DEF S, Q
  <2>3. Cardinality(Q) = Cardinality(S) + 1
    BY <2>1, FS_AddElement
  <2>4. Cardinality(Q) = Copies(i, matchIndex'[i], n)
    BY <2>2, <2>3
  <2> QED
    BY <1>2, <2>1, <2>4
<1>5. \A w \in Q : w \in Server /\ Acked(w, n, t)'
  BY <1>1 DEF Acked, Others
<1> HIDE DEF Q
<1>6. Own(n, t)'
  BY <1>1, <1>2, <1>3 DEF Own
<1>7. Possible(n, t)'
  <2>1. ASSUME NEW e \in elections'
        PROVE  \E w \in e.voters : Acked(w, n, t)'
    <3>1. e.voters \in SUBSET Server /\ IsQuorum(Cardinality(e.voters))
      BY DEF ElectionInv, ElectionsInv, TypeInv, RestOK
    <3>2. \E w \in Server : w \in Q /\ w \in e.voters
      BY <1>4, <3>1, QuorumsMeet
    <3> QED
      BY <1>5, <3>2
  <2> QED
    BY <2>1 DEF Possible
<1>8. Later(n, t)' /\ \A w \in Q : Kept(w, n, t)'
  BY <1>5, <1>6, <1>7 DEF AckInv
<1>9. Chosen(n, t)'
  BY <1>4, <1>6, <1>8 DEF Chosen
<1> QED
  BY <1>1, <1>2, <1>3, <1>9

\* A node's commit index moves over what the request says, or over what it counted.
LEMMA CommitMoves ==
    ASSUME TypeInv, ElectionInv, LedgerInv, [Next]_vars, NEW i \in Server
    PROVE  \/ commitIndex'[i] = commitIndex[i]
           \/ \E m \in appReqs : /\ m.to = i /\ Takes(m) /\ m.commit > commitIndex[i]
                                 /\ commitIndex'[i] = Min({m.commit, Len(log'[i])})
           \/ \E m \in appReps : m.to = i /\ Counts(m)
<1>1. \/ Rests
      \/ \E k \in Server : \E voters \in SUBSET Server : Elects(k, voters)
      \/ \E k \in Server : Sends(k)
      \/ \E k \in Server, p \in Proposal : Propose(k, p)
      \/ \E m \in appReqs : Takes(m)
      \/ \E m \in appReps : Counts(m)
  BY StepKinds DEF LedgerInv
<1>2. ASSUME NEW m \in appReqs, Takes(m)
      PROVE  \/ commitIndex'[i] = commitIndex[i]
             \/ /\ m.to = i /\ Takes(m) /\ m.commit > commitIndex[i]
                /\ commitIndex'[i] = Min({m.commit, Len(log'[i])})
  <2>1. /\ log'[m.to] = Merge(log[m.to], m.prev, m.entries) /\ m.to \in Server
        /\ commitIndex' = [commitIndex EXCEPT ![m.to] =
              IF m.commit > commitIndex[m.to]
              THEN Min({m.commit, Len(Merge(log[m.to], m.prev, m.entries))}) ELSE commitIndex[m.to]]
    BY <1>2, TakesMerges DEF Takes, AppendEntries
  <2> QED
    BY <1>2, <2>1 DEF TypeInv, LogOK
<1>3. ASSUME NEW m \in appReps, Counts(m)
      PROVE  commitIndex'[i] = commitIndex[i] \/ m.to = i
  BY <1>3 DEF Counts, TypeInv, LogOK
<1>4. ASSUME NEW k \in Server, NEW p \in Proposal, Propose(k, p)
      PROVE  commitIndex'[i] = commitIndex[i]
  BY <1>4 DEF Propose
<1> QED
  BY <1>1, <1>2, <1>3, <1>4 DEF Rests, Elects, Sends

LEMMA NodesSettledStep ==
    ASSUME TypeInv, TypeInv', ElectionInv, ElectionInv', LedgerInv, LedgerInv', VotesInv,
           AckInv', CommitInv, [Next]_vars, NEW i \in Server
    PROVE  Settled(commitIndex[i], log[i], currentTerm[i])'
<1>1. /\ commitIndex[i] \in Nat /\ currentTerm[i] \in Nat /\ currentTerm'[i] \in Nat
      /\ log[i] \in Seq(Entry) /\ log'[i] \in Seq(Entry) /\ Len(log'[i]) \in Nat
  BY LedgerTypes, LenProperties DEF TypeInv, NodeOK, LogOK
<1>2. CASE commitIndex'[i] = commitIndex[i]
  <2>1. CASE commitIndex[i] = 0
    BY <1>2, <2>1 DEF Settled
  <2>2. CASE commitIndex[i] # 0
    <3>0. PICK t \in DOMAIN ledger :
             t <= currentTerm[i] /\ \E n \in commitIndex[i]..Len(ledger[t]) :
                 Chosen(n, t) /\ Agree(ledger[t], log[i], commitIndex[i])
      BY <2>2 DEF CommitInv, NodesSettled, Settled
    <3>1. PICK n \in commitIndex[i]..Len(ledger[t]) :
             t <= currentTerm[i] /\ Chosen(n, t) /\ Agree(ledger[t], log[i], commitIndex[i])
      BY <3>0
    <3>2. /\ t \in DOMAIN ledger' /\ t <= currentTerm'[i] /\ n \in commitIndex[i]..Len(ledger'[t])
          /\ Chosen(n, t)' /\ Agree(ledger'[t], log'[i], commitIndex[i])
      BY <1>1, <3>1, SettledStays
    <3> QED
      BY <1>2, <3>2 DEF Settled
  <2> QED
    BY <2>1, <2>2
<1>3. ASSUME NEW m \in appReqs, m.to = i, Takes(m), m.commit > commitIndex[i],
             commitIndex'[i] = Min({m.commit, Len(log'[i])})
      PROVE  Settled(commitIndex[i], log[i], currentTerm[i])'
  <2> DEFINE a == ledger[m.term]
             r == log'[i]
             c == commitIndex'[i]
  <2>1. /\ m.commit \in Nat /\ m.commit # 0 /\ m.prev + Len(m.entries) \in Nat
        /\ m.term \in DOMAIN ledger /\ a \in Seq(Entry) /\ m.term \in Nat
        /\ m.commit <= m.prev + Len(m.entries)
        /\ WellFormedAppend(m) /\ UNCHANGED <<ledger, elections>>
    <3>1. /\ m.commit \in Nat /\ m.prev \in Nat /\ Len(m.entries) \in Nat /\ m.term \in Nat
          /\ WellFormedAppend(m)
      BY LedgerTypes
    <3>2. m.term \in DOMAIN ledger /\ a \in Seq(Entry) /\ UNCHANGED <<ledger, elections>>
      BY <1>3, TakesMerges
    <3> QED
      BY <1>1, <1>3, <3>1, <3>2 DEF CommitInv, RequestsSettled
  <2>2. Agree(a, r, m.prev + Len(m.entries))
    BY <1>1, <1>3, <2>1, TakesMerges, MergeAgrees
  <2>0. PICK t \in DOMAIN ledger :
           t <= m.term /\ \E n \in m.commit..Len(ledger[t]) :
               Chosen(n, t) /\ Agree(ledger[t], a, m.commit)
    BY <2>1 DEF CommitInv, RequestsSettled, Settled
  <2>3. PICK n \in m.commit..Len(ledger[t]) :
           t <= m.term /\ Chosen(n, t) /\ Agree(ledger[t], a, m.commit)
    BY <2>0
  <2>4. t \in Nat /\ n \in Nat /\ ledger[t] \in Seq(Entry) /\ Len(ledger[t]) \in Nat
    BY <2>1, <2>3, LedgerTypes
  <2>5. c \in Nat /\ c <= m.commit
    <3>1. m.commit \in Nat /\ Len(log'[i]) \in Nat
      BY <1>1, <2>1
    <3> QED
      BY <1>3, <3>1, MinOfPair
  <2>6. currentTerm'[i] = m.term
    BY <1>3, LeaderGetsNoAppend DEF Takes, LedgerInv
  <2>7. Chosen(n, t)'
    BY <2>3, <2>4, ChosenStep
  <2> HIDE DEF a, r, c
  <2>8. Agree(ledger[t], r, c)
    <3>1. Agree(a, r, m.commit)
      BY <1>1, <2>1, <2>2, AgreeFacts DEF r
    <3>2. Agree(ledger[t], r, m.commit)
      BY <2>1, <2>3, <2>4, <3>1, AgreeFacts
    <3> QED
      BY <1>1, <2>1, <2>4, <2>5, <3>2, AgreeFacts DEF r
  <2>9. n \in c..Len(ledger'[t])
    BY <2>1, <2>3, <2>4, <2>5
  <2> QED
    BY <2>1, <2>3, <2>6, <2>7, <2>8, <2>9 DEF Settled, r, c
<1>4. ASSUME NEW m \in appReps, m.to = i, Counts(m), commitIndex'[i] # commitIndex[i]
      PROVE  Settled(commitIndex[i], log[i], currentTerm[i])'
  <2>1. PICK n \in Nat : n = commitIndex'[i]
    BY DEF TypeInv, LogOK
  <2>2. PICK t \in Nat : t = currentTerm[i]
    BY <1>1
  <2>3. /\ t \in DOMAIN ledger' /\ t = currentTerm'[i] /\ ledger'[t] = log'[i]
        /\ n \in 1..Len(ledger'[t]) /\ Chosen(n, t)'
    BY <1>4, <2>1, <2>2, CountedIsChosen
  <2>4. Agree(ledger'[t], log'[i], n) /\ n \in n..Len(ledger'[t]) /\ t <= currentTerm'[i]
    BY <1>1, <2>2, <2>3 DEF Agree
  <2> QED
    BY <2>1, <2>3, <2>4 DEF Settled
<1> QED
  BY <1>2, <1>3, <1>4, CommitMoves

LEMMA CommitInvStep ==
    TypeInv /\ ElectionInv /\ LedgerInv /\ ReplicaInv /\ VotesInv /\ AckInv /\ CommitInv /\ [Next]_vars
    => CommitInv'
<1> SUFFICES ASSUME TypeInv, ElectionInv, LedgerInv, ReplicaInv, VotesInv, AckInv, CommitInv, [Next]_vars
             PROVE  CommitInv'
  OBVIOUS
<1>1. TypeInv' /\ ElectionInv' /\ LedgerInv' /\ AckInv'
  BY TypeInvStep, ElectionInvStep, LedgerInvStep, AckInvStep
<1>2. \A i \in Server : Settled(commitIndex[i], log[i], currentTerm[i])'
  BY <1>1, NodesSettledStep
<1>3. ASSUME NEW m \in appReqs'
      PROVE  m.commit <= m.prev + Len(m.entries) /\ Settled(m.commit, ledger[m.term], m.term)'
  <2>1. CASE m \in appReqs
    <3>1. /\ m.commit \in Nat /\ m.term \in DOMAIN ledger
          /\ m.commit <= m.prev + Len(m.entries) /\ Settled(m.commit, ledger[m.term], m.term)
      BY <2>1, LedgerTypes, LeaderListed DEF CommitInv, RequestsSettled
    <3>2. CASE m.commit = 0
      BY <3>1, <3>2 DEF Settled
    <3>3. CASE m.commit # 0
      <4>0. PICK t \in DOMAIN ledger :
               t <= m.term /\ \E n \in m.commit..Len(ledger[t]) :
                   Chosen(n, t) /\ Agree(ledger[t], ledger[m.term], m.commit)
        BY <3>1, <3>3 DEF Settled
      <4>1. PICK n \in m.commit..Len(ledger[t]) :
               t <= m.term /\ Chosen(n, t) /\ Agree(ledger[t], ledger[m.term], m.commit)
        BY <4>0
      <4>2. /\ Grows(ledger, ledger') /\ t \in Nat /\ n \in Nat
            /\ \A u \in DOMAIN ledger : ledger[u] \in Seq(Entry) /\ Len(ledger[u]) \in Nat
            /\ \A u \in DOMAIN ledger' : ledger'[u] \in Seq(Entry) /\ Len(ledger'[u]) \in Nat
        BY <1>1, <3>1, <4>1, LedgerGrowth, LedgerTypes, LenProperties DEF TypeInv, RestOK
      <4>3. t \in DOMAIN ledger' /\ Len(ledger[t]) <= Len(ledger'[t])
        BY <4>2, GrowthKeeps DEF Grows
      <4>4. Agree(ledger'[t], ledger'[m.term], m.commit)
        BY <3>1, <4>1, <4>2, GrowthKeeps
      <4>5. Chosen(n, t)'
        BY <1>1, <4>1, <4>2, ChosenStep
      <4>6. n \in m.commit..Len(ledger'[t])
        BY <3>1, <4>1, <4>2, <4>3
      <4> QED
        BY <3>1, <4>1, <4>3, <4>4, <4>5, <4>6 DEF Settled
    <3> QED
      BY <3>1, <3>2, <3>3
  <2>2. CASE m \notin appReqs
    <3>1. PICK i \in Server : /\ role'[i] = Leader /\ m.term = currentTerm'[i]
                              /\ commitIndex'[i] = commitIndex[i] /\ m.commit = commitIndex'[i]
                              /\ Len(log'[i]) <= m.prev + Len(m.entries)
      BY <2>2, NewRequest
    <3>2. log'[i] = ledger'[m.term]
      BY <1>1, <3>1 DEF LedgerInv, LeadersWrite
    <3>3. Settled(m.commit, ledger[m.term], m.term)'
      BY <1>2, <3>1, <3>2 DEF Settled
    <3>4. m.commit \in Nat /\ Len(log'[i]) \in Nat /\ m.prev + Len(m.entries) \in Nat
      <4>1. Len(log'[i]) \in Nat
        BY <1>1, LenProperties DEF TypeInv, LogOK
      <4>2. m.commit \in Nat /\ m.prev \in Nat /\ m.entries \in Seq(Entry)
        BY <1>1 DEF TypeInv, AppReqsOK, WellFormedAppend, AppReqs
      <4>3. Len(m.entries) \in Nat
        BY <4>2, LenProperties
      <4> QED
        BY <4>1, <4>2, <4>3
    <3>5. m.commit <= Len(log'[i])
      BY <3>2, <3>3, <3>4 DEF Settled, Agree
    <3> QED
      BY <3>1, <3>3, <3>4, <3>5
  <2> QED
    BY <2>1, <2>2
<1>4. RequestsSettled' /\ NodesSettled'
  BY <1>2, <1>3 DEF RequestsSettled, NodesSettled
<1> QED
  BY <1>4 DEF CommitInv

LEMMA CommitInvInit == Init => CommitInv
  BY DEF Init, CommitInv, NodesSettled, RequestsSettled, Settled

-----------------------------------------------------------------------------
(* Theorems *)

\* The inductive invariant.
SafetyInv == TypeInv /\ ElectionInv /\ LedgerInv /\ ReplicaInv /\ VotesInv /\ AckInv /\ CommitInv

LEMMA SafetyInvAlways == Spec => []SafetyInv
<1>1. Init => SafetyInv
  BY TypeInvInit, ElectionInvInit, LedgerInvInit, ReplicaInvInit, VotesInvInit, AckInvInit,
     CommitInvInit DEF SafetyInv
<1>2. SafetyInv /\ [Next]_vars => SafetyInv'
  BY TypeInvStep, ElectionInvStep, LedgerInvStep, ReplicaInvStep, VotesInvStep, AckInvStep,
     CommitInvStep DEF SafetyInv
<1> QED
  BY <1>1, <1>2, PTL DEF Spec

\* What a node has committed is what some leader of its term or before wrote.
LEMMA CommittedFrom ==
    ASSUME SafetyInv, NEW i \in Server, commitIndex[i] # 0
    PROVE  \E t \in DOMAIN ledger, n \in Nat :
              /\ t <= currentTerm[i] /\ commitIndex[i] <= n /\ n <= Len(ledger[t])
              /\ Chosen(n, t) /\ Agree(ledger[t], log[i], commitIndex[i])
<1>1. PICK t \in DOMAIN ledger :
         t <= currentTerm[i] /\ \E n \in commitIndex[i]..Len(ledger[t]) :
             Chosen(n, t) /\ Agree(ledger[t], log[i], commitIndex[i])
  BY DEF SafetyInv, CommitInv, NodesSettled, Settled
<1>2. PICK n \in commitIndex[i]..Len(ledger[t]) :
         Chosen(n, t) /\ Agree(ledger[t], log[i], commitIndex[i])
  BY <1>1
<1>3. n \in Nat /\ commitIndex[i] <= n /\ n <= Len(ledger[t])
  BY <1>2, LedgerTypes DEF SafetyInv
<1> QED
  BY <1>1, <1>2, <1>3

LEMMA CommittedAgree ==
    ASSUME SafetyInv, NEW i \in Server, NEW j \in Server,
           NEW n \in 1..commitIndex[i], n \in 1..commitIndex[j]
    PROVE  log[i][n] = log[j][n]
<1>1. commitIndex[i] # 0 /\ commitIndex[j] # 0 /\ commitIndex[i] \in Nat /\ commitIndex[j] \in Nat
  BY LedgerTypes DEF SafetyInv
<1>2. PICK t \in DOMAIN ledger, h \in Nat :
         /\ commitIndex[i] <= h /\ Chosen(h, t) /\ Agree(ledger[t], log[i], commitIndex[i])
  BY <1>1, CommittedFrom
<1>3. PICK u \in DOMAIN ledger, k \in Nat :
         /\ commitIndex[j] <= k /\ Chosen(k, u) /\ Agree(ledger[u], log[j], commitIndex[j])
  BY <1>1, CommittedFrom
<1>4. t \in Nat /\ u \in Nat /\ n \in Nat
  BY <1>1, LedgerTypes DEF SafetyInv
<1>5. ledger[t][n] = ledger[u][n]
  <2>1. CASE t <= u
    <3>1. Agree(ledger[u], ledger[t], h)
      BY <1>2, <1>4, <2>1, ChosenHeld DEF SafetyInv
    <3>2. n \in 1..h
      BY <1>1, <1>2
    <3> QED
      BY <3>1, <3>2 DEF Agree
  <2>2. CASE u <= t
    <3>1. Agree(ledger[t], ledger[u], k)
      BY <1>3, <1>4, <2>2, ChosenHeld DEF SafetyInv
    <3>2. n \in 1..k
      BY <1>1, <1>3
    <3> QED
      BY <3>1, <3>2 DEF Agree
  <2> QED
    BY <1>4, <2>1, <2>2
<1>6. ledger[t][n] = log[i][n] /\ ledger[u][n] = log[j][n]
  BY <1>2, <1>3 DEF Agree
<1> QED
  BY <1>5, <1>6

LEMMA CommittedHeld ==
    ASSUME SafetyInv, NEW i \in Server
    PROVE  commitIndex[i] <= Len(log[i])
<1>1. commitIndex[i] \in Nat /\ Len(log[i]) \in Nat
  BY LedgerTypes DEF SafetyInv
<1>2. CASE commitIndex[i] # 0
  BY <1>2, CommittedFrom DEF Agree
<1> QED
  BY <1>1, <1>2

\* No two nodes hand different commands to their state machines for one index
\* (applyCommittedEntriesLocked, raft.go), with any number of nodes and of terms.
THEOREM NodesApplyTheSame == Spec => []StateMachineSafety
<1>1. SafetyInv => StateMachineSafety
  <2> SUFFICES ASSUME SafetyInv PROVE StateMachineSafety
    OBVIOUS
  <2>1. ASSUME NEW i \in Server, NEW j \in Server, NEW n \in 1..Min({commitIndex[i], commitIndex[j]})
        PROVE  log[i][n] = log[j][n]
    <3>1. commitIndex[i] \in Nat /\ commitIndex[j] \in Nat
      BY LedgerTypes DEF SafetyInv
    <3>2. n \in 1..commitIndex[i] /\ n \in 1..commitIndex[j]
      BY <2>1, <3>1, MinOfPair
    <3> QED
      BY <3>2, CommittedAgree
  <2> QED
    BY <2>1, CommittedHeld DEF StateMachineSafety
<1> QED
  BY <1>1, SafetyInvAlways, PTL

\* The node that wins an election (startElectionLocked and becomeLeaderLocked of
\* raft.go) has every entry any node of its term or before has committed.
THEOREM LeadersHoldTheCommitted == Spec => []LeaderCompleteness
<1>1. SafetyInv => LeaderCompleteness
  <2> SUFFICES ASSUME SafetyInv, NEW i \in Server, NEW j \in Server,
                      role[i] = Leader, currentTerm[j] <= currentTerm[i]
               PROVE  /\ commitIndex[j] <= Len(log[i])
                      /\ \A n \in 1..commitIndex[j] : log[i][n] = log[j][n]
    BY DEF LeaderCompleteness
  <2>1. commitIndex[j] \in Nat /\ Len(log[i]) \in Nat /\ currentTerm[i] \in Nat /\ currentTerm[j] \in Nat
    BY LedgerTypes DEF SafetyInv
  <2>2. CASE commitIndex[j] # 0
    <3>1. PICK t \in DOMAIN ledger, h \in Nat :
             /\ t <= currentTerm[j] /\ commitIndex[j] <= h
             /\ Chosen(h, t) /\ Agree(ledger[t], log[j], commitIndex[j])
      BY <2>2, CommittedFrom
    <3>2. currentTerm[i] \in DOMAIN ledger /\ log[i] = ledger[currentTerm[i]]
      BY LeaderListed DEF SafetyInv, LedgerInv, LeadersWrite
    <3>3. t \in Nat /\ t <= currentTerm[i]
      BY <2>1, <3>1, LedgerTypes DEF SafetyInv
    <3>4. Agree(log[i], ledger[t], h)
      BY <3>1, <3>2, <3>3, ChosenHeld DEF SafetyInv
    <3> QED
      BY <2>1, <3>1, <3>4 DEF Agree
  <2> QED
    BY <2>1, <2>2
<1> QED
  BY <1>1, SafetyInvAlways, PTL

\* A candidate that misses a committed entry is refused by every quorum: the
\* up-to-date check of RequestVote (raft.go, Raft section 5.4.1) works with the
\* own-term rule of advanceCommitIndexLocked.
THEOREM CommittedIsOutvoted == Spec => []CommittedOutvotesTheRest
<1>1. SafetyInv => CommittedOutvotesTheRest
  <2> SUFFICES ASSUME SafetyInv, NEW i \in Server, NEW c \in Server,
                      NEW n \in 1..Min({commitIndex[i], Len(log[i])}),
                      IsQuorum(Cardinality({v \in Server :
                          v = c \/ UpToDate(LastTerm(log[c]), Len(log[c]), log[v])}))
               PROVE  n <= Len(log[c]) /\ log[c][n] = log[i][n]
    BY DEF CommittedOutvotesTheRest
  <2> DEFINE V == {v \in Server : v = c \/ UpToDate(LastTerm(log[c]), Len(log[c]), log[v])}
  <2>1. commitIndex[i] \in Nat /\ commitIndex[i] # 0 /\ n \in 1..commitIndex[i]
    <3>1. commitIndex[i] \in Nat /\ Len(log[i]) \in Nat
      BY LedgerTypes DEF SafetyInv
    <3> QED
      BY <3>1, MinOfPair
  <2>2. PICK t \in DOMAIN ledger, h \in Nat :
           /\ commitIndex[i] <= h /\ Chosen(h, t) /\ Agree(ledger[t], log[i], commitIndex[i])
    BY <2>1, CommittedFrom
  <2>3. PICK Q \in SUBSET Server : IsQuorum(Cardinality(Q)) /\ \A w \in Q : Kept(w, h, t)
    BY <2>2 DEF Chosen
  <2>4. PICK v \in Server : v \in V /\ v \in Q
    BY <2>3, QuorumsMeet
  <2>5. Agree(ledger[t], log[v], h) /\ t \in Nat
    BY <2>2, <2>3, <2>4, LedgerTypes DEF Kept, SafetyInv
  <2>6. Agree(ledger[t], log[c], h)
    <3>1. CASE v = c
      BY <2>5, <3>1
    <3>2. CASE v # c
      BY <2>2, <2>4, <2>5, <3>2, UpToDateHolds DEF Chosen, SafetyInv
    <3> QED
      BY <3>1, <3>2
  <2>7. n \in 1..h /\ Len(log[c]) \in Nat
    BY <2>1, <2>2, LedgerTypes DEF SafetyInv
  <2> QED
    BY <2>1, <2>2, <2>6, <2>7 DEF Agree
<1> QED
  BY <1>1, SafetyInvAlways, PTL

LEMMA CommittedStaysStep ==
    ASSUME SafetyInv, SafetyInv', [Next]_vars, NEW i \in Server
    PROVE  /\ commitIndex[i] <= commitIndex'[i]
           /\ commitIndex[i] <= Len(log'[i])
           /\ SubSeq(log'[i], 1, commitIndex[i]) = SubSeq(log[i], 1, commitIndex[i])
           /\ role[i] = Leader /\ role'[i] = Leader =>
                 /\ Len(log[i]) <= Len(log'[i])
                 /\ SubSeq(log'[i], 1, Len(log[i])) = log[i]
<1>1. /\ commitIndex[i] \in Nat /\ log[i] \in Seq(Entry) /\ log'[i] \in Seq(Entry)
      /\ Len(log[i]) \in Nat /\ Len(log'[i]) \in Nat
  BY LedgerTypes, LenProperties DEF SafetyInv, TypeInv, LogOK
<1>2. Agree(log[i], log'[i], commitIndex[i])
  <2>1. CASE commitIndex[i] = 0
    BY <1>1, <2>1 DEF Agree
  <2>2. CASE commitIndex[i] # 0
    <3>1. PICK t \in DOMAIN ledger, n \in Nat :
             /\ t <= currentTerm[i] /\ commitIndex[i] <= n /\ n <= Len(ledger[t])
             /\ Chosen(n, t) /\ Agree(ledger[t], log[i], commitIndex[i])
      BY <2>2, CommittedFrom
    <3>2. n \in commitIndex[i]..Len(ledger[t])
      BY <1>1, <3>1, LedgerTypes DEF SafetyInv
    <3> QED
      BY <1>1, <3>1, <3>2, SettledStays DEF SafetyInv
  <2> QED
    BY <2>1, <2>2
<1>3. commitIndex[i] <= Len(log'[i])
  BY <1>2 DEF Agree
<1>4. SubSeq(log'[i], 1, commitIndex[i]) = SubSeq(log[i], 1, commitIndex[i])
  BY <1>1, <1>2, SamePrefix
<1>5. commitIndex[i] <= commitIndex'[i]
  <2>1. CASE commitIndex'[i] = commitIndex[i]
    BY <1>1, <2>1
  <2>2. ASSUME NEW m \in appReqs, m.commit > commitIndex[i],
               commitIndex'[i] = Min({m.commit, Len(log'[i])})
        PROVE  commitIndex[i] <= commitIndex'[i]
    <3>1. m.commit \in Nat
      BY LedgerTypes DEF SafetyInv
    <3>2. commitIndex'[i] \in {m.commit, Len(log'[i])}
      BY <1>1, <2>2, <3>1, MinOfPair
    <3> QED
      BY <1>1, <1>3, <2>2, <3>1, <3>2
  <2>3. ASSUME NEW m \in appReps, m.to = i, Counts(m)
        PROVE  commitIndex[i] <= commitIndex'[i]
    <3>1. commitIndex'[i] = LeaderCommit(i, matchIndex'[i])
      BY <2>3 DEF Counts, SafetyInv, TypeInv, LogOK
    <3> QED
      BY <3>1, LeaderCommitType, TypeInvImplies DEF SafetyInv
  <2> QED
    BY <2>1, <2>2, <2>3, CommitMoves DEF SafetyInv
<1>6. ASSUME role[i] = Leader, role'[i] = Leader
      PROVE  /\ Len(log[i]) <= Len(log'[i])
             /\ SubSeq(log'[i], 1, Len(log[i])) = log[i]
  <2>1. currentTerm'[i] = currentTerm[i] /\ Grows(ledger, ledger')
    BY <1>6, StepKinds, LedgerGrowth DEF SafetyInv, LedgerInv, Orderly
  <2>2. /\ currentTerm[i] \in DOMAIN ledger
        /\ log[i] = ledger[currentTerm[i]] /\ log'[i] = ledger'[currentTerm'[i]]
    BY <1>6, LeaderListed DEF SafetyInv, LedgerInv, LeadersWrite
  <2>3. Agree(log[i], log'[i], Len(log[i]))
    BY <2>1, <2>2 DEF Grows
  <2>4. SubSeq(log'[i], 1, Len(log[i])) = SubSeq(log[i], 1, Len(log[i]))
    BY <1>1, <2>3, SamePrefix
  <2> QED
    BY <1>1, <2>3, <2>4, SubSeqFull DEF Agree
<1> QED
  BY <1>3, <1>4, <1>5, <1>6

\* No handler of raft.go takes back or rewrites a committed entry, although step 3
\* of AppendEntries cuts logs, and a leader only adds to its own log.
THEOREM CommittedStays == Spec => CommittedIsFinal
<1> DEFINE Final(i) ==
        /\ commitIndex[i] <= commitIndex'[i]
        /\ commitIndex[i] <= Len(log'[i])
        /\ SubSeq(log'[i], 1, commitIndex[i]) = SubSeq(log[i], 1, commitIndex[i])
        /\ role[i] = Leader /\ role'[i] = Leader =>
              /\ Len(log[i]) <= Len(log'[i])
              /\ SubSeq(log'[i], 1, Len(log[i])) = log[i]
<1>1. SafetyInv /\ SafetyInv' /\ [Next]_vars => [\A i \in Server : Final(i)]_vars
  BY CommittedStaysStep
<1> QED
  BY <1>1, SafetyInvAlways, PTL DEF Spec, CommittedIsFinal

-----------------------------------------------------------------------------
(* Callers *)

\* A future of node i waits for its own command, at an index still to be
\* committed in the term its caller proposed in.
FutureOK(i, q) ==
    /\ role[i] = Leader
    /\ q.idx \in (commitIndex[i] + 1)..Len(log[i])
    /\ log[i][q.idx].cmd = q.id
    /\ call[q.id].state = "waiting" /\ call[q.id].node = i
    /\ call[q.id].idx = q.idx /\ call[q.id].term = currentTerm[i]

FuturesInv == \A i \in Server : \A q \in proposals[i] : FutureOK(i, q)

\* A command reported as committed is part of what was chosen in its term.
AnswersInv ==
    \A p \in Proposal : call[p].state = "ok" =>
        /\ call[p].idx # 0 /\ call[p].term \in DOMAIN ledger
        /\ ledger[call[p].term][call[p].idx].cmd = p
        /\ \E n \in Nat : call[p].idx <= n /\ Chosen(n, call[p].term)

LEMMA FutureType ==
    ASSUME TypeInv, NEW i \in Server, NEW q \in proposals[i]
    PROVE  q.idx \in Nat /\ q.id \in Proposal /\ q = [idx |-> q.idx, id |-> q.id]
  BY DEF TypeInv, CallsOK

\* failPendingProposalsLocked on node k leaves the futures of the others alone.
LEMMA FailOthers ==
    ASSUME TypeInv, FuturesInv, NEW k \in Server, FailPending(k)
    PROVE  /\ \A i \in Server : \A q \in proposals'[i] :
                 i # k /\ q \in proposals[i] /\ call'[q.id] = call[q.id]
           /\ \A p \in Proposal : call'[p] = call[p] \/ call'[p].state = "failed"
<1>1. /\ proposals' = [proposals EXCEPT ![k] = {}]
      /\ call' = [p \in Proposal |-> IF \E q \in proposals[k] : q.id = p
                                     THEN [call[p] EXCEPT !.state = "failed"] ELSE call[p]]
  BY DEF FailPending
<1>2. ASSUME NEW i \in Server, NEW q \in proposals'[i]
      PROVE  i # k /\ q \in proposals[i] /\ call'[q.id] = call[q.id]
  <2>1. i # k /\ q \in proposals[i]
    BY <1>1, <1>2 DEF TypeInv, CallsOK
  <2>2. ~\E r \in proposals[k] : r.id = q.id
    BY <2>1 DEF FuturesInv, FutureOK
  <2>3. q.id \in Proposal
    BY <2>1, FutureType
  <2> QED
    BY <1>1, <2>1, <2>2, <2>3
<1>3. \A p \in Proposal : call'[p] = call[p] \/ call'[p].state = "failed"
  BY <1>1 DEF TypeInv, CallsOK, Calls
<1> QED
  BY <1>2, <1>3

\* A future stays good when nothing it speaks of changes.
LEMMA FutureStays ==
    ASSUME TypeInv, NEW i \in Server, NEW q \in proposals[i], FutureOK(i, q),
           role'[i] = role[i], currentTerm'[i] = currentTerm[i], log'[i] = log[i],
           commitIndex'[i] = commitIndex[i], call'[q.id] = call[q.id]
    PROVE  FutureOK(i, q)'
  BY DEF FutureOK

\* A node that steps down, or closes, fails its own futures and no others.
LEMMA StepDownFutures ==
    ASSUME TypeInv, FuturesInv, NEW k \in Server, FailPending(k), UNCHANGED logVars,
           \A i \in Server \ {k} : role'[i] = role[i] /\ currentTerm'[i] = currentTerm[i]
    PROVE  FuturesInv'
<1>1. ASSUME NEW i \in Server, NEW q \in proposals'[i]
      PROVE  FutureOK(i, q)'
  <2>1. i # k /\ q \in proposals[i] /\ call'[q.id] = call[q.id]
    BY FailOthers
  <2>2. FutureOK(i, q)
    BY <2>1 DEF FuturesInv
  <2> QED
    BY <2>1, <2>2, FutureStays DEF logVars
<1> QED
  BY <1>1 DEF FuturesInv

LEMMA ReplyStepDownFutures ==
    ASSUME TypeInv, FuturesInv, NEW k \in Server, NEW term, ReplyStepDown(k, term)
    PROVE  FuturesInv' /\ \A p \in Proposal : call'[p] = call[p] \/ call'[p].state = "failed"
<1>1. /\ FailPending(k) /\ UNCHANGED logVars
      /\ \A i \in Server \ {k} : role'[i] = role[i] /\ currentTerm'[i] = currentTerm[i]
  BY DEF ReplyStepDown, StepDown
<1> QED
  BY <1>1, StepDownFutures, FailOthers

\* applyCommittedEntriesLocked keeps the futures outside the range it answers.
LEMMA AnswersLeave ==
    ASSUME TypeInv, FuturesInv, NEW k \in Server, NEW lo \in Nat, NEW hi \in Nat,
           AnswerCommitted(k, lo, hi)
    PROVE  \A i \in Server : \A q \in proposals'[i] :
                 /\ q \in proposals[i] /\ call'[q.id] = call[q.id]
                 /\ i = k => q.idx \notin (lo + 1)..hi
<1> DEFINE done == {q \in proposals[k] : q.idx \in (lo + 1)..hi}
<1>1. /\ proposals' = [proposals EXCEPT ![k] = @ \ done]
      /\ call' = [p \in Proposal |-> IF \E q \in done : q.id = p
                                     THEN [call[p] EXCEPT !.state = "ok"] ELSE call[p]]
  BY DEF AnswerCommitted
<1>2. ASSUME NEW i \in Server, NEW q \in proposals'[i]
      PROVE  /\ q \in proposals[i] /\ call'[q.id] = call[q.id]
             /\ i = k => q.idx \notin (lo + 1)..hi
  <2>1. q \in proposals[i] /\ (i = k => q \notin done)
    BY <1>1, <1>2 DEF TypeInv, CallsOK
  <2>2. ~\E r \in done : r.id = q.id
    <3>1. ASSUME NEW r \in done, r.id = q.id
          PROVE  FALSE
      <4>1. i = k /\ r.idx = q.idx /\ r \in proposals[k]
        BY <2>1, <3>1 DEF FuturesInv, FutureOK
      <4>2. r = q
        BY <2>1, <3>1, <4>1, FutureType
      <4> QED
        BY <2>1, <4>1, <4>2
    <3> QED
      BY <3>1
  <2>3. q.id \in Proposal
    BY <2>1, FutureType
  <2>4. call'[q.id] = call[q.id]
    BY <1>1, <2>2, <2>3
  <2> QED
    BY <2>1, <2>4
<1> QED
  BY <1>2

LEMMA AnswersGive ==
    ASSUME NEW k, NEW lo, NEW hi, AnswerCommitted(k, lo, hi), NEW p \in Proposal
    PROVE  \/ call'[p] = call[p]
           \/ \E q \in proposals[k] : /\ q.id = p /\ q.idx \in (lo + 1)..hi
                                      /\ call'[p] = [call[p] EXCEPT !.state = "ok"]
  BY DEF AnswerCommitted

\* An answer of success is what it was, or the one leader's that has just
\* counted a quorum.
Answered(p) ==
    \/ call'[p] = call[p]
    \/ call'[p].state # "ok"
    \/ \E m \in appReps : \E q \in proposals[m.to] :
          /\ Counts(m) /\ q.id = p
          /\ q.idx \in (commitIndex[m.to] + 1)..commitIndex'[m.to]
          /\ call'[p] = [call[p] EXCEPT !.state = "ok"]

LEMMA AppendEntriesFutures ==
    ASSUME TypeInv, ElectionInv, LedgerInv, FuturesInv, NEW m \in appReqs, AppendEntries(m)
    PROVE  FuturesInv' /\ \A p \in Proposal : Answered(p)
<1> DEFINE k == m.to
<1>1. /\ k \in Server
      /\ role'[k] = Follower \/ (role'[k] = role[k] /\ role[k] \notin {Leader, Candidate})
      /\ \A i \in Server \ {k} : /\ role'[i] = role[i] /\ currentTerm'[i] = currentTerm[i]
                                 /\ log'[i] = log[i]
  BY LeaderGetsNoAppend DEF LedgerInv
<1>2. \A i \in Server \ {k} : commitIndex'[i] = commitIndex[i]
  BY <1>1 DEF AppendEntries, TypeInv, LogOK, logVars
<1>3. CASE FailPending(k)
  <2>1. ASSUME NEW i \in Server, NEW q \in proposals'[i]
        PROVE  FutureOK(i, q)'
    <3>1. i # k /\ q \in proposals[i] /\ call'[q.id] = call[q.id]
      BY <1>1, <1>3, FailOthers
    <3>2. FutureOK(i, q)
      BY <3>1 DEF FuturesInv
    <3> QED
      BY <1>1, <1>2, <3>1, <3>2, FutureStays
  <2>2. \A p \in Proposal : Answered(p)
    BY <1>1, <1>3, FailOthers DEF Answered
  <2> QED
    BY <2>1, <2>2 DEF FuturesInv
<1>4. ASSUME ~Yields(k, m), NEW hi \in Nat, AnswerCommitted(k, commitIndex[k], hi)
      PROVE  FuturesInv' /\ \A p \in Proposal : Answered(p)
  <2>1. proposals[k] = {} /\ commitIndex[k] \in Nat
    <3>1. role[k] # Leader
      BY <1>1, <1>4 DEF AppendEntries, Follower, Leader
    <3> QED
      BY <1>1, <3>1 DEF FuturesInv, FutureOK, TypeInv, LogOK
  <2>2. ASSUME NEW i \in Server, NEW q \in proposals'[i]
        PROVE  FutureOK(i, q)'
    <3>1. q \in proposals[i] /\ call'[q.id] = call[q.id]
      BY <1>1, <1>4, <2>1, AnswersLeave
    <3>2. i # k /\ FutureOK(i, q)
      BY <2>1, <3>1 DEF FuturesInv
    <3> QED
      BY <1>1, <1>2, <3>1, <3>2, FutureStays
  <2>3. ASSUME NEW p \in Proposal
        PROVE  call'[p] = call[p]
    <3>1. ~\E q \in {r \in proposals[k] : r.idx \in (commitIndex[k] + 1)..hi} : q.id = p
      BY <2>1
    <3> QED
      BY <1>4, <3>1 DEF AnswerCommitted
  <2> QED
    BY <2>2, <2>3 DEF FuturesInv, Answered
<1>5. FailPending(k) \/ (~Yields(k, m) /\ \E hi \in Nat : AnswerCommitted(k, commitIndex[k], hi))
  <2> DEFINE r  == Merge(log[k], m.prev, m.entries)
             hi == IF Accepts(log[k], m)
                   THEN IF m.commit > commitIndex[k] THEN Min({m.commit, Len(r)}) ELSE commitIndex[k]
                   ELSE commitIndex[k]
  <2>1. FailPending(k) \/ (~Yields(k, m) /\ AnswerCommitted(k, commitIndex[k], hi))
    BY DEF AppendEntries
  <2>2. hi \in Nat
    <3>1. /\ commitIndex[k] \in Nat /\ m.commit \in Nat /\ log[k] \in Seq(Entry) /\ Len(log[k]) \in Nat
          /\ m.prev \in Nat /\ m.entries \in Seq(Entry)
      BY <1>1, LedgerTypes DEF TypeInv, AppReqsOK, WellFormedAppend, AppReqs
    <3>2. CASE Accepts(log[k], m)
      <4>1. r \in Seq(Entry)
        BY <3>1, <3>2, MergeType DEF Accepts
      <4>2. Len(r) \in Nat
        BY <4>1, LenProperties
      <4> HIDE DEF r
      <4>3. Min({m.commit, Len(r)}) \in Nat
        BY <3>1, <4>2, MinOfPair
      <4> QED
        BY <3>1, <4>3
    <3>3. CASE ~Accepts(log[k], m)
      BY <3>1, <3>3
    <3> QED
      BY <3>2, <3>3
  <2> HIDE DEF hi
  <2> QED
    BY <2>1, <2>2
<1> QED
  BY <1>3, <1>4, <1>5

LEMMA AppendEntriesReplyFutures ==
    ASSUME TypeInv, FuturesInv, NEW m \in appReps, AppendEntriesReply(m)
    PROVE  FuturesInv' /\ \A p \in Proposal : Answered(p)
<1> DEFINE k == m.to
<1>1. k \in Server /\ m.term \in Nat /\ currentTerm[k] \in Nat
  BY DEF TypeInv, AppReps, NodeOK
<1>2. CASE m.term > currentTerm[k]
  <2>1. ReplyStepDown(k, m.term)
    BY <1>1, <1>2 DEF AppendEntriesReply
  <2> QED
    BY <1>1, <2>1, ReplyStepDownFutures DEF Answered
<1>3. CASE UNCHANGED <<role, currentTerm, log, commitIndex, call, proposals>>
  BY <1>3 DEF FuturesInv, FutureOK, Answered
<1>4. ASSUME m.term <= currentTerm[k], role[k] = Leader, currentTerm[k] = m.reqTerm, m.success,
             matchIndex' = [matchIndex EXCEPT ![k][m.from] = Max({@, m.match})],
             commitIndex' = [commitIndex EXCEPT ![k] = LeaderCommit(k, matchIndex'[k])],
             AnswerCommitted(k, commitIndex[k], commitIndex'[k]),
             appReps' = appReps \ {m},
             UNCHANGED <<nodeVars, log, voteReqs, appReqs, stopped, elections, ledger>>
      PROVE  FuturesInv' /\ \A p \in Proposal : Answered(p)
  <2>1. Counts(m)
    BY <1>4 DEF Counts, nodeVars
  <2>2. /\ commitIndex[k] \in Nat /\ commitIndex'[k] \in Nat /\ commitIndex[k] <= commitIndex'[k]
        /\ \A i \in Server \ {k} : commitIndex'[i] = commitIndex[i]
    BY <1>1, <1>4, LeaderCommitType, TypeInvImplies DEF TypeInv, LogOK
  <2>3. ASSUME NEW i \in Server, NEW q \in proposals'[i]
        PROVE  FutureOK(i, q)'
    <3>1. /\ q \in proposals[i] /\ call'[q.id] = call[q.id]
          /\ i = k => q.idx \notin (commitIndex[k] + 1)..commitIndex'[k]
      BY <1>1, <1>4, <2>2, AnswersLeave
    <3>2. FutureOK(i, q) /\ q.idx \in Nat
      BY <3>1, FutureType DEF FuturesInv
    <3>3. Len(log[i]) \in Nat /\ role'[i] = role[i] /\ currentTerm'[i] = currentTerm[i] /\ log'[i] = log[i]
      BY <1>4, LedgerTypes DEF nodeVars
    <3>4. CASE i # k
      BY <2>2, <3>1, <3>2, <3>3, <3>4, FutureStays
    <3>5. CASE i = k
      <4>1. q.idx \in (commitIndex'[i] + 1)..Len(log[i])
        BY <2>2, <3>1, <3>2, <3>3, <3>5 DEF FutureOK
      <4> QED
        BY <3>1, <3>2, <3>3, <4>1 DEF FutureOK
    <3> QED
      BY <3>4, <3>5
  <2>4. ASSUME NEW p \in Proposal
        PROVE  Answered(p)
    <3>1. \/ call'[p] = call[p]
          \/ \E q \in proposals[k] : /\ q.id = p /\ q.idx \in (commitIndex[k] + 1)..commitIndex'[k]
                                     /\ call'[p] = [call[p] EXCEPT !.state = "ok"]
      BY <1>1, <1>4, <2>2, AnswersGive
    <3> QED
      BY <2>1, <3>1 DEF Answered
  <2> QED
    BY <2>3, <2>4 DEF FuturesInv
<1> QED
  BY <1>1, <1>2, <1>3, <1>4 DEF AppendEntriesReply, nodeVars, logVars, callVars

LEMMA ProposeFutures ==
    ASSUME TypeInv, ElectionInv, LedgerInv, FuturesInv,
           \A i \in Server : commitIndex[i] <= Len(log[i]),
           NEW k \in Server, NEW p \in Proposal, Propose(k, p)
    PROVE  FuturesInv' /\ \A h \in Proposal : Answered(h)
<1> DEFINE e == [term |-> currentTerm[k], cmd |-> p]
           idx == Len(log[k]) + 1
           c == [state |-> "waiting", node |-> k, idx |-> idx, term |-> currentTerm[k]]
<1>1. /\ e \in Entry /\ e.cmd = p /\ role[k] = Leader /\ log'[k] = Append(log[k], e)
      /\ \A i \in Server \ {k} : log'[i] = log[i]
      /\ UNCHANGED <<currentTerm, role, commitIndex>>
      /\ call[p].state = "idle"
      /\ call' = [call EXCEPT ![p] = c]
      /\ proposals' = [proposals EXCEPT ![k] = {q \in @ : q.idx # idx} \cup {[idx |-> idx, id |-> p]}]
  BY ProposeAdds DEF Propose
<1>2. /\ log[k] \in Seq(Entry) /\ Len(log[k]) \in Nat /\ idx \in Nat
      /\ \A i \in Server : commitIndex[i] \in Nat
      /\ c.state = "waiting" /\ c.node = k /\ c.idx = idx /\ c.term = currentTerm[k]
  BY LedgerTypes
<1> HIDE DEF e, c
<1>3. /\ Len(log'[k]) = Len(log[k]) + 1 /\ log'[k][idx] = e
      /\ \A h \in 1..Len(log[k]) : log'[k][h] = log[k][h]
  BY <1>1, <1>2, AppendProperties
<1> HIDE DEF idx
<1>4. ASSUME NEW i \in Server, NEW q \in proposals'[i]
      PROVE  FutureOK(i, q)'
  <2>1. CASE q \in proposals[i]
    <3>1. FutureOK(i, q) /\ q.idx \in Nat /\ q.id \in Proposal
      BY <2>1, FutureType DEF FuturesInv
    <3>2. q.id # p
      BY <1>1, <3>1 DEF FutureOK
    <3>3. call'[q.id] = call[q.id]
      BY <1>1, <3>1, <3>2 DEF TypeInv, CallsOK
    <3>4. CASE i = k
      <4>1. q.idx \in (commitIndex[k] + 1)..Len(log[k]) /\ q.idx \in 1..Len(log[k])
        BY <1>2, <3>1, <3>4 DEF FutureOK
      <4>2. q.idx \in (commitIndex'[k] + 1)..Len(log'[k]) /\ log'[k][q.idx] = log[k][q.idx]
        BY <1>1, <1>2, <1>3, <4>1
      <4> QED
        BY <1>1, <3>1, <3>3, <3>4, <4>2 DEF FutureOK
    <3>5. CASE i # k
      BY <1>1, <2>1, <3>1, <3>3, <3>5, FutureStays
    <3> QED
      BY <3>4, <3>5
  <2>2. CASE q \notin proposals[i]
    <3>1. i = k /\ q.idx = idx /\ q.id = p
      BY <1>1, <1>4, <2>2 DEF TypeInv, CallsOK
    <3>2. call'[p] = c
      BY <1>1 DEF TypeInv, CallsOK
    <3>3. idx \in (commitIndex'[k] + 1)..Len(log'[k])
      BY <1>1, <1>2, <1>3 DEF idx
    <3> QED
      BY <1>1, <1>2, <1>3, <3>1, <3>2, <3>3 DEF FutureOK
  <2> QED
    BY <2>1, <2>2
<1>5. \A h \in Proposal : Answered(h)
  BY <1>1, <1>2 DEF Answered, TypeInv, CallsOK
<1> QED
  BY <1>4, <1>5 DEF FuturesInv

LEMMA DeadlineFutures ==
    ASSUME TypeInv, FuturesInv, NEW p \in Proposal, ProposeDeadline(p)
    PROVE  FuturesInv' /\ \A h \in Proposal : Answered(h)
<1> DEFINE c == call[p]
<1>1. /\ proposals' = [proposals EXCEPT ![c.node] = {q \in @ : q.idx # c.idx}]
      /\ call' = [call EXCEPT ![p].state = "expired"]
      /\ UNCHANGED <<currentTerm, role, log, commitIndex>>
  BY DEF ProposeDeadline, nodeVars, logVars
<1>2. \A h \in Proposal : (h # p => call'[h] = call[h]) /\ (h = p => call'[h].state = "expired")
  BY <1>1 DEF TypeInv, CallsOK, Calls
<1>3. ASSUME NEW i \in Server, NEW q \in proposals'[i]
      PROVE  FutureOK(i, q)'
  <2>1. q \in proposals[i] /\ (i = c.node => q.idx # c.idx)
    BY <1>1, <1>3 DEF TypeInv, CallsOK
  <2>2. FutureOK(i, q) /\ q.id \in Proposal
    BY <2>1, FutureType DEF FuturesInv
  <2>3. q.id # p
    BY <2>1, <2>2 DEF FutureOK
  <2> QED
    BY <1>1, <1>2, <2>1, <2>2, <2>3, FutureStays
<1> QED
  BY <1>2, <1>3 DEF FuturesInv, Answered

LEMMA FuturesStep ==
    ASSUME SafetyInv, FuturesInv, [Next]_vars
    PROVE  FuturesInv' /\ \A p \in Proposal : Answered(p)
<1>0. TypeInv /\ ElectionInv /\ LedgerInv /\ \A i \in Server : commitIndex[i] <= Len(log[i])
  BY CommittedHeld DEF SafetyInv
<1>1. ASSUME NEW k \in Server, Timeout(k)
      PROVE  FuturesInv' /\ \A p \in Proposal : Answered(p)
  <2>1. proposals[k] = {}
    BY <1>0, <1>1 DEF Timeout, FuturesInv, FutureOK, TypeInv, CallsOK
  <2>2. /\ \A i \in Server \ {k} : role'[i] = role[i] /\ currentTerm'[i] = currentTerm[i]
        /\ UNCHANGED <<logVars, callVars>>
    BY <1>1 DEF Timeout
  <2>3. ASSUME NEW i \in Server, NEW q \in proposals'[i]
        PROVE  FutureOK(i, q)'
    <3>1. i # k /\ q \in proposals[i] /\ FutureOK(i, q)
      BY <2>1, <2>2, <2>3 DEF FuturesInv, callVars
    <3> QED
      BY <1>0, <2>2, <3>1, FutureStays DEF logVars, callVars
  <2> QED
    BY <2>2, <2>3 DEF FuturesInv, Answered, callVars
<1>2. ASSUME NEW m \in voteReqs, RequestVote(m)
      PROVE  FuturesInv' /\ \A p \in Proposal : Answered(p)
  <2>1. m.to \in Server /\ UNCHANGED logVars
    BY <1>0, <1>2 DEF RequestVote, TypeInv, VoteReqs
  <2>2. CASE FailPending(m.to)
    <3>1. \A i \in Server \ {m.to} : role'[i] = role[i] /\ currentTerm'[i] = currentTerm[i]
      BY <1>0, <1>2, <2>1 DEF RequestVote, TypeInv, NodeOK
    <3> QED
      BY <1>0, <2>1, <2>2, <3>1, StepDownFutures, FailOthers DEF Answered
  <2>3. CASE UNCHANGED <<currentTerm, role, callVars>>
    BY <2>1, <2>3 DEF FuturesInv, FutureOK, Answered, callVars, logVars
  <2> QED
    BY <1>2, <2>2, <2>3 DEF RequestVote
<1>3. ASSUME NEW m \in voteReps, RequestVoteReply(m)
      PROVE  FuturesInv' /\ \A p \in Proposal : Answered(p)
  <2> DEFINE k == m.to
  <2>1. k \in Server /\ m.term \in Nat /\ currentTerm[k] \in Nat
    BY <1>0 DEF TypeInv, VoteReps, NodeOK
  <2>2. CASE ReplyStepDown(k, m.term)
    BY <1>0, <2>1, <2>2, ReplyStepDownFutures DEF Answered
  <2>3. CASE ~ReplyStepDown(k, m.term)
    <3>1. /\ UNCHANGED <<currentTerm, logVars, callVars>>
          /\ role' = role \/ (role[k] = Candidate /\ role' = [role EXCEPT ![k] = Leader])
      BY <1>3, <2>3 DEF RequestVoteReply, BecomeLeader, nodeVars
    <3>2. ASSUME NEW i \in Server, NEW q \in proposals'[i]
          PROVE  FutureOK(i, q)'
      <4>1. q \in proposals[i] /\ FutureOK(i, q)
        BY <3>1, <3>2 DEF FuturesInv, callVars
      <4>2. role'[i] = role[i]
        BY <1>0, <2>1, <3>1, <4>1 DEF FutureOK, Candidate, Leader, TypeInv, NodeOK
      <4> QED
        BY <1>0, <3>1, <4>1, <4>2, FutureStays DEF logVars, callVars
    <3> QED
      BY <3>1, <3>2 DEF FuturesInv, Answered, callVars
  <2> QED
    BY <2>2, <2>3
<1>4. ASSUME NEW k \in Server, Close(k)
      PROVE  FuturesInv' /\ \A p \in Proposal : Answered(p)
  <2>1. FailPending(k) /\ UNCHANGED <<nodeVars, logVars>>
    BY <1>4 DEF Close
  <2> QED
    BY <1>0, <2>1, StepDownFutures, FailOthers DEF Answered, nodeVars
<1>5. CASE \/ \E i \in Server : Heartbeat(i)
           \/ \E m \in appReqs : RejectAppend(m)
           \/ Lose
           \/ UNCHANGED vars
  <2>1. UNCHANGED <<currentTerm, role, logVars, callVars>>
    BY <1>5 DEF Heartbeat, RejectAppend, Lose, vars, nodeVars
  <2> QED
    BY <2>1 DEF FuturesInv, FutureOK, Answered, callVars, logVars
<1>6. ASSUME NEW m \in appReqs, AppendEntries(m)
      PROVE  FuturesInv' /\ \A p \in Proposal : Answered(p)
  BY <1>0, <1>6, AppendEntriesFutures
<1>7. ASSUME NEW m \in appReps, AppendEntriesReply(m)
      PROVE  FuturesInv' /\ \A p \in Proposal : Answered(p)
  BY <1>0, <1>7, AppendEntriesReplyFutures
<1>8. ASSUME NEW i \in Server, NEW p \in Proposal, Propose(i, p)
      PROVE  FuturesInv' /\ \A h \in Proposal : Answered(h)
  BY <1>0, <1>8, ProposeFutures
<1>9. ASSUME NEW p \in Proposal, ProposeDeadline(p)
      PROVE  FuturesInv' /\ \A h \in Proposal : Answered(h)
  BY <1>0, <1>9, DeadlineFutures
<1> QED
  BY <1>1, <1>2, <1>3, <1>4, <1>5, <1>6, <1>7, <1>8, <1>9 DEF Next

LEMMA AnswersInvStep ==
    ASSUME SafetyInv, SafetyInv', FuturesInv, AnswersInv, [Next]_vars
    PROVE  AnswersInv'
<1> SUFFICES ASSUME NEW p \in Proposal, call'[p].state = "ok"
             PROVE  /\ call'[p].idx # 0 /\ call'[p].term \in DOMAIN ledger'
                    /\ ledger'[call'[p].term][call'[p].idx].cmd = p
                    /\ \E n \in Nat : call'[p].idx <= n /\ Chosen(n, call[p].term)'
  BY DEF AnswersInv
<1>1. CASE call'[p] = call[p]
  <2>1. PICK t \in DOMAIN ledger, k \in Nat : t = call[p].term /\ k = call[p].idx
    BY <1>1 DEF AnswersInv, SafetyInv, TypeInv, CallsOK, Calls
  <2>2. k # 0 /\ ledger[t][k].cmd = p
    BY <1>1, <2>1 DEF AnswersInv
  <2>3. PICK n \in Nat : k <= n /\ Chosen(n, t)
    BY <1>1, <2>1 DEF AnswersInv
  <2>4. t \in Nat /\ Chosen(n, t)'
    BY <2>3, LedgerTypes, ChosenStep DEF SafetyInv
  <2>5. k \in 1..Len(ledger[t]) /\ t \in DOMAIN ledger'
    BY <2>2, <2>3, <2>4, LedgerTypes DEF Chosen, Own, SafetyInv
  <2>6. ledger'[t][k] = ledger[t][k]
    <3>1. /\ Grows(ledger, ledger')
          /\ \A u \in DOMAIN ledger : ledger[u] \in Seq(Entry)
          /\ \A u \in DOMAIN ledger' : ledger'[u] \in Seq(Entry)
      BY LedgerGrowth DEF SafetyInv, TypeInv, RestOK
    <3>2. \A h \in 1..Len(ledger[t]) : ledger[t][h] = ledger'[t][h]
      BY <3>1, GrowthKeeps
    <3> QED
      BY <2>5, <3>2
  <2> QED
    BY <1>1, <2>1, <2>2, <2>3, <2>4, <2>5, <2>6
<1>2. ASSUME NEW m \in appReps, NEW q \in proposals[m.to], Counts(m), q.id = p,
             q.idx \in (commitIndex[m.to] + 1)..commitIndex'[m.to],
             call'[p] = [call[p] EXCEPT !.state = "ok"]
      PROVE  /\ call'[p].idx # 0 /\ call'[p].term \in DOMAIN ledger'
             /\ ledger'[call'[p].term][call'[p].idx].cmd = p
             /\ \E n \in Nat : call'[p].idx <= n /\ Chosen(n, call[p].term)'
  <2>1. PICK i \in Server, t \in Nat, n \in Nat : i = m.to /\ t = currentTerm[i] /\ n = commitIndex'[i]
    BY LedgerTypes DEF SafetyInv, TypeInv, LogOK
  <2>2. FutureOK(i, q) /\ q.idx \in Nat /\ commitIndex[i] \in Nat
    BY <1>2, <2>1, FutureType, LedgerTypes DEF FuturesInv, SafetyInv
  <2>3. call'[p].idx = q.idx /\ call'[p].term = t /\ q.idx # 0 /\ q.idx <= n /\ n # commitIndex[i]
    <3>1. call'[p].idx = call[p].idx /\ call'[p].term = call[p].term
      BY <1>2 DEF SafetyInv, TypeInv, CallsOK, Calls
    <3> QED
      BY <1>2, <2>1, <2>2, <3>1 DEF FutureOK
  <2>4. /\ t \in DOMAIN ledger' /\ ledger'[t] = log'[i] /\ Chosen(n, t)'
    BY <1>2, <2>1, <2>3, CountedIsChosen DEF SafetyInv
  <2>5. log'[i][q.idx].cmd = p
    BY <1>2, <2>1, <2>2 DEF FutureOK, Counts
  <2> QED
    BY <2>3, <2>4, <2>5
<1>3. Answered(p)
  BY FuturesStep
<1> QED
  BY <1>1, <1>2, <1>3 DEF Answered

LEMMA CallersInvAlways == Spec => [](SafetyInv /\ FuturesInv /\ AnswersInv)
<1>1. Init => FuturesInv /\ AnswersInv
  BY DEF Init, FuturesInv, AnswersInv
<1>2. SafetyInv /\ SafetyInv' /\ FuturesInv /\ AnswersInv /\ [Next]_vars => FuturesInv' /\ AnswersInv'
  BY FuturesStep, AnswersInvStep
<1> QED
  BY <1>1, <1>2, SafetyInvAlways, PTL DEF Spec

\* Every future of Propose (raft.go) waits on the leader for its own entry, which
\* is not committed yet: applyCommittedEntriesLocked answers nobody for another's.
THEOREM FuturesWaitForTheirOwn == Spec => []FuturesMatchLog
<1>1. FuturesInv => FuturesMatchLog
  BY DEF FuturesInv, FutureOK, FuturesMatchLog
<1> QED
  BY <1>1, CallersInvAlways, PTL

\* A command Propose (raft.go) reports as committed is in the log of every later
\* leader, at the index its caller was given.
THEOREM AcknowledgedIsDurable == Spec => []AckedIsDurable
<1>1. SafetyInv /\ AnswersInv => AckedIsDurable
  <2> SUFFICES ASSUME SafetyInv, AnswersInv, NEW p \in Proposal, NEW i \in Server,
                      call[p].state = "ok", role[i] = Leader, currentTerm[i] >= call[p].term
               PROVE  call[p].idx <= Len(log[i]) /\ log[i][call[p].idx].cmd = p
    BY DEF AckedIsDurable
  <2>1. PICK t \in DOMAIN ledger, k \in Nat : t = call[p].term /\ k = call[p].idx
    BY DEF AnswersInv, SafetyInv, TypeInv, CallsOK, Calls
  <2>2. k # 0 /\ ledger[t][k].cmd = p
    BY <2>1 DEF AnswersInv
  <2>3. PICK n \in Nat : k <= n /\ Chosen(n, t)
    BY <2>1 DEF AnswersInv
  <2>4. /\ currentTerm[i] \in DOMAIN ledger /\ log[i] = ledger[currentTerm[i]]
        /\ t \in Nat /\ currentTerm[i] \in Nat /\ Len(log[i]) \in Nat
    BY LeaderListed, LedgerTypes DEF SafetyInv, LedgerInv, LeadersWrite
  <2>5. Agree(log[i], ledger[t], n)
    BY <2>1, <2>3, <2>4, ChosenHeld DEF SafetyInv
  <2>6. k \in 1..n
    BY <2>2, <2>3
  <2>7. n <= Len(log[i]) /\ log[i][k] = ledger[t][k]
    BY <2>5, <2>6 DEF Agree
  <2>8. k <= Len(log[i])
    BY <2>3, <2>4, <2>7
  <2> QED
    BY <2>1, <2>2, <2>7, <2>8
<1> QED
  BY <1>1, CallersInvAlways, PTL
=============================================================================
