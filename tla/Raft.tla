-------------------------------- MODULE Raft --------------------------------
(***************************************************************************)
(* The consensus node of internal/cluster/raft.go.                         *)
(*                                                                         *)
(* Every handler of the code runs under rn.mu, so a handler is one atomic  *)
(* action here; what is interleaved are the handlers of different nodes,   *)
(* the timers, the goroutines that carry one RPC each, and the clients     *)
(* blocked in Propose.  An RPC is a record in one of four sets: it is      *)
(* delivered at most once, after any delay and in any order, and either    *)
(* half of it may be lost (the 40 ms transport timeout).                   *)
(*                                                                         *)
(* All the state is in memory: nothing here survives the process.  A node  *)
(* that comes back after a crash is the subject of RaftRestart.            *)
(***************************************************************************)
EXTENDS Naturals, Sequences, FiniteSets, FiniteSetsExt

CONSTANTS
    Server,       \* the nodes: RaftConfig.Peers and NodeID, the same on every node
    Proposal,     \* the commands submitted, each by one call of Propose
    Nil,          \* the empty string of votedFor and leaderID
    MaxTerm,      \* bound: no election is started past this term
    MaxInFlight,  \* bound: RPC halves in flight at any time
    MaxStopped,   \* bound: nodes that are closed
    MaxExpired    \* bound: calls of Propose that run out of time

ASSUME ServerAssumption ==
    /\ IsFiniteSet(Server)
    /\ Cardinality(Server) > 1     \* a cluster of one takes other paths
    /\ Nil \notin Server
ASSUME BoundAssumption ==
    MaxTerm \in Nat /\ MaxInFlight \in Nat /\ MaxStopped \in Nat /\ MaxExpired \in Nat

Follower  == "Follower"
Candidate == "Candidate"
Leader    == "Leader"

VARIABLES
    currentTerm, votedFor, role, leaderID,
    votes,        \* peers whose granted reply the node's last election counted
    log,          \* without the dummy entry at index 0
    commitIndex,  \* lastApplied too: every handler that moves it drains it
    nextIndex, matchIndex,
    proposals,    \* per node, the futures waiting at a log index
    stopped,      \* nodes whose stopCh is closed
    call,         \* per proposal, what its call of Propose is doing
    voteReqs, voteReps, appReqs, appReps,  \* the RPCs in flight
    elections,    \* history: every election won, with the voters that won it
    ledger        \* history: for each term won, the log of its leader as it last led

nodeVars   == <<currentTerm, votedFor, role, leaderID, votes>>
logVars    == <<log, commitIndex>>
leaderVars == <<nextIndex, matchIndex>>
callVars   == <<proposals, call>>
rpcVars    == <<voteReqs, voteReps, appReqs, appReps>>
vars == <<nodeVars, logVars, leaderVars, callVars, rpcVars, stopped, elections, ledger>>

-----------------------------------------------------------------------------
(* Helpers *)

Entry == [term : Nat \ {0}, cmd : Proposal]

\* getLogTerm: 0 for the dummy entry and for an index past the end.
TermAt(l, k) == IF k \in 1..Len(l) THEN l[k].term ELSE 0

LastTerm(l) == TermAt(l, Len(l))

Others(i) == Server \ {i}

\* quorumSize: n votes (or copies), the node's own included, are a majority.
IsQuorum(n) == n >= (Cardinality(Server) \div 2) + 1

\* Mutants: no up-to-date check; one that compares lengths alone.
UpToDateAlways(lastTerm, lastIndex, l) == TRUE
UpToDateByLength(lastTerm, lastIndex, l) == lastIndex >= Len(l)

\* The up-to-date check of RequestVote (Raft section 5.4.1).
UpToDate(lastTerm, lastIndex, l) ==
    \/ lastTerm > LastTerm(l)
    \/ lastTerm = LastTerm(l) /\ lastIndex >= Len(l)

\* The suffix of a peer starting at nextIndex, as broadcastAppendEntriesLocked
\* cuts it: all of it, whatever its length.
AppendRequest(i, j, l, next) ==
    [term |-> currentTerm[i], leader |-> i, to |-> j,
     prev |-> next - 1, prevTerm |-> TermAt(l, next - 1),
     entries |-> SubSeq(l, next, Len(l)), commit |-> commitIndex[i]]

\* The two maps of indexes, with the same value for each peer.  NewRaftNode makes
\* them empty: what a map does not hold reads as 0.
ForPeers(index) == [peer \in Server |-> index]

\* A next index that reads as 0 stands for the first entry.
FromFirst(next) == IF next = 0 THEN 1 ELSE next

\* One AppendEntries to every peer, from the log l and the next indexes given.
\* The transport fails at once for the peers it cannot reach.
Broadcast(i, l, next) ==
    \E reached \in SUBSET Others(i) :
        appReqs' = appReqs \cup {AppendRequest(i, j, l, FromFirst(next[j])) : j \in reached}

\* Mutants: the log is cut at prev in any case; a conflicting entry is kept.
MergeCuts(l, prev, entries) == SubSeq(l, 1, prev) \o entries
MergeKeeps(l, prev, entries) ==
    l \o SubSeq(entries, Min({Len(l) - prev, Len(entries)}) + 1, Len(entries))

\* The log after step 3 of AppendEntries: the entries the log already holds
\* are kept, and the first that conflicts or is missing cuts what follows.
Merge(l, prev, entries) ==
    LET diverges == {k \in 1..Len(entries) : TermAt(l, prev + k) # entries[k].term}
    IN  IF diverges = {} THEN l
        ELSE LET k == Min(diverges)
             IN SubSeq(l, 1, prev + k - 1) \o SubSeq(entries, k, Len(entries))

\* First index of the follower's conflicting term, up to prev.
ConflictStart(l, prev) ==
    Min({k \in 1..prev : TermAt(l, k) = TermAt(l, prev)})

\* Mutant: the leader's own copy is counted twice.
CopiesAndSelf(i, match, n) == 2 + Cardinality({j \in Others(i) : match[j] >= n})

\* The copies of index n the leader knows of, its own included.
Copies(i, match, n) == 1 + Cardinality({j \in Others(i) : match[j] >= n})

\* Mutant: without the own-term rule of Raft section 5.4.2.
LeaderCommitAnyTerm(i, match) ==
    LET ready == {n \in (commitIndex[i] + 1)..Len(log[i]) : IsQuorum(Copies(i, match, n))}
    IN  IF ready = {} THEN commitIndex[i] ELSE Max(ready)

\* advanceCommitIndexLocked: the highest own-term index a quorum holds.
LeaderCommit(i, match) ==
    LET ready == {n \in (commitIndex[i] + 1)..Len(log[i]) :
                    /\ log[i][n].term = currentTerm[i]
                    /\ IsQuorum(Copies(i, match, n))}
    IN  IF ready = {} THEN commitIndex[i] ELSE Max(ready)

InFlight == Cardinality(voteReqs) + Cardinality(voteReps)
            + Cardinality(appReqs) + Cardinality(appReps)

\* Mutant: a node that steps down keeps its futures.
KeepPending(i) == UNCHANGED <<call, proposals>>

\* failPendingProposalsLocked: every future of node i gets an error.
FailPending(i) ==
    /\ call' = [p \in Proposal |->
                  IF \E q \in proposals[i] : q.id = p
                  THEN [call[p] EXCEPT !.state = "failed"] ELSE call[p]]
    /\ proposals' = [proposals EXCEPT ![i] = {}]

\* applyCommittedEntriesLocked: the futures of the newly committed indexes are
\* taken out and answered.  (The queue between the two is ApplyPipeline.)
AnswerCommitted(i, lo, hi) ==
    LET done == {q \in proposals[i] : q.idx \in (lo + 1)..hi}
    IN  /\ call' = [p \in Proposal |->
                      IF \E q \in done : q.id = p
                      THEN [call[p] EXCEPT !.state = "ok"] ELSE call[p]]
        /\ proposals' = [proposals EXCEPT ![i] = @ \ done]

\* A higher term, or an AppendEntries that reaches a candidate: the node
\* forgets whom it voted for.
StepDown(i, term) ==
    /\ currentTerm' = [currentTerm EXCEPT ![i] = term]
    /\ role' = [role EXCEPT ![i] = Follower]
    /\ votedFor' = [votedFor EXCEPT ![i] = Nil]

-----------------------------------------------------------------------------

Init ==
    /\ role        = [i \in Server |-> Follower]
    /\ currentTerm = [i \in Server |-> 0]
    /\ votedFor    = [i \in Server |-> Nil]
    /\ log         = [i \in Server |-> << >>]
    /\ nextIndex   = [i \in Server |-> ForPeers(0)]
    /\ matchIndex  = [i \in Server |-> ForPeers(0)]
    /\ proposals   = [i \in Server |-> {}]
    /\ commitIndex = [i \in Server |-> 0]
    /\ leaderID    = [i \in Server |-> Nil]
    /\ votes       = [i \in Server |-> {}]
    /\ call        = [p \in Proposal |-> [state |-> "idle", node |-> Nil, idx |-> 0, term |-> 0]]
    /\ stopped     = {}
    /\ voteReqs = {} /\ voteReps = {} /\ appReqs = {} /\ appReps = {}
    /\ elections = {} /\ ledger = << >>

-----------------------------------------------------------------------------
(* Elections *)

\* becomeLeaderLocked, with the voters the election counted.
BecomeLeader(i, voters) ==
    /\ role' = [role EXCEPT ![i] = Leader]
    /\ leaderID' = [leaderID EXCEPT ![i] = i]
    /\ nextIndex' = [nextIndex EXCEPT ![i] = ForPeers(Len(log[i]) + 1)]
    /\ matchIndex' = [matchIndex EXCEPT ![i] = ForPeers(0)]
    /\ Broadcast(i, log[i], nextIndex'[i])
    /\ elections' = elections \cup
          {[term |-> currentTerm[i], leader |-> i, voters |-> voters]}
    /\ ledger' = [t \in DOMAIN ledger \cup {currentTerm[i]} |->
                     IF t = currentTerm[i] THEN log[i] ELSE ledger[t]]

\* startElectionLocked: the election timer of a node that is not the leader.
Timeout(i) ==
    /\ i \notin stopped
    /\ role[i] # Leader
    /\ currentTerm[i] < MaxTerm
    /\ role' = [role EXCEPT ![i] = Candidate]
    /\ currentTerm' = [currentTerm EXCEPT ![i] = @ + 1]
    /\ votedFor' = [votedFor EXCEPT ![i] = i]
    /\ leaderID' = [leaderID EXCEPT ![i] = Nil]
    /\ votes' = [votes EXCEPT ![i] = {}]
    /\ \E reached \in SUBSET Others(i) :
          voteReqs' = voteReqs \cup
              {[term |-> currentTerm[i] + 1, cand |-> i, to |-> j,
                lastIndex |-> Len(log[i]), lastTerm |-> LastTerm(log[i])] : j \in reached}
    /\ UNCHANGED <<logVars, leaderVars, callVars, voteReps, appReqs, appReps,
                   stopped, elections, ledger>>
    /\ InFlight' <= MaxInFlight

\* RequestVote on node m.to.
RequestVote(m) ==
    LET i     == m.to
        newer == m.term > currentTerm[i]
        free  == newer \/ votedFor[i] = Nil \/ votedFor[i] = m.cand
        grant == /\ m.term >= currentTerm[i]
                 /\ free
                 /\ UpToDate(m.lastTerm, m.lastIndex, log[i])
    IN  /\ voteReqs' = voteReqs \ {m}
        /\ voteReps' = voteReps \cup
              {[reqTerm |-> m.term, from |-> i, to |-> m.cand, granted |-> grant,
                term |-> IF newer THEN m.term ELSE currentTerm[i]]}
        /\ \/ /\ newer
              /\ currentTerm' = [currentTerm EXCEPT ![i] = m.term]
              /\ role' = [role EXCEPT ![i] = Follower]
              /\ leaderID' = [leaderID EXCEPT ![i] = Nil]
              /\ FailPending(i)
           \/ /\ ~newer
              /\ UNCHANGED <<currentTerm, role, leaderID, callVars>>
        /\ votedFor' = [votedFor EXCEPT
              ![i] = IF grant THEN m.cand ELSE IF newer THEN Nil ELSE @]
        /\ UNCHANGED <<votes, logVars, leaderVars, appReqs, appReps, stopped, elections, ledger>>

\* A reply that carries a higher term than the node's own.
ReplyStepDown(i, term) ==
    /\ StepDown(i, term)
    /\ leaderID' = [leaderID EXCEPT ![i] = Nil]
    /\ FailPending(i)
    /\ UNCHANGED <<votes, logVars, leaderVars, voteReqs, appReqs, stopped, elections, ledger>>

\* The goroutine of startElectionLocked, once the reply m is there.
RequestVoteReply(m) ==
    LET i     == m.to
        wanted == role[i] = Candidate /\ currentTerm[i] = m.reqTerm /\ m.granted
    IN  /\ voteReps' = voteReps \ {m}
        /\ UNCHANGED appReps
        /\ \/ /\ m.term > currentTerm[i]
              /\ ReplyStepDown(i, m.term)
           \/ /\ m.term <= currentTerm[i]
              /\ wanted
              /\ votes' = [votes EXCEPT ![i] = @ \cup {m.from}]
              /\ \/ /\ IsQuorum(1 + Cardinality(votes'[i]))
                    /\ BecomeLeader(i, votes'[i] \cup {i})
                 \/ /\ ~IsQuorum(1 + Cardinality(votes'[i]))
                    /\ UNCHANGED <<role, leaderID, leaderVars, appReqs, elections, ledger>>
              /\ UNCHANGED <<currentTerm, votedFor, logVars, callVars, voteReqs, stopped>>
              /\ InFlight' <= MaxInFlight
           \/ /\ m.term <= currentTerm[i]
              /\ ~wanted
              /\ UNCHANGED <<nodeVars, logVars, leaderVars, callVars,
                             voteReqs, appReqs, stopped, elections, ledger>>

-----------------------------------------------------------------------------
(* Replication *)

\* The heartbeat ticker of a leader.
Heartbeat(i) ==
    /\ i \notin stopped
    /\ role[i] = Leader
    /\ Broadcast(i, log[i], nextIndex[i])
    /\ UNCHANGED <<nodeVars, logVars, leaderVars, callVars,
                   voteReqs, voteReps, appReps, stopped, elections, ledger>>
    /\ InFlight' <= MaxInFlight

\* Mutant: every AppendEntries clears the vote.
YieldsAlways(i, m) == m.term >= currentTerm[i]

\* A receiver that becomes a follower of the sender, and forgets its vote.
Yields(i, m) == m.term > currentTerm[i] \/ role[i] = Candidate

\* What the receiver l answers to the consistency checks 1 and 2.
Accepts(l, m) == m.prev <= Len(l) /\ TermAt(l, m.prev) = m.prevTerm

ConflictIndex(l, m) ==
    IF m.prev > Len(l) THEN Len(l) + 1 ELSE ConflictStart(l, m.prev)

\* Mutant: the leader takes the follower's last index for the match.
AppendReplyLast(m, term, success, conflict) ==
    appReps' = appReps \cup
        {[reqTerm |-> m.term, from |-> m.to, to |-> m.leader, term |-> term,
          success |-> success, conflict |-> conflict, match |-> Len(log'[m.to])]}

AppendReply(m, term, success, conflict) ==
    appReps' = appReps \cup
        {[reqTerm |-> m.term, from |-> m.to, to |-> m.leader, term |-> term,
          success |-> success, conflict |-> conflict, match |-> m.prev + Len(m.entries)]}

\* AppendEntries on node m.to, from a leader of an older term.
RejectAppend(m) ==
    LET i == m.to
    IN  /\ m.term < currentTerm[i]
        /\ appReqs' = appReqs \ {m}
        /\ UNCHANGED <<nodeVars, logVars, leaderVars, callVars,
                       voteReqs, voteReps, stopped, elections, ledger>>
        /\ AppendReply(m, currentTerm[i], FALSE, 0)

\* AppendEntries on node m.to, from a leader of its term or of a newer one.
AppendEntries(m) ==
    LET i      == m.to
        l      == log[i]
        newLog == Merge(l, m.prev, m.entries)
        \* step 4: the leader's commit index, capped by the last entry held
        newCommit == IF m.commit > commitIndex[i]
                     THEN Min({m.commit, Len(newLog)}) ELSE commitIndex[i]
    IN  /\ m.term >= currentTerm[i]
        /\ appReqs' = appReqs \ {m}
        /\ leaderID' = [leaderID EXCEPT ![i] = m.leader]
        /\ \/ /\ Yields(i, m)
              /\ StepDown(i, m.term)
              /\ FailPending(i)
           \/ /\ ~Yields(i, m)
              /\ UNCHANGED <<currentTerm, role, votedFor>>
              /\ AnswerCommitted(i, commitIndex[i],
                                 IF Accepts(l, m) THEN newCommit ELSE commitIndex[i])
        /\ \/ /\ Accepts(l, m)
              /\ log' = [log EXCEPT ![i] = newLog]
              /\ commitIndex' = [commitIndex EXCEPT ![i] = newCommit]
              /\ AppendReply(m, m.term, TRUE, 0)
           \/ /\ ~Accepts(l, m)
              /\ UNCHANGED logVars
              /\ AppendReply(m, m.term, FALSE, ConflictIndex(l, m))
        /\ UNCHANGED <<votes, leaderVars, voteReqs, voteReps, stopped, elections, ledger>>

\* The goroutine of broadcastAppendEntriesLocked, once the reply m is there.
AppendEntriesReply(m) ==
    LET i == m.to
        j == m.from
        current == role[i] = Leader /\ currentTerm[i] = m.reqTerm
    IN  /\ appReps' = appReps \ {m}
        /\ UNCHANGED voteReps
        /\ \/ /\ m.term > currentTerm[i]
              /\ ReplyStepDown(i, m.term)
           \/ /\ m.term <= currentTerm[i] /\ current /\ m.success
              /\ nextIndex' = [nextIndex EXCEPT ![i][j] = Max({@, m.match + 1})]
              /\ matchIndex' = [matchIndex EXCEPT ![i][j] = Max({@, m.match})]
              /\ commitIndex' = [commitIndex EXCEPT ![i] = LeaderCommit(i, matchIndex'[i])]
              /\ AnswerCommitted(i, commitIndex[i], commitIndex'[i])
              /\ UNCHANGED <<nodeVars, log, voteReqs, appReqs, stopped, elections, ledger>>
           \/ /\ m.term <= currentTerm[i] /\ current /\ ~m.success
              /\ nextIndex' = [nextIndex EXCEPT ![i][j] =
                    IF m.conflict > 0 THEN m.conflict ELSE IF @ > 1 THEN @ - 1 ELSE @]
              /\ UNCHANGED <<nodeVars, logVars, matchIndex, callVars,
                             voteReqs, appReqs, stopped, elections, ledger>>
           \/ /\ m.term <= currentTerm[i] /\ ~current
              /\ UNCHANGED <<nodeVars, logVars, leaderVars, callVars,
                             voteReqs, appReqs, stopped, elections, ledger>>

-----------------------------------------------------------------------------
(* Clients and shutdown *)

\* Propose: append, register the future, replicate.
Propose(i, p) ==
    LET idx    == Len(log[i]) + 1
        newLog == Append(log[i], [term |-> currentTerm[i], cmd |-> p])
    IN  /\ call[p].state = "idle"
        /\ role[i] = Leader
        /\ log' = [log EXCEPT ![i] = newLog]
        /\ call' = [call EXCEPT ![p] =
              [state |-> "waiting", node |-> i, idx |-> idx, term |-> currentTerm[i]]]
        /\ proposals' = [proposals EXCEPT ![i] =
              {q \in @ : q.idx # idx} \cup {[idx |-> idx, id |-> p]}]
        /\ Broadcast(i, newLog, nextIndex[i])
        /\ ledger' = [ledger EXCEPT ![currentTerm[i]] = newLog]
        /\ UNCHANGED <<nodeVars, commitIndex, leaderVars,
                       voteReqs, voteReps, appReps, stopped, elections>>
        /\ InFlight' <= MaxInFlight

\* The deadline of a caller: it drops whatever future sits at its index.
\* "failed" is a caller with an error in its future, read or not: as long as it
\* has not read it, the select may still take the deadline's branch.
ProposeDeadline(p) ==
    LET c == call[p]
    IN  /\ c.state \in {"waiting", "failed"}
        /\ Cardinality({q \in Proposal : call[q].state = "expired"}) < MaxExpired
        /\ proposals' = [proposals EXCEPT ![c.node] = {q \in @ : q.idx # c.idx}]
        /\ call' = [call EXCEPT ![p].state = "expired"]
        /\ UNCHANGED <<nodeVars, logVars, leaderVars, rpcVars, stopped, elections, ledger>>

\* Close: the timers stop and the waiting callers get an error.  The handlers
\* keep answering, and the role is kept.
Close(i) ==
    /\ i \notin stopped
    /\ Cardinality(stopped) < MaxStopped
    /\ stopped' = stopped \cup {i}
    /\ FailPending(i)
    /\ UNCHANGED <<nodeVars, logVars, leaderVars, rpcVars, elections, ledger>>

\* The transport gives up on an RPC: either half of it is lost.
Lose ==
    /\ \/ \E m \in voteReqs : voteReqs' = voteReqs \ {m} /\ UNCHANGED <<voteReps, appReqs, appReps>>
       \/ \E m \in voteReps : voteReps' = voteReps \ {m} /\ UNCHANGED <<voteReqs, appReqs, appReps>>
       \/ \E m \in appReqs  : appReqs' = appReqs \ {m} /\ UNCHANGED <<voteReqs, voteReps, appReps>>
       \/ \E m \in appReps  : appReps' = appReps \ {m} /\ UNCHANGED <<voteReqs, voteReps, appReqs>>
    /\ UNCHANGED <<nodeVars, logVars, leaderVars, callVars, stopped, elections, ledger>>

-----------------------------------------------------------------------------

Next ==
    \/ \E i \in Server : Timeout(i)
    \/ \E m \in voteReqs : RequestVote(m)
    \/ \E m \in voteReps : RequestVoteReply(m)
    \/ \E i \in Server : Heartbeat(i)
    \/ \E m \in appReqs : RejectAppend(m)
    \/ \E m \in appReqs : AppendEntries(m)
    \/ \E m \in appReps : AppendEntriesReply(m)
    \/ \E i \in Server, p \in Proposal : Propose(i, p)
    \/ \E p \in Proposal : ProposeDeadline(p)
    \/ \E i \in Server : Close(i)
    \/ Lose

Spec == Init /\ [][Next]_vars

-----------------------------------------------------------------------------
(* Properties *)

Calls == [state : {"idle", "waiting", "ok", "failed", "expired"},
          node : Server \cup {Nil}, idx : Nat, term : Nat]
VoteReqs == [term : Nat, cand : Server, to : Server, lastIndex : Nat, lastTerm : Nat]
VoteReps == [reqTerm : Nat, from : Server, to : Server, granted : BOOLEAN, term : Nat]
AppReqs  == [term : Nat, leader : Server, to : Server, prev : Nat, prevTerm : Nat,
             entries : Seq(Entry), commit : Nat]
AppReps  == [reqTerm : Nat, from : Server, to : Server, term : Nat,
             success : BOOLEAN, conflict : Nat, match : Nat]

TypeOK ==
    /\ currentTerm \in [Server -> Nat]
    /\ votedFor \in [Server -> Server \cup {Nil}]
    /\ role \in [Server -> {Follower, Candidate, Leader}]
    /\ leaderID \in [Server -> Server \cup {Nil}]
    /\ votes \in [Server -> SUBSET Server]
    /\ log \in [Server -> Seq(Entry)]
    /\ commitIndex \in [Server -> Nat]
    /\ nextIndex \in [Server -> [Server -> Nat]]
    /\ matchIndex \in [Server -> [Server -> Nat]]
    /\ proposals \in [Server -> SUBSET [idx : Nat, id : Proposal]]
    /\ call \in [Proposal -> Calls]
    /\ stopped \subseteq Server
    /\ voteReqs \subseteq VoteReqs
    /\ voteReps \subseteq VoteReps
    /\ appReqs \subseteq AppReqs
    /\ appReps \subseteq AppReps
    /\ elections \subseteq [term : Nat, leader : Server, voters : SUBSET Server]
    /\ DOMAIN ledger \subseteq Nat /\ \A t \in DOMAIN ledger : ledger[t] \in Seq(Entry)

\* At most one node ever wins the elections of a term, although a candidate
\* that an AppendEntries of its own term turns back into a follower forgets its
\* vote and may vote again in that term.
ElectionSafety ==
    \A e, f \in elections : e.term = f.term => e.leader = f.leader

\* The votes a candidate has, or may still count: the granted replies in
\* flight, and what the candidates have counted.
Grants ==
    {[voter |-> m.from, cand |-> m.to, term |-> m.reqTerm] : m \in {r \in voteReps : r.granted}}
    \cup {[voter |-> e[1], cand |-> e[2], term |-> currentTerm[e[2]]] :
            e \in {p \in Server \X Server : role[p[2]] = Candidate /\ p[1] \in votes[p[2]]}}

\* Node v cannot vote for anyone but c in term t any more.
Bound(v, c, t) ==
    \/ currentTerm[v] > t
    \/ currentTerm[v] = t /\ votedFor[v] = c /\ role[v] # Candidate

Won(t) == \E e \in elections : e.term = t

RolesInv ==
    \A i \in Server :
        /\ role[i] = Candidate => votedFor[i] = i
        /\ role[i] = Leader => \E e \in elections : e.term = currentTerm[i] /\ e.leader = i

RequestsInv ==
    /\ \A m \in voteReqs : m.cand # m.to
    /\ \A m \in appReqs : \E e \in elections : e.term = m.term /\ e.leader = m.leader

ElectionsInv ==
    \A e \in elections :
        /\ e.leader \in e.voters
        /\ IsQuorum(Cardinality(e.voters))
        /\ \A v \in e.voters : Bound(v, e.leader, e.term)

GrantsInv ==
    /\ \A g \in Grants :
          /\ g.voter # g.cand
          /\ currentTerm[g.voter] >= g.term
          /\ ~Won(g.term) => Bound(g.voter, g.cand, g.term)
          /\ \A e \in elections : e.term = g.term /\ g.voter \in e.voters => e.leader = g.cand
    /\ \A g, h \in Grants :
          g.voter = h.voter /\ g.term = h.term /\ ~Won(g.term) => g.cand = h.cand

\* Why ElectionSafety holds.  A vote binds its voter only until the term has a
\* leader: from then on only the votes that elected it are sure to stand, and
\* they are a quorum that will elect nobody else.
ElectionInv == ElectionSafety /\ RolesInv /\ RequestsInv /\ ElectionsInv /\ GrantsInv

\* Two logs that agree on the term at an index agree up to it.
LogMatching ==
    \A i, j \in Server : \A n \in 1..Min({Len(log[i]), Len(log[j])}) :
        log[i][n].term = log[j][n].term => SubSeq(log[i], 1, n) = SubSeq(log[j], 1, n)

\* No two nodes hand different commands to their state machines for one index,
\* and none hands out an index its log does not hold.
StateMachineSafety ==
    /\ \A i \in Server : commitIndex[i] <= Len(log[i])
    /\ \A i, j \in Server : \A n \in 1..Min({commitIndex[i], commitIndex[j]}) :
          log[i][n] = log[j][n]

\* A leader's log holds everything any node of its term or an older one has
\* committed.
LeaderCompleteness ==
    \A i, j \in Server :
        role[i] = Leader /\ currentTerm[j] <= currentTerm[i] =>
            /\ commitIndex[j] <= Len(log[i])
            /\ \A n \in 1..commitIndex[j] : log[i][n] = log[j][n]

\* No set of voters that could elect a node now would elect one that misses a
\* committed entry.  An entry of an older term that a leader counted as
\* committed because a quorum holds it would break this.
CommittedOutvotesTheRest ==
    \A i, c \in Server : \A n \in 1..Min({commitIndex[i], Len(log[i])}) :
        ~(n <= Len(log[c]) /\ log[c][n] = log[i][n]) =>
            ~IsQuorum(Cardinality({v \in Server :
                                     v = c \/ UpToDate(LastTerm(log[c]), Len(log[c]), log[v])}))

\* A command Propose reported as committed stays in the log of every later leader.
AckedIsDurable ==
    \A p \in Proposal : \A i \in Server :
        call[p].state = "ok" /\ role[i] = Leader /\ currentTerm[i] >= call[p].term =>
            /\ call[p].idx <= Len(log[i])
            /\ log[i][call[p].idx].cmd = p

\* Only a leader holds futures, and each waits for its own command at an index
\* still to be committed: nobody is answered for another caller's entry.
FuturesMatchLog ==
    \A i \in Server : \A q \in proposals[i] :
        /\ role[i] = Leader
        /\ q.idx \in (commitIndex[i] + 1)..Len(log[i])
        /\ log[i][q.idx].cmd = q.id

\* A peer the leader counts as holding index n, and that has not moved to a
\* later term, holds the leader's own entries up to n.
MatchIndexIsReal ==
    \A i, j \in Server :
        role[i] = Leader /\ currentTerm[j] = currentTerm[i] =>
            /\ matchIndex[i][j] <= Min({Len(log[i]), Len(log[j])})
            /\ \A n \in 1..matchIndex[i][j] : log[i][n] = log[j][n]

\* A step neither takes back nor rewrites what a node has committed, and a
\* leader never loses an entry of its own log while it leads.
CommittedIsFinal ==
    [][\A i \in Server :
          /\ commitIndex[i] <= commitIndex'[i]
          /\ commitIndex[i] <= Len(log'[i])
          /\ SubSeq(log'[i], 1, commitIndex[i]) = SubSeq(log[i], 1, commitIndex[i])
          /\ role[i] = Leader /\ role'[i] = Leader =>
                /\ Len(log[i]) <= Len(log'[i])
                /\ SubSeq(log'[i], 1, Len(log[i])) = log[i]]_vars

=============================================================================
