---------------------------- MODULE RaftRestart ----------------------------
(***************************************************************************)
(* Raft with nodes that come back after a crash.  raft.go heads the term,  *)
(* the vote and the log "Persistent state", but writes none of them down:  *)
(* NewRaftNode starts every node from nothing.                             *)
(***************************************************************************)
EXTENDS Raft

\* The process of node i ends, with the goroutines waiting for a reply, and a
\* new one takes its place.  What it had sent may still arrive.
Restart(i) ==
    LET New(f, value) == [f EXCEPT ![i] = value]
    IN  /\ i \notin stopped
        /\ FailPending(i)
        /\ role' = New(role, Follower)
        /\ currentTerm' = New(currentTerm, 0)
        /\ votedFor' = New(votedFor, Nil)
        /\ log' = New(log, << >>)
        /\ nextIndex' = New(nextIndex, ForPeers(0))
        /\ matchIndex' = New(matchIndex, ForPeers(0))
        /\ commitIndex' = New(commitIndex, 0)
        /\ leaderID' = New(leaderID, Nil)
        /\ votes' = New(votes, {})
        /\ voteReps' = {m \in voteReps : m.to # i}
        /\ appReps' = {m \in appReps : m.to # i}
        /\ UNCHANGED <<voteReqs, appReqs, stopped, elections, ledger>>

RestartNext == Next \/ \E i \in Server : Restart(i)

RestartSpec == Init /\ [][RestartNext]_vars

\* What the paper's persistent state is for: a term has one leader, crashes or
\* not.  ElectionSafety of Raft, under the specification with restarts.
OneLeaderDespiteRestarts == ElectionSafety

=============================================================================
