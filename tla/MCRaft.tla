------------------------------- MODULE MCRaft -------------------------------
(* Instances of Raft for TLC. *)
EXTENDS Raft, TLC

Symmetry == Permutations(Server) \cup Permutations(Proposal)

\* What tells two states apart.  Left out is what no action and no property
\* reads before it is set again: the votes of a node that is not a candidate,
\* the indexes of one that does not lead, where a call that can only fail was
\* made, the leader a node would name to a client, and who voted in an election.
View ==
    <<currentTerm, votedFor, role, logVars, proposals, rpcVars, stopped,
      [i \in Server |-> IF role[i] = Candidate THEN votes[i] ELSE {}],
      [i \in Server |-> IF role[i] = Leader THEN <<nextIndex[i], matchIndex[i]>> ELSE << >>],
      [p \in Proposal |-> IF call[p].state = "failed" /\ MaxExpired = 0
                          THEN <<"failed">> ELSE call[p]],
      {<<e.term, e.leader>> : e \in elections}>>

\* Bound of RaftLog, whose subject is what leaders do to logs: an election that
\* nobody won is not followed by another one (RaftElection has those).
EveryTermHasLeader ==
    \A i \in Server : \A t \in 1..(currentTerm[i] - 1) :
        \E e \in elections : e.term = t

\* Bound of RaftTerms: three terms with two calls of Propose, two terms with
\* three calls, or two terms with two calls one of which runs out of time.
CallsAndTerms ==
    \A i \in Server :
        currentTerm[i] + Cardinality({p \in Proposal : call[p].state # "idle"})
                       + Cardinality({p \in Proposal : call[p].state = "expired"}) <= 5

=============================================================================
