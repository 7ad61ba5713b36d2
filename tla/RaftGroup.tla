------------------------------ MODULE RaftGroup ------------------------------
(***************************************************************************)
(* The Raft group that internal/cluster/node.go is built on, as far as the *)
(* code sees it: who leads, who takes itself for the leader, which nodes   *)
(* run, and which are voters.  Raft is external.  Elections are taken as   *)
(* they come: no votes are counted, so a voter may be elected whoever else *)
(* runs, which allows more than Raft does.                                 *)
(***************************************************************************)
CONSTANTS
    Nodes,
    NoNode      \* no leader; nobody

ASSUME GroupAssumption == NoNode \notin Nodes

VARIABLES
    leader,     \* the node whose entries Raft commits
    believes,   \* the nodes whose Raft state is Leader
    up,         \* the nodes that run
    members     \* the voters of Raft's configuration

raftVars == <<leader, believes, up, members>>

\* The nodes run, and nobody leads yet.
RaftInit(voters) ==
    /\ leader = NoNode /\ believes = {}
    /\ up = Nodes
    /\ members = voters

\* The node that led before may not have noticed yet; it has to before it can be
\* elected again.
BecomeLeader(n) ==
    /\ n \in (up \cap members) \ believes
    /\ leader' = n
    /\ believes' = believes \cup {n}
    /\ UNCHANGED <<up, members>>

LoseLeadership(n) ==
    /\ n \in believes
    /\ believes' = believes \ {n}
    /\ leader' = IF leader = n THEN NoNode ELSE leader
    /\ UNCHANGED <<up, members>>

GoDown(n) ==
    /\ n \in up
    /\ up' = up \ {n}
    /\ believes' = believes \ {n}
    /\ leader' = IF leader = n THEN NoNode ELSE leader
    /\ UNCHANGED members

ComeUp(n) ==
    /\ n \notin up
    /\ up' = up \cup {n}
    /\ UNCHANGED <<leader, believes, members>>

\* A change of the configuration that node n, which leads, commits.
ChangeMembers(n, voters) ==
    /\ n \in believes /\ leader = n
    /\ members' = voters
    /\ UNCHANGED <<leader, believes, up>>

RaftTypeOK ==
    /\ leader \in Nodes \cup {NoNode}
    /\ believes \subseteq up /\ up \subseteq Nodes
    /\ members \subseteq Nodes
=============================================================================
