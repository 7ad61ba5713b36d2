----------------------------- MODULE Membership -----------------------------
(***************************************************************************)
(* Who is a voter: joinLoop, the handler of /cluster/join and the member   *)
(* operations of the admin API in internal/cluster/node.go.  A node that   *)
(* is not configured to bootstrap posts its address to its contacts, one   *)
(* after the other and round after round, until one of them answers with a *)
(* 2xx.  The poster waits two seconds for an answer, the handler ten for   *)
(* Raft: it may add the node when nobody waits for it any more.            *)
(* Initial states and steps; ClusterNode composes them.                    *)
(***************************************************************************)
EXTENDS RaftGroup, Naturals, Sequences

CONSTANTS
    Bootstrapped,   \* the nodes with cluster.bootstrap
    Contacts        \* cluster.peers of each node that have an admin_url; NoNode stands
                    \* for one under whose URL nobody answers

ASSUME MembershipAssumption ==
    /\ Bootstrapped \subseteq Nodes
    /\ Contacts \in [Nodes -> Seq(Nodes \cup {NoNode})]

VARIABLES
    contact,    \* where joinLoop of a node is in its contacts; 0 when it has ended
    post,       \* its request: "none", "sent", or how it was answered
    silent,     \* the nodes whose answers do not get through, or not in time
    protected,  \* the nodes whose admin server asks for credentials; joinLoop sends none
    late,       \* handlers that work for a node which does not wait: <<contact, node>>
    added       \* history: the nodes that were added since they started

joinVars == <<contact, post, silent, protected, late, added>>

JoinLoopStart(n) == IF n \in Bootstrapped THEN 0 ELSE 1

JoinInit ==
    /\ contact = [n \in Nodes |-> JoinLoopStart(n)]
    /\ post = [n \in Nodes |-> "none"]
    /\ protected \in SUBSET Nodes
    /\ silent = {} /\ late = {} /\ added = {}

Asked(n) == Contacts[n][contact[n]]

-----------------------------------------------------------------------------
(* joinLoop.                                                                *)

PostJoin(n) ==
    /\ n \in up /\ post[n] = "none"
    /\ contact[n] \in DOMAIN Contacts[n]
    /\ post' = [post EXCEPT ![n] = "sent"]
    /\ UNCHANGED <<raftVars, contact, silent, protected, late, added>>

\* Mutant: any answer will do.
AnyAnswer(n) == post[n] \in {"added", "refused"}

Accepted(n) == post[n] = "added"

\* An answer: the loop ends, or asks the next contact.
ReadAnswer(n) ==
    /\ n \in up /\ post[n] \in {"added", "refused"}
    /\ contact' = [contact EXCEPT ![n] = IF Accepted(n) THEN 0 ELSE @ + 1]
    /\ post' = [post EXCEPT ![n] = "none"]
    /\ UNCHANGED <<raftVars, silent, protected, late, added>>

\* No answer: nobody listens, the answer is lost, or it takes too long and the handler, if
\* the post gets to it, goes on without its client.
NoAnswer(n) ==
    /\ n \in up /\ post[n] # "none" /\ Asked(n) \notin up \ silent
    /\ late' \in {late} \cup (IF post[n] = "sent" /\ Asked(n) \in up \ protected
                              THEN {late \cup {<<Asked(n), n>>}} ELSE {})
    /\ contact' = [contact EXCEPT ![n] = @ + 1]
    /\ post' = [post EXCEPT ![n] = "none"]
    /\ UNCHANGED <<raftVars, silent, protected, added>>

\* Mutant: the second round begins where the first one ended.
SameRound(n) == contact[n]

FirstContact(n) == 1

\* The ticker.
NextRound(n) ==
    /\ n \in up /\ contact[n] > Len(Contacts[n])
    /\ contact' = [contact EXCEPT ![n] = FirstContact(n)]
    /\ UNCHANGED <<raftVars, post, silent, protected, late, added>>

-----------------------------------------------------------------------------
(* The handler of /cluster/join.                                            *)

\* AddVoter is committed.
Add(c, n) ==
    /\ ChangeMembers(c, members \cup {n})
    /\ added' = added \cup {n}

JoinAccepted(n) ==
    /\ post[n] = "sent" /\ Asked(n) \notin protected
    /\ Add(Asked(n), n)
    /\ post' = [post EXCEPT ![n] = "added"]
    /\ UNCHANGED <<contact, silent, protected, late>>

\* Authentication answers 401 before the handler sees the post, a contact that does not
\* lead 503, and one that leads 409 when AddVoter fails: it lost the leadership, which may
\* leave the change to be committed all the same, or Raft refuses the change.
JoinRefused(n) ==
    /\ post[n] = "sent" /\ Asked(n) \in up
    /\ \/ UNCHANGED <<raftVars, added>>
       \/ Asked(n) \notin protected /\ Add(Asked(n), n)
    /\ post' = [post EXCEPT ![n] = "refused"]
    /\ UNCHANGED <<contact, silent, protected, late>>

AnswerJoin(n) == JoinAccepted(n) \/ JoinRefused(n)

\* A handler ends nobody waits for; AddVoter may have failed.
AddedLate(c, n) ==
    /\ <<c, n>> \in late
    /\ \/ Add(c, n)
       \/ UNCHANGED <<raftVars, added>>
    /\ late' = late \ {<<c, n>>}
    /\ UNCHANGED <<contact, post, silent, protected>>

-----------------------------------------------------------------------------
(* The admin API, on a node that leads; every other one answers a conflict. *)

AddClusterMember(c, n) ==
    /\ n \notin members
    /\ Add(c, n)
    /\ UNCHANGED <<contact, post, silent, protected, late>>

\* Mutant: a node removes itself.
Anybody(c) == Nodes

\* "removing the local cluster member is not supported"
Removable(c) == Nodes \ {c}

RemoveClusterMember(c, n) ==
    /\ n \in members \cap Removable(c)
    /\ ChangeMembers(c, members \ {n})
    /\ UNCHANGED joinVars

\* Leadership goes to a voter of the configuration; the node that gives it notices.
TransferLeadership(c, n) ==
    /\ leader = c /\ n \in members
    /\ BecomeLeader(n)
    /\ UNCHANGED joinVars

-----------------------------------------------------------------------------
MemberElected(n) == BecomeLeader(n) /\ UNCHANGED joinVars
MemberDeposed(n) == LoseLeadership(n) /\ UNCHANGED joinVars

\* Its loop, its request and the handlers that run on it are gone.
MemberDies(n) ==
    /\ GoDown(n)
    /\ post' = [post EXCEPT ![n] = "none"]
    /\ contact' = [contact EXCEPT ![n] = 0]
    /\ late' = {l \in late : l[1] # n}
    /\ UNCHANGED <<silent, protected, added>>

\* joinLoop runs again at every start: also on a voter, and on a node that was removed.
MemberStarts(n) ==
    /\ ComeUp(n)
    /\ contact' = [contact EXCEPT ![n] = JoinLoopStart(n)]
    /\ added' = added \ {n}
    /\ UNCHANGED <<post, silent, protected, late>>

\* The network to a node breaks, or works again.
Connectivity(n) ==
    /\ silent' \in {silent \cup {n}, silent \ {n}}
    /\ UNCHANGED <<raftVars, contact, post, protected, late, added>>

JoinLoop(n) == PostJoin(n) \/ ReadAnswer(n) \/ NoAnswer(n) \/ NextRound(n)

JoinNext ==
    \/ \E n \in Nodes :
          \/ JoinLoop(n) \/ AnswerJoin(n)
          \/ Connectivity(n) \/ MemberElected(n) \/ MemberDeposed(n)
          \/ MemberDies(n) \/ MemberStarts(n)
    \/ \E c, n \in Nodes :
          \/ AddedLate(c, n) \/ AddClusterMember(c, n)
          \/ RemoveClusterMember(c, n) \/ TransferLeadership(c, n)

-----------------------------------------------------------------------------
JoinTypeOK ==
    /\ \A n \in Nodes : contact[n] \in 0 .. Len(Contacts[n]) + 1
    /\ post \in [Nodes -> {"none", "sent", "added", "refused"}]
    /\ silent \subseteq Nodes /\ protected \subseteq Nodes
    /\ late \subseteq (Nodes \X Nodes) /\ added \subseteq Nodes

\* joinLoop ends only when the cluster has made the node a voter since it started;
\* refusals of whatever kind, and lost answers, do not end it.
LoopEndsWhenAdded ==
    [][\A n \in up \cap up' : contact[n] # 0 /\ contact'[n] = 0 => n \in added']_joinVars

\* One of the contacts of n is c.
Knows(n, c) == \E i \in DOMAIN Contacts[n] : Contacts[n][i] = c

\* The cluster is led by one of its voters: whatever members are added, removed, late
\* or back, a leader never takes itself out.
LeaderIsMember == leader # NoNode => leader \in members
=============================================================================
