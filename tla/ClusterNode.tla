---------------------------- MODULE ClusterNode ----------------------------
(***************************************************************************)
(* The cluster of internal/cluster/node.go: client assignments             *)
(* (ClusterAssignment), the leadership loop (VirtualIP) and the members    *)
(* (Membership) over one Raft group.  The three share nothing but Raft:    *)
(* none reads or writes a variable of another, and no property speaks of   *)
(* two of them, so it is enough to check each part together with Raft: the *)
(* specification lets one of them move, whichever it is, and properties    *)
(* that tie a part to Raft are stated of the behaviours where it does.     *)
(***************************************************************************)
EXTENDS ClusterAssignment, VirtualIP, Membership

CONSTANT Founders   \* the voters of the first configuration

ASSUME FoundersAssumption == Founders \subseteq Nodes

VARIABLE moves  \* the part that moves

Parts == {"assignment", "virtual ip", "membership"}

vars == <<moves, raftVars, assignVars, vipVars, joinVars>>

\* Assignments and leadership are of the cluster everybody has joined.
Init ==
    /\ moves \in Parts
    /\ RaftInit(IF moves = "membership" THEN Founders ELSE Nodes)
    /\ AssignInit /\ VipInit /\ JoinInit
    /\ moves # "assignment" => key = [r \in Requests |-> CHOOSE k \in Keys : TRUE]
    /\ moves # "membership" => protected = {}

Assignment ==
    /\ moves = "assignment"
    /\ AssignNext
    /\ UNCHANGED <<moves, vipVars, joinVars>>

Leadership ==
    /\ moves = "virtual ip"
    /\ VipNext
    /\ UNCHANGED <<moves, assignVars, joinVars>>

Joining ==
    /\ moves = "membership"
    /\ JoinNext
    /\ UNCHANGED <<moves, assignVars, vipVars>>

Next == Assignment \/ Leadership \/ Joining

Spec == Init /\ [][Next]_vars

InPart(part, action) == moves = part /\ action /\ UNCHANGED moves

\* Handlers and loops that can go on do, commands of the virtual IP end, and Raft
\* applies what is committed.  A node that can be reached answers.
Fairness ==
    /\ \A r \in Requests :
          WF_vars(InPart("assignment", Handle(r) /\ UNCHANGED <<vipVars, joinVars>>))
    /\ \A n \in Nodes :
          /\ WF_vars(InPart("assignment", ApplyNext(n) /\ UNCHANGED <<vipVars, joinVars>>))
          /\ WF_vars(InPart("virtual ip", LoopStep(n) /\ UNCHANGED <<assignVars, joinVars>>))
          /\ WF_vars(InPart("virtual ip", HookEnds(n) /\ UNCHANGED <<assignVars, joinVars>>))
    /\ \A n \in Nodes \ Bootstrapped :
          /\ WF_vars(InPart("membership", JoinLoop(n) /\ UNCHANGED <<assignVars, vipVars>>))
          /\ WF_vars(InPart("membership", AnswerJoin(n) /\ UNCHANGED <<assignVars, vipVars>>))

FairSpec == Spec /\ Fairness

\* The types of the variables of the three parts and of Raft's.
TypeOK ==
    /\ moves \in Parts
    /\ RaftTypeOK /\ AssignTypeOK /\ VipTypeOK /\ JoinTypeOK

\* "A follower runs the follower hook after losing leadership, and a newly elected
\* leader runs the leader hook": however notifications replace each other while a
\* command runs, a node that stays the leader ends up with the virtual IP, and one that
\* stays a follower without it, unless its last command failed or the address was left
\* behind by an earlier run of the process.
AddressFollowsLeadership ==
    \A n \in Nodes :
        /\ <>[](moves = "virtual ip" /\ Leads(n)) => <>[](n \in vip \cup unsure)
        /\ <>[](moves = "virtual ip" /\ Follows(n)) => <>[](n \notin vip \/ n \in unsure)

\* A node that runs and has among its contacts the node that leads in the end, and that
\* can be reached, gets into the cluster, in whichever place of the list it is, whoever
\* else refuses or does not answer, and whatever was lost before: if that node does not
\* ask for credentials, which joinLoop never sends, and its AddVoter fails only so often.
EveryJoinEnds ==
    \A n \in Nodes \ Bootstrapped, c \in Nodes :
        ( /\ <>[](moves = "membership" /\ n \in up /\ leader = c /\ c \notin silent /\ Knows(n, c))
          /\ <>[](c \notin protected)
          /\ <>[][JoinRefused(n) => Asked(n) # c]_vars )
        => <>[](contact[n] = 0)
=============================================================================
