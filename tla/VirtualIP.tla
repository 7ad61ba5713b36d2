------------------------------ MODULE VirtualIP ------------------------------
(***************************************************************************)
(* The leadership loop of internal/cluster/node.go and the commands it     *)
(* runs to bring up and to take down the virtual IP.  Raft's LeaderCh      *)
(* holds one notification, and a newer one replaces one that was not read. *)
(* Initial states and steps; ClusterNode composes them.                    *)
(*                                                                         *)
(* The commands are external.  A command that succeeds has brought the     *)
(* address up, or down; one that fails or is killed may have done so or    *)
(* not.  Both commands are taken to be configured.                         *)
(***************************************************************************)
EXTENDS RaftGroup

VARIABLES
    notice,     \* LeaderCh of each node: "leader", "follower" or empty ("none")
    previous,   \* the loop's variable: what it heard last
    hook,       \* the command the loop waits for; "none" if it listens
    closed,     \* the nodes whose Close has cancelled the loop's context
    vip,        \* the nodes whose interface has the address
    unsure      \* history: nodes whose last command did not succeed, or that were
                \* started with the address on their interface

vipVars == <<notice, previous, hook, closed, vip, unsure>>

Roles == {"leader", "follower"}

VipInit ==
    /\ notice = [n \in Nodes |-> "none"]
    /\ previous = [n \in Nodes |-> "follower"]
    /\ hook = [n \in Nodes |-> "none"]
    /\ closed = {} /\ vip = {} /\ unsure = {}

-----------------------------------------------------------------------------
(* Raft tells the node.                                                     *)

Tell(n, role) == notice' = [notice EXCEPT ![n] = role]

Elected(n) ==
    /\ n \notin closed
    /\ BecomeLeader(n)
    /\ Tell(n, "leader")
    /\ UNCHANGED <<previous, hook, closed, vip, unsure>>

Deposed(n) ==
    /\ LoseLeadership(n)
    /\ Tell(n, "follower")
    /\ UNCHANGED <<previous, hook, closed, vip, unsure>>

-----------------------------------------------------------------------------
(* leadershipLoop.                                                          *)

Listens(n) == n \in up /\ n \notin closed /\ hook[n] = "none" /\ notice[n] # "none"

\* Mutant: whatever the channel says is acted upon.
NeverHeard(n) == FALSE

HeardBefore(n) == notice[n] = previous[n]

\* Mutant: previous is not kept up to date.
KeptHeard(n) == previous[n]

Heard(n) == notice[n]

\* The channel says what the loop knows already: it goes on listening.
SkipNotice(n) ==
    /\ Listens(n) /\ HeardBefore(n)
    /\ Tell(n, "none")
    /\ UNCHANGED <<raftVars, previous, hook, closed, vip, unsure>>

\* Or it runs the command, and does not listen until the command has ended.
RunHook(n) ==
    /\ Listens(n) /\ ~HeardBefore(n)
    /\ previous' = [previous EXCEPT ![n] = Heard(n)]
    /\ hook' = [hook EXCEPT ![n] = notice[n]]
    /\ Tell(n, "none")
    /\ UNCHANGED <<raftVars, closed, vip, unsure>>

\* What the command makes of the address.
AfterHook(n) == IF hook[n] = "leader" THEN vip \cup {n} ELSE vip \ {n}

HookSucceeds(n) ==
    /\ hook[n] # "none"
    /\ vip' = AfterHook(n)
    /\ unsure' = unsure \ {n}
    /\ hook' = [hook EXCEPT ![n] = "none"]
    /\ UNCHANGED <<raftVars, notice, previous, closed>>

\* A command that was cut short: it may have got as far as the address.
CutShort(n) ==
    IF hook[n] = "none" THEN UNCHANGED vip ELSE vip' \in {vip, AfterHook(n)}

\* Its error is dropped: nobody runs it again.
HookFails(n) ==
    /\ hook[n] # "none"
    /\ CutShort(n)
    /\ unsure' = unsure \cup {n}
    /\ hook' = [hook EXCEPT ![n] = "none"]
    /\ UNCHANGED <<raftVars, notice, previous, closed>>

-----------------------------------------------------------------------------
(* Close, the end of the process, and its next start.                       *)

\* Close cancels the context, which kills a command that runs and ends the loop, and
\* shuts Raft down.  Nobody runs a command for the leadership that is given up.
Close(n) ==
    /\ n \in up /\ n \notin closed
    /\ closed' = closed \cup {n}
    /\ CutShort(n)
    /\ unsure' = IF hook[n] = "none" THEN unsure ELSE unsure \cup {n}
    /\ hook' = [hook EXCEPT ![n] = "none"]
    /\ believes' = believes \ {n}
    /\ leader' = IF leader = n THEN NoNode ELSE leader
    /\ Tell(n, "none")
    /\ UNCHANGED <<up, members, previous>>

\* The process ends, after Close or without it.
Dies(n) ==
    /\ GoDown(n)
    /\ CutShort(n)
    /\ unsure' = IF hook[n] = "none" THEN unsure ELSE unsure \cup {n}
    /\ hook' = [hook EXCEPT ![n] = "none"]
    /\ Tell(n, "none")
    /\ UNCHANGED <<previous, closed>>

\* It starts again as a follower, and Raft has nothing to tell it: an address that was
\* left behind stays until the node has led and lost the leadership.
Starts(n) ==
    /\ ComeUp(n)
    /\ previous' = [previous EXCEPT ![n] = "follower"]
    /\ closed' = closed \ {n}
    /\ unsure' = IF n \in vip THEN unsure \cup {n} ELSE unsure \ {n}
    /\ UNCHANGED <<notice, hook, vip>>

-----------------------------------------------------------------------------
LoopStep(n) == SkipNotice(n) \/ RunHook(n)
HookEnds(n) == HookSucceeds(n) \/ HookFails(n)

VipNext ==
    \E n \in Nodes :
        \/ Elected(n) \/ Deposed(n)
        \/ LoopStep(n) \/ HookEnds(n)
        \/ Close(n) \/ Dies(n) \/ Starts(n)

-----------------------------------------------------------------------------
VipTypeOK ==
    /\ notice \in [Nodes -> Roles \cup {"none"}]
    /\ previous \in [Nodes -> Roles]
    /\ hook \in [Nodes -> Roles \cup {"none"}]
    /\ closed \subseteq Nodes /\ vip \subseteq Nodes /\ unsure \subseteq Nodes

Leads(n)   == n \in up \ closed /\ n \in believes
Follows(n) == n \in up \ closed /\ n \notin believes

\* A node brings the address up only when it does not have it, and takes it down only
\* when it does, as far as its commands succeeded: the loop never repeats itself.
HooksNotRepeated ==
    [][\A n \in Nodes : hook[n] = "none" /\ hook'[n] # "none" =>
          n \in unsure \/ (hook'[n] = "follower" <=> n \in vip)]_vipVars
=============================================================================
