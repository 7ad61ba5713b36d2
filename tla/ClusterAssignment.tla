-------------------------- MODULE ClusterAssignment --------------------------
(***************************************************************************)
(* Client assignments of internal/cluster/node.go: the replicated state    *)
(* machine with its snapshots, and the proxy handler that looks a client   *)
(* up, lets the leader assign it, and hands the request to an HTTP client  *)
(* that is to forward it.  Nodes lead, lag behind, crash and come back.    *)
(*                                                                         *)
(* Raft is external.  It gives a log of committed entries that every node  *)
(* applies in order, from its start or from a snapshot; a node that was    *)
(* deposed may still take itself for the leader, but can commit nothing.   *)
(* An assignment is known by its place in the log, and time by the set of  *)
(* assignments it has made expire; clocks of nodes are taken to agree.     *)
(* Initial states and steps; ClusterNode composes them.                    *)
(***************************************************************************)
EXTENDS RaftGroup, Naturals, Sequences

CONSTANTS
    Keys,       \* client keys
    Requests,   \* requests of clients
    Hash,       \* fnv32a of each key
    Peers,      \* cluster.peers of each node, in the order its file has them
    MaxLog      \* bound on the assignments that are committed

ASSUME ClusterAssumption ==
    /\ Hash \in [Keys -> Nat]
    /\ Peers \in [Nodes -> Seq(Nodes)]
    /\ MaxLog \in Nat

VARIABLES
    log,        \* committed assignments: of which key, to which node and URL
    expired,    \* those whose expiry has passed
    table,      \* stateMachine.assignments: for every key its place in the log, or 0
    applied,    \* how far a node has applied the log
    taken,      \* the FSMSnapshot a node is writing: its place and its copy of the table
    saved,      \* the snapshot file of a node
    pc,         \* where the handler of each request is
    node,       \* on which node
    key,        \* for which client
    forwarded,  \* the request carries X-Go-Serve-Forwarded: 1
    route,      \* the assignment the handler works with: node and URL
    place       \* the place in the log of the assignment the handler waits for

logVars   == <<log, expired>>
fsmVars   == <<table, applied, taken, saved>>
localVars == <<node, key, forwarded, route, place>>
assignVars == <<logVars, fsmVars, pc, localVars>>

Places == 0 .. MaxLog
Tables == [Keys -> Places]
Routes == [node: Nodes \cup {NoNode}, url: BOOLEAN]
Snapshots == [index: Places, table: Tables]

EmptyTable == [k \in Keys |-> 0]
EmptySnapshot == [index |-> 0, table |-> EmptyTable]
NoRoute == [node |-> NoNode, url |-> FALSE]

-----------------------------------------------------------------------------
(* Pure parts of the code.                                                  *)

\* assignmentFor: the node itself, whose URL it does not know, then its peers.
Members(n) == <<n>> \o Peers[n]

MemberFor(n, k) == Members(n)[(Hash[k] % Len(Members(n))) + 1]

\* Mutant: what is committed is the assignment that was not found.
FoundRoute(n, k) == NoRoute

MemberRoute(n, k) == [node |-> MemberFor(n, k), url |-> MemberFor(n, k) # n]

\* stateMachine.Apply of the entry at place i.
Applied(t, i) == [t EXCEPT ![log[i].key] = i]

\* Mutant: Persist writes the map the state machine goes on changing.
SharedCopy(n) == table[n]

\* What Persist writes: the copy Snapshot made.
Persisted(n) == taken[n].table

\* Assignment: what is stored and has not expired, or 0.
Lookup(n, k) == IF table[n][k] \in expired THEN 0 ELSE table[n][k]

RouteAt(i) == IF i = 0 THEN NoRoute ELSE log[i].to

\* Mutant: a failed Assign is not noticed.
GoesOnUnassigned == "route"

\* Mutant: a failed Assign is tried again.
RetriesAssign == "lookup"

AfterFailedAssign == "local"

StaysHere(r) == route[r].node \in {NoNode, node[r]} \/ ~route[r].url

-----------------------------------------------------------------------------
Ended == {"local", "badGateway", "lost"}

AssignInit ==
    /\ log = <<>> /\ expired = {}
    /\ table = [n \in Nodes |-> EmptyTable]
    /\ applied = [n \in Nodes |-> 0]
    /\ taken = [n \in Nodes |-> EmptySnapshot]
    /\ saved = [n \in Nodes |-> EmptySnapshot]
    /\ pc = [r \in Requests |-> "lost"]
    /\ node = [r \in Requests |-> NoNode]
    /\ key \in [Requests -> Keys]
    /\ forwarded = [r \in Requests |-> FALSE]
    /\ route = [r \in Requests |-> NoRoute]
    /\ place = [r \in Requests |-> 0]

-----------------------------------------------------------------------------
(* Proxy.                                                                   *)

Goto(r, there) == pc' = [pc EXCEPT ![r] = there]

\* The handler returns.  What it worked with is forgotten.
End(r, how) ==
    /\ Goto(r, how)
    /\ node' = [node EXCEPT ![r] = NoNode]
    /\ forwarded' = [forwarded EXCEPT ![r] = FALSE]
    /\ route' = [route EXCEPT ![r] = NoRoute]
    /\ place' = [place EXCEPT ![r] = 0]

\* A request of client k comes in on node n, with or without the header.
Arrive(r, n, k) ==
    /\ pc[r] \in Ended /\ n \in up
    /\ node' = [node EXCEPT ![r] = n]
    /\ key' = [key EXCEPT ![r] = k]
    /\ forwarded' \in {[forwarded EXCEPT ![r] = b] : b \in BOOLEAN}
    /\ Goto(r, "gate")
    /\ UNCHANGED <<raftVars, logVars, fsmVars, route, place>>

\* The first test: a request with the header is served here, and so is every request on
\* a node that does not lead and knows no leader, which is up to Raft.
Gate(r) ==
    /\ pc[r] = "gate"
    /\ \/ (forwarded[r] \/ node[r] \notin believes) /\ End(r, "local")
       \/ ~forwarded[r] /\ Goto(r, "lookup") /\ UNCHANGED <<node, forwarded, route, place>>
    /\ UNCHANGED <<raftVars, logVars, fsmVars, key>>

\* The node's own table is asked, ...
Find(r) ==
    /\ pc[r] = "lookup"
    /\ LET i == Lookup(node[r], key[r])
       IN  /\ Goto(r, IF i = 0 THEN "absent" ELSE "route")
           /\ route' = [route EXCEPT ![r] = RouteAt(i)]
    /\ UNCHANGED <<raftVars, logVars, fsmVars, node, key, forwarded, place>>

\* ... and if the client is not in it a leader makes an assignment.
MakeAssignment(r) ==
    /\ pc[r] = "absent"
    /\ IF node[r] \in believes
       THEN Goto(r, "assign") /\ route' = [route EXCEPT ![r] = MemberRoute(node[r], key[r])]
       ELSE Goto(r, "route") /\ UNCHANGED route
    /\ UNCHANGED <<raftVars, logVars, fsmVars, node, key, forwarded, place>>

\* Assign hands the entry to Raft, which commits it for the node that leads.
Commit(r) ==
    /\ pc[r] = "assign" /\ node[r] \in believes /\ leader = node[r]
    /\ Len(log) < MaxLog
    /\ log' = Append(log, [key |-> key[r], to |-> route[r]])
    /\ place' = [place EXCEPT ![r] = Len(log')]
    /\ Goto(r, "await")
    /\ UNCHANGED <<raftVars, expired, fsmVars, node, key, forwarded, route>>

\* The future answers when the node has applied the entry.
Committed(r) ==
    /\ pc[r] = "await" /\ applied[node[r]] >= place[r]
    /\ Goto(r, "route")
    /\ UNCHANGED <<raftVars, logVars, fsmVars, localVars>>

\* Assign fails: the node does not lead any more, or its entry was not taken in
\* time; or it lost the leadership while it waited, and the entry is committed all
\* the same.  The request is served here.
AssignFails(r) ==
    /\ pc[r] = "assign" \/ (pc[r] = "await" /\ leader # node[r])
    /\ IF AfterFailedAssign = "local"
       THEN End(r, "local")
       ELSE Goto(r, AfterFailedAssign) /\ UNCHANGED <<node, forwarded, route, place>>
    /\ UNCHANGED <<raftVars, logVars, fsmVars, key>>

\* The request stays, ...
ServeHere(r) ==
    /\ pc[r] = "route" /\ StaysHere(r)
    /\ End(r, "local")
    /\ UNCHANGED <<raftVars, logVars, fsmVars, key>>

\* ... or a clone of it is given to an http.Client.  The clone of a request that a
\* server received has its RequestURI set, and Client.Do refuses every such request
\* before it connects to anybody: the client gets 502.
Forward(r) ==
    /\ pc[r] = "route" /\ ~StaysHere(r)
    /\ End(r, "badGateway")
    /\ UNCHANGED <<raftVars, logVars, fsmVars, key>>

Handle(r) ==
    \/ Gate(r) \/ Find(r) \/ MakeAssignment(r) \/ Commit(r) \/ Committed(r)
    \/ AssignFails(r) \/ ServeHere(r) \/ Forward(r)

-----------------------------------------------------------------------------
(* The state machine, as Raft drives it.                                    *)

\* Raft calls Apply for the next committed entry.
ApplyNext(n) ==
    /\ n \in up /\ applied[n] < Len(log)
    /\ table' = [table EXCEPT ![n] = Applied(@, applied[n] + 1)]
    /\ applied' = [applied EXCEPT ![n] = @ + 1]
    /\ UNCHANGED <<raftVars, logVars, taken, saved, pc, localVars>>

\* Snapshot copies the map between two calls of Apply; Persist writes the copy at
\* its leisure, while Apply goes on.  The store, which is Raft's, gives back the newest
\* of what was written to it.
TakeSnapshot(n) ==
    /\ n \in up /\ taken[n] = EmptySnapshot /\ applied[n] > saved[n].index
    /\ taken' = [taken EXCEPT ![n] = [index |-> applied[n], table |-> table[n]]]
    /\ UNCHANGED <<raftVars, logVars, table, applied, saved, pc, localVars>>

Persist(n) ==
    /\ n \in up /\ taken[n] # EmptySnapshot
    /\ saved' = IF taken[n].index <= saved[n].index THEN saved
                ELSE [saved EXCEPT ![n] = [index |-> taken[n].index, table |-> Persisted(n)]]
    /\ taken' = [taken EXCEPT ![n] = EmptySnapshot]
    /\ UNCHANGED <<raftVars, logVars, table, applied, pc, localVars>>

\* A node that is far behind gets the snapshot of another: Restore.
Install(n, from) ==
    /\ n \in up /\ from \in up /\ saved[from].index > applied[n]
    /\ table' = [table EXCEPT ![n] = saved[from].table]
    /\ applied' = [applied EXCEPT ![n] = saved[from].index]
    /\ saved' = [saved EXCEPT ![n] = saved[from]]
    /\ UNCHANGED <<raftVars, logVars, taken, pc, localVars>>

\* The process ends; what it had in memory and its requests are gone.
Crash(n) ==
    /\ GoDown(n)
    /\ taken' = [taken EXCEPT ![n] = EmptySnapshot]
    /\ pc' = [r \in Requests |-> IF node[r] = n THEN "lost" ELSE pc[r]]
    /\ node' = [r \in Requests |-> IF node[r] = n THEN NoNode ELSE node[r]]
    /\ forwarded' = [r \in Requests |-> node[r] # n /\ forwarded[r]]
    /\ route' = [r \in Requests |-> IF node[r] = n THEN NoRoute ELSE route[r]]
    /\ place' = [r \in Requests |-> IF node[r] = n THEN 0 ELSE place[r]]
    /\ UNCHANGED <<logVars, table, applied, saved, key>>

\* It comes back with an empty map, restores its snapshot and applies what follows.
Restart(n) ==
    /\ ComeUp(n)
    /\ table' = [table EXCEPT ![n] = saved[n].table]
    /\ applied' = [applied EXCEPT ![n] = saved[n].index]
    /\ UNCHANGED <<logVars, taken, saved, pc, localVars>>

-----------------------------------------------------------------------------
(* Raft and the clock.                                                      *)

Elect(n) == BecomeLeader(n) /\ UNCHANGED assignVars

StepDown(n) == LoseLeadership(n) /\ UNCHANGED assignVars

Expire(i) ==
    /\ i \in 1 .. Len(log) /\ i \notin expired
    /\ expired' = expired \cup {i}
    /\ UNCHANGED <<raftVars, log, fsmVars, pc, localVars>>

AssignNext ==
    \/ \E r \in Requests : (\E n \in Nodes, k \in Keys : Arrive(r, n, k)) \/ Handle(r)
    \/ \E n \in Nodes :
          \/ ApplyNext(n) \/ TakeSnapshot(n) \/ Persist(n)
          \/ Crash(n) \/ Restart(n) \/ Elect(n) \/ StepDown(n)
          \/ \E from \in Nodes : Install(n, from)
    \/ \E i \in 1 .. MaxLog : Expire(i)

-----------------------------------------------------------------------------
(* Properties.                                                              *)

AssignTypeOK ==
    /\ log \in Seq([key: Keys, to: [node: Nodes, url: BOOLEAN]]) /\ Len(log) <= MaxLog
    /\ expired \subseteq 1 .. Len(log)
    /\ table \in [Nodes -> Tables]
    /\ applied \in [Nodes -> Places]
    /\ taken \in [Nodes -> Snapshots] /\ saved \in [Nodes -> Snapshots]
    /\ pc \in [Requests -> Ended \cup {"gate", "lookup", "absent", "assign", "await", "route"}]
    /\ node \in [Requests -> Nodes \cup {NoNode}] /\ key \in [Requests -> Keys]
    /\ forwarded \in [Requests -> BOOLEAN]
    /\ route \in [Requests -> Routes]
    /\ place \in [Requests -> Places]

\* What a node that applied the log up to i knows of k: the last assignment of k.
LastOf(k, i) ==
    LET earlier == {j \in 1 .. i : log[j].key = k}
    IN  IF earlier = {} THEN 0 ELSE CHOOSE j \in earlier : \A h \in earlier : h <= j

Matches(t, i) == t = [k \in Keys |-> LastOf(k, i)]

\* Through crashes, restarts, snapshots written while entries are applied, and
\* snapshots of other nodes: a node's table is what the log says up to the place it
\* has applied, and a snapshot file what it says up to the place it was taken at.
TablesMatchLog ==
    \A n \in Nodes :
        /\ n \in up => Matches(table[n], applied[n])
        /\ Matches(saved[n].table, saved[n].index)

\* A request leaves for another node only along an assignment of its client that is
\* committed, whatever happened to the leadership while the handler waited for it.
ForwardsAlongCommitted ==
    \A r \in Requests : pc[r] = "route" /\ ~StaysHere(r) =>
        \E i \in 1 .. Len(log) : log[i].key = key[r] /\ log[i].to = route[r]

\* Every request ends, time and again, although Assign waits for Raft without a deadline of its own
\* and leaders change, nodes crash and tables lag behind meanwhile.
EveryRequestEnds == \A r \in Requests : []<>(pc[r] \in Ended)

-----------------------------------------------------------------------------
(* What the documents say and the code does not do; see the README.         *)

\* A request for a client that is assigned to another node, which runs, is forwarded
\* to it.
ForwardsToAssignedNode ==
    [][\A r \in Requests :
          pc[r] = "route" /\ ~StaysHere(r) /\ route[r].node \in up => pc'[r] # "badGateway"]_<<raftVars, assignVars>>
=============================================================================
