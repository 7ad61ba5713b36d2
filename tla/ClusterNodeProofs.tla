-------------------------- MODULE ClusterNodeProofs --------------------------
(* Proofs about ClusterNode, for every set of nodes, clients and requests, and  *)
(* whoever is whose peer or contact.  Raft and each of the three parts has an   *)
(* inductive invariant; those of the assignments and of the virtual IP do not   *)
(* mention Raft, so that only the steps of the part itself can disturb them.    *)
EXTENDS ClusterNode, TLAPS

-----------------------------------------------------------------------------
(* Raft.                                                                        *)

RaftInv == RaftTypeOK /\ LeaderIsMember

LEMMA InitRaft == Init => RaftInv
  BY FoundersAssumption
     DEF Init, RaftInit, RaftInv, RaftTypeOK, LeaderIsMember

LEMMA RaftSteps ==
    ASSUME RaftInv, NEW n \in Nodes,
           \/ BecomeLeader(n) \/ LoseLeadership(n) \/ GoDown(n) \/ ComeUp(n)
           \/ UNCHANGED raftVars
    PROVE  RaftInv'
  BY GroupAssumption
     DEF RaftInv, RaftTypeOK, LeaderIsMember, BecomeLeader, LoseLeadership, GoDown, ComeUp, raftVars

\* A leader that changes the members stays one of them.
LEMMA ChangedMembers ==
    ASSUME RaftInv, NEW c \in Nodes \cup {NoNode}, NEW voters \in SUBSET Nodes, ChangeMembers(c, voters),
           c \in members => c \in voters
    PROVE  RaftInv'
  BY GroupAssumption DEF RaftInv, RaftTypeOK, LeaderIsMember, ChangeMembers

-----------------------------------------------------------------------------
(* Assignments: the tables.                                                     *)

\* What t has for k is the last assignment of k among the first i of the log.
Remembers(t, i, k) ==
    \/ t[k] = 0 /\ \A j \in 1 .. i : log[j].key # k
    \/ /\ t[k] \in 1 .. i /\ log[t[k]].key = k
       /\ \A j \in 1 .. i : log[j].key = k => j <= t[k]

Reflects(t, i) == i <= Len(log) /\ \A k \in Keys : Remembers(t, i, k)

\* Also of the nodes that are down, since a table is not touched by a crash.
TablesInv ==
    \A n \in Nodes :
        /\ Reflects(table[n], applied[n])
        /\ Reflects(taken[n].table, taken[n].index)
        /\ Reflects(saved[n].table, saved[n].index)

\* A handler on its way has a node, and what it has got for a route: nothing, a member it
\* wants to commit, the entry it waits for, or a committed assignment of its client.
HandlerAt(here, n, k, x, p) ==
    /\ here \notin Ended => n \in Nodes
    /\ here \in Ended \cup {"gate", "lookup", "absent"} => x = NoRoute
    /\ here = "assign" => x.node \in Nodes
    /\ here = "await" => p \in 1 .. Len(log) /\ log[p].key = k /\ log[p].to = x
    /\ here = "route" =>
          x = NoRoute \/ \E i \in 1 .. Len(log) : log[i].key = k /\ log[i].to = x

HandlerInv(r) == HandlerAt(pc[r], node[r], key[r], route[r], place[r])

HandlersInv == \A r \in Requests : HandlerInv(r)

AssignInv == AssignTypeOK /\ TablesInv /\ HandlersInv

Entries == [key: Keys, to: [node: Nodes, url: BOOLEAN]]

LEMMA LogEntries ==
    ASSUME AssignTypeOK, NEW j \in 1 .. Len(log)
    PROVE  log[j] \in Entries /\ log[j].key \in Keys /\ log[j].to \in Routes
<1>1. log \in Seq(Entries)
  BY DEF AssignTypeOK, Entries
<1>2. log[j] \in Entries
  BY <1>1
<1> QED
  BY <1>2 DEF Entries, Routes

\* The description of a table determines it.
LEMMA ReflectsMatches ==
    ASSUME NEW t \in Tables, NEW i \in Places, Reflects(t, i)
    PROVE  Matches(t, i)
<1>1. ASSUME NEW k \in Keys PROVE t[k] = LastOf(k, i)
  <2> DEFINE earlier == {j \in 1 .. i : log[j].key = k}
  <2>1. i \in Nat
    BY ClusterAssumption DEF Places
  <2>2. Remembers(t, i, k)
    BY DEF Reflects
  <2>3. CASE t[k] = 0 /\ \A j \in 1 .. i : log[j].key # k
    BY <2>3 DEF LastOf
  <2>4. CASE /\ t[k] \in 1 .. i /\ log[t[k]].key = k
             /\ \A j \in 1 .. i : log[j].key = k => j <= t[k]
    <3>1. t[k] \in earlier /\ \A h \in earlier : h <= t[k]
      BY <2>4
    <3>2. \A j \in earlier : (\A h \in earlier : h <= j) => j = t[k]
      BY <2>1, <3>1
    <3>3. (CHOOSE j \in earlier : \A h \in earlier : h <= j) = t[k]
      BY <3>1, <3>2
    <3>4. earlier # {}
      BY <3>1
    <3> QED
      BY <3>3, <3>4 DEF LastOf
  <2> QED
    BY <2>2, <2>3, <2>4 DEF Remembers
<1> QED
  BY <1>1 DEF Matches, Tables

\* One more entry in the log changes nothing about those before it.
LEMMA LogGrows ==
    ASSUME AssignTypeOK, NEW e \in Entries, log' = Append(log, e)
    PROVE  /\ Len(log') = Len(log) + 1 /\ log'[Len(log')] = e
           /\ \A j \in 1 .. Len(log) : log'[j] = log[j]
  BY DEF AssignTypeOK, Entries

LEMMA ReflectsGrows ==
    ASSUME AssignTypeOK, NEW e \in Entries, log' = Append(log, e),
           NEW t \in Tables, NEW i \in Places, Reflects(t, i)
    PROVE  Reflects(t, i)'
<1>1. i \in Nat /\ Len(log) \in Nat /\ i <= Len(log)
  BY ClusterAssumption DEF Places, Reflects, AssignTypeOK
<1>2. \A j \in 1 .. i : log'[j] = log[j]
  BY <1>1, LogGrows
<1>3. \A k \in Keys : t[k] \in Nat
  BY ClusterAssumption DEF Tables, Places
<1>4. ASSUME NEW k \in Keys PROVE Remembers(t, i, k)'
  <2>1. Remembers(t, i, k)
    BY DEF Reflects
  <2> QED
    BY <1>1, <1>2, <1>3, <2>1 DEF Remembers
<1>5. i <= Len(log')
  BY <1>1, LogGrows
<1> QED
  BY <1>4, <1>5 DEF Reflects

\* The state machine applies the next entry.
LEMMA ReflectsApplied ==
    ASSUME AssignTypeOK, NEW t \in Tables, NEW i \in Places, Reflects(t, i), i < Len(log)
    PROVE  Applied(t, i + 1) \in Tables /\ Reflects(Applied(t, i + 1), i + 1)
<1>1. i \in Nat /\ Len(log) \in Nat /\ i + 1 \in 1 .. Len(log) /\ i + 1 \in Places
  BY ClusterAssumption DEF Places, AssignTypeOK
<1>2. log[i + 1].key \in Keys
  BY <1>1, LogEntries
<1>3. Applied(t, i + 1) \in Tables
  BY <1>1, <1>2 DEF Applied, Tables
<1>4. \A k \in Keys : Applied(t, i + 1)[k] = IF log[i + 1].key = k THEN i + 1 ELSE t[k]
  BY <1>2 DEF Applied, Tables
<1>5. ASSUME NEW k \in Keys PROVE Remembers(Applied(t, i + 1), i + 1, k)
  <2>1. Remembers(t, i, k)
    BY DEF Reflects
  <2>2. CASE log[i + 1].key = k
    BY <1>1, <1>4, <2>2 DEF Remembers
  <2>3. CASE log[i + 1].key # k
    BY <1>1, <1>4, <2>1, <2>3 DEF Remembers
  <2> QED
    BY <2>2, <2>3
<1> QED
  BY <1>1, <1>3, <1>5 DEF Reflects

-----------------------------------------------------------------------------
(* Assignments: types.                                                          *)

LEMMA MemberRoutes ==
    ASSUME NEW n \in Nodes, NEW k \in Keys
    PROVE  MemberRoute(n, k) \in [node: Nodes, url: BOOLEAN]
<1>1. Members(n) \in Seq(Nodes) /\ Len(Members(n)) \in Nat \ {0}
  BY ClusterAssumption DEF Members
<1>2. Hash[k] \in Nat
  BY ClusterAssumption
<1>3. (Hash[k] % Len(Members(n))) + 1 \in 1 .. Len(Members(n))
  BY <1>1, <1>2
<1>4. MemberFor(n, k) \in Nodes
  BY <1>1, <1>3 DEF MemberFor
<1> QED
  BY <1>4 DEF MemberRoute

LEMMA EmptyTyped == EmptySnapshot \in Snapshots /\ EmptyTable \in Tables /\ NoRoute \in Routes
  BY ClusterAssumption DEF EmptySnapshot, Snapshots, EmptyTable, Tables, Places, NoRoute, Routes

LEMMA InitAssign == AssignInit => AssignInv
<1> SUFFICES ASSUME AssignInit PROVE AssignInv
  OBVIOUS
<1>1. AssignTypeOK
  <2>1. log \in Seq([key: Keys, to: [node: Nodes, url: BOOLEAN]]) /\ Len(log) = 0
    BY DEF AssignInit
  <2> QED
    BY <2>1, EmptyTyped, ClusterAssumption
       DEF AssignInit, AssignTypeOK, Ended, Places
<1>2. \A k \in Keys : EmptyTable[k] = 0
  BY DEF EmptyTable
<1>3. Reflects(EmptyTable, 0)
  BY <1>2 DEF AssignInit, Reflects, Remembers
<1>4. TablesInv
  BY <1>3 DEF AssignInit, TablesInv, EmptySnapshot
<1>5. HandlersInv
  BY DEF AssignInit, HandlersInv, HandlerInv, HandlerAt, Ended
<1> QED
  BY <1>1, <1>4, <1>5 DEF AssignInv

\* What Find gets from the node's table.
LEMMA Found ==
    ASSUME AssignInv, NEW n \in Nodes, NEW k \in Keys
    PROVE  \/ Lookup(n, k) = 0
           \/ (Lookup(n, k) \in 1 .. Len(log) /\ log[Lookup(n, k)].key = k)
<1>1. Remembers(table[n], applied[n], k) /\ applied[n] <= Len(log)
  BY DEF AssignInv, TablesInv, Reflects
<1>2. applied[n] \in Nat /\ Len(log) \in Nat
  BY ClusterAssumption DEF AssignInv, AssignTypeOK, Places
<1> QED
  BY <1>1, <1>2 DEF Lookup, Remembers

LEMMA FoundRoutes ==
    ASSUME AssignInv, NEW n \in Nodes, NEW k \in Keys
    PROVE  RouteAt(Lookup(n, k)) \in Routes
  BY Found, LogEntries, EmptyTyped DEF RouteAt, AssignInv

Stages == Ended \cup {"gate", "lookup", "absent", "assign", "await", "route"}

\* A handler goes on, with log and tables as they are.
LEMMA HandlerMoves ==
    ASSUME AssignInv, UNCHANGED <<logVars, fsmVars>>,
           NEW r \in Requests, NEW there \in Stages, NEW n \in Nodes \cup {NoNode}, NEW k \in Keys,
           NEW b \in BOOLEAN, NEW x \in Routes, NEW p \in Places,
           pc' = [pc EXCEPT ![r] = there], node' = [node EXCEPT ![r] = n],
           key' = [key EXCEPT ![r] = k], forwarded' = [forwarded EXCEPT ![r] = b],
           route' = [route EXCEPT ![r] = x], place' = [place EXCEPT ![r] = p],
           HandlerAt(there, n, k, x, p)
    PROVE  AssignInv'
<1> USE DEF logVars, fsmVars
<1>1. AssignTypeOK'
  BY DEF AssignInv, AssignTypeOK, Stages
<1>2. TablesInv'
  BY DEF AssignInv, TablesInv, Reflects, Remembers
<1>3. ASSUME NEW q \in Requests PROVE HandlerInv(q)'
  <2>1. CASE q = r
    <3>1. pc'[q] = there /\ node'[q] = n /\ key'[q] = k /\ route'[q] = x /\ place'[q] = p
      BY <2>1 DEF AssignInv, AssignTypeOK
    <3> QED
      BY <3>1 DEF HandlerInv, HandlerAt
  <2>2. CASE q # r
    <3>1. /\ pc'[q] = pc[q] /\ node'[q] = node[q] /\ key'[q] = key[q]
          /\ route'[q] = route[q] /\ place'[q] = place[q]
      BY <2>2 DEF AssignInv, AssignTypeOK
    <3>2. HandlerInv(q)
      BY DEF AssignInv, HandlersInv
    <3> QED
      BY <3>1, <3>2 DEF HandlerInv, HandlerAt
  <2> QED
    BY <2>1, <2>2
<1> QED
  BY <1>1, <1>2, <1>3 DEF AssignInv, HandlersInv

\* What a handler does not change is as it was.
LEMMA SameAt ==
    ASSUME AssignInv, NEW r \in Requests
    PROVE  /\ node = [node EXCEPT ![r] = node[r]] /\ node[r] \in Nodes \cup {NoNode}
           /\ key = [key EXCEPT ![r] = key[r]] /\ key[r] \in Keys
           /\ forwarded = [forwarded EXCEPT ![r] = forwarded[r]] /\ forwarded[r] \in BOOLEAN
           /\ route = [route EXCEPT ![r] = route[r]] /\ route[r] \in Routes
           /\ place = [place EXCEPT ![r] = place[r]] /\ place[r] \in Places
           /\ HandlerAt(pc[r], node[r], key[r], route[r], place[r])
  BY DEF AssignInv, AssignTypeOK, HandlersInv, HandlerInv

LEMMA HandlerEnds ==
    ASSUME AssignInv, UNCHANGED <<logVars, fsmVars, key>>, NEW r \in Requests,
           NEW how \in Ended, End(r, how)
    PROVE  AssignInv'
<1>1. /\ pc' = [pc EXCEPT ![r] = how]
      /\ node' = [node EXCEPT ![r] = NoNode] /\ key' = [key EXCEPT ![r] = key[r]]
      /\ forwarded' = [forwarded EXCEPT ![r] = FALSE] /\ route' = [route EXCEPT ![r] = NoRoute]
      /\ place' = [place EXCEPT ![r] = 0] /\ key[r] \in Keys
  BY SameAt DEF End, Goto
<1>2. 0 \in Places /\ NoRoute \in Routes
  BY EmptyTyped, ClusterAssumption DEF Places
<1>3. HandlerAt(how, NoNode, key[r], NoRoute, 0) /\ how \in Stages
  BY DEF HandlerAt, Ended, Stages
<1> QED
  BY <1>1, <1>2, <1>3, HandlerMoves

\* A handler only goes from one place to the next, and may have got a route.
LEMMA HandlerGoes ==
    ASSUME AssignInv, UNCHANGED <<logVars, fsmVars, node, key, forwarded, place>>,
           NEW r \in Requests, NEW there \in {"lookup", "absent", "assign", "route"}, NEW x \in Routes,
           Goto(r, there), route' = [route EXCEPT ![r] = x],
           HandlerAt(there, node[r], key[r], x, place[r])
    PROVE  AssignInv'
<1>1. PICK n \in Nodes \cup {NoNode}, k \in Keys, b \in BOOLEAN, p \in Places :
          /\ node' = [node EXCEPT ![r] = n] /\ key' = [key EXCEPT ![r] = k]
          /\ forwarded' = [forwarded EXCEPT ![r] = b] /\ place' = [place EXCEPT ![r] = p]
          /\ HandlerAt(there, n, k, x, p)
  BY SameAt
<1>2. there \in Stages
  BY DEF Stages
<1>3. UNCHANGED <<logVars, fsmVars>> /\ pc' = [pc EXCEPT ![r] = there]
  BY DEF Goto
<1> QED
  BY <1>1, <1>2, <1>3, HandlerMoves

LEMMA HandlerSteps ==
    ASSUME AssignInv, NEW r \in Requests, Handle(r) \/ \E n \in Nodes, k \in Keys : Arrive(r, n, k)
    PROVE  AssignInv'
<1>1. /\ HandlerAt(pc[r], node[r], key[r], route[r], place[r])
      /\ node[r] \in Nodes \cup {NoNode} /\ key[r] \in Keys /\ route[r] \in Routes
      /\ route = [route EXCEPT ![r] = route[r]]
  BY SameAt
<1>2. ASSUME NEW n \in Nodes, NEW k \in Keys, Arrive(r, n, k) PROVE AssignInv'
  <2>1. PICK b \in BOOLEAN : forwarded' = [forwarded EXCEPT ![r] = b]
    BY <1>2 DEF Arrive
  <2>2. HandlerAt("gate", n, k, route[r], place[r]) /\ "gate" \in Stages
    BY <1>1, <1>2 DEF Arrive, HandlerAt, Ended, Stages
  <2>3. /\ UNCHANGED <<logVars, fsmVars, route, place>> /\ pc' = [pc EXCEPT ![r] = "gate"]
        /\ node' = [node EXCEPT ![r] = n] /\ key' = [key EXCEPT ![r] = k]
    BY <1>2 DEF Arrive, Goto
  <2>4. /\ route' = [route EXCEPT ![r] = route[r]] /\ place' = [place EXCEPT ![r] = place[r]]
        /\ place[r] \in Places
    BY <2>3, SameAt
  <2> QED
    BY <1>1, <2>1, <2>2, <2>3, <2>4, HandlerMoves
<1>3. CASE Gate(r)
  <2>1. CASE End(r, "local")
    BY <1>3, <2>1, HandlerEnds DEF Gate, Ended
  <2>2. CASE Goto(r, "lookup") /\ UNCHANGED <<node, forwarded, route, place>>
    <3>1. HandlerAt("lookup", node[r], key[r], route[r], place[r])
      BY <1>1, <1>3 DEF Gate, HandlerAt, Ended
    <3> QED
      BY <1>1, <1>3, <2>2, <3>1, HandlerGoes DEF Gate
  <2> QED
    BY <1>3, <2>1, <2>2 DEF Gate
<1>4. CASE Find(r)
  <2> DEFINE i == Lookup(node[r], key[r])
             there == IF i = 0 THEN "absent" ELSE "route"
  <2>1. node[r] \in Nodes
    BY <1>1, <1>4 DEF Find, HandlerAt, Ended
  <2>2. RouteAt(i) \in Routes /\ (i = 0 \/ (i \in 1 .. Len(log) /\ log[i].key = key[r]))
    BY <1>1, <2>1, Found, FoundRoutes
  <2>3. Goto(r, there) /\ route' = [route EXCEPT ![r] = RouteAt(i)]
    BY <1>4 DEF Find
  <2>4. UNCHANGED <<logVars, fsmVars, node, key, forwarded, place>>
    BY <1>4 DEF Find
  <2>5. HandlerAt(there, node[r], key[r], RouteAt(i), place[r])
    BY <2>1, <2>2 DEF HandlerAt, Ended, RouteAt
  <2>6. there \in {"absent", "route"}
    OBVIOUS
  <2> HIDE DEF i, there
  <2> QED
    BY <2>2, <2>3, <2>4, <2>5, <2>6, HandlerGoes
<1>5. CASE MakeAssignment(r)
  <2> DEFINE m == MemberRoute(node[r], key[r])
  <2>1. node[r] \in Nodes
    BY <1>1, <1>5 DEF MakeAssignment, HandlerAt, Ended
  <2>2. m \in [node: Nodes, url: BOOLEAN]
    BY <1>1, <2>1, MemberRoutes
  <2>3. UNCHANGED <<logVars, fsmVars, node, key, forwarded, place>>
    BY <1>5 DEF MakeAssignment
  <2>4. CASE node[r] \in believes
    <3>1. HandlerAt("assign", node[r], key[r], m, place[r]) /\ m \in Routes
      BY <2>1, <2>2 DEF HandlerAt, Ended, Routes
    <3>2. Goto(r, "assign") /\ route' = [route EXCEPT ![r] = m]
      BY <1>5, <2>4 DEF MakeAssignment
    <3> HIDE DEF m
    <3> QED
      BY <2>3, <3>1, <3>2, HandlerGoes
  <2>5. CASE node[r] \notin believes
    <3>1. HandlerAt("route", node[r], key[r], route[r], place[r])
      BY <1>1, <1>5, <2>1 DEF MakeAssignment, HandlerAt, Ended
    <3>2. Goto(r, "route") /\ UNCHANGED route
      BY <1>5, <2>5 DEF MakeAssignment
    <3> QED
      BY <1>1, <2>3, <3>1, <3>2, HandlerGoes
  <2> QED
    BY <2>4, <2>5
<1>7. CASE Committed(r)
  <2>1. HandlerAt("route", node[r], key[r], route[r], place[r])
    BY <1>1, <1>7 DEF Committed, HandlerAt, Ended
  <2> QED
    BY <1>1, <1>7, <2>1, HandlerGoes DEF Committed, localVars
<1>8. CASE AssignFails(r)
  BY <1>8, HandlerEnds DEF AssignFails, AfterFailedAssign, Ended
<1>9. CASE ServeHere(r) \/ Forward(r)
  BY <1>9, HandlerEnds DEF ServeHere, Forward, Ended
<1>6. CASE Commit(r)
  \* What was true of the other handlers, and of the tables, stays true as the log grows.
  <2> DEFINE e == [key |-> key[r], to |-> route[r]]
  <2>1. /\ log' = Append(log, e) /\ place' = [place EXCEPT ![r] = Len(log')]
        /\ pc' = [pc EXCEPT ![r] = "await"]
        /\ UNCHANGED <<expired, table, applied, taken, saved, node, key, forwarded, route>>
        /\ Len(log) < MaxLog /\ pc[r] = "assign"
    BY <1>6 DEF Commit, Goto, fsmVars
  <2>2. e \in Entries
    BY <1>1, <2>1 DEF HandlerAt, Entries, Routes
  <2>3. AssignTypeOK
    BY DEF AssignInv
  <2> HIDE DEF e
  <2>4. /\ Len(log') = Len(log) + 1 /\ log'[Len(log')] = e /\ Len(log) \in Nat
        /\ \A j \in 1 .. Len(log) : log'[j] = log[j]
    BY <2>1, <2>2, <2>3, LogGrows DEF AssignTypeOK
  <2>5. AssignTypeOK'
    <3>1. log' \in Seq(Entries) /\ Len(log') <= MaxLog /\ expired' \subseteq 1 .. Len(log')
      BY <2>1, <2>2, <2>3, <2>4, ClusterAssumption DEF AssignTypeOK, Entries
    <3>2. Len(log') \in Places
      BY <2>4, <3>1 DEF Places
    <3> QED
      BY <2>1, <2>3, <3>1, <3>2 DEF AssignTypeOK, Entries
  <2>6. TablesInv'
    <3>1. \A n \in Nodes : /\ table[n] \in Tables /\ applied[n] \in Places
                           /\ taken[n].table \in Tables /\ taken[n].index \in Places
                           /\ saved[n].table \in Tables /\ saved[n].index \in Places
      BY <2>3 DEF AssignTypeOK, Snapshots
    <3>2. \A t \in Tables, i \in Places : Reflects(t, i) => Reflects(t, i)'
      BY <2>1, <2>2, <2>3, ReflectsGrows
    <3> QED
      BY <2>1, <3>1, <3>2 DEF AssignInv, TablesInv
  <2>7. ASSUME NEW q \in Requests PROVE HandlerInv(q)'
    <3>1. HandlerInv(q)
      BY DEF AssignInv, HandlersInv
    <3>2. CASE q = r
      <4>1. pc'[q] = "await" /\ place'[q] = Len(log') /\ node[q] \in Nodes
        BY <1>1, <2>1, <2>3, <3>2 DEF AssignTypeOK, HandlerAt, Ended
      <4>2. log'[Len(log')].key = key[q] /\ log'[Len(log')].to = route[q]
        BY <2>4, <3>2 DEF e
      <4> QED
        BY <2>1, <2>4, <4>1, <4>2 DEF HandlerInv, HandlerAt, Ended
    <3>3. CASE q # r
      <4>1. pc'[q] = pc[q] /\ place'[q] = place[q]
        BY <2>1, <2>3, <3>3 DEF AssignTypeOK
      <4> QED
        BY <2>1, <2>4, <3>1, <4>1 DEF HandlerInv, HandlerAt
    <3> QED
      BY <3>2, <3>3
  <2> QED
    BY <2>5, <2>6, <2>7 DEF AssignInv, HandlersInv
<1> QED
  BY <1>2, <1>3, <1>4, <1>5, <1>6, <1>7, <1>8, <1>9 DEF Handle

\* Handlers, and what is said of them, do not depend on the tables.
LEMMA HandlersStay ==
    ASSUME HandlersInv, UNCHANGED <<log, pc, localVars>>
    PROVE  HandlersInv'
  BY DEF HandlersInv, HandlerInv, HandlerAt, localVars

\* What the node has in memory, takes a copy of, writes and reads back are tables that
\* reflect the log up to a place.
LEMMA MachineSteps ==
    ASSUME AssignInv, NEW n \in Nodes,
           \/ ApplyNext(n) \/ TakeSnapshot(n) \/ Persist(n)
           \/ Restart(n) \/ \E from \in Nodes : Install(n, from)
    PROVE  AssignInv'
<1>1. UNCHANGED <<log, expired, pc, localVars>>
  BY DEF ApplyNext, TakeSnapshot, Persist, Restart, Install, logVars
<1>2. HandlersInv'
  BY <1>1, HandlersStay DEF AssignInv
<1>3. AssignTypeOK /\ TablesInv
  BY DEF AssignInv
<1>4. \A m \in Nodes :
          /\ table[m] \in Tables /\ applied[m] \in Places
          /\ taken[m] \in Snapshots /\ taken[m].table \in Tables /\ taken[m].index \in Places
          /\ saved[m] \in Snapshots /\ saved[m].table \in Tables /\ saved[m].index \in Places
  BY <1>3 DEF AssignTypeOK, Snapshots
<1>5. \A t \in Tables, i \in Places : Reflects(t, i) => Reflects(t, i)'
  BY <1>1 DEF Reflects, Remembers
<1>6. Reflects(EmptyTable, 0)
  <2>1. \A k \in Keys : EmptyTable[k] = 0
    BY DEF EmptyTable
  <2>2. 0 <= Len(log)
    BY <1>3 DEF AssignTypeOK
  <2> QED
    BY <2>1, <2>2 DEF Reflects, Remembers
\* It is enough to say what becomes of the three tables.
<1>7. SUFFICES /\ table' \in [Nodes -> Tables] /\ applied' \in [Nodes -> Places]
               /\ taken' \in [Nodes -> Snapshots] /\ saved' \in [Nodes -> Snapshots]
               /\ \A m \in Nodes : /\ Reflects(table'[m], applied'[m])
                                   /\ Reflects(taken'[m].table, taken'[m].index)
                                   /\ Reflects(saved'[m].table, saved'[m].index)
  <2> SUFFICES ASSUME /\ table' \in [Nodes -> Tables] /\ applied' \in [Nodes -> Places]
                      /\ taken' \in [Nodes -> Snapshots] /\ saved' \in [Nodes -> Snapshots]
                      /\ \A m \in Nodes : /\ Reflects(table'[m], applied'[m])
                                          /\ Reflects(taken'[m].table, taken'[m].index)
                                          /\ Reflects(saved'[m].table, saved'[m].index)
               PROVE  AssignInv'
    OBVIOUS
  <2>1. AssignTypeOK'
    BY <1>1, <1>3 DEF AssignTypeOK, localVars
  <2>2. TablesInv'
    BY <1>1 DEF TablesInv, Reflects, Remembers
  <2> QED
    BY <1>2, <2>1, <2>2 DEF AssignInv
<1>8. CASE ApplyNext(n)
  <2> DEFINE t == Applied(table[n], applied[n] + 1)
  <2>1. applied[n] < Len(log) /\ applied[n] + 1 \in Places
    BY <1>3, <1>4, <1>8, ClusterAssumption DEF ApplyNext, AssignTypeOK, Places
  <2>2. t \in Tables /\ Reflects(t, applied[n] + 1)
    BY <1>3, <1>4, <2>1, ReflectsApplied DEF TablesInv
  <2>3. /\ table' = [table EXCEPT ![n] = t] /\ applied' = [applied EXCEPT ![n] = applied[n] + 1]
        /\ UNCHANGED <<taken, saved>>
    BY <1>3, <1>8 DEF ApplyNext, AssignTypeOK
  <2> HIDE DEF t
  <2> QED
    BY <1>3, <2>1, <2>2, <2>3 DEF AssignTypeOK, TablesInv
<1>9. CASE TakeSnapshot(n)
  <2> DEFINE s == [index |-> applied[n], table |-> table[n]]
  <2>1. s \in Snapshots /\ s.index = applied[n] /\ s.table = table[n]
    BY <1>4 DEF Snapshots
  <2>2. taken' = [taken EXCEPT ![n] = s] /\ UNCHANGED <<table, applied, saved>>
    BY <1>9 DEF TakeSnapshot
  <2> HIDE DEF s
  <2> QED
    BY <1>3, <2>1, <2>2 DEF AssignTypeOK, TablesInv
<1>10. CASE Persist(n)
  <2> DEFINE s == [index |-> taken[n].index, table |-> taken[n].table]
  <2>1. s \in Snapshots /\ s.index = taken[n].index /\ s.table = taken[n].table
    BY <1>4 DEF Snapshots
  <2>2. /\ saved' \in {saved, [saved EXCEPT ![n] = s]} /\ taken' = [taken EXCEPT ![n] = EmptySnapshot]
        /\ UNCHANGED <<table, applied>>
    BY <1>10 DEF Persist, Persisted
  <2>3. EmptySnapshot.table = EmptyTable /\ EmptySnapshot.index = 0
    BY DEF EmptySnapshot
  <2> HIDE DEF s
  <2> QED
    BY <1>3, <1>6, <2>1, <2>2, <2>3, EmptyTyped DEF AssignTypeOK, TablesInv
<1>11. CASE Restart(n)
  <2>1. /\ table' = [table EXCEPT ![n] = saved[n].table]
        /\ applied' = [applied EXCEPT ![n] = saved[n].index] /\ UNCHANGED <<taken, saved>>
    BY <1>11 DEF Restart
  <2> QED
    BY <1>3, <1>4, <2>1 DEF AssignTypeOK, TablesInv
<1>12. ASSUME NEW from \in Nodes, Install(n, from)
       PROVE  /\ table' \in [Nodes -> Tables] /\ applied' \in [Nodes -> Places]
              /\ taken' \in [Nodes -> Snapshots] /\ saved' \in [Nodes -> Snapshots]
              /\ \A m \in Nodes : /\ Reflects(table'[m], applied'[m])
                                  /\ Reflects(taken'[m].table, taken'[m].index)
                                  /\ Reflects(saved'[m].table, saved'[m].index)
  <2>1. /\ table' = [table EXCEPT ![n] = saved[from].table]
        /\ applied' = [applied EXCEPT ![n] = saved[from].index]
        /\ saved' = [saved EXCEPT ![n] = saved[from]] /\ UNCHANGED taken
    BY <1>12 DEF Install
  <2> QED
    BY <1>3, <1>4, <2>1 DEF AssignTypeOK, TablesInv
<1> QED
  BY <1>8, <1>9, <1>10, <1>11, <1>12

LEMMA CrashStep ==
    ASSUME AssignInv, NEW n \in Nodes, Crash(n)
    PROVE  AssignInv'
<1> USE DEF AssignInv
<1>1. /\ UNCHANGED <<log, expired, table, applied, saved, key>>
      /\ taken' = [taken EXCEPT ![n] = EmptySnapshot]
  BY DEF Crash, logVars
<1>2. AssignTypeOK'
  <2>1. taken' \in [Nodes -> Snapshots]
    BY <1>1, EmptyTyped DEF AssignTypeOK
  <2>2. /\ pc' \in [Requests -> Ended \cup {"gate", "lookup", "absent", "assign", "await", "route"}]
        /\ node' \in [Requests -> Nodes \cup {NoNode}]
    BY DEF Crash, AssignTypeOK, Ended
  <2>3. route' \in [Requests -> Routes] /\ place' \in [Requests -> Places]
    BY EmptyTyped, ClusterAssumption DEF Crash, AssignTypeOK, Places
  <2>4. forwarded' \in [Requests -> BOOLEAN]
    BY DEF Crash, AssignTypeOK
  <2> QED
    BY <1>1, <2>1, <2>2, <2>3, <2>4 DEF AssignTypeOK
<1>3. TablesInv'
  <2>1. Reflects(EmptySnapshot.table, EmptySnapshot.index)
    <3>1. \A k \in Keys : EmptyTable[k] = 0
      BY DEF EmptyTable
    <3>2. 0 <= Len(log)
      BY DEF AssignTypeOK
    <3> QED
      BY <3>1, <3>2 DEF Reflects, Remembers, EmptySnapshot
  <2>2. \A m \in Nodes : Reflects(taken'[m].table, taken'[m].index)
    BY <1>1, <2>1 DEF TablesInv, AssignTypeOK
  <2> QED
    BY <1>1, <2>2 DEF TablesInv, Reflects, Remembers
<1>4. ASSUME NEW r \in Requests PROVE HandlerInv(r)'
  <2>1. HandlerInv(r)
    BY DEF HandlersInv
  <2>2. CASE node[r] = n
    <3>1. pc'[r] = "lost" /\ route'[r] = NoRoute
      BY <2>2 DEF Crash
    <3> QED
      BY <3>1 DEF HandlerInv, HandlerAt, Ended
  <2>3. CASE node[r] # n
    <3>1. pc'[r] = pc[r] /\ route'[r] = route[r] /\ node'[r] = node[r] /\ place'[r] = place[r]
      BY <2>3 DEF Crash
    <3> QED
      BY <1>1, <2>1, <3>1 DEF HandlerInv, HandlerAt
  <2> QED
    BY <2>2, <2>3
<1> QED
  BY <1>2, <1>3, <1>4 DEF HandlersInv

LEMMA AssignStep == AssignInv /\ [AssignNext]_assignVars => AssignInv'
<1> SUFFICES ASSUME AssignInv, [AssignNext]_assignVars PROVE AssignInv'
  OBVIOUS
<1>1. CASE UNCHANGED assignVars \/ \E n \in Nodes : Elect(n) \/ StepDown(n)
  <2>1. UNCHANGED assignVars
    BY <1>1 DEF Elect, StepDown
  <2> QED
    BY <2>1 DEF assignVars, logVars, fsmVars, localVars, AssignInv, AssignTypeOK, TablesInv,
                Reflects, Remembers, HandlersInv, HandlerInv, HandlerAt
<1>2. ASSUME NEW i \in 1 .. MaxLog, Expire(i) PROVE AssignInv'
  <2>1. UNCHANGED <<log, fsmVars, pc, localVars>> /\ expired' = expired \cup {i} /\ i \in 1 .. Len(log)
    BY <1>2 DEF Expire
  <2>2. HandlersInv'
    BY <2>1, HandlersStay DEF AssignInv
  <2>3. AssignTypeOK' /\ TablesInv'
    BY <2>1 DEF AssignInv, AssignTypeOK, TablesInv, Reflects, Remembers, fsmVars, localVars
  <2> QED
    BY <2>2, <2>3 DEF AssignInv
<1> QED
  BY <1>1, <1>2, HandlerSteps, MachineSteps, CrashStep DEF AssignNext

\* What the two properties say, of states with the invariant.
LEMMA AssignProperties == AssignInv => AssignTypeOK /\ TablesMatchLog /\ ForwardsAlongCommitted
<1> SUFFICES ASSUME AssignInv PROVE TablesMatchLog /\ ForwardsAlongCommitted
  BY DEF AssignInv
<1>1. TablesMatchLog
  <2>1. \A n \in Nodes : /\ table[n] \in Tables /\ applied[n] \in Places
                         /\ saved[n].table \in Tables /\ saved[n].index \in Places
    BY DEF AssignInv, AssignTypeOK, Snapshots
  <2> QED
    BY <2>1, ReflectsMatches DEF AssignInv, TablesInv, TablesMatchLog
<1>2. ForwardsAlongCommitted
  BY DEF AssignInv, HandlersInv, HandlerInv, HandlerAt, ForwardsAlongCommitted, StaysHere, NoRoute
<1> QED
  BY <1>1, <1>2

\* What a snapshot is of was applied, and a node that is down writes none.
SnapshotsInv ==
    \A n \in Nodes : /\ saved[n].index <= applied[n] /\ taken[n].index <= applied[n]
                     /\ n \notin up => taken[n].index = 0

LEMMA InitSnapshots == AssignInit => SnapshotsInv
<1>1. EmptySnapshot.index = 0
  BY DEF EmptySnapshot
<1> SUFFICES ASSUME AssignInit, NEW n \in Nodes
             PROVE  /\ saved[n].index <= applied[n] /\ taken[n].index <= applied[n]
                    /\ taken[n].index = 0
  BY DEF SnapshotsInv
<1>2. saved[n] = EmptySnapshot /\ taken[n] = EmptySnapshot /\ applied[n] = 0
  BY DEF AssignInit
<1> QED
  BY <1>1, <1>2

LEMMA SnapshotsStep ==
    AssignInv /\ SnapshotsInv /\ (AssignNext \/ UNCHANGED <<up, assignVars>>) => SnapshotsInv'
<1> SUFFICES ASSUME AssignInv, SnapshotsInv, AssignNext \/ UNCHANGED <<up, assignVars>>
             PROVE  SnapshotsInv'
  OBVIOUS
<1>1. /\ applied \in [Nodes -> Nat]
      /\ taken \in [Nodes -> Snapshots] /\ saved \in [Nodes -> Snapshots]
      /\ \A n \in Nodes : taken[n].index \in Nat /\ saved[n].index \in Nat
  BY ClusterAssumption DEF AssignInv, AssignTypeOK, Snapshots, Places
<1> USE DEF SnapshotsInv, EmptySnapshot
<1>2. ASSUME UNCHANGED fsmVars, up \subseteq up' PROVE SnapshotsInv'
  BY <1>2 DEF fsmVars
<1>3. ASSUME NEW r \in Requests, (\E n \in Nodes, k \in Keys : Arrive(r, n, k)) \/ Handle(r)
      PROVE  SnapshotsInv'
  BY <1>2, <1>3 DEF Arrive, Handle, Gate, Find, MakeAssignment, Commit, Committed, AssignFails,
                    ServeHere, Forward, raftVars
<1>4. ASSUME NEW n \in Nodes, ApplyNext(n) PROVE SnapshotsInv'
  BY <1>1, <1>4 DEF ApplyNext, raftVars
<1>5. ASSUME NEW n \in Nodes, TakeSnapshot(n) \/ Persist(n) PROVE SnapshotsInv'
  BY <1>1, <1>5 DEF TakeSnapshot, Persist, raftVars
<1>6. ASSUME NEW n \in Nodes, Crash(n) PROVE SnapshotsInv'
  BY <1>1, <1>6 DEF Crash, GoDown
<1>7. ASSUME NEW n \in Nodes, Restart(n) PROVE SnapshotsInv'
  BY <1>1, <1>7 DEF Restart, ComeUp
<1>8. ASSUME NEW n \in Nodes, Elect(n) \/ StepDown(n) PROVE SnapshotsInv'
  BY <1>2, <1>8 DEF Elect, StepDown, BecomeLeader, LoseLeadership, assignVars
<1>9. ASSUME NEW n \in Nodes, NEW from \in Nodes, Install(n, from) PROVE SnapshotsInv'
  BY <1>1, <1>9 DEF Install, raftVars
<1>10. ASSUME NEW i \in 1 .. MaxLog, Expire(i) PROVE SnapshotsInv'
  BY <1>2, <1>10 DEF Expire, raftVars
<1>11. CASE UNCHANGED <<up, assignVars>>
  BY <1>2, <1>11 DEF assignVars
<1> QED
  BY <1>3, <1>4, <1>5, <1>6, <1>7, <1>8, <1>9, <1>10, <1>11 DEF AssignNext

\* The log only grows, a snapshot is replaced by newer ones only, and a node forgets what
\* it has applied only when it starts again, back to its snapshot.
Remembering ==
    /\ Len(log) <= Len(log') /\ \A i \in 1 .. Len(log) : log'[i] = log[i]
    /\ \A n \in Nodes : /\ saved[n].index <= saved'[n].index
                        /\ applied'[n] < applied[n] => n \notin up /\ applied'[n] = saved[n].index

LEMMA AssignRemembers == AssignInv /\ SnapshotsInv /\ [AssignNext]_assignVars => Remembering
<1> SUFFICES ASSUME AssignInv, SnapshotsInv, [AssignNext]_assignVars PROVE Remembering
  OBVIOUS
<1>1. /\ applied \in [Nodes -> Nat]
      /\ taken \in [Nodes -> Snapshots] /\ saved \in [Nodes -> Snapshots]
      /\ \A n \in Nodes : taken[n].index \in Nat /\ saved[n].index \in Nat
      /\ Len(log) \in Nat
  BY ClusterAssumption DEF AssignInv, AssignTypeOK, Snapshots, Places
<1>2. ASSUME UNCHANGED <<log, applied, saved>> PROVE Remembering
  BY <1>1, <1>2 DEF Remembering
<1>3. ASSUME NEW r \in Requests, Commit(r) PROVE Remembering
  <2>1. [key |-> key[r], to |-> route[r]] \in Entries
    BY <1>3 DEF AssignInv, AssignTypeOK, HandlersInv, HandlerInv, HandlerAt, Commit, Entries, Routes
  <2>2. Len(log) <= Len(log') /\ \A i \in 1 .. Len(log) : log'[i] = log[i]
    BY <1>1, <1>3, <2>1, LogGrows DEF Commit, AssignInv
  <2>3. UNCHANGED <<applied, saved>>
    BY <1>3 DEF Commit, fsmVars
  <2> QED
    BY <1>1, <2>2, <2>3 DEF Remembering
<1>4. ASSUME NEW r \in Requests, (\E n \in Nodes, k \in Keys : Arrive(r, n, k)) \/ Handle(r)
      PROVE  Remembering
  BY <1>2, <1>3, <1>4 DEF Arrive, Handle, Gate, Find, MakeAssignment, Committed, AssignFails,
                          ServeHere, Forward, logVars, fsmVars
<1>5. ASSUME NEW n \in Nodes, TakeSnapshot(n) \/ Crash(n) \/ Elect(n) \/ StepDown(n) PROVE Remembering
  BY <1>2, <1>5 DEF TakeSnapshot, Crash, Elect, StepDown, assignVars, logVars, fsmVars
<1>6. ASSUME NEW n \in Nodes, ApplyNext(n) \/ Persist(n) \/ Restart(n) PROVE Remembering
  BY <1>1, <1>6 DEF ApplyNext, Persist, Restart, ComeUp, logVars, Remembering, SnapshotsInv
<1>7. ASSUME NEW n \in Nodes, NEW from \in Nodes, Install(n, from) PROVE Remembering
  BY <1>1, <1>7 DEF Install, logVars, Remembering, SnapshotsInv
<1>8. ASSUME NEW i \in 1 .. MaxLog, Expire(i) PROVE Remembering
  BY <1>2, <1>8 DEF Expire, fsmVars
<1>9. CASE UNCHANGED assignVars
  BY <1>2, <1>9 DEF assignVars, logVars, fsmVars
<1> QED
  BY <1>4, <1>5, <1>6, <1>7, <1>8, <1>9 DEF AssignNext

\* Of two nodes the one that has applied more has for every client what the other has, or
\* an assignment that the other has still to apply.
ReplicasAgree ==
    \A m, n \in up : applied[m] <= applied[n] =>
        \A k \in Keys : table[n][k] = table[m][k] \/ table[n][k] > applied[m]

LEMMA AgreeOfInv == RaftTypeOK /\ AssignInv => ReplicasAgree
<1> SUFFICES ASSUME RaftTypeOK, AssignInv, NEW m \in up, NEW n \in up, applied[m] <= applied[n],
                    NEW k \in Keys
             PROVE  table[n][k] = table[m][k] \/ table[n][k] > applied[m]
  BY DEF ReplicasAgree
<1>1. m \in Nodes /\ n \in Nodes
  BY DEF RaftTypeOK
<1>2. /\ applied[m] \in Nat /\ applied[n] \in Nat
      /\ table[m][k] \in Nat /\ table[n][k] \in Nat
  BY <1>1, ClusterAssumption DEF AssignInv, AssignTypeOK, Tables, Places
<1>3. Remembers(table[m], applied[m], k) /\ Remembers(table[n], applied[n], k)
  BY <1>1 DEF AssignInv, TablesInv, Reflects
<1> QED
  BY <1>2, <1>3 DEF Remembers

-----------------------------------------------------------------------------
(* The virtual IP.                                                              *)

\* The loop knows which command runs, if one does, and only on a node that is up.  When
\* none runs and the last one succeeded, it knows where the address is.
LoopInv(n) ==
    /\ hook[n] # "none" => previous[n] = hook[n] /\ n \in up
    /\ hook[n] = "none" /\ n \notin unsure => (n \in vip <=> previous[n] = "leader")

VipInv == VipTypeOK /\ \A n \in Nodes : LoopInv(n)

LEMMA InitVip == VipInit => VipInv
  BY DEF VipInit, VipInv, VipTypeOK, LoopInv, Roles

\* Raft's notifications, and what the loop does without a command, leave the address alone.
LEMMA RaftTells ==
    ASSUME VipInv, NEW n \in Nodes, Elected(n) \/ Deposed(n) \/ SkipNotice(n)
    PROVE  VipInv'
<1>1. UNCHANGED <<up, previous, hook, closed, vip, unsure>>
  BY DEF Elected, Deposed, SkipNotice, BecomeLeader, LoseLeadership, raftVars
<1>2. notice' \in [Nodes -> Roles \cup {"none"}]
  BY DEF Elected, Deposed, SkipNotice, Tell, VipInv, VipTypeOK, Roles
<1> QED
  BY <1>1, <1>2 DEF VipInv, VipTypeOK, LoopInv

\* The end of a command on n, however it comes about: it succeeds, or is remembered as
\* one that did not.
LEMMA CommandOver ==
    ASSUME VipInv, NEW n \in Nodes,
           hook' = [hook EXCEPT ![n] = "none"], UNCHANGED previous,
           \A m \in Nodes \ {n} : (m \in up' <=> m \in up) /\ (m \in vip' <=> m \in vip)
                                  /\ (m \in unsure' <=> m \in unsure),
           \/ n \in unsure'
           \/ hook[n] = "none" /\ (n \in vip' <=> n \in vip) /\ (n \in unsure' <=> n \in unsure)
           \/ hook[n] # "none" /\ (n \in vip' <=> hook[n] = "leader")
    PROVE  \A m \in Nodes : LoopInv(m)'
<1> SUFFICES ASSUME NEW m \in Nodes PROVE LoopInv(m)'
  OBVIOUS
<1>1. hook'[n] = "none" /\ \A k \in Nodes \ {n} : hook'[k] = hook[k]
  BY DEF VipInv, VipTypeOK
<1>2. CASE m = n
  BY <1>1, <1>2 DEF VipInv, LoopInv
<1>3. CASE m # n
  BY <1>1, <1>3 DEF VipInv, LoopInv
<1> QED
  BY <1>2, <1>3

LEMMA VipStep == VipInv /\ (VipNext \/ UNCHANGED <<up, vipVars>>) => VipInv'
<1> SUFFICES ASSUME VipInv, VipNext \/ UNCHANGED <<up, vipVars>> PROVE VipInv'
  OBVIOUS
<1> USE DEF VipInv
<1>0. CASE UNCHANGED <<up, vipVars>>
  BY <1>0 DEF vipVars, VipTypeOK, LoopInv
<1>1. ASSUME NEW n \in Nodes, RunHook(n) PROVE VipInv'
  <2>1. VipTypeOK'
    BY <1>1 DEF VipTypeOK, RunHook, Tell, Listens, Heard, Roles
  <2>2. \A m \in Nodes : LoopInv(m)'
    BY <1>1 DEF VipTypeOK, RunHook, Listens, Heard, LoopInv, raftVars
  <2> QED
    BY <2>1, <2>2
<1>2. ASSUME NEW n \in Nodes, HookEnds(n) PROVE VipInv'
  <2>1. VipTypeOK'
    BY <1>2 DEF VipTypeOK, HookEnds, HookSucceeds, HookFails, CutShort, AfterHook
  <2>2. \A m \in Nodes : LoopInv(m)'
    BY <1>2, CommandOver DEF HookEnds, HookSucceeds, HookFails, CutShort, AfterHook, raftVars
  <2> QED
    BY <2>1, <2>2
<1>3. ASSUME NEW n \in Nodes, Close(n) \/ Dies(n) PROVE VipInv'
  <2>1. VipTypeOK'
    BY <1>3 DEF VipTypeOK, Close, Dies, CutShort, AfterHook, Tell
  <2>2. /\ hook' = [hook EXCEPT ![n] = "none"] /\ UNCHANGED previous
        /\ CutShort(n)
        /\ unsure' = IF hook[n] = "none" THEN unsure ELSE unsure \cup {n}
        /\ up' \in {up, up \ {n}}
    BY <1>3 DEF Close, Dies, GoDown
  <2>3. \A m \in Nodes : LoopInv(m)'
    BY <2>2, CommandOver DEF CutShort, AfterHook
  <2> QED
    BY <2>1, <2>3
<1>4. ASSUME NEW n \in Nodes, Starts(n) PROVE VipInv'
  <2>1. VipTypeOK'
    BY <1>4 DEF VipTypeOK, Starts, Roles
  <2>2. n \notin up /\ up' = up \cup {n}
    BY <1>4 DEF Starts, ComeUp
  <2>3. \A m \in Nodes : LoopInv(m)'
    BY <1>4, <2>2 DEF VipTypeOK, Starts, LoopInv
  <2> QED
    BY <2>1, <2>3
<1> QED
  BY <1>0, <1>1, <1>2, <1>3, <1>4, RaftTells DEF VipNext, LoopStep

\* A command is run for news, and the address is where the old news have left it.
LEMMA HookIsNews ==
    VipInv /\ [VipNext]_vipVars =>
        \A n \in Nodes : hook[n] = "none" /\ hook'[n] # "none" =>
            n \in unsure \/ (hook'[n] = "follower" <=> n \in vip)
<1> SUFFICES ASSUME VipInv, [VipNext]_vipVars, NEW n \in Nodes,
                    hook[n] = "none", hook'[n] # "none", n \notin unsure
             PROVE  hook'[n] = "follower" <=> n \in vip
  OBVIOUS
<1>1. RunHook(n)
  BY DEF VipInv, VipTypeOK, VipNext, vipVars, Elected, Deposed, LoopStep, SkipNotice, RunHook, HookEnds,
         HookSucceeds, HookFails, Close, Dies, Starts
<1>2. hook'[n] = notice[n] /\ notice[n] # previous[n] /\ notice[n] # "none"
  BY <1>1 DEF VipInv, VipTypeOK, RunHook, Listens, HeardBefore
<1> QED
  BY <1>2 DEF VipInv, VipTypeOK, LoopInv, Roles

\* While the part moves, the last thing Raft has told the loop of a node, read or not, is
\* the truth: a notification that replaces another is the newer one, and a loop begins
\* with what holds of a node that has just been started.
Role(n) == IF n \in believes THEN "leader" ELSE "follower"
Told(n) == IF notice[n] = "none" THEN previous[n] ELSE notice[n]

NewsInv ==
    /\ believes \cap closed = {}
    /\ \A n \in Nodes : IF n \in up \ closed THEN Told(n) = Role(n) ELSE notice[n] = "none"

LEMMA InitNews == Init => NewsInv
  BY DEF Init, RaftInit, VipInit, NewsInv, Told, Role

LEMMA NewsStep == RaftTypeOK /\ VipTypeOK /\ NewsInv /\ (VipNext \/ UNCHANGED <<raftVars, vipVars>>) => NewsInv'
<1> SUFFICES ASSUME RaftTypeOK, VipTypeOK, NewsInv, VipNext \/ UNCHANGED <<raftVars, vipVars>>
             PROVE  NewsInv'
  OBVIOUS
<1> USE DEF RaftTypeOK, VipTypeOK, NewsInv, Told, Role
<1>1. ASSUME NEW n \in Nodes, Elected(n) \/ Deposed(n) PROVE NewsInv'
  BY <1>1 DEF Elected, Deposed, BecomeLeader, LoseLeadership, Tell
<1>2. ASSUME NEW n \in Nodes, SkipNotice(n) PROVE NewsInv'
  BY <1>2 DEF SkipNotice, HeardBefore, Tell, raftVars
<1>3. ASSUME NEW n \in Nodes, RunHook(n) PROVE NewsInv'
  BY <1>3 DEF RunHook, Listens, Heard, Tell, raftVars
<1>4. ASSUME NEW n \in Nodes, HookEnds(n) PROVE NewsInv'
  BY <1>4 DEF HookEnds, HookSucceeds, HookFails, raftVars
<1>5. ASSUME NEW n \in Nodes, Close(n) PROVE NewsInv'
  BY <1>5 DEF Close, Tell
<1>6. ASSUME NEW n \in Nodes, Dies(n) PROVE NewsInv'
  BY <1>6 DEF Dies, GoDown, Tell
<1>7. ASSUME NEW n \in Nodes, Starts(n) PROVE NewsInv'
  BY <1>7 DEF Starts, ComeUp
<1>8. CASE UNCHANGED <<raftVars, vipVars>>
  BY <1>8 DEF raftVars, vipVars
<1> QED
  BY <1>1, <1>2, <1>3, <1>4, <1>5, <1>6, <1>7, <1>8 DEF VipNext, LoopStep

\* Where a loop has no news and runs no command, and the last command succeeded, the
\* address is on the node if it takes itself for the leader, and not if it does not.
AddressSettled ==
    moves = "virtual ip" =>
        \A n \in Nodes : notice[n] = "none" /\ hook[n] = "none" /\ n \notin unsure =>
            (Leads(n) => n \in vip) /\ (Follows(n) => n \notin vip)

LEMMA SettledOfInv == VipInv /\ (moves = "virtual ip" => NewsInv) => AddressSettled
  BY DEF VipInv, LoopInv, NewsInv, Told, Role, AddressSettled, Leads, Follows

-----------------------------------------------------------------------------
(* Members.                                                                     *)

\* A request of joinLoop is the one of the contact it has come to, of a process that runs;
\* an answer that accepts comes after the node was added.
PostInv(n) ==
    /\ post[n] # "none" => n \in up /\ contact[n] \in DOMAIN Contacts[n]
    /\ post[n] = "added" => n \in added

JoinInv == JoinTypeOK /\ contact \in [Nodes -> Nat] /\ \A n \in Nodes : PostInv(n)

\* The contacts of a node have a length.
LEMMA ContactsOf ==
    ASSUME NEW n \in Nodes
    PROVE  /\ Len(Contacts[n]) \in Nat /\ DOMAIN Contacts[n] = 1 .. Len(Contacts[n])
           /\ \A i \in DOMAIN Contacts[n] : Contacts[n][i] \in Nodes \cup {NoNode}
  BY MembershipAssumption

LEMMA InitJoin == JoinInit => JoinInv
  BY ContactsOf DEF JoinInit, JoinInv, JoinTypeOK, JoinLoopStart, PostInv

\* What a step of joinLoop on n, or an answer to it, must keep: the rest is as it was.
LEMMA OneMoves ==
    ASSUME JoinInv, NEW n \in Nodes,
           NEW c \in 0 .. Len(Contacts[n]) + 1, NEW a \in {"none", "sent", "added", "refused"},
           contact' = [contact EXCEPT ![n] = c], post' = [post EXCEPT ![n] = a],
           silent' = silent, protected' = protected, late' \subseteq Nodes \X Nodes, added' \subseteq Nodes,
           \A m \in Nodes \ {n} : (m \in up => m \in up') /\ (m \in added => m \in added'),
           a # "none" => n \in up' /\ c \in DOMAIN Contacts[n],
           a = "added" => n \in added'
    PROVE  JoinInv'
<1>1. contact' \in [Nodes -> Nat]
  BY ContactsOf DEF JoinInv
<1>2. JoinTypeOK'
  BY ContactsOf DEF JoinInv, JoinTypeOK
<1>3. \A m \in Nodes : PostInv(m)'
  <2> SUFFICES ASSUME NEW m \in Nodes PROVE PostInv(m)'
    OBVIOUS
  <2>1. CASE m = n
    BY <2>1 DEF JoinInv, JoinTypeOK, PostInv
  <2>2. CASE m # n
    BY <2>2 DEF JoinInv, JoinTypeOK, PostInv
  <2> QED
    BY <2>1, <2>2
<1> QED
  BY <1>1, <1>2, <1>3 DEF JoinInv

\* Other nodes than those of the cluster, and the network, do nothing to joinLoop.
LEMMA OthersMove ==
    ASSUME JoinInv, UNCHANGED <<contact, post>>, up' = up,
           silent' \subseteq Nodes, protected' = protected, late' \subseteq Nodes \X Nodes,
           added' \subseteq Nodes, added \subseteq added'
    PROVE  JoinInv'
  BY DEF JoinInv, JoinTypeOK, PostInv

LEMMA LoopMoves ==
    ASSUME RaftInv, JoinInv, NEW n \in Nodes, JoinLoop(n)
    PROVE  JoinInv'
<1> USE ContactsOf DEF JoinInv
<1>0. contact[n] \in Nat /\ contact = [contact EXCEPT ![n] = contact[n]]
      /\ post \in [Nodes -> {"none", "sent", "added", "refused"}] /\ post = [post EXCEPT ![n] = post[n]]
  BY DEF JoinTypeOK
<1>1. CASE PostJoin(n)
  <2>1. UNCHANGED <<up, contact, silent, protected, late, added>>
    BY <1>1 DEF PostJoin, raftVars
  <2> QED
    BY <1>0, <1>1, <2>1, OneMoves DEF PostJoin, JoinTypeOK
<1>2. CASE ReadAnswer(n)
  <2>1. UNCHANGED <<up, silent, protected, late, added>> /\ post' = [post EXCEPT ![n] = "none"]
    BY <1>2 DEF ReadAnswer, raftVars
  <2>2. PICK c \in 0 .. Len(Contacts[n]) + 1 : contact' = [contact EXCEPT ![n] = c]
    <3>1. contact[n] \in DOMAIN Contacts[n]
      BY <1>2 DEF ReadAnswer, PostInv
    <3>2. 0 \in 0 .. Len(Contacts[n]) + 1 /\ contact[n] + 1 \in 0 .. Len(Contacts[n]) + 1
      BY <3>1
    <3> QED
      BY <1>2, <3>2 DEF ReadAnswer
  <2> QED
    BY <2>1, <2>2, OneMoves DEF JoinTypeOK
<1>3. CASE NoAnswer(n)
  <2>1. UNCHANGED <<up, silent, protected, added>> /\ post' = [post EXCEPT ![n] = "none"]
    BY <1>3 DEF NoAnswer, raftVars
  <2>2. PICK c \in 0 .. Len(Contacts[n]) + 1 : contact' = [contact EXCEPT ![n] = c]
    <3>1. contact[n] \in DOMAIN Contacts[n]
      BY <1>3 DEF NoAnswer, PostInv
    <3>2. 0 \in 0 .. Len(Contacts[n]) + 1 /\ contact[n] + 1 \in 0 .. Len(Contacts[n]) + 1
      BY <3>1
    <3> QED
      BY <1>3, <3>2 DEF NoAnswer
  <2>3. late' \subseteq Nodes \X Nodes
    <3>1. late' = late \/ (Asked(n) \in up /\ late' = late \cup {<<Asked(n), n>>})
      BY <1>3 DEF NoAnswer
    <3> QED
      BY <3>1 DEF JoinTypeOK, RaftInv, RaftTypeOK
  <2> QED
    BY <2>1, <2>2, <2>3, OneMoves DEF JoinTypeOK
<1>4. CASE NextRound(n)
  <2>1. UNCHANGED <<up, post, silent, protected, late, added>>
    BY <1>4 DEF NextRound, raftVars
  <2>2. contact' = [contact EXCEPT ![n] = 1] /\ post[n] = "none"
    <3>1. contact[n] > Len(Contacts[n]) /\ Len(Contacts[n]) \in Nat
      BY <1>4 DEF NextRound
    <3>2. contact[n] \notin DOMAIN Contacts[n]
      BY <1>0, <3>1
    <3> QED
      BY <1>4, <3>2 DEF NextRound, FirstContact, PostInv
  <2>3. 1 \in 0 .. Len(Contacts[n]) + 1
    OBVIOUS
  <2>4. post' = [post EXCEPT ![n] = "none"]
    BY <1>0, <2>1, <2>2
  <2> QED
    BY <2>1, <2>2, <2>3, <2>4, OneMoves DEF JoinTypeOK
<1> QED
  BY <1>1, <1>2, <1>3, <1>4 DEF JoinLoop

\* The answers of the handler of /cluster/join.
LEMMA Answers ==
    ASSUME RaftInv, JoinInv, NEW n \in Nodes, AnswerJoin(n)
    PROVE  JoinInv'
<1> USE DEF JoinInv
<1>1. PICK a \in {"added", "refused"} : /\ post' = [post EXCEPT ![n] = a]
                                        /\ a = "added" => added' = added \cup {n}
                                        /\ a = "refused" => added' \in {added, added \cup {n}}
  BY DEF AnswerJoin, JoinAccepted, JoinRefused, Add
<1>2. UNCHANGED <<up, contact, silent, protected, late>> /\ post[n] = "sent"
  BY DEF AnswerJoin, JoinAccepted, JoinRefused, Add, ChangeMembers, raftVars
<1>3. n \in up /\ contact[n] \in DOMAIN Contacts[n] /\ contact' = [contact EXCEPT ![n] = contact[n]]
  BY <1>2 DEF PostInv
<1>4. contact[n] \in 0 .. Len(Contacts[n]) + 1
  BY DEF JoinTypeOK
<1> QED
  BY <1>1, <1>2, <1>3, <1>4, OneMoves DEF JoinTypeOK

LEMMA JoinStep == RaftInv /\ JoinInv /\ (JoinNext \/ UNCHANGED <<up, joinVars>>) => JoinInv'
<1> SUFFICES ASSUME RaftInv, JoinInv, JoinNext \/ UNCHANGED <<up, joinVars>> PROVE JoinInv'
  OBVIOUS
<1>1. CASE UNCHANGED <<up, joinVars>>
  BY <1>1 DEF joinVars, JoinInv, JoinTypeOK, PostInv
<1>2. ASSUME NEW n \in Nodes, Connectivity(n) \/ MemberElected(n) \/ MemberDeposed(n) PROVE JoinInv'
  <2>1. UNCHANGED <<up, contact, post, protected, late, added>>
    BY <1>2 DEF Connectivity, MemberElected, MemberDeposed, BecomeLeader, LoseLeadership, raftVars, joinVars
  <2>2. silent' \subseteq Nodes
    BY <1>2 DEF Connectivity, MemberElected, MemberDeposed, joinVars, JoinInv, JoinTypeOK
  <2> QED
    BY <2>1, <2>2, OthersMove DEF JoinInv, JoinTypeOK
<1>3. ASSUME NEW n \in Nodes, MemberDies(n) PROVE JoinInv'
  <2>1. up' = up \ {n} /\ late' \subseteq late /\ UNCHANGED <<silent, protected, added>>
    BY <1>3 DEF MemberDies, GoDown
  <2>2. 0 \in 0 .. Len(Contacts[n]) + 1
    BY ContactsOf
  <2> QED
    BY <1>3, <2>1, <2>2, OneMoves DEF MemberDies, JoinInv, JoinTypeOK
<1>4. ASSUME NEW n \in Nodes, MemberStarts(n) PROVE JoinInv'
  <2>1. up' = up \cup {n} /\ added' = added \ {n} /\ UNCHANGED <<post, silent, protected, late>> /\ n \notin up
    BY <1>4 DEF MemberStarts, ComeUp
  <2>2. post' = [post EXCEPT ![n] = "none"]
    BY <2>1 DEF JoinInv, JoinTypeOK, PostInv
  <2>3. JoinLoopStart(n) \in 0 .. Len(Contacts[n]) + 1
    BY ContactsOf DEF JoinLoopStart
  <2> QED
    BY <1>4, <2>1, <2>2, <2>3, OneMoves DEF MemberStarts, JoinInv, JoinTypeOK
<1>5. ASSUME NEW c \in Nodes, NEW n \in Nodes,
             \/ AddedLate(c, n) \/ AddClusterMember(c, n)
             \/ RemoveClusterMember(c, n) \/ TransferLeadership(c, n)
      PROVE  JoinInv'
  <2>1. UNCHANGED <<up, contact, post, silent, protected>>
    BY <1>5 DEF AddedLate, AddClusterMember, RemoveClusterMember, TransferLeadership, Add, ChangeMembers,
                BecomeLeader, joinVars, raftVars
  <2>2. late' \subseteq late /\ added' \in {added, added \cup {n}}
    BY <1>5 DEF AddedLate, AddClusterMember, RemoveClusterMember, TransferLeadership, Add, joinVars
  <2> QED
    BY <2>1, <2>2, OthersMove DEF JoinInv, JoinTypeOK
<1> QED
  BY <1>1, <1>2, <1>3, <1>4, <1>5, LoopMoves, Answers DEF JoinNext

\* joinLoop ends by an answer that accepts.
LEMMA EndsWhenAdded ==
    RaftInv /\ JoinInv /\ [JoinNext]_joinVars =>
        \A n \in up \cap up' : contact[n] # 0 /\ contact'[n] = 0 => n \in added'
<1> SUFFICES ASSUME RaftInv, JoinInv, [JoinNext]_joinVars,
                    NEW n \in up \cap up', contact[n] # 0, contact'[n] = 0
             PROVE  n \in added'
  OBVIOUS
<1>0. n \in Nodes
  BY DEF RaftInv, RaftTypeOK
<1>1. PICK m \in Nodes : ReadAnswer(m) \/ NoAnswer(m) \/ NextRound(m) \/ MemberDies(m) \/ MemberStarts(m)
  BY DEF JoinNext, joinVars, JoinLoop, AnswerJoin, PostJoin, JoinAccepted, JoinRefused, Connectivity,
         MemberElected, MemberDeposed, AddedLate, AddClusterMember, RemoveClusterMember, TransferLeadership
<1>2. m = n /\ contact[n] \in Nat
  BY <1>0, <1>1 DEF ReadAnswer, NoAnswer, NextRound, MemberDies, MemberStarts, JoinInv
<1>3. ReadAnswer(n)
  BY <1>1, <1>2 DEF NoAnswer, NextRound, FirstContact, MemberDies, GoDown, MemberStarts, ComeUp, JoinInv
<1>4. Accepted(n)
  BY <1>2, <1>3 DEF ReadAnswer, JoinInv
<1> QED
  BY <1>2, <1>3, <1>4 DEF ReadAnswer, Accepted, JoinInv, PostInv

-----------------------------------------------------------------------------
(* The cluster.  The nodes of a part that does not move run no command and have  *)
(* no request under way, so that Raft can stop and start them.                  *)

IInv ==
    /\ moves \in Parts
    /\ RaftInv /\ AssignInv /\ VipInv /\ JoinInv
    /\ moves = "assignment" => SnapshotsInv
    /\ IF moves = "virtual ip" THEN NewsInv ELSE \A n \in Nodes : hook[n] = "none"
    /\ moves # "membership" => \A n \in Nodes : post[n] = "none"

LEMMA InitIInv == Init => IInv
<1> SUFFICES ASSUME Init PROVE IInv
  OBVIOUS
<1>1. (\A n \in Nodes : hook[n] = "none") /\ (\A n \in Nodes : post[n] = "none")
  BY DEF Init, VipInit, JoinInit
<1> QED
  BY <1>1, InitRaft, InitAssign, InitSnapshots, InitVip, InitNews, InitJoin DEF Init, IInv

LEMMA RaftStep == IInv /\ [Next]_vars => RaftInv'
<1> SUFFICES ASSUME IInv, [Next]_vars PROVE RaftInv'
  OBVIOUS
<1> USE DEF IInv
<1>1. ASSUME AssignNext PROVE RaftInv'
  <2>1. UNCHANGED raftVars \/ \E n \in Nodes : BecomeLeader(n) \/ LoseLeadership(n) \/ GoDown(n) \/ ComeUp(n)
    BY <1>1 DEF AssignNext, Arrive, Handle, Gate, Find, MakeAssignment, Commit, Committed, AssignFails,
                ServeHere, Forward, ApplyNext, TakeSnapshot, Persist, Crash, Restart, Elect, StepDown,
                Install, Expire
  <2> QED
    BY <2>1, RaftSteps DEF RaftInv, RaftTypeOK, LeaderIsMember, raftVars
<1>2. ASSUME VipNext PROVE RaftInv'
  <2>1. ASSUME NEW n \in Nodes, Close(n) PROVE RaftInv'
    BY <2>1 DEF Close, RaftInv, RaftTypeOK, LeaderIsMember
  <2>2. ASSUME NEW n \in Nodes, LoopStep(n) \/ HookEnds(n) PROVE RaftInv'
    BY <2>2, RaftSteps DEF LoopStep, SkipNotice, RunHook, HookEnds, HookSucceeds, HookFails
  <2>3. ASSUME NEW n \in Nodes, Elected(n) \/ Deposed(n) \/ Dies(n) \/ Starts(n) PROVE RaftInv'
    BY <2>3, RaftSteps DEF Elected, Deposed, Dies, Starts
  <2> QED
    BY <1>2, <2>1, <2>2, <2>3 DEF VipNext
<1>3. ASSUME JoinNext PROVE RaftInv'
  <2>1. ASSUME NEW c \in Nodes \cup {NoNode}, NEW n \in Nodes, Add(c, n) PROVE RaftInv'
    <3>1. members \cup {n} \in SUBSET Nodes
      BY DEF RaftInv, RaftTypeOK
    <3> QED
      BY <2>1, <3>1, ChangedMembers DEF Add
  <2>2. ASSUME NEW n \in Nodes, JoinLoop(n) \/ AnswerJoin(n) PROVE RaftInv'
    <3>1. UNCHANGED raftVars \/ (post[n] = "sent" /\ Add(Asked(n), n))
      BY <2>2 DEF JoinLoop, PostJoin, ReadAnswer, NoAnswer, NextRound, AnswerJoin, JoinAccepted, JoinRefused
    <3>2. post[n] = "sent" => Asked(n) \in Nodes \cup {NoNode}
      BY ContactsOf DEF Asked, JoinInv, PostInv
    <3> QED
      BY <3>1, <3>2, <2>1, RaftSteps
  <2>3. ASSUME NEW n \in Nodes,
               Connectivity(n) \/ MemberElected(n) \/ MemberDeposed(n) \/ MemberDies(n) \/ MemberStarts(n)
        PROVE  RaftInv'
    BY <2>3, RaftSteps DEF Connectivity, MemberElected, MemberDeposed, MemberDies, MemberStarts
  <2>4. ASSUME NEW c \in Nodes, NEW n \in Nodes, AddedLate(c, n) \/ AddClusterMember(c, n)
        PROVE  RaftInv'
    BY <2>1, <2>4, RaftSteps DEF AddedLate, AddClusterMember
  <2>5. ASSUME NEW c \in Nodes, NEW n \in Nodes, RemoveClusterMember(c, n) PROVE RaftInv'
    <3>1. members \ {n} \in SUBSET Nodes /\ n # c
      BY <2>5 DEF RaftInv, RaftTypeOK, RemoveClusterMember, Removable
    <3> QED
      BY <2>5, <3>1, ChangedMembers DEF RemoveClusterMember
  <2>6. ASSUME NEW c \in Nodes, NEW n \in Nodes, TransferLeadership(c, n) PROVE RaftInv'
    BY <2>6, RaftSteps DEF TransferLeadership
  <2> QED
    BY <1>3, <2>2, <2>3, <2>4, <2>5, <2>6 DEF JoinNext
<1>4. CASE UNCHANGED vars
  BY <1>4 DEF vars, raftVars, RaftInv, RaftTypeOK, LeaderIsMember
<1> QED
  BY <1>1, <1>2, <1>3, <1>4 DEF Next, Assignment, Leadership, Joining

\* Without a command, and without a request, the loops of a part depend on nothing that
\* another part changes.
LEMMA IdleLoops ==
    /\ VipInv /\ UNCHANGED vipVars /\ (\A n \in Nodes : hook[n] = "none") => VipInv'
    /\ JoinInv /\ UNCHANGED joinVars /\ (\A n \in Nodes : post[n] = "none") => JoinInv'
  BY DEF VipInv, VipTypeOK, LoopInv, vipVars, JoinInv, JoinTypeOK, PostInv, joinVars

LEMMA StepIInv == IInv /\ [Next]_vars => IInv'
<1> SUFFICES ASSUME IInv, [Next]_vars PROVE IInv'
  OBVIOUS
<1>1. RaftInv'
  BY RaftStep
<1>2. CASE Assignment
  <2>1. AssignInv'
    BY <1>2, AssignStep DEF IInv, Assignment
  <2>2. VipInv' /\ JoinInv'
    BY <1>2, IdleLoops DEF IInv, Assignment
  <2>3. SnapshotsInv'
    BY <1>2, SnapshotsStep DEF IInv, Assignment
  <2> QED
    BY <1>1, <1>2, <2>1, <2>2, <2>3 DEF IInv, Assignment, vipVars, joinVars
<1>3. CASE Leadership
  <2>1. AssignInv'
    BY <1>3, AssignStep DEF IInv, Leadership
  <2>2. VipInv' /\ JoinInv'
    BY <1>3, VipStep, IdleLoops DEF IInv, Leadership
  <2>3. NewsInv'
    BY <1>3, NewsStep DEF IInv, RaftInv, VipInv, Leadership
  <2> QED
    BY <1>1, <1>3, <2>1, <2>2, <2>3 DEF IInv, Leadership, joinVars
<1>4. CASE Joining
  <2>1. AssignInv'
    BY <1>4, AssignStep DEF IInv, Joining
  <2>2. VipInv' /\ JoinInv'
    BY <1>4, JoinStep, IdleLoops DEF IInv, Joining
  <2> QED
    BY <1>1, <1>4, <2>1, <2>2 DEF IInv, Joining, vipVars
<1>5. CASE UNCHANGED vars
  <2>1. AssignInv' /\ UNCHANGED <<moves, up, vipVars, joinVars>>
    BY <1>5, AssignStep DEF IInv, vars, raftVars
  <2>2. VipInv' /\ JoinInv'
    BY <2>1, VipStep, JoinStep DEF IInv
  <2>3. moves = "virtual ip" => NewsInv'
    BY <1>5, NewsStep DEF IInv, RaftInv, VipInv, vars
  <2>4. moves = "assignment" => SnapshotsInv'
    BY <1>5, SnapshotsStep DEF IInv, vars, raftVars
  <2> QED
    BY <1>1, <2>1, <2>2, <2>3, <2>4 DEF IInv, vipVars, joinVars
<1> QED
  BY <1>2, <1>3, <1>4, <1>5 DEF Next

\* Whichever part of the node moves, its invariant holds on, with Raft's.
THEOREM Invariance == Spec => []IInv
  BY InitIInv, StepIInv, PTL DEF Spec

-----------------------------------------------------------------------------
(* The properties the runs check.                                               *)

\* Raft's state, the tables and handlers, the leadership loops and joinLoops are typed.
THEOREM TypeCorrect == Spec => []TypeOK
<1>1. IInv => TypeOK
  BY AssignProperties DEF IInv, RaftInv, VipInv, JoinInv, TypeOK
<1> QED
  BY <1>1, Invariance, PTL

\* stateMachine: what a node has for a client is the newest assignment among those it has
\* applied, also after a crash, a snapshot that was written while entries were applied, or
\* the snapshot of another node.
THEOREM TablesAreOfTheLog == Spec => []TablesMatchLog
<1>1. IInv => TablesMatchLog
  BY AssignProperties DEF IInv
<1> QED
  BY <1>1, Invariance, PTL

\* stateMachine is deterministic: nodes that have applied as much have the same table, and
\* one that lags behind lacks only what it has still to apply.
THEOREM ReplicasConsistent == Spec => []ReplicasAgree
<1>1. IInv => ReplicasAgree
  BY AgreeOfInv DEF IInv, RaftInv
<1> QED
  BY <1>1, Invariance, PTL

\* No committed assignment is lost or changed, and Restore never takes a node further back
\* than the last snapshot it has.
THEOREM NothingForgotten == Spec => [][Remembering]_vars
<1>1. IInv /\ [Next]_vars => [Remembering]_vars
  <2>1. ASSUME IInv, Next PROVE Remembering
    <3>1. CASE Assignment
      BY <2>1, <3>1, AssignRemembers DEF IInv, Assignment
    <3>2. CASE Leadership \/ Joining
      <4>1. /\ UNCHANGED <<log, applied, saved>> /\ Len(log) \in Nat
            /\ \A n \in Nodes : saved[n].index \in Nat /\ applied[n] \in Nat
        <5>1. UNCHANGED assignVars
          BY <3>2 DEF Leadership, Joining
        <5>2. UNCHANGED <<log, applied, saved>>
          BY <5>1 DEF assignVars, logVars, fsmVars
        <5>3. AssignTypeOK
          BY <2>1 DEF IInv, AssignInv
        <5> QED
          BY <5>2, <5>3, ClusterAssumption DEF AssignTypeOK, Snapshots, Places
      <4> QED
        BY <4>1 DEF Remembering
    <3> QED
      BY <2>1, <3>1, <3>2 DEF Next
  <2> QED
    BY <2>1
<1> QED
  BY <1>1, Invariance, PTL DEF Spec

\* Proxy forwards only along an assignment of its client that Raft has committed.
THEOREM ForwardsCommitted == Spec => []ForwardsAlongCommitted
<1>1. IInv => ForwardsAlongCommitted
  BY AssignProperties DEF IInv
<1> QED
  BY <1>1, Invariance, PTL

\* Whoever is added, removed or made the leader: the leader is a voter.
THEOREM LeadersAreMembers == Spec => []LeaderIsMember
<1>1. IInv => LeaderIsMember
  BY DEF IInv, RaftInv
<1> QED
  BY <1>1, Invariance, PTL

\* leadershipLoop brings the address up only when it is down and takes it down only when
\* it is up, as far as its commands succeed.
THEOREM HooksAlternate == Spec => HooksNotRepeated
<1>1. IInv /\ [Next]_vars =>
        [\A n \in Nodes : hook[n] = "none" /\ hook'[n] # "none" =>
            n \in unsure \/ (hook'[n] = "follower" <=> n \in vip)]_vipVars
  BY HookIsNews DEF IInv, Next, Assignment, Leadership, Joining, vars
<1> QED
  BY <1>1, Invariance, PTL DEF Spec, HooksNotRepeated

\* The safety half of AddressFollowsLeadership: however elections and losses replace each
\* other in LeaderCh while a command runs, a loop that has nothing left to do has done what
\* the last of them asks for.
THEOREM AddressFollowsNews == Spec => []AddressSettled
<1>1. IInv => AddressSettled
  BY SettledOfInv DEF IInv
<1> QED
  BY <1>1, Invariance, PTL

\* joinLoop of a node that runs ends only when a leader has made the node a voter.
THEOREM LoopsEndWhenAdded == Spec => LoopEndsWhenAdded
<1>1. IInv /\ [Next]_vars =>
        [\A n \in up \cap up' : contact[n] # 0 /\ contact'[n] = 0 => n \in added']_joinVars
  BY EndsWhenAdded DEF IInv, Next, Assignment, Leadership, Joining, vars
<1> QED
  BY <1>1, Invariance, PTL DEF Spec, LoopEndsWhenAdded
=============================================================================
