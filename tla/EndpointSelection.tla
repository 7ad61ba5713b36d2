-------------------------- MODULE EndpointSelection --------------------------
(***************************************************************************)
(* One undisturbed call of upstreamPool.pick in                            *)
(* internal/dataplane/server.go: the endpoints it looks at, in the order   *)
(* it looks at them.  UpstreamPool has the same loop interleaved with      *)
(* other handlers; here nobody else advances the shared counter and no     *)
(* flag changes, so that what the loop itself covers can be told.          *)
(***************************************************************************)
EXTENDS Integers

CONSTANT MaxEndpoints   \* bound on how many URLs an upstream has

ASSUME SelectionAssumption == MaxEndpoints \in Nat

VARIABLES
    count,      \* len(u.endpoints)
    servable,   \* the endpoints that are healthy and whose breaker allows
    start,      \* history: u.next when pick was called
    next,       \* u.next
    index,      \* the loop variable
    pick        \* what pick returned: [endpoint, permitted], or Pending

vars == <<count, servable, start, next, index, pick>>

Endpoints == 0 .. count - 1
Pending == [endpoint |-> 0, permitted |-> FALSE, done |-> FALSE]

\* (u.next.Add(1) + index) % len(u.endpoints), n being the counter after Add.
Candidate(n, i) == (n + i) % count

\* Mutant: the loop ends one iteration early.
MoreToTryButOne(i) == i + 1 < count

MoreToTry(i) == i < count

Init ==
    /\ count \in 1 .. MaxEndpoints
    /\ servable \in SUBSET Endpoints
    /\ start \in Endpoints
    /\ next = start
    /\ index = 0
    /\ pick = Pending

\* One iteration that finds its candidate servable, and returns it.
Choose ==
    /\ ~pick.done /\ MoreToTry(index)
    /\ next' = next + 1
    /\ Candidate(next', index) \in servable
    /\ pick' = [endpoint |-> Candidate(next', index), permitted |-> TRUE, done |-> TRUE]
    /\ UNCHANGED <<count, servable, start, index>>

\* One iteration that does not.
PassOver ==
    /\ ~pick.done /\ MoreToTry(index)
    /\ next' = next + 1
    /\ Candidate(next', index) \notin servable
    /\ index' = index + 1
    /\ UNCHANGED <<count, servable, start, pick>>

\* The loop is over: endpoint 0, without a permit.
FallBack ==
    /\ ~pick.done /\ ~MoreToTry(index)
    /\ pick' = [endpoint |-> 0, permitted |-> FALSE, done |-> TRUE]
    /\ UNCHANGED <<count, servable, start, next, index>>

Next == Choose \/ PassOver \/ FallBack

Spec == Init /\ [][Next]_vars

-----------------------------------------------------------------------------
\* The counter is advanced in every iteration and the loop variable is added to it, so
\* candidates are two apart: of a pool with an even number of endpoints only those an odd
\* number of places after the counter.
WithinReach == {e \in servable : count % 2 = 1 \/ (e - start) % 2 = 1}

\* The loop comes by every servable endpoint within its reach, and by no other: pick
\* falls back exactly when there is none, and otherwise returns one with a permit.
SelectsWithinReach ==
    pick.done => IF WithinReach = {} THEN ~pick.permitted
                 ELSE pick.permitted /\ pick.endpoint \in WithinReach

\* "unhealthy endpoints are removed from selection until a later check succeeds",
\* and "the upstream pool selects a healthy endpoint": whatever the size of the
\* pool, pick returns a servable endpoint as long as there is one.
SelectsServable == pick.done /\ servable # {} => pick.endpoint \in servable
=============================================================================
