------------------------------ MODULE DataPlane ------------------------------
(***************************************************************************)
(* dataplane.Server in internal/dataplane/server.go: the runtime pointer,  *)
(* the generations of runtime state it has pointed to, the semaphore and   *)
(* the health loops each of them owns, and the handler that runs on the    *)
(* generation it loaded.  Reconfigurations come through runtime.Manager,   *)
(* whose mutex makes them one at a time and keeps Close apart from them.   *)
(*                                                                         *)
(* What a handler does between getting its slot and giving it back is not  *)
(* looked into here; UpstreamPool has it for a proxied request.  This      *)
(* module gives initial states and steps; Process composes them.           *)
(***************************************************************************)
EXTENDS Naturals, FiniteSets

CONSTANTS
    Requests,       \* the handler goroutines: one per connection
    Limits,         \* values of limits.max_in_flight
    MaxGenerations  \* bound on the runtime states one run of the process builds

ASSUME DataPlaneAssumption ==
    /\ IsFiniteSet(Requests)
    /\ Limits \subseteq Nat \ {0}
    /\ MaxGenerations \in Nat \ {0}

VARIABLES
    current,    \* Server.runtime: the generation it points to
    built,      \* generations 1 .. built exist
    limit,      \* cap(maxInFlight) of each generation
    slots,      \* len(maxInFlight) of each generation
    loop,       \* the health loops of each generation
    cancelled,  \* the generations whose context is cancelled
    manager,    \* what the holder of the manager's mutex does next
    retiring,   \* the generation that Swap returned; the current one when none is
    pc,         \* where each handler is
    gen         \* the generation the handler loaded; 1 when it has none

runtimeVars == <<current, built, limit, cancelled, manager, retiring>>
handlerVars == <<pc, gen>>
planeVars == <<runtimeVars, slots, loop, handlerVars>>

Generations == 1 .. MaxGenerations

-----------------------------------------------------------------------------
\* NewServer: the first generation is built and swapped in before anything runs.
PlaneInit ==
    /\ current = 1 /\ built = 1 /\ retiring = 1
    /\ \E n \in Limits : limit = [g \in Generations |-> n]
    /\ slots = [g \in Generations |-> 0]
    /\ \E l \in {"none", "running"} : loop = [g \in Generations |-> IF g = 1 THEN l ELSE "none"]
    /\ cancelled = {}
    /\ manager = "free"
    /\ pc = [r \in Requests |-> "idle"]
    /\ gen = [r \in Requests |-> 1]

\* A request arrives.
Arrive(r) ==
    /\ pc[r] = "idle"
    /\ pc' = [pc EXCEPT ![r] = "load"]
    /\ UNCHANGED <<runtimeVars, slots, loop, gen>>

\* Its handler loads the runtime pointer, once.
Load(r) ==
    /\ pc[r] = "load"
    /\ gen' = [gen EXCEPT ![r] = current]
    /\ pc' = [pc EXCEPT ![r] = "acquire"]
    /\ UNCHANGED <<runtimeVars, slots, loop>>

\* The select takes a slot of that generation, whatever is current by now.
Acquire(r) ==
    /\ pc[r] = "acquire"
    /\ slots[gen[r]] < limit[gen[r]]
    /\ slots' = [slots EXCEPT ![gen[r]] = @ + 1]
    /\ pc' = [pc EXCEPT ![r] = "serving"]
    /\ UNCHANGED <<runtimeVars, loop, gen>>

\* Or finds the semaphore full and answers at once.
Busy(r) ==
    /\ pc[r] = "acquire"
    /\ slots[gen[r]] = limit[gen[r]]
    /\ pc' = [pc EXCEPT ![r] = "idle"]
    /\ gen' = [gen EXCEPT ![r] = 1]
    /\ UNCHANGED <<runtimeVars, slots, loop>>

\* Mutant: the slot goes back to the runtime that is current at the end.
SlotOfCurrent(r) == current

\* The semaphore a handler gives its slot back to.
SlotOf(r) == gen[r]

\* The request was not routed, not authorized or not served for want of a healthy
\* endpoint, or it was proxied, or the proxy panicked, which net/http recovers:
\* every way out runs the deferred release.
Finish(r) ==
    /\ pc[r] = "serving"
    /\ slots[SlotOf(r)] > 0
    /\ slots' = [slots EXCEPT ![SlotOf(r)] = @ - 1]
    /\ pc' = [pc EXCEPT ![r] = "idle"]
    /\ gen' = [gen EXCEPT ![r] = 1]
    /\ UNCHANGED <<runtimeVars, loop>>

Handle(r) == Load(r) \/ Acquire(r) \/ Busy(r) \/ Finish(r)

-----------------------------------------------------------------------------
\* ReconfigureWithAuthorizer with a configuration that compiles: pools, routes
\* and semaphore are made and the health loops started.  One that does not
\* compile returns before it touches the server, and is no step.
Build(n, loops) ==
    /\ manager = "free" /\ built < MaxGenerations
    /\ built' = built + 1
    /\ limit' = [limit EXCEPT ![built + 1] = n]
    /\ loop' = [loop EXCEPT ![built + 1] = loops]
    /\ manager' = "swap"
    /\ UNCHANGED <<current, cancelled, retiring, slots, handlerVars>>

\* The new generation is swapped in.
Swap ==
    /\ manager = "swap"
    /\ retiring' = current
    /\ current' = built
    /\ manager' = "stop"
    /\ UNCHANGED <<built, limit, cancelled, slots, loop, handlerVars>>

\* Mutant: the new generation's context is cancelled, not the old one's.
StopsCurrent == current

\* Whose context is cancelled after the swap.
Stopped == retiring

\* The previous generation is stopped and Activate returns.
StopPrevious ==
    /\ manager = "stop"
    /\ cancelled' = cancelled \cup {Stopped}
    /\ retiring' = current
    /\ manager' = "free"
    /\ UNCHANGED <<current, built, limit, slots, loop, handlerVars>>

\* A health loop notices that its context is cancelled.
LoopEnds(g) ==
    /\ loop[g] = "running" /\ g \in cancelled
    /\ loop' = [loop EXCEPT ![g] = "ended"]
    /\ UNCHANGED <<runtimeVars, slots, handlerVars>>

Reconfigure ==
    \/ \E n \in Limits, loops \in {"none", "running"} : Build(n, loops)
    \/ Swap \/ StopPrevious

\* Close, when nobody activates: what is current is stopped.
Close ==
    /\ manager = "free"
    /\ cancelled' = cancelled \cup {current}
    /\ UNCHANGED <<current, built, limit, manager, retiring, slots, loop, handlerVars>>

-----------------------------------------------------------------------------
(* Properties.                                                              *)

PlaneTypeOK ==
    /\ current \in 1 .. built /\ retiring \in 1 .. built
    /\ built \in Generations
    /\ limit \in [Generations -> Limits]
    /\ slots \in [Generations -> Nat]
    /\ loop \in [Generations -> {"none", "running", "ended"}]
    /\ cancelled \subseteq 1 .. built
    /\ manager \in {"free", "swap", "stop"}
    /\ pc \in [Requests -> {"idle", "load", "acquire", "serving"}]
    /\ gen \in [Requests -> 1 .. built]

Holders(g) == {r \in Requests : pc[r] = "serving" /\ gen[r] = g}

\* Reconfigurations swap semaphores while requests hold slots of the old one.  In
\* every generation the slots that are taken are those of the requests it serves,
\* never more than its max_in_flight: none is lost, none given back elsewhere.
SlotsMatchRequests ==
    \A g \in Generations : slots[g] = Cardinality(Holders(g)) /\ slots[g] <= limit[g]

\* Outside a reconfiguration a health loop nobody has told to end belongs to the
\* generation being served, whatever configurations came before.
NoOrphanLoop ==
    manager = "free" =>
        \A g \in Generations : loop[g] = "running" /\ g \notin cancelled => g = current
=============================================================================
