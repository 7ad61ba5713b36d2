------------------------------- MODULE Process -------------------------------
(***************************************************************************)
(* The process of cmd/server/main.go: the public server (ConnectionLimit)  *)
(* in front of the data plane (DataPlane), the control server, of which    *)
(* only the activations matter here, and the graceful shutdown that main   *)
(* and its goroutines run.  A connection and the handler of its requests   *)
(* are one goroutine, so Requests is Connections.                          *)
(***************************************************************************)
EXTENDS DataPlane, ConnectionLimit, Sequences

ASSUME ProcessAssumption == Connections = Requests

VARIABLES
    signalled,  \* SIGINT or SIGTERM has arrived
    drain,      \* where the goroutine that waits for the signal is
    control,    \* the control server: "serving", "closed" (listener closed) or "returned"
    public,     \* the call of publicServer.Serve: "serving" or "returned"
    admin,      \* a request is on its way in the control server
    deadline,   \* shutdown_timeout has passed since the drain began
    errors,     \* the channel serverErrors
    exit        \* how the process has ended: "none" while it runs

mainVars == <<signalled, drain, control, public, admin, deadline, errors, exit>>
vars == <<planeVars, connVars, mainVars>>

Stages == {"wait", "pause", "control", "public", "close", "over"}

Init ==
    /\ PlaneInit /\ ConnInit
    /\ signalled = FALSE
    /\ drain = "wait"
    /\ control = "serving"
    /\ public = "serving"
    /\ admin = FALSE
    /\ deadline = FALSE
    /\ errors = <<>>
    /\ exit = "none"

Running == exit = "none"

-----------------------------------------------------------------------------
(* The public server.                                                       *)

\* The connection of c is open: requests come in over it, one after the other.
Request(c) ==
    /\ Running /\ server[c] = "open" /\ c \notin swept
    /\ Arrive(c)
    /\ UNCHANGED <<connVars, mainVars>>

Serve(c) ==
    /\ Running
    /\ Handle(c)
    /\ UNCHANGED <<connVars, mainVars>>

\* The goroutine closes its connection when no handler runs on it.
CloseConnection(c) ==
    /\ Running /\ pc[c] = "idle"
    /\ CloseOwn(c) \/ ReleaseOwn(c)
    /\ UNCHANGED <<planeVars, mainVars>>

Accept ==
    /\ Running
    /\ \/ TakeSlot
       \/ \E c \in Connections : AcceptConnection(c)
       \/ \E next \in {"take", "failed", "closed"} : AcceptFails(next)
    /\ UNCHANGED <<planeVars, mainVars>>

\* Serve returns and its goroutine sends the error.
PublicReturns ==
    /\ Running /\ public = "serving"
    /\ acceptor \in {"closed", "failed"}
    /\ public' = "returned"
    /\ errors' = Append(errors, acceptor)
    /\ UNCHANGED <<planeVars, connVars, signalled, drain, control, admin, deadline, exit>>

-----------------------------------------------------------------------------
(* The control server and the data plane's own goroutines.                  *)

AdminRequest ==
    /\ Running /\ control = "serving" /\ ~admin
    /\ admin' = TRUE
    /\ UNCHANGED <<planeVars, connVars, signalled, drain, control, public, deadline, errors, exit>>

\* It activates a configuration.
Activate ==
    /\ Running /\ admin
    /\ Reconfigure
    /\ UNCHANGED <<connVars, mainVars>>

\* It is answered, whatever it did.
AdminAnswer ==
    /\ Running /\ admin /\ manager = "free"
    /\ admin' = FALSE
    /\ UNCHANGED <<planeVars, connVars, signalled, drain, control, public, deadline, errors, exit>>

HealthLoop ==
    /\ Running
    /\ \E g \in Generations : LoopEnds(g)
    /\ UNCHANGED <<connVars, mainVars>>

\* Serve of the control server returns: its listener was closed, or failed.
ControlReturns(error) ==
    /\ Running /\ control # "returned"
    /\ control = "closed" <=> error = "closed"
    /\ control' = "returned"
    /\ errors' = Append(errors, error)
    /\ UNCHANGED <<planeVars, connVars, signalled, drain, public, admin, deadline, exit>>

-----------------------------------------------------------------------------
(* Shutdown.                                                                *)

Signal ==
    /\ Running /\ ~signalled
    /\ signalled' = TRUE
    /\ UNCHANGED <<planeVars, connVars, drain, control, public, admin, deadline, errors, exit>>

\* The goroutine wakes up, marks the control plane as draining (readyState and state are
\* variables of ConfigLifecycle), and pauses.
BeginDrain ==
    /\ Running /\ signalled /\ drain = "wait"
    /\ drain' = "pause"
    /\ UNCHANGED <<planeVars, connVars, signalled, control, public, admin, deadline, errors, exit>>

\* The pause is over: the control server closes its listener and waits.
CloseControl ==
    /\ Running /\ drain = "pause"
    /\ control' = IF control = "serving" THEN "closed" ELSE control
    /\ drain' = "control"
    /\ UNCHANGED <<planeVars, connVars, signalled, public, admin, deadline, errors, exit>>

\* shutdown_timeout passes, counted from the end of the pause, for both servers.
DeadlinePasses ==
    /\ Running /\ drain \in {"control", "public"} /\ ~deadline
    /\ deadline' = TRUE
    /\ UNCHANGED <<planeVars, connVars, signalled, drain, control, public, admin, errors, exit>>

\* No request is left in the control server, or the deadline has passed: the public
\* server closes its listener.
ClosePublic ==
    /\ Running /\ drain = "control"
    /\ ~admin \/ deadline
    /\ CloseListener
    /\ drain' = "public"
    /\ UNCHANGED <<planeVars, signalled, control, public, admin, deadline, errors, exit>>

\* It closes the connections that are idle ...
Sweep ==
    /\ Running /\ drain = "public"
    /\ (\E c \in Connections : pc[c] = "idle" /\ SweepIdle(c)) \/ ReleaseSwept
    /\ UNCHANGED <<planeVars, mainVars>>

\* ... until none is left or the deadline has passed.
Drained == \A c \in Connections : server[c] = "none" \/ c \in swept

PublicDrained ==
    /\ Running /\ drain = "public" /\ sweeping = Nobody
    /\ Drained \/ deadline
    /\ drain' = "close"
    /\ UNCHANGED <<planeVars, connVars, signalled, control, public, admin, deadline, errors, exit>>

\* runtimeManager.Close.
CloseRuntime ==
    /\ Running /\ drain = "close"
    /\ Close
    /\ drain' = "over"
    /\ UNCHANGED <<connVars, signalled, control, public, admin, deadline, errors, exit>>

\* Mutant: ErrServerClosed does not end main.
WaitsOn(error) == IF error = "closed" THEN "none" ELSE "error"

\* How main ends on what it receives first.
ExitWith(error) == IF error = "closed" THEN "clean" ELSE "error"

MainEnds ==
    /\ Running /\ errors # <<>>
    /\ exit' = ExitWith(Head(errors))
    /\ errors' = Tail(errors)
    /\ UNCHANGED <<planeVars, connVars, signalled, drain, control, public, admin, deadline>>

-----------------------------------------------------------------------------
DrainStep ==
    \/ BeginDrain \/ CloseControl \/ ClosePublic \/ Sweep \/ PublicDrained \/ CloseRuntime

Next ==
    \/ \E c \in Connections : Request(c) \/ Serve(c) \/ CloseConnection(c)
    \/ Accept \/ PublicReturns
    \/ AdminRequest \/ Activate \/ AdminAnswer \/ HealthLoop
    \/ \E error \in {"closed", "failed"} : ControlReturns(error)
    \/ Signal \/ DrainStep \/ DeadlinePasses \/ MainEnds

Spec == Init /\ [][Next]_vars

\* Goroutines that can run do, and the clock reaches the deadline.  Nothing is
\* assumed of clients, of how long requests and connections last, of failing
\* listeners or of the signal.
Fairness ==
    /\ WF_vars(Activate) /\ WF_vars(HealthLoop) /\ WF_vars(DrainStep)
    /\ WF_vars(ControlReturns("closed")) /\ WF_vars(PublicReturns)
    /\ WF_vars(DeadlinePasses) /\ WF_vars(MainEnds)

FairSpec == Spec /\ Fairness

-----------------------------------------------------------------------------
(* Properties.                                                              *)

TypeOK ==
    /\ PlaneTypeOK /\ ConnTypeOK
    /\ signalled \in BOOLEAN /\ admin \in BOOLEAN /\ deadline \in BOOLEAN
    /\ drain \in Stages
    /\ control \in {"serving", "closed", "returned"}
    /\ public \in {"serving", "returned"}
    /\ errors \in Seq({"closed", "failed"})
    /\ exit \in {"none", "clean", "error"}

\* A process that was told to stop ends: whatever requests, activations and health
\* loops are on their way, and wherever limiter and drain wait.
ProcessExits == signalled ~> exit # "none"

\* The health loops of a configuration that is no longer served end, as long as the
\* process lives.
RetiredLoopsEnd ==
    \A g \in Generations :
        loop[g] = "running" /\ g < current ~> loop[g] # "running" \/ exit # "none"

-----------------------------------------------------------------------------
(* What the documents say and the code does not do; see the README.         *)

InFlight == {r \in Requests : pc[r] # "idle"}

\* "drains for up to server.shutdown_timeout": a process that was told to stop ends
\* with public requests on their way only when that time has passed.
DrainsBeforeExit ==
    [][exit = "none" /\ exit' = "clean" => InFlight = {} \/ deadline]_vars
=============================================================================
