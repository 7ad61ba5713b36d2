--------------------------- MODULE VersionedConfig ---------------------------
(***************************************************************************)
(* What the configuration API of go-serve promises, without its locks and  *)
(* without its three copies of the configuration: a sequence of versions,  *)
(* the last of which is being served.  A write names the version it builds *)
(* on and takes effect in one step, between its submission and its answer, *)
(* if that version is still the last one; or it is refused and changes     *)
(* nothing.  A rollback brings back what was served one version ago.       *)
(***************************************************************************)
EXTENDS Naturals, Sequences

CONSTANTS
    Clients,    \* who writes
    Configs,    \* the configurations that can be served
    NoVersion,  \* what a write names that names no version
    Idle        \* no write of a client is on its way

VARIABLES
    log,        \* version v of the configuration is log[v + 1]
    serving,    \* the configuration the data plane serves
    request     \* what each client has submitted

vars == <<log, serving, request>>

Writes == [op: {"put"}, config: Configs, base: Nat \cup {NoVersion}]
Undos  == [op: {"rollback"}, base: Nat \cup {NoVersion}]

Init ==
    /\ serving \in Configs
    /\ log = <<serving>>
    /\ request = [c \in Clients |-> Idle]

Submit(c) ==
    /\ request[c] = Idle
    /\ request'[c] \in Writes \cup Undos
    /\ request' = [request EXCEPT ![c] = request'[c]]
    /\ UNCHANGED <<log, serving>>

Serve(config) ==
    /\ log' = Append(log, config)
    /\ serving' = config

Apply(c) ==
    /\ request[c] # Idle
    /\ request[c].base = Len(log) - 1
    /\ \/ request[c].op = "put" /\ Serve(request[c].config)
       \/ request[c].op = "rollback" /\ Len(log) > 1 /\ Serve(log[Len(log) - 1])
    /\ request' = [request EXCEPT ![c] = Idle]

Refuse(c) ==
    /\ request[c] # Idle
    /\ request' = [request EXCEPT ![c] = Idle]
    /\ UNCHANGED <<log, serving>>

Next == \E c \in Clients : Submit(c) \/ Apply(c) \/ Refuse(c)

Spec == Init /\ [][Next]_vars
=============================================================================
