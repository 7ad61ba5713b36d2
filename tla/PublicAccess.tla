---------------------------- MODULE PublicAccess ----------------------------
(***************************************************************************)
(* What stands between a client and an endpoint: the TLS handshake         *)
(* (CertificateLoader), the login that gives a browser its session         *)
(* (Authentication), the counters of the requests (Metrics) and the        *)
(* handler of one (RequestPath).                                           *)
(* They share no variable: a handshake and a login are over before the     *)
(* request that uses them, which finds a session valid or not, and the     *)
(* counters see its route and its status only.  Interleaved, they would be *)
(* the product of state spaces no property relates, so one part moves,     *)
(* whichever it is.                                                        *)
(***************************************************************************)
EXTENDS CertificateLoader, Authentication, Metrics, RequestPath

VARIABLE moves  \* the part that moves

accessVars == <<moves, tlsVars, authVars, metricsVars, requestVars>>

AccessInit ==
    /\ moves \in {"handshake", "login", "metrics", "request"}
    /\ TLSInit /\ AuthInit /\ MetricsInit /\ RequestInit
    /\ moves # "request" => routes = <<>> /\ request = IdleRequest

Handshaking ==
    /\ moves = "handshake" /\ TLSNext
    /\ UNCHANGED <<moves, authVars, metricsVars, requestVars>>

LoggingIn ==
    /\ moves = "login" /\ AuthNext
    /\ UNCHANGED <<moves, tlsVars, metricsVars, requestVars>>

Counting ==
    /\ moves = "metrics" /\ MetricsNext
    /\ UNCHANGED <<moves, tlsVars, authVars, requestVars>>

Requesting ==
    /\ moves = "request" /\ RequestNext
    /\ UNCHANGED <<moves, tlsVars, authVars, metricsVars>>

AccessNext == Handshaking \/ LoggingIn \/ Counting \/ Requesting

AccessSpec == AccessInit /\ [][AccessNext]_accessVars

\* The types of the variables of the parts.
TypeOK == TLSTypeOK /\ AuthTypeOK /\ MetricsTypeOK /\ RequestTypeOK
=============================================================================
