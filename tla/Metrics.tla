------------------------------ MODULE Metrics ------------------------------
(***************************************************************************)
(* Middleware and recordSeries of internal/observability/metrics.go: every *)
(* request of both listeners adds to shared counters, one atomic operation *)
(* at a time, when it begins and, deferred, when it ends, by returning or  *)
(* by a panic.  The series of a request depends on what its handler wrote  *)
(* and on the route it was given; their number is bounded.                 *)
(* Initial states and steps; PublicAccess composes them.                   *)
(*                                                                         *)
(* Counters that nothing relates to others (retries, rejections, outcomes  *)
(* of authentication, events of the pool) are left out.                    *)
(***************************************************************************)
EXTENDS Naturals, FiniteSets

CONSTANTS
    Handlers,       \* goroutines of requests
    RouteNames,     \* of the routes a request may get
    Unknown,        \* the label of a request without one
    MaxSeries,      \* maxMetricSeries
    MaxRequests     \* bound on the requests

ASSUME MetricsAssumption == Unknown \notin RouteNames /\ {MaxSeries, MaxRequests} \subseteq Nat

VARIABLES
    requests, activeRequests, responses, serverErrors, series,  \* of Metrics
    phase,      \* where a handler is in Middleware
    status,     \* statusWriter.status
    label       \* signals.Route

counterVars == <<requests, activeRequests, responses, serverErrors, series>>
metricsVars == <<counterVars, phase, status, label>>

Statuses == {200, 404, 503}
Series == [route: RouteNames \cup {Unknown}, status: Statuses]

MetricsInit ==
    /\ requests = 0 /\ activeRequests = 0 /\ responses = 0 /\ serverErrors = 0
    /\ series = [s \in Series |-> 0]
    /\ phase = [h \in Handlers |-> "none"]
    /\ status = [h \in Handlers |-> 0]
    /\ label = [h \in Handlers |-> Unknown]

-----------------------------------------------------------------------------
Moves(h, there) == phase' = [phase EXCEPT ![h] = there]

CountRequest(h) ==
    /\ phase[h] = "none" /\ requests < MaxRequests
    /\ requests' = requests + 1
    /\ Moves(h, "counted")
    /\ UNCHANGED <<activeRequests, responses, serverErrors, series, status, label>>

CountActive(h) ==
    /\ phase[h] = "counted"
    /\ activeRequests' = activeRequests + 1
    /\ Moves(h, "serving")
    /\ UNCHANGED <<requests, responses, serverErrors, series, status, label>>

\* SetRoute, and WriteHeader of the first write.
GetRoute(h) ==
    /\ phase[h] = "serving" /\ label[h] = Unknown
    /\ \E name \in RouteNames : label' = [label EXCEPT ![h] = name]
    /\ UNCHANGED <<counterVars, phase, status>>

WriteStatus(h) ==
    /\ phase[h] = "serving" /\ status[h] = 0
    /\ \E code \in Statuses : status' = [status EXCEPT ![h] = code]
    /\ UNCHANGED <<counterVars, phase, label>>

\* The handler returns or panics, whatever it has written: the deferred function runs.
NoLongerActive(h) ==
    /\ phase[h] = "serving"
    /\ activeRequests' = activeRequests - 1
    /\ Moves(h, "left")
    /\ UNCHANGED <<requests, responses, serverErrors, series, status, label>>

CountResponse(h) ==
    /\ phase[h] = "left"
    /\ responses' = responses + 1
    /\ Moves(h, "responded")
    /\ UNCHANGED <<requests, activeRequests, serverErrors, series, status, label>>

\* Nothing written counts as 200.
StatusOf(h) == IF status[h] = 0 THEN 200 ELSE status[h]

CountError(h) ==
    /\ phase[h] = "responded"
    /\ serverErrors' = IF StatusOf(h) >= 500 THEN serverErrors + 1 ELSE serverErrors
    /\ Moves(h, "record")
    /\ UNCHANGED <<requests, activeRequests, responses, series, status, label>>

Kept == {s \in Series : series[s] > 0}

\* Mutant: the bound is tested before it is reached.
FitsOnce(s) == s \in Kept \/ Cardinality(Kept) <= MaxSeries

Fits(s) == s \in Kept \/ Cardinality(Kept) < MaxSeries

\* recordSeries, under its mutex: a new series beyond the bound is dropped.
RecordSeries(h) ==
    LET s == [route |-> label[h], status |-> StatusOf(h)] IN
    /\ phase[h] = "record"
    /\ series' = IF Fits(s) THEN [series EXCEPT ![s] = @ + 1] ELSE series
    /\ Moves(h, "none")
    /\ status' = [status EXCEPT ![h] = 0]
    /\ label' = [label EXCEPT ![h] = Unknown]
    /\ UNCHANGED <<requests, activeRequests, responses, serverErrors>>

MetricsNext ==
    \E h \in Handlers :
        \/ CountRequest(h) \/ CountActive(h) \/ GetRoute(h) \/ WriteStatus(h)
        \/ NoLongerActive(h) \/ CountResponse(h) \/ CountError(h) \/ RecordSeries(h)

-----------------------------------------------------------------------------
MetricsTypeOK ==
    /\ {requests, activeRequests, responses, serverErrors} \subseteq 0 .. MaxRequests
    /\ series \in [Series -> 0 .. MaxRequests]
    /\ phase \in [Handlers -> {"none", "counted", "serving", "left", "responded", "record"}]
    /\ status \in [Handlers -> Statuses \cup {0}]
    /\ label \in [Handlers -> RouteNames \cup {Unknown}]

\* The counts of some series added up: as many as there are pairs of one and a number up
\* to its count.
Marks(these) == {mark \in these \X (1 .. MaxRequests) : mark[2] <= series[mark[1]]}
Total(these) == Cardinality(Marks(these))

\* No request is in between two of its counters.
Quiet == \A h \in Handlers : phase[h] \in {"none", "serving"}

\* Every request was answered or is being served, and no more series are kept than the
\* bound allows.
RequestsReconcile ==
    /\ Cardinality(Kept) <= MaxSeries
    /\ Quiet => /\ activeRequests = Cardinality({h \in Handlers : phase[h] = "serving"})
                /\ requests = responses + activeRequests

\* The series add up to the answers, and those of 5xx to the server errors, as long as
\* they fit.
SeriesReconcile ==
    Quiet => /\ Total(Series) <= responses
             /\ Cardinality(Kept) < MaxSeries =>
                   /\ Total(Series) = responses
                   /\ Total({s \in Series : s.status >= 500}) = serverErrors

\* The counters are of the same requests, however requests overlap and end.
CountersReconcile == RequestsReconcile /\ SeriesReconcile
=============================================================================
