---------------------------- MODULE UpstreamPool ----------------------------
(***************************************************************************)
(* One upstreamPool of internal/dataplane/server.go: the request handlers  *)
(* that select an endpoint and send to it, the circuit breaker of every    *)
(* endpoint, and the health loop.  A step is one atomic operation of the   *)
(* code: an atomic load, store or add, a breaker method (they hold the     *)
(* breaker's mutex), or the arrival of one answer from the network.        *)
(*                                                                         *)
(* The pool belongs to one generation of the data plane.  Stop stands for  *)
(* the moment a reconfiguration or Close cancels that generation; handlers *)
(* that loaded it before go on with it.                                    *)
(***************************************************************************)
EXTENDS Naturals

CONSTANTS
    Requests,       \* the handler goroutines; each serves one request at a time
    EndpointCount,  \* how many URLs the upstream has
    Threshold,      \* circuit_breaker_threshold after its default is applied
    RetryAttempts,  \* retry_attempts after a negative value became 0
    HealthChecks    \* whether the upstream has a health_path

ASSUME PoolAssumption ==
    /\ EndpointCount \in Nat \ {0}
    /\ Threshold \in Nat \ {0}
    /\ RetryAttempts \in Nat
    /\ HealthChecks \in BOOLEAN

VARIABLES
    next,       \* upstreamPool.next; only its value modulo EndpointCount is used
    healthy,    \* upstreamPool.healthy, one atomic.Bool per endpoint
    breaker,    \* upstreamPool.breakers
    probers,    \* history: who was let in past an endpoint's opened breaker, none reporting since
    lost,       \* history: endpoints whose probe was given up unsent, none reporting since
    pc,         \* where each handler is; "done" when it is free
    kind,       \* what RoundTrip looks at in the request it serves, chosen when it is entered
    index,      \* the loop variable of hasHealthyEndpoint and of pick
    candidate,  \* the endpoint pick is looking at, then the endpoint chosen
    attempt,    \* the loop variable of RoundTrip
    result,     \* what the last request of the handler was answered with
    checker,    \* where the health loop is
    target,     \* the endpoint the health loop is checking
    verdict,    \* the outcome of the health check that was made last
    stopped     \* the context of the runtime state has been cancelled

reqVars   == <<pc, kind, index, candidate, attempt, result>>
probeVars == <<probers, lost>>
checkVars == <<checker, target, verdict>>
vars == <<next, healthy, breaker, probeVars, reqVars, checkVars, stopped>>

Endpoints == 0 .. EndpointCount - 1

\* Idempotent without a body; idempotent with a body that net/http cannot
\* rewind (GetBody is nil on a request a server received); not idempotent.
Kinds    == {"safe", "safeWithBody", "unsafe"}
\* "badGateway" is what ErrorHandler answers to every error, the breaker's included.
Results  == {"none", "unavailable", "badGateway", "response", "badStatus", "nothing"}
Failures == {"badStatus", "badGateway"}
Places   == {"done", "scan", "pick", "load", "allow", "enter", "permitted", "flight"}
Admitted == {"permitted", "flight"}    \* let in by a breaker
Verdicts == {"good", "bad", "cancelled"}

-----------------------------------------------------------------------------
(* The circuit breaker.  openUntil is the zero time, an instant ahead of    *)
(* the clock or one behind it; the failure counter saturates at Threshold,  *)
(* past which the code never distinguishes its values.                      *)

Breakers == [failures: 0 .. Threshold, openUntil: {"zero", "future", "past"}, halfOpen: BOOLEAN]
ClosedBreaker == [failures |-> 0, openUntil |-> "zero", halfOpen |-> FALSE]

Allows(b) == b.openUntil = "zero" \/ (b.openUntil = "past" /\ ~b.halfOpen)

\* The state allow() leaves behind when it returns TRUE.
AfterAllow(b) == IF b.openUntil = "zero" THEN b ELSE [b EXCEPT !.halfOpen = TRUE]

AfterSuccess(b) == ClosedBreaker

\* Mutant: > for >=, so that the last failure before the threshold does not count.
OpensOneLate(b) ==
    IF b.failures + 1 > Threshold
    THEN [failures |-> Threshold, openUntil |-> "future", halfOpen |-> FALSE]
    ELSE [b EXCEPT !.failures = @ + 1]

\* Mutant: a failed probe does not end the half-open state.
KeepsHalfOpen(b) ==
    IF b.failures + 1 >= Threshold
    THEN [b EXCEPT !.failures = Threshold, !.openUntil = "future"]
    ELSE [b EXCEPT !.failures = @ + 1]

AfterFailure(b) ==
    IF b.failures + 1 >= Threshold
    THEN [failures |-> Threshold, openUntil |-> "future", halfOpen |-> FALSE]
    ELSE [b EXCEPT !.failures = @ + 1]

-----------------------------------------------------------------------------
(* Decisions of the handlers and of the health loop.                        *)

\* Mutant: the sum is not reduced modulo the number of endpoints.
CandidateUnreduced(n, i) == n + i

\* (u.next.Add(1) + index) % len(u.endpoints), n being the counter after Add.
Candidate(n, i) == (n + i) % EndpointCount

Idempotent(k)  == k # "unsafe"
Replayable(k)  == k = "safe"

\* Mutant: <= for <.
RetriesOnceMore(a, k) == a <= RetryAttempts /\ Idempotent(k)

MayRetry(a, k) == a < RetryAttempts /\ Idempotent(k)

\* Mutant: the attempt is not counted.
SameAttempt(a) == a

NextAttempt(a) == a + 1

\* Mutant: the fallback endpoint is used without asking its breaker.
EntryAlways(b) == TRUE

\* How allow() at the entry of RoundTrip guards a request pick did not permit.
EntryPermit(b) == Allows(b)

\* Mutant: a good check leaves the breaker as it is.
NeverReset(v) == "next"

\* Where the health loop goes after it stored a verdict.
AfterStore(v) == IF v = "good" THEN "reset" ELSE "next"

\* Mutant: the loop does not look at its context.
LoopNeverEnds == FALSE

LoopMayEnd == stopped

-----------------------------------------------------------------------------
Init ==
    /\ next = 0
    /\ healthy = [e \in Endpoints |-> TRUE]
    /\ breaker = [e \in Endpoints |-> ClosedBreaker]
    /\ probers = [e \in Endpoints |-> {}]
    /\ lost = {}
    /\ pc = [r \in Requests |-> "done"]
    /\ kind = [r \in Requests |-> "safe"]
    /\ index = [r \in Requests |-> 0]
    /\ candidate = [r \in Requests |-> 0]
    /\ attempt = [r \in Requests |-> 0]
    /\ result = [r \in Requests |-> "none"]
    /\ checker = IF HealthChecks THEN "ask" ELSE "off"
    /\ target = 0
    /\ verdict = "good"
    /\ stopped = FALSE

\* Handler loads the runtime state and finds this pool behind its route.
Arrive(r) ==
    /\ pc[r] = "done" /\ ~stopped
    /\ pc' = [pc EXCEPT ![r] = "scan"]
    /\ result' = [result EXCEPT ![r] = "none"]
    /\ UNCHANGED <<next, healthy, breaker, probeVars, kind, index, candidate, attempt>>
    /\ UNCHANGED <<checkVars, stopped>>

\* The handler answers: it is free again, and the variables of the functions
\* it was in are gone (back at their initial values).
Answer(r, outcome) ==
    /\ pc' = [pc EXCEPT ![r] = "done"]
    /\ result' = [result EXCEPT ![r] = outcome]
    /\ kind' = [kind EXCEPT ![r] = "safe"]
    /\ index' = [index EXCEPT ![r] = 0]
    /\ candidate' = [candidate EXCEPT ![r] = 0]
    /\ attempt' = [attempt EXCEPT ![r] = 0]

\* hasHealthyEndpoint loads one flag.
ScanHealthy(r) ==
    /\ pc[r] = "scan"
    /\ \/ /\ healthy[index[r]]
          /\ pc' = [pc EXCEPT ![r] = "pick"]
          /\ index' = [index EXCEPT ![r] = 0]
          /\ UNCHANGED <<kind, candidate, attempt, result>>
       \/ /\ ~healthy[index[r]] /\ index[r] + 1 < EndpointCount
          /\ index' = [index EXCEPT ![r] = @ + 1]
          /\ UNCHANGED <<pc, kind, candidate, attempt, result>>
       \/ /\ ~healthy[index[r]] /\ index[r] + 1 = EndpointCount
          /\ Answer(r, "unavailable")
    /\ UNCHANGED <<next, healthy, breaker, probeVars, checkVars, stopped>>

\* pick advances the shared counter and computes its candidate.
PickNext(r) ==
    /\ pc[r] = "pick"
    /\ next' = (next + 1) % EndpointCount
    /\ candidate' = [candidate EXCEPT ![r] = Candidate(next', index[r])]
    /\ pc' = [pc EXCEPT ![r] = "load"]
    /\ UNCHANGED <<healthy, breaker, probeVars, kind, index, attempt, result, checkVars, stopped>>

\* pick gives its candidate up: it tries again, or falls back on endpoint 0
\* without a permit.
PassOver(r) ==
    IF index[r] + 1 < EndpointCount
    THEN /\ index' = [index EXCEPT ![r] = @ + 1]
         /\ pc' = [pc EXCEPT ![r] = "pick"]
         /\ UNCHANGED candidate
    ELSE /\ candidate' = [candidate EXCEPT ![r] = 0]
         /\ index' = [index EXCEPT ![r] = 0]
         /\ pc' = [pc EXCEPT ![r] = "enter"]

\* pick loads the health flag of its candidate.
PickLoad(r) ==
    /\ pc[r] = "load"
    /\ IF healthy[candidate[r]]
       THEN pc' = [pc EXCEPT ![r] = "allow"] /\ UNCHANGED <<index, candidate>>
       ELSE PassOver(r)
    /\ UNCHANGED <<next, healthy, breaker, probeVars, kind, attempt, result, checkVars, stopped>>

\* allow() grants r its permit: a probe's when the breaker was open.
Admit(r, place) ==
    LET e == candidate[r] IN
    /\ breaker' = [breaker EXCEPT ![e] = AfterAllow(@)]
    /\ probers' = [probers EXCEPT ![e] = IF breaker[e].openUntil = "zero" THEN @ ELSE @ \cup {r}]
    /\ index' = [index EXCEPT ![r] = 0]
    /\ pc' = [pc EXCEPT ![r] = place]
    /\ UNCHANGED lost

\* pick asks the breaker of its candidate; the Director returns with the permit.
PickAllow(r) ==
    /\ pc[r] = "allow"
    /\ IF Allows(breaker[candidate[r]])
       THEN Admit(r, "permitted") /\ UNCHANGED candidate
       ELSE PassOver(r) /\ UNCHANGED <<breaker, probeVars>>
    /\ UNCHANGED <<next, healthy, kind, attempt, result, checkVars, stopped>>

\* RoundTrip is about to send the request, and looks at its method and body.
LooksAt(r) == \E k \in Kinds : kind' = [kind EXCEPT ![r] = k]

\* RoundTrip is entered with the permit of pick.
EnterPermitted(r) ==
    /\ pc[r] = "permitted"
    /\ pc' = [pc EXCEPT ![r] = "flight"]
    /\ LooksAt(r)
    /\ UNCHANGED <<next, healthy, breaker, probeVars, index, candidate, attempt, result>>
    /\ UNCHANGED <<checkVars, stopped>>

\* RoundTrip is entered without a permit: it asks the breaker of endpoint 0.
Enter(r) ==
    /\ pc[r] = "enter"
    /\ IF EntryPermit(breaker[candidate[r]])
       THEN Admit(r, "flight") /\ LooksAt(r) /\ UNCHANGED <<candidate, attempt, result>>
       ELSE Answer(r, "badGateway") /\ UNCHANGED <<breaker, probeVars>>
    /\ UNCHANGED <<next, healthy, checkVars, stopped>>

\* Between the Director and RoundTrip the reverse proxy may find that it cannot send
\* the request: it calls ErrorHandler, and nobody reports on the permit.
GiveUp(r) ==
    /\ pc[r] \in {"permitted", "enter"}
    /\ Answer(r, "badGateway")
    /\ probers' = [e \in Endpoints |-> probers[e] \ {r}]
    /\ lost' = lost \cup {e \in Endpoints : r \in probers[e]}
    /\ UNCHANGED <<next, healthy, breaker, checkVars, stopped>>

\* success() or failure() of e's breaker is called.
Reported(e) ==
    /\ probers' = [probers EXCEPT ![e] = {}]
    /\ lost' = lost \ {e}

\* The endpoint answers below 500: success() and return.
Succeed(r) ==
    /\ pc[r] = "flight"
    /\ breaker' = [breaker EXCEPT ![candidate[r]] = AfterSuccess(@)]
    /\ Reported(candidate[r])
    /\ Answer(r, "response")
    /\ UNCHANGED <<next, healthy, checkVars, stopped>>

\* The endpoint answers 500 or more ("badStatus"), or the exchange fails, times
\* out or is given up by the client ("badGateway"): failure(), then give up, find that
\* the body cannot be sent again (`return nil, err`, where err is nil after a bad
\* status), or try the same endpoint again.
Fail(r, failure) ==
    /\ pc[r] = "flight"
    /\ breaker' = [breaker EXCEPT ![candidate[r]] = AfterFailure(@)]
    /\ Reported(candidate[r])
    /\ \/ /\ ~MayRetry(attempt[r], kind[r])
          /\ Answer(r, failure)
       \/ /\ MayRetry(attempt[r], kind[r]) /\ ~Replayable(kind[r])
          /\ Answer(r, IF failure = "badStatus" THEN "nothing" ELSE failure)
       \/ /\ MayRetry(attempt[r], kind[r]) /\ Replayable(kind[r])
          /\ attempt' = [attempt EXCEPT ![r] = NextAttempt(@)]
          /\ UNCHANGED <<pc, result, kind, index, candidate>>
    /\ UNCHANGED <<next, healthy, checkVars, stopped>>

\* The clock reaches openUntil.
CooldownElapses(e) ==
    /\ breaker[e].openUntil = "future"
    /\ breaker' = [breaker EXCEPT ![e].openUntil = "past"]
    /\ UNCHANGED <<next, healthy, probeVars, reqVars, checkVars, stopped>>

-----------------------------------------------------------------------------
(* The health loop: "ask" while a check is on its way, "store" and "reset"  *)
(* between the answer and what it changes, "wait" in the select.            *)

\* After the last endpoint the loop waits for its ticker.
NextTarget ==
    IF target + 1 < EndpointCount
    THEN target' = target + 1 /\ checker' = "ask"
    ELSE target' = 0 /\ checker' = "wait"

\* client.Do returns.  Once the context is cancelled it returns an error,
\* whatever the endpoint would have said.
CheckAnswer(v) ==
    /\ checker = "ask"
    /\ v = "cancelled" <=> stopped
    /\ verdict' = v
    /\ checker' = "store"
    /\ UNCHANGED <<next, healthy, breaker, probeVars, reqVars, target, stopped>>

StoreResult ==
    /\ checker = "store"
    /\ healthy' = [healthy EXCEPT ![target] = verdict = "good"]
    /\ IF AfterStore(verdict) = "reset"
       THEN checker' = "reset" /\ UNCHANGED target
       ELSE NextTarget
    /\ UNCHANGED <<next, breaker, probeVars, reqVars, verdict, stopped>>

\* A good check closes the breaker of the endpoint.
ResetBreaker ==
    /\ checker = "reset"
    /\ breaker' = [breaker EXCEPT ![target] = AfterSuccess(@)]
    /\ Reported(target)
    /\ NextTarget
    /\ UNCHANGED <<next, healthy, reqVars, verdict, stopped>>

\* The select of the loop takes a tick; a cancelled context does not keep it
\* from doing so when both are ready.
Tick ==
    /\ checker = "wait"
    /\ checker' = "ask"
    /\ UNCHANGED <<next, healthy, breaker, probeVars, reqVars, target, verdict, stopped>>

ExitLoop ==
    /\ checker = "wait" /\ LoopMayEnd
    /\ checker' = "off"
    /\ UNCHANGED <<next, healthy, breaker, probeVars, reqVars, target, verdict, stopped>>

\* The runtime state that owns the pool is replaced, or the server closes.
Stop ==
    /\ ~stopped
    /\ stopped' = TRUE
    /\ UNCHANGED <<next, healthy, breaker, probeVars, reqVars, checkVars>>

-----------------------------------------------------------------------------
\* What handler r does once a request has arrived.
Handle(r) ==
    \/ ScanHealthy(r) \/ PickNext(r) \/ PickLoad(r) \/ PickAllow(r)
    \/ EnterPermitted(r) \/ Enter(r) \/ GiveUp(r)
    \/ Succeed(r) \/ \E failure \in Failures : Fail(r, failure)

CheckHealth == (\E v \in Verdicts : CheckAnswer(v)) \/ StoreResult \/ ResetBreaker

Next ==
    \/ \E r \in Requests : Arrive(r) \/ Handle(r)
    \/ \E e \in Endpoints : CooldownElapses(e)
    \/ CheckHealth \/ Tick \/ ExitLoop \/ Stop

Spec == Init /\ [][Next]_vars

\* A handler that has a request runs: every wait of it is bounded by
\* request_timeout.  The loop runs, and every check is bounded the same way.
\* The clock advances.  Go's select chooses among ready cases at random, so the
\* loop, which comes back to it again and again, cannot miss the cancelled
\* context for ever.  Nothing is assumed of arrivals, of what endpoints answer,
\* or of Stop.
Fairness ==
    /\ \A r \in Requests : WF_vars(Handle(r))
    /\ \A e \in Endpoints : WF_vars(CooldownElapses(e))
    /\ WF_vars(CheckHealth) /\ WF_vars(Tick) /\ SF_vars(ExitLoop)

FairSpec == Spec /\ Fairness

-----------------------------------------------------------------------------
(* Properties.                                                              *)

\* The types of the variables, and the ranges the loops keep their indices in.
TypeOK ==
    /\ next \in Endpoints
    /\ healthy \in [Endpoints -> BOOLEAN]
    /\ breaker \in [Endpoints -> Breakers]
    /\ probers \in [Endpoints -> SUBSET Requests] /\ lost \subseteq Endpoints
    /\ pc \in [Requests -> Places]
    /\ kind \in [Requests -> Kinds]
    /\ index \in [Requests -> Endpoints]
    /\ candidate \in [Requests -> Endpoints]
    /\ attempt \in [Requests -> 0 .. RetryAttempts]
    /\ result \in [Requests -> Results]
    /\ checker \in {"ask", "store", "reset", "wait", "off"}
    /\ target \in Endpoints
    /\ verdict \in Verdicts
    /\ stopped \in BOOLEAN

Consistent(b) ==
    /\ b.openUntil # "zero" <=> b.failures = Threshold
    /\ b.halfOpen => b.openUntil = "past"

\* Handlers and the health loop call success() and failure() of one breaker in
\* any order, late ones included.  Whatever the order, the breaker is open exactly
\* when its failures reached the threshold, and it is half open only after its
\* cooldown: allow(), success() and failure() never leave a mixed state.
BreakerConsistent == \A e \in Endpoints : Consistent(breaker[e])

\* allow() refuses everybody while halfOpen is set, and only success() and failure()
\* of that endpoint, whoever calls them, clear it.  So halfOpen says exactly this: one
\* request was let in as a probe and nobody has reported on the endpoint since.  That
\* request is on its way to it, or the reverse proxy gave it up without sending it.
HalfOpenHasOwner ==
    \A e \in Endpoints :
        /\ breaker[e].halfOpen <=> probers[e] # {} \/ e \in lost
        /\ e \in lost => probers[e] = {}
        /\ \A r \in probers[e] : probers[e] = {r} /\ pc[r] \in Admitted /\ candidate[r] = e

\* RoundTrip sends a request again at most retry_attempts times, and never one
\* that is not idempotent or whose body it cannot replay.
RetryBound ==
    \A r \in Requests :
        /\ attempt[r] <= RetryAttempts
        /\ attempt[r] > 0 => kind[r] = "safe" /\ pc[r] = "flight"

\* r is let in, past an endpoint's breaker, by this step.
LetIn(r) == pc[r] \notin Admitted /\ pc'[r] \in Admitted

OnlyPastReadyBreaker ==
    \A r \in Requests : LetIn(r) =>
        /\ breaker[candidate'[r]].openUntil # "future"
        /\ probers[candidate'[r]] = {} /\ candidate'[r] \notin lost

\* Whichever way a request is let in, through pick or through the fallback on
\* endpoint 0, the breaker of its endpoint is not in its cooldown at that moment, and
\* success() or failure() of it has been called since the last probe was let in.  The
\* report need not be the probe's: one that comes late from an earlier request ends
\* the half-open state too, and then the probe itself may still be under way.
AdmissionRespectsBreaker == [][OnlyPastReadyBreaker]_vars

\* Every request that arrived is answered: pick and the retries end, and nobody
\* waits for a breaker.
EveryRequestReturns == \A r \in Requests : pc[r] # "done" ~> pc[r] = "done"

\* A half-open breaker does not stay half open, unless its probe is given up before
\* it is sent: a probe that is sent reports.
HalfOpenResolves ==
    \A e \in Endpoints : breaker[e].halfOpen ~> ~breaker[e].halfOpen \/ e \in lost

\* While the pool is in service and every check from some time on is good, every
\* endpoint is healthy with a closed breaker again and again, whatever the requests
\* that are on their way report and even when no request arrives any more.
EndpointRecovers ==
    (<>[](~stopped /\ verdict = "good")) =>
        \A e \in Endpoints : []<>(HealthChecks => healthy[e] /\ breaker[e].openUntil = "zero")

\* After its pool was replaced or closed, the health loop ends.
LoopEnds == stopped ~> checker = "off"

-----------------------------------------------------------------------------
(* What the documents say and the code does not do; see the README.         *)

\* RoundTrip returns a response or an error, as http.RoundTripper requires.
RoundTripAnswers == \A r \in Requests : result[r] # "nothing"
=============================================================================
