-------------------------- MODULE UpstreamPoolProofs --------------------------
(* Proofs about UpstreamPool, for every number of handlers and endpoints and   *)
(* every threshold and retry bound.                                            *)
EXTENDS UpstreamPool, TLAPS

\* The inductive invariant.  BreakerConsistent is what makes failure() clear
\* halfOpen (a half-open breaker has all its failures, so the next one reaches the
\* threshold again), so that halfOpen and the record of unreported probes end together.
IInv == TypeOK /\ BreakerConsistent /\ HalfOpenHasOwner /\ RetryBound

-----------------------------------------------------------------------------
(* The breaker's methods, and the arithmetic of pick.                          *)

\* allow(), success() and failure() keep a breaker well formed and consistent.
LEMMA BreakerSteps ==
    ASSUME NEW b \in Breakers, Consistent(b)
    PROVE  /\ AfterSuccess(b) \in Breakers /\ Consistent(AfterSuccess(b))
           /\ AfterFailure(b) \in Breakers /\ Consistent(AfterFailure(b))
           /\ Allows(b) => AfterAllow(b) \in Breakers /\ Consistent(AfterAllow(b))
<1>1. AfterSuccess(b) \in Breakers /\ Consistent(AfterSuccess(b))
  BY PoolAssumption DEF Breakers, Consistent, AfterSuccess, ClosedBreaker
<1>2. AfterFailure(b) \in Breakers /\ Consistent(AfterFailure(b))
  <2>1. CASE b.failures + 1 >= Threshold
    BY <2>1, PoolAssumption DEF Breakers, Consistent, AfterFailure
  <2>2. CASE ~(b.failures + 1 >= Threshold)
    <3>1. b.failures + 1 \in 0 .. Threshold /\ b.failures # Threshold
      BY <2>2, PoolAssumption DEF Breakers
    <3>2. AfterFailure(b) = [b EXCEPT !.failures = b.failures + 1]
      BY <2>2 DEF AfterFailure
    <3>3. b.openUntil = "zero" /\ ~b.halfOpen
      BY <3>1 DEF Consistent
    <3> QED
      BY <2>2, <3>1, <3>2, <3>3, PoolAssumption DEF Breakers, Consistent
  <2> QED
    BY <2>1, <2>2
<1>3. ASSUME Allows(b)
      PROVE  AfterAllow(b) \in Breakers /\ Consistent(AfterAllow(b))
  BY <1>3 DEF Breakers, Consistent, Allows, AfterAllow
<1> QED
  BY <1>1, <1>2, <1>3

\* A report on a half-open breaker, good or bad, ends its half-open state.
LEMMA ReportResolves ==
    ASSUME NEW b \in Breakers, Consistent(b)
    PROVE  /\ ~AfterSuccess(b).halfOpen
           /\ b.halfOpen => ~AfterFailure(b).halfOpen
           /\ AfterFailure(b).halfOpen => b.halfOpen
  BY PoolAssumption DEF Breakers, Consistent, AfterSuccess, AfterFailure, ClosedBreaker

\* A permit that makes the breaker half open is a probe's.
LEMMA PermitOpens ==
    ASSUME NEW b \in Breakers, Consistent(b), Allows(b)
    PROVE  /\ b.openUntil # "future" /\ ~b.halfOpen
           /\ AfterAllow(b).halfOpen => b.openUntil # "zero"
  BY DEF Breakers, Consistent, Allows, AfterAllow

\* pick computes the index of an endpoint.
LEMMA CandidateInRange ==
    ASSUME NEW n \in Nat, NEW i \in Nat
    PROVE  Candidate(n, i) \in Endpoints /\ n % EndpointCount \in Endpoints
  BY PoolAssumption DEF Candidate, Endpoints

LEMMA EndpointFacts ==
    /\ 0 \in Endpoints /\ Endpoints \subseteq Nat
    /\ \A i \in Endpoints : i + 1 < EndpointCount => i + 1 \in Endpoints
  BY PoolAssumption DEF Endpoints

-----------------------------------------------------------------------------
(* Type correctness and the consistency of the breakers.                       *)

Safe == TypeOK /\ BreakerConsistent

LEMMA InitSafe == Init => Safe
<1> SUFFICES ASSUME Init PROVE Safe
  OBVIOUS
<1>1. ClosedBreaker \in Breakers /\ Consistent(ClosedBreaker)
  BY PoolAssumption DEF ClosedBreaker, Breakers, Consistent
<1>2. breaker \in [Endpoints -> Breakers] /\ BreakerConsistent
  BY <1>1 DEF Init, BreakerConsistent
<1>3. checker \in {"ask", "store", "reset", "wait", "off"} /\ 0 \in 0 .. RetryAttempts
  BY PoolAssumption DEF Init
<1>4. /\ next \in Endpoints /\ healthy \in [Endpoints -> BOOLEAN]
      /\ target \in Endpoints /\ verdict \in Verdicts /\ stopped \in BOOLEAN
  BY EndpointFacts DEF Init, Verdicts
<1>5. /\ pc \in [Requests -> Places] /\ kind \in [Requests -> Kinds]
      /\ index \in [Requests -> Endpoints] /\ candidate \in [Requests -> Endpoints]
      /\ result \in [Requests -> Results]
      /\ probers \in [Endpoints -> SUBSET Requests] /\ lost \subseteq Endpoints
  BY EndpointFacts DEF Init, Places, Kinds, Results
<1>6. attempt \in [Requests -> 0 .. RetryAttempts]
  BY <1>3 DEF Init
<1> QED
  BY <1>2, <1>3, <1>4, <1>5, <1>6 DEF Safe, TypeOK

\* The parts a handler's step is made of.
LEMMA AnswerTyped ==
    ASSUME TypeOK, NEW r \in Requests, NEW outcome \in Results, Answer(r, outcome)
    PROVE  /\ pc' \in [Requests -> Places] /\ result' \in [Requests -> Results]
           /\ kind' \in [Requests -> Kinds] /\ index' \in [Requests -> Endpoints]
           /\ candidate' \in [Requests -> Endpoints]
           /\ attempt' \in [Requests -> 0 .. RetryAttempts]
  BY EndpointFacts, PoolAssumption DEF TypeOK, Answer, Places, Kinds

LEMMA PassOverTyped ==
    ASSUME TypeOK, NEW r \in Requests, PassOver(r)
    PROVE  /\ pc' \in [Requests -> Places] /\ index' \in [Requests -> Endpoints]
           /\ candidate' \in [Requests -> Endpoints]
<1>1. CASE index[r] + 1 < EndpointCount
  <2>1. index[r] + 1 \in Endpoints
    BY <1>1, EndpointFacts DEF TypeOK
  <2> QED
    BY <1>1, <2>1 DEF TypeOK, PassOver, Places
<1>2. CASE ~(index[r] + 1 < EndpointCount)
  BY <1>2, EndpointFacts DEF TypeOK, PassOver, Places
<1> QED
  BY <1>1, <1>2

LEMMA AdmitTyped ==
    ASSUME TypeOK, BreakerConsistent, NEW r \in Requests, NEW place \in Places,
           Allows(breaker[candidate[r]]), Admit(r, place)
    PROVE  /\ pc' \in [Requests -> Places] /\ index' \in [Requests -> Endpoints]
           /\ probers' \in [Endpoints -> SUBSET Requests] /\ lost' \subseteq Endpoints
           /\ breaker' \in [Endpoints -> Breakers] /\ BreakerConsistent'
<1> DEFINE c == candidate[r]
           b == breaker[c]
<1>1. b \in Breakers /\ Consistent(b) /\ c \in Endpoints
  BY DEF TypeOK, BreakerConsistent
<1>2. AfterAllow(b) \in Breakers /\ Consistent(AfterAllow(b))
  BY <1>1, BreakerSteps
<1>3. breaker' = [breaker EXCEPT ![c] = AfterAllow(b)]
  BY <1>1 DEF Admit, TypeOK
<1>4. breaker' \in [Endpoints -> Breakers] /\ BreakerConsistent'
  BY <1>1, <1>2, <1>3 DEF TypeOK, BreakerConsistent
<1>5. probers' \in [Endpoints -> SUBSET Requests] /\ lost' \subseteq Endpoints
  BY <1>1 DEF TypeOK, Admit
<1>6. pc' \in [Requests -> Places] /\ index' \in [Requests -> Endpoints]
  BY EndpointFacts DEF TypeOK, Admit
<1> QED
  BY <1>4, <1>5, <1>6

LEMMA ReportedTyped ==
    ASSUME TypeOK, NEW e \in Endpoints, Reported(e)
    PROVE  probers' \in [Endpoints -> SUBSET Requests] /\ lost' \subseteq Endpoints
  BY DEF TypeOK, Reported

\* Replacing the breaker of one endpoint by a good one.
LEMMA BreakerReplaced ==
    ASSUME TypeOK, BreakerConsistent, NEW e \in Endpoints,
           NEW b \in Breakers, Consistent(b), breaker' = [breaker EXCEPT ![e] = b]
    PROVE  breaker' \in [Endpoints -> Breakers] /\ BreakerConsistent'
  BY DEF TypeOK, BreakerConsistent

LEMMA TargetTyped ==
    ASSUME TypeOK, NextTarget
    PROVE  target' \in Endpoints /\ checker' \in {"ask", "wait"}
  BY EndpointFacts DEF TypeOK, NextTarget

LEMMA StepSafe == Safe /\ [Next]_vars => Safe'
<1> SUFFICES ASSUME Safe, [Next]_vars PROVE Safe'
  OBVIOUS
<1> USE DEF Safe
<1>1. ASSUME NEW r \in Requests, Arrive(r) PROVE Safe'
  BY <1>1 DEF Arrive, TypeOK, BreakerConsistent, checkVars, probeVars, Places, Results
<1>2. ASSUME NEW r \in Requests, ScanHealthy(r) PROVE Safe'
  <2>1. /\ pc' \in [Requests -> Places] /\ result' \in [Requests -> Results]
        /\ kind' \in [Requests -> Kinds] /\ index' \in [Requests -> Endpoints]
        /\ candidate' \in [Requests -> Endpoints]
        /\ attempt' \in [Requests -> 0 .. RetryAttempts]
    <3>1. CASE Answer(r, "unavailable")
      BY <3>1, AnswerTyped DEF Results
    <3>2. CASE pc' = [pc EXCEPT ![r] = "pick"] /\ index' = [index EXCEPT ![r] = 0]
               /\ UNCHANGED <<kind, candidate, attempt, result>>
      BY <3>2, EndpointFacts DEF TypeOK, Places
    <3>3. CASE index[r] + 1 < EndpointCount /\ index' = [index EXCEPT ![r] = @ + 1]
               /\ UNCHANGED <<pc, kind, candidate, attempt, result>>
      BY <3>3, EndpointFacts DEF TypeOK
    <3> QED
      BY <1>2, <3>1, <3>2, <3>3 DEF ScanHealthy
  <2> QED
    BY <1>2, <2>1 DEF ScanHealthy, TypeOK, BreakerConsistent, checkVars, probeVars
<1>3. ASSUME NEW r \in Requests, PickNext(r) PROVE Safe'
  <2>1. next' \in Endpoints /\ Candidate(next', index[r]) \in Endpoints
    <3>1. next \in Nat /\ next + 1 \in Nat /\ index[r] \in Nat
      <4>1. next \in Endpoints /\ index[r] \in Endpoints
        BY DEF TypeOK
      <4> QED
        BY <4>1, PoolAssumption DEF Endpoints
    <3>2. next' = (next + 1) % EndpointCount /\ next' \in Endpoints
      BY <1>3, <3>1, CandidateInRange DEF PickNext
    <3>3. next' \in Nat
      BY <3>2, EndpointFacts
    <3> QED
      BY <3>1, <3>2, <3>3, CandidateInRange
  <2> QED
    BY <1>3, <2>1 DEF PickNext, TypeOK, BreakerConsistent, checkVars, probeVars, Places
<1>4. ASSUME NEW r \in Requests, PickLoad(r) PROVE Safe'
  <2>1. /\ pc' \in [Requests -> Places] /\ index' \in [Requests -> Endpoints]
        /\ candidate' \in [Requests -> Endpoints]
    BY <1>4, PassOverTyped DEF PickLoad, TypeOK, Places
  <2> QED
    BY <1>4, <2>1 DEF PickLoad, TypeOK, BreakerConsistent, checkVars, probeVars
<1>5. ASSUME NEW r \in Requests, PickAllow(r) PROVE Safe'
  <2>1. CASE Allows(breaker[candidate[r]])
    BY <1>5, <2>1, AdmitTyped DEF PickAllow, TypeOK, checkVars, Places
  <2>2. CASE ~Allows(breaker[candidate[r]])
    BY <1>5, <2>2, PassOverTyped DEF PickAllow, TypeOK, BreakerConsistent, checkVars, probeVars
  <2> QED
    BY <2>1, <2>2
<1>6. ASSUME NEW r \in Requests, Enter(r) PROVE Safe'
  <2>1. CASE Allows(breaker[candidate[r]])
    BY <1>6, <2>1, AdmitTyped DEF Enter, LooksAt, EntryPermit, TypeOK, checkVars, Places
  <2>2. CASE ~Allows(breaker[candidate[r]])
    BY <1>6, <2>2, AnswerTyped
       DEF Enter, EntryPermit, TypeOK, BreakerConsistent, checkVars, probeVars, Results
  <2> QED
    BY <2>1, <2>2
<1>7. ASSUME NEW r \in Requests, Succeed(r) PROVE Safe'
  <2>1. breaker' \in [Endpoints -> Breakers] /\ BreakerConsistent'
    BY <1>7, BreakerSteps, BreakerReplaced DEF Succeed, TypeOK, BreakerConsistent
  <2>2. probers' \in [Endpoints -> SUBSET Requests] /\ lost' \subseteq Endpoints
    BY <1>7, ReportedTyped DEF Succeed, TypeOK
  <2> QED
    BY <1>7, <2>1, <2>2, AnswerTyped DEF Succeed, TypeOK, checkVars, Results
<1>8. ASSUME NEW r \in Requests, NEW failure \in Failures, Fail(r, failure) PROVE Safe'
  <2>1. breaker' \in [Endpoints -> Breakers] /\ BreakerConsistent'
    BY <1>8, BreakerSteps, BreakerReplaced DEF Fail, TypeOK, BreakerConsistent
  <2>4. probers' \in [Endpoints -> SUBSET Requests] /\ lost' \subseteq Endpoints
    BY <1>8, ReportedTyped DEF Fail, TypeOK
  <2>2. CASE \E outcome \in Results : Answer(r, outcome)
    BY <1>8, <2>1, <2>2, <2>4, AnswerTyped DEF Fail, TypeOK, checkVars
  <2>3. CASE /\ MayRetry(attempt[r], kind[r])
             /\ attempt' = [attempt EXCEPT ![r] = NextAttempt(@)]
             /\ UNCHANGED <<pc, result, kind, index, candidate>>
    <3>1. attempt' \in [Requests -> 0 .. RetryAttempts]
      BY <2>3, PoolAssumption DEF TypeOK, MayRetry, NextAttempt
    <3> QED
      BY <1>8, <2>1, <2>3, <2>4, <3>1 DEF Fail, TypeOK, checkVars
  <2> QED
    BY <1>8, <2>2, <2>3 DEF Fail, Failures, Results
<1>9. ASSUME NEW e \in Endpoints, CooldownElapses(e) PROVE Safe'
  <2> DEFINE b == [breaker[e] EXCEPT !.openUntil = "past"]
  <2>1. b \in Breakers /\ Consistent(b)
    BY <1>9 DEF CooldownElapses, TypeOK, BreakerConsistent, Breakers, Consistent
  <2>2. breaker' = [breaker EXCEPT ![e] = b]
    BY <1>9 DEF CooldownElapses
  <2>3. breaker' \in [Endpoints -> Breakers] /\ BreakerConsistent'
    BY <2>1, <2>2, BreakerReplaced
  <2> QED
    BY <1>9, <2>3 DEF CooldownElapses, TypeOK, reqVars, checkVars, probeVars
<1>10. ASSUME NEW v \in Verdicts, CheckAnswer(v) PROVE Safe'
  BY <1>10 DEF CheckAnswer, TypeOK, BreakerConsistent, reqVars, probeVars
<1>11. ASSUME StoreResult PROVE Safe'
  <2>1. healthy' \in [Endpoints -> BOOLEAN]
    BY <1>11 DEF StoreResult, TypeOK
  <2>2. target' \in Endpoints /\ checker' \in {"ask", "reset", "wait"}
    BY <1>11, TargetTyped DEF StoreResult, TypeOK
  <2> QED
    BY <1>11, <2>1, <2>2 DEF StoreResult, TypeOK, BreakerConsistent, reqVars, probeVars
<1>12. ASSUME ResetBreaker PROVE Safe'
  <2>1. breaker' \in [Endpoints -> Breakers] /\ BreakerConsistent'
    BY <1>12, BreakerSteps, BreakerReplaced DEF ResetBreaker, TypeOK, BreakerConsistent
  <2>2. probers' \in [Endpoints -> SUBSET Requests] /\ lost' \subseteq Endpoints
    BY <1>12, ReportedTyped DEF ResetBreaker, TypeOK
  <2> QED
    BY <1>12, <2>1, <2>2, TargetTyped DEF ResetBreaker, TypeOK, reqVars
<1>13. ASSUME Tick \/ ExitLoop \/ Stop \/ UNCHANGED vars PROVE Safe'
  BY <1>13 DEF Tick, ExitLoop, Stop, vars, TypeOK, BreakerConsistent, reqVars, checkVars, probeVars
<1>14. ASSUME NEW r \in Requests, EnterPermitted(r) PROVE Safe'
  BY <1>14 DEF EnterPermitted, LooksAt, TypeOK, BreakerConsistent, checkVars, probeVars, Places
<1>15. ASSUME NEW r \in Requests, GiveUp(r) PROVE Safe'
  <2>1. probers' \in [Endpoints -> SUBSET Requests] /\ lost' \subseteq Endpoints
    BY <1>15 DEF GiveUp, TypeOK
  <2> QED
    BY <1>15, <2>1, AnswerTyped DEF GiveUp, TypeOK, BreakerConsistent, checkVars, Results
<1> QED
  BY <1>1, <1>2, <1>3, <1>4, <1>5, <1>6, <1>7, <1>8, <1>9, <1>10, <1>11, <1>12, <1>13, <1>14, <1>15
     DEF Next, Handle, CheckHealth

\* The variables keep their types and pick's indices their ranges, for every size of
\* the pool and every number of handlers.
THEOREM TypeCorrect == Spec => []TypeOK
<1>1. Safe => TypeOK
  BY DEF Safe
<1> QED
  BY <1>1, InitSafe, StepSafe, PTL DEF Spec

\* Whatever the order in which handlers and the health loop call a breaker's
\* methods, it is open exactly when its failures reached the threshold.
THEOREM BreakersConsistent == Spec => []BreakerConsistent
<1>1. Safe => BreakerConsistent
  BY DEF Safe
<1> QED
  BY <1>1, InitSafe, StepSafe, PTL DEF Spec

-----------------------------------------------------------------------------
(* Retries, and the probes of half-open breakers.                              *)

LEMMA InitIInv == Init => IInv
<1> SUFFICES ASSUME Init PROVE IInv
  OBVIOUS
<1>1. HalfOpenHasOwner
  BY DEF Init, HalfOpenHasOwner, ClosedBreaker
<1>2. RetryBound
  <2>1. ASSUME NEW r \in Requests PROVE attempt[r] = 0
    BY <2>1 DEF Init
  <2>2. 0 <= RetryAttempts /\ ~(0 > 0)
    BY PoolAssumption
  <2> QED
    BY <2>1, <2>2, Zenon DEF RetryBound
<1> QED
  BY <1>1, <1>2, InitSafe DEF IInv, Safe

\* What one handler does leaves the retries of the others alone.
LEMMA StepRetryBound == IInv /\ [Next]_vars => RetryBound'
<1> SUFFICES ASSUME IInv, [Next]_vars PROVE RetryBound'
  OBVIOUS
<1> USE PoolAssumption DEF IInv, TypeOK, RetryBound
<1>1. ASSUME NEW r \in Requests, Arrive(r) PROVE RetryBound'
  BY <1>1 DEF Arrive
<1>2. ASSUME NEW r \in Requests, ScanHealthy(r) PROVE RetryBound'
  BY <1>2 DEF ScanHealthy, Answer
<1>3. ASSUME NEW r \in Requests, PickNext(r) PROVE RetryBound'
  BY <1>3 DEF PickNext
<1>4. ASSUME NEW r \in Requests, PickLoad(r) PROVE RetryBound'
  BY <1>4 DEF PickLoad, PassOver
<1>5. ASSUME NEW r \in Requests, PickAllow(r) PROVE RetryBound'
  BY <1>5 DEF PickAllow, PassOver, Admit
<1>6. ASSUME NEW r \in Requests, Enter(r) PROVE RetryBound'
  BY <1>6 DEF Enter, LooksAt, Answer, Admit
<1>7. ASSUME NEW r \in Requests, Succeed(r) PROVE RetryBound'
  BY <1>7 DEF Succeed, Answer
<1>8. ASSUME NEW r \in Requests, NEW failure \in Failures, Fail(r, failure) PROVE RetryBound'
  BY <1>8 DEF Fail, Answer, MayRetry, NextAttempt, Replayable
<1>9. ASSUME \/ \E e \in Endpoints : CooldownElapses(e)
             \/ CheckHealth \/ Tick \/ ExitLoop \/ Stop \/ UNCHANGED vars
      PROVE  RetryBound'
  <2>1. UNCHANGED reqVars
    BY <1>9 DEF CooldownElapses, CheckHealth, CheckAnswer, StoreResult, ResetBreaker,
                Tick, ExitLoop, Stop, vars
  <2> QED
    BY <2>1 DEF reqVars
<1>10. ASSUME NEW r \in Requests, EnterPermitted(r) PROVE RetryBound'
  BY <1>10 DEF EnterPermitted, LooksAt
<1>11. ASSUME NEW r \in Requests, GiveUp(r) PROVE RetryBound'
  BY <1>11 DEF GiveUp, Answer
<1> QED
  BY <1>1, <1>2, <1>3, <1>4, <1>5, <1>6, <1>7, <1>8, <1>9, <1>10, <1>11 DEF Next, Handle

\* What HalfOpenHasOwner says of one endpoint.
Owned(e) ==
    /\ breaker[e].halfOpen <=> probers[e] # {} \/ e \in lost
    /\ e \in lost => probers[e] = {}
    /\ \A r \in probers[e] : probers[e] = {r} /\ pc[r] \in Admitted /\ candidate[r] = e

\* An endpoint whose breaker and probe are left alone, while nobody who is on his way to an
\* endpoint is disturbed.
LEMMA OwnedKept ==
    ASSUME TypeOK, NEW e \in Endpoints, Owned(e), breaker'[e] = breaker[e], probers'[e] = probers[e],
           e \in lost' <=> e \in lost,
           \A r \in probers[e] : pc[r] \in Admitted => pc'[r] \in Admitted /\ candidate'[r] = candidate[r]
    PROVE  Owned(e)'
  BY DEF TypeOK, Owned

\* A report, or a breaker that was not half open and stays so.
LEMMA OwnedEnds ==
    ASSUME NEW e \in Endpoints, ~(breaker'[e].halfOpen), probers'[e] = {}, e \notin lost'
    PROVE  Owned(e)'
  BY DEF Owned

\* A step that disturbs nobody on his way, and neither breakers nor the record of probes.
LEMMA ProbesKept ==
    ASSUME TypeOK, HalfOpenHasOwner, UNCHANGED <<breaker, probeVars>>,
           \A r \in Requests : pc[r] \in Admitted => pc'[r] \in Admitted /\ candidate'[r] = candidate[r]
    PROVE  HalfOpenHasOwner'
<1> SUFFICES ASSUME NEW e \in Endpoints PROVE Owned(e)'
  BY DEF HalfOpenHasOwner, Owned
<1>1. Owned(e) /\ probers[e] \subseteq Requests
  BY DEF HalfOpenHasOwner, Owned, TypeOK
<1> QED
  BY <1>1, OwnedKept DEF probeVars

\* A report on c by somebody who, if he leaves, was on his way to c.
LEMMA ReportEnds ==
    ASSUME TypeOK, HalfOpenHasOwner, NEW c \in Endpoints, Reported(c), NEW b \in Breakers, ~b.halfOpen,
           breaker' = [breaker EXCEPT ![c] = b],
           \A r \in Requests : \/ pc'[r] = pc[r] /\ candidate'[r] = candidate[r]
                               \/ pc[r] \notin Admitted \/ candidate[r] = c
    PROVE  HalfOpenHasOwner'
<1> SUFFICES ASSUME NEW e \in Endpoints PROVE Owned(e)'
  BY DEF HalfOpenHasOwner, Owned
<1>1. CASE e = c
  BY <1>1, OwnedEnds DEF Reported, TypeOK
<1>2. CASE e # c
  <2>1. Owned(e) /\ probers[e] \subseteq Requests
    BY DEF HalfOpenHasOwner, Owned, TypeOK
  <2>2. breaker'[e] = breaker[e] /\ probers'[e] = probers[e] /\ (e \in lost' <=> e \in lost)
    BY <1>2 DEF Reported, TypeOK
  <2>3. \A r \in probers[e] : pc'[r] = pc[r] /\ candidate'[r] = candidate[r]
    BY <1>2, <2>1 DEF Owned
  <2> QED
    BY <2>1, <2>2, <2>3, OwnedKept
<1> QED
  BY <1>1, <1>2

\* A permit: the first request past an opened breaker becomes its probe.
LEMMA PermitOwns ==
    ASSUME TypeOK, BreakerConsistent, HalfOpenHasOwner, NEW r \in Requests, NEW place \in Admitted,
           pc[r] \notin Admitted, Allows(breaker[candidate[r]]), Admit(r, place), UNCHANGED candidate
    PROVE  HalfOpenHasOwner'
<1> DEFINE c == candidate[r]
<1> SUFFICES ASSUME NEW e \in Endpoints PROVE Owned(e)'
  BY DEF HalfOpenHasOwner, Owned
<1>1. c \in Endpoints /\ breaker[c] \in Breakers /\ Consistent(breaker[c])
  BY DEF TypeOK, BreakerConsistent
<1>2. Owned(e) /\ Owned(c) /\ probers[e] \subseteq Requests
  BY <1>1 DEF HalfOpenHasOwner, Owned, TypeOK
<1>3. \A s \in Requests : pc[s] \in Admitted => pc'[s] \in Admitted /\ candidate'[s] = candidate[s]
  BY DEF Admit, TypeOK
<1>4. UNCHANGED lost
  BY DEF Admit
<1>5. CASE e # c
  <2>1. breaker'[e] = breaker[e] /\ probers'[e] = probers[e]
    BY <1>1, <1>5 DEF Admit, TypeOK
  <2> QED
    BY <1>2, <1>3, <1>4, <2>1, OwnedKept
<1>6. CASE e = c /\ breaker[c].openUntil = "zero"
  <2>1. breaker'[e] = breaker[e] /\ probers'[e] = probers[e]
    BY <1>1, <1>6 DEF Admit, AfterAllow, TypeOK
  <2> QED
    BY <1>2, <1>3, <1>4, <2>1, OwnedKept
<1>7. CASE e = c /\ breaker[c].openUntil # "zero"
  <2>1. ~breaker[c].halfOpen /\ probers[c] = {} /\ c \notin lost
    BY <1>1, <1>2, PermitOpens DEF Owned
  <2>2. probers'[c] = {r} /\ c \notin lost'
    BY <1>1, <1>4, <1>7, <2>1 DEF Admit, TypeOK
  <2>3. breaker'[c].halfOpen
    BY <1>1, <1>7 DEF Admit, AfterAllow, TypeOK, Breakers
  <2>4. pc'[r] \in Admitted /\ candidate'[r] = c
    BY DEF Admit, TypeOK
  <2> QED
    BY <1>7, <2>2, <2>3, <2>4 DEF Owned
<1> QED
  BY <1>5, <1>6, <1>7

\* The probe of an endpoint is given up: its permit is lost, and the others keep theirs.
LEMMA GiveUpOwned ==
    ASSUME TypeOK, HalfOpenHasOwner, NEW r \in Requests, GiveUp(r)
    PROVE  HalfOpenHasOwner'
<1> SUFFICES ASSUME NEW e \in Endpoints PROVE Owned(e)'
  BY DEF HalfOpenHasOwner, Owned
<1>1. Owned(e) /\ probers[e] \subseteq Requests
  BY DEF HalfOpenHasOwner, Owned, TypeOK
<1>2. breaker'[e] = breaker[e] /\ probers'[e] = probers[e] \ {r}
  BY DEF GiveUp
<1>3. e \in lost' <=> e \in lost \/ r \in probers[e]
  BY DEF GiveUp
<1>4. CASE r \in probers[e]
  <2>1. probers'[e] = {} /\ e \in lost' /\ breaker'[e].halfOpen
    BY <1>1, <1>2, <1>3, <1>4 DEF Owned
  <2> QED
    BY <2>1 DEF Owned
<1>5. CASE r \notin probers[e]
  <2>1. probers'[e] = probers[e] /\ (e \in lost' <=> e \in lost)
    BY <1>2, <1>3, <1>5
  <2>2. \A s \in probers[e] : pc'[s] = pc[s] /\ candidate'[s] = candidate[s]
    BY <1>1, <1>5 DEF GiveUp, Answer, TypeOK
  <2> QED
    BY <1>1, <1>2, <2>1, <2>2, OwnedKept
<1> QED
  BY <1>4, <1>5

LEMMA StepHalfOpen == IInv /\ [Next]_vars => HalfOpenHasOwner'
<1> SUFFICES ASSUME IInv, [Next]_vars PROVE HalfOpenHasOwner'
  OBVIOUS
<1> USE DEF IInv
<1>1. ASSUME NEW r \in Requests, Arrive(r) PROVE HalfOpenHasOwner'
  BY <1>1, ProbesKept DEF Arrive, Admitted, TypeOK
<1>2. ASSUME NEW r \in Requests, ScanHealthy(r) PROVE HalfOpenHasOwner'
  BY <1>2, ProbesKept DEF ScanHealthy, Answer, Admitted, TypeOK
<1>3. ASSUME NEW r \in Requests, PickNext(r) PROVE HalfOpenHasOwner'
  BY <1>3, ProbesKept DEF PickNext, Admitted, TypeOK
<1>4. ASSUME NEW r \in Requests, PickLoad(r) PROVE HalfOpenHasOwner'
  BY <1>4, ProbesKept DEF PickLoad, PassOver, Admitted, TypeOK
<1>5. ASSUME NEW r \in Requests, EnterPermitted(r) PROVE HalfOpenHasOwner'
  BY <1>5, ProbesKept DEF EnterPermitted, Admitted, TypeOK
<1>6. ASSUME NEW r \in Requests, PickAllow(r) PROVE HalfOpenHasOwner'
  <2>1. CASE Allows(breaker[candidate[r]])
    BY <1>6, <2>1, PermitOwns DEF PickAllow, Admitted
  <2>2. CASE ~Allows(breaker[candidate[r]])
    BY <1>6, <2>2, ProbesKept DEF PickAllow, PassOver, Admitted, TypeOK
  <2> QED
    BY <2>1, <2>2
<1>7. ASSUME NEW r \in Requests, Enter(r) PROVE HalfOpenHasOwner'
  <2>1. CASE Allows(breaker[candidate[r]])
    BY <1>7, <2>1, PermitOwns DEF Enter, EntryPermit, Admitted
  <2>2. CASE ~Allows(breaker[candidate[r]])
    BY <1>7, <2>2, ProbesKept DEF Enter, EntryPermit, Answer, Admitted, TypeOK
  <2> QED
    BY <2>1, <2>2
<1>8. ASSUME NEW r \in Requests, GiveUp(r) PROVE HalfOpenHasOwner'
  BY <1>8, GiveUpOwned
<1>9. ASSUME NEW r \in Requests, Succeed(r) PROVE HalfOpenHasOwner'
  <2>1. ClosedBreaker \in Breakers /\ ~ClosedBreaker.halfOpen
    BY PoolAssumption DEF ClosedBreaker, Breakers
  <2>2. \A s \in Requests : s # r => pc'[s] = pc[s] /\ candidate'[s] = candidate[s]
    BY <1>9 DEF Succeed, Answer, TypeOK
  <2>3. candidate[r] \in Endpoints /\ breaker' = [breaker EXCEPT ![candidate[r]] = ClosedBreaker]
    BY <1>9 DEF Succeed, AfterSuccess, TypeOK
  <2> QED
    BY <1>9, <2>1, <2>2, <2>3, ReportEnds DEF Succeed
<1>10. ASSUME NEW r \in Requests, NEW failure \in Failures, Fail(r, failure)
       PROVE  HalfOpenHasOwner'
  <2> DEFINE c == candidate[r]
             b == AfterFailure(breaker[c])
  <2>1. c \in Endpoints /\ breaker[c] \in Breakers /\ Consistent(breaker[c])
    BY <1>10 DEF TypeOK, BreakerConsistent
  <2>2. b \in Breakers /\ breaker' = [breaker EXCEPT ![c] = b]
    BY <1>10, <2>1, BreakerSteps DEF Fail
  <2>3. ~b.halfOpen
    <3>1. (breaker[c].halfOpen => ~b.halfOpen) /\ (b.halfOpen => breaker[c].halfOpen)
      BY <2>1, ReportResolves
    <3> QED
      BY <3>1
  <2>4. \A s \in Requests : s # r => pc'[s] = pc[s] /\ candidate'[s] = candidate[s]
    BY <1>10 DEF Fail, Answer, TypeOK
  <2>5. Reported(c)
    BY <1>10 DEF Fail
  <2> QED
    BY <2>1, <2>2, <2>3, <2>4, <2>5, ReportEnds
<1>11. ASSUME NEW e \in Endpoints, CooldownElapses(e) PROVE HalfOpenHasOwner'
  <2>1. breaker[e] \in Breakers /\ Consistent(breaker[e])
    BY <1>11 DEF TypeOK, BreakerConsistent
  <2>2. \A d \in Endpoints : breaker'[d].halfOpen <=> breaker[d].halfOpen
    BY <1>11, <2>1 DEF CooldownElapses, TypeOK, Breakers, Consistent
  <2>3. UNCHANGED <<probers, lost, pc, candidate>>
    BY <1>11 DEF CooldownElapses, probeVars, reqVars
  <2> QED
    BY <2>2, <2>3 DEF HalfOpenHasOwner
<1>12. ASSUME ResetBreaker PROVE HalfOpenHasOwner'
  <2>1. ClosedBreaker \in Breakers /\ ~ClosedBreaker.halfOpen
    BY PoolAssumption DEF ClosedBreaker, Breakers
  <2>2. target \in Endpoints /\ breaker' = [breaker EXCEPT ![target] = ClosedBreaker]
    BY <1>12 DEF ResetBreaker, AfterSuccess, TypeOK
  <2>3. Reported(target) /\ UNCHANGED <<pc, candidate>>
    BY <1>12 DEF ResetBreaker, reqVars
  <2> QED
    BY <2>1, <2>2, <2>3, ReportEnds
<1>13. ASSUME \/ \E v \in Verdicts : CheckAnswer(v)
              \/ StoreResult \/ Tick \/ ExitLoop \/ Stop \/ UNCHANGED vars
       PROVE  HalfOpenHasOwner'
  <2>1. UNCHANGED <<breaker, probeVars, reqVars>>
    BY <1>13 DEF CheckAnswer, StoreResult, Tick, ExitLoop, Stop, vars
  <2> QED
    BY <2>1, ProbesKept DEF reqVars
<1> QED
  BY <1>1, <1>2, <1>3, <1>4, <1>5, <1>6, <1>7, <1>8, <1>9, <1>10, <1>11, <1>12, <1>13
     DEF Next, Handle, CheckHealth

LEMMA StepIInv == IInv /\ [Next]_vars => IInv'
  BY StepSafe, StepRetryBound, StepHalfOpen DEF IInv, Safe

\* A breaker is half open exactly while one probe has been let in and nobody has reported
\* since: the probe is on its way, or it was given up unsent.
THEOREM HalfOpenOwned == Spec => []HalfOpenHasOwner
<1>1. IInv => HalfOpenHasOwner
  BY DEF IInv
<1> QED
  BY <1>1, InitIInv, StepIInv, PTL DEF Spec

\* No request is sent again more often than configured, nor one that must not be.
THEOREM RetriesBounded == Spec => []RetryBound
<1>1. IInv => RetryBound
  BY DEF IInv
<1> QED
  BY <1>1, InitIInv, StepIInv, PTL DEF Spec

LEMMA StepAdmission == IInv /\ [Next]_vars => [OnlyPastReadyBreaker]_vars
<1> SUFFICES ASSUME IInv, [Next]_vars, NEW r \in Requests, LetIn(r)
             PROVE  /\ breaker[candidate'[r]].openUntil # "future"
                    /\ probers[candidate'[r]] = {} /\ candidate'[r] \notin lost
  BY DEF OnlyPastReadyBreaker
<1> USE DEF IInv
<1> DEFINE c == candidate[r]
<1>1. c \in Endpoints /\ breaker[c] \in Breakers /\ Consistent(breaker[c])
  BY DEF TypeOK, BreakerConsistent
\* A step that lets r in is a step of r's, in pick or at the entry of RoundTrip.
<1>2. PickAllow(r) \/ Enter(r)
  <2>1. ASSUME NEW s \in Requests, Handle(s) PROVE PickAllow(r) \/ Enter(r)
    <3>1. pc'[r] # pc[r] => s = r
      BY <2>1 DEF Handle, ScanHealthy, PickNext, PickLoad, PickAllow, EnterPermitted, Enter, GiveUp,
                  Succeed, Fail, Answer, PassOver, Admit, TypeOK
    <3>2. s = r
      BY <3>1 DEF LetIn
    <3>3. ~(ScanHealthy(r) \/ PickNext(r) \/ PickLoad(r))
      BY DEF LetIn, Admitted, ScanHealthy, PickNext, PickLoad, Answer, PassOver, TypeOK
    <3>4. ~(Succeed(r) \/ \E failure \in Failures : Fail(r, failure))
      BY DEF LetIn, Admitted, Succeed, Fail
    <3>5. ~(EnterPermitted(r) \/ GiveUp(r))
      BY DEF LetIn, Admitted, EnterPermitted, GiveUp, Answer, TypeOK
    <3> QED
      BY <2>1, <3>2, <3>3, <3>4, <3>5 DEF Handle
  <2>2. ASSUME NEW s \in Requests, Arrive(s) PROVE FALSE
    BY <2>2 DEF LetIn, Admitted, Arrive, TypeOK
  <2>3. ASSUME \/ \E e \in Endpoints : CooldownElapses(e)
               \/ CheckHealth \/ Tick \/ ExitLoop \/ Stop \/ UNCHANGED vars
        PROVE  FALSE
    <3>1. UNCHANGED reqVars
      BY <2>3 DEF CooldownElapses, CheckHealth, CheckAnswer, StoreResult, ResetBreaker,
                  Tick, ExitLoop, Stop, vars
    <3> QED
      BY <3>1 DEF reqVars, LetIn
  <2> QED
    BY <2>1, <2>2, <2>3 DEF Next
<1>3. candidate'[r] = c /\ Allows(breaker[c])
  <2>1. CASE PickAllow(r)
    BY <2>1 DEF PickAllow, LetIn, Admitted, PassOver, TypeOK
  <2>2. CASE Enter(r)
    BY <2>2 DEF Enter, EntryPermit, LetIn, Admitted, Answer, TypeOK
  <2> QED
    BY <1>2, <2>1, <2>2
<1>4. breaker[c].openUntil # "future" /\ ~breaker[c].halfOpen
  BY <1>1, <1>3, PermitOpens
<1>5. probers[c] = {} /\ c \notin lost
  BY <1>1, <1>4 DEF HalfOpenHasOwner
<1> QED
  BY <1>3, <1>4, <1>5

\* Nobody is sent to an endpoint whose breaker cools down, nor past a probe of it that
\* nobody has reported after.
THEOREM AdmissionGuarded == Spec => AdmissionRespectsBreaker
  BY InitIInv, StepIInv, StepAdmission, PTL DEF Spec, AdmissionRespectsBreaker

-----------------------------------------------------------------------------
(* How long a request can take: the argument EveryRequestReturns rests on,      *)
(* without its fairness.                                                        *)

Remaining(r) == EndpointCount - index[r]
Tries(r) == RetryAttempts + 1 - attempt[r]

\* An upper bound of the steps r can still take before it answers: one for each flag
\* that hasHealthyEndpoint has yet to load, three for each candidate of pick, one at the
\* entry of RoundTrip (where the reverse proxy may give up instead), and one for each time the request may still be sent.
StepsLeft(r) ==
    CASE pc[r] = "done"   -> 0
      [] pc[r] = "flight" -> Tries(r)
      [] pc[r] \in {"permitted", "enter"} -> RetryAttempts + 2
      [] pc[r] = "allow"  -> RetryAttempts + 3 * Remaining(r)
      [] pc[r] = "load"   -> RetryAttempts + 3 * Remaining(r) + 1
      [] pc[r] = "pick"   -> RetryAttempts + 3 * Remaining(r) + 2
      [] pc[r] = "scan"   -> RetryAttempts + 3 * EndpointCount + Remaining(r) + 2

\* A busy request has at most so many steps left; only its own steps change that, and each
\* takes some away.
WorkShrinks ==
    \A r \in Requests : pc[r] # "done" =>
        /\ StepsLeft(r) \in 1 .. RetryAttempts + 4 * EndpointCount + 2
        /\ Handle(r) => StepsLeft(r)' < StepsLeft(r)
        /\ ~Handle(r) => StepsLeft(r)' = StepsLeft(r)

\* The bound is positive while r is busy and never exceeds that of a request that has
\* just arrived.
LEMMA WorkBounded ==
    ASSUME IInv, NEW r \in Requests
    PROVE  /\ StepsLeft(r) \in 0 .. RetryAttempts + 4 * EndpointCount + 2
           /\ pc[r] # "done" => StepsLeft(r) \in 1 .. RetryAttempts + 4 * EndpointCount + 2
<1>1. /\ Remaining(r) \in 1 .. EndpointCount /\ Tries(r) \in 1 .. RetryAttempts + 1
      /\ pc[r] \in Places
  BY PoolAssumption DEF IInv, TypeOK, Remaining, Tries, Endpoints
<1> HIDE DEF Remaining, Tries
<1> QED
  BY <1>1, PoolAssumption DEF StepsLeft, Places

\* The parts a handler's step is made of.
LEMMA AnswerShrinks ==
    ASSUME IInv, NEW r \in Requests, NEW outcome, Answer(r, outcome), pc[r] # "done"
    PROVE  StepsLeft(r)' < StepsLeft(r)
<1>1. pc'[r] = "done"
  BY DEF Answer, IInv, TypeOK
<1>2. StepsLeft(r)' = 0
  BY <1>1 DEF StepsLeft
<1>3. StepsLeft(r) \in Nat /\ StepsLeft(r) > 0
  BY WorkBounded, PoolAssumption
<1> QED
  BY <1>2, <1>3

LEMMA PassOverShrinks ==
    ASSUME IInv, NEW r \in Requests, PassOver(r), pc[r] \in {"load", "allow"}
    PROVE  StepsLeft(r)' < StepsLeft(r)
<1>1. index[r] \in Nat /\ index[r] < EndpointCount
  BY PoolAssumption DEF IInv, TypeOK, Endpoints
<1>2. StepsLeft(r) >= RetryAttempts + 3 * (EndpointCount - index[r])
  BY <1>1, PoolAssumption DEF StepsLeft, Remaining
<1>3. StepsLeft(r) \in Nat
  BY WorkBounded, PoolAssumption
<1>4. CASE index[r] + 1 < EndpointCount
  <2>1. pc'[r] = "pick" /\ index'[r] = index[r] + 1
    BY <1>4 DEF PassOver, IInv, TypeOK
  <2>2. StepsLeft(r)' = RetryAttempts + 3 * (EndpointCount - (index[r] + 1)) + 2
    BY <2>1 DEF StepsLeft, Remaining
  <2> QED
    BY <1>1, <1>2, <1>3, <2>2, PoolAssumption
<1>5. CASE ~(index[r] + 1 < EndpointCount)
  <2>1. pc'[r] = "enter"
    BY <1>5 DEF PassOver, IInv, TypeOK
  <2>2. StepsLeft(r)' = RetryAttempts + 2
    BY <2>1 DEF StepsLeft
  <2> QED
    BY <1>1, <1>2, <1>3, <2>2, PoolAssumption
<1> QED
  BY <1>4, <1>5

\* Whoever is let in is on his first try, with all of them ahead of him; pick leaves room
\* for the entry of RoundTrip.
LEMMA AdmitShrinks ==
    ASSUME IInv, NEW r \in Requests, UNCHANGED attempt,
           \/ pc[r] = "allow" /\ Admit(r, "permitted")
           \/ pc[r] = "enter" /\ Admit(r, "flight")
    PROVE  StepsLeft(r)' < StepsLeft(r)
<1>1. index[r] \in Nat /\ index[r] < EndpointCount /\ attempt[r] \in 0 .. RetryAttempts
  BY PoolAssumption DEF IInv, TypeOK, Endpoints
<1>2. CASE pc[r] = "allow" /\ pc'[r] = "permitted"
  <2>1. StepsLeft(r)' = RetryAttempts + 2
    BY <1>2 DEF StepsLeft
  <2>2. StepsLeft(r) = RetryAttempts + 3 * (EndpointCount - index[r])
    BY <1>2 DEF StepsLeft, Remaining
  <2> QED
    BY <1>1, <2>1, <2>2, PoolAssumption
<1>3. CASE pc[r] = "enter" /\ pc'[r] = "flight"
  <2>1. StepsLeft(r)' = RetryAttempts + 1 - attempt[r]
    BY <1>3 DEF StepsLeft, Tries
  <2>2. StepsLeft(r) = RetryAttempts + 2
    BY <1>3 DEF StepsLeft
  <2> QED
    BY <1>1, <2>1, <2>2, PoolAssumption
<1> QED
  BY <1>2, <1>3 DEF Admit, IInv, TypeOK

LEMMA HandleShrinks ==
    ASSUME IInv, NEW r \in Requests, Handle(r)
    PROVE  pc[r] # "done" /\ StepsLeft(r)' < StepsLeft(r)
<1>1. /\ index[r] \in Nat /\ index[r] < EndpointCount
      /\ attempt[r] \in 0 .. RetryAttempts /\ StepsLeft(r) \in Nat
  BY WorkBounded, PoolAssumption DEF IInv, TypeOK, Endpoints
<1>2. CASE ScanHealthy(r)
  <2>1. pc[r] = "scan"
    BY <1>2 DEF ScanHealthy
  <2>2. StepsLeft(r) = RetryAttempts + 3 * EndpointCount + (EndpointCount - index[r]) + 2
    BY <2>1 DEF StepsLeft, Remaining
  <2>3. CASE pc'[r] = "pick" /\ index'[r] = 0
    <3>1. StepsLeft(r)' = RetryAttempts + 3 * (EndpointCount - 0) + 2
      BY <2>3 DEF StepsLeft, Remaining
    <3> QED
      BY <1>1, <2>1, <2>2, <3>1, PoolAssumption
  <2>4. CASE pc'[r] = "scan" /\ index'[r] = index[r] + 1
    <3>1. StepsLeft(r)' = RetryAttempts + 3 * EndpointCount + (EndpointCount - (index[r] + 1)) + 2
      BY <2>4 DEF StepsLeft, Remaining
    <3> QED
      BY <1>1, <2>1, <2>2, <3>1, PoolAssumption
  <2>5. CASE Answer(r, "unavailable")
    BY <2>1, <2>5, AnswerShrinks
  <2> QED
    BY <1>2, <2>1, <2>3, <2>4, <2>5 DEF ScanHealthy, IInv, TypeOK
<1>3. CASE PickNext(r)
  <2>1. pc[r] = "pick" /\ pc'[r] = "load" /\ index'[r] = index[r]
    BY <1>3 DEF PickNext, IInv, TypeOK
  <2>2. StepsLeft(r)' = RetryAttempts + 3 * (EndpointCount - index[r]) + 1
    BY <2>1 DEF StepsLeft, Remaining
  <2>3. StepsLeft(r) = RetryAttempts + 3 * (EndpointCount - index[r]) + 2
    BY <2>1 DEF StepsLeft, Remaining
  <2> QED
    BY <1>1, <2>1, <2>2, <2>3, PoolAssumption
<1>4. CASE PickLoad(r)
  <2>1. pc[r] = "load"
    BY <1>4 DEF PickLoad
  <2>2. CASE healthy[candidate[r]]
    <3>1. pc'[r] = "allow" /\ index'[r] = index[r]
      BY <1>4, <2>2 DEF PickLoad, IInv, TypeOK
    <3>2. StepsLeft(r)' = RetryAttempts + 3 * (EndpointCount - index[r])
      BY <3>1 DEF StepsLeft, Remaining
    <3>3. StepsLeft(r) = RetryAttempts + 3 * (EndpointCount - index[r]) + 1
      BY <2>1 DEF StepsLeft, Remaining
    <3> QED
      BY <1>1, <2>1, <3>2, <3>3, PoolAssumption
  <2>3. CASE ~healthy[candidate[r]]
    BY <1>4, <2>1, <2>3, PassOverShrinks DEF PickLoad
  <2> QED
    BY <2>2, <2>3
<1>5. CASE PickAllow(r)
  BY <1>5, AdmitShrinks, PassOverShrinks DEF PickAllow
<1>6. CASE Enter(r)
  BY <1>6, AdmitShrinks, AnswerShrinks DEF Enter
<1>7. CASE Succeed(r)
  BY <1>7, AnswerShrinks DEF Succeed
<1>8. ASSUME NEW failure \in Failures, Fail(r, failure)
      PROVE  pc[r] # "done" /\ StepsLeft(r)' < StepsLeft(r)
  <2>1. pc[r] = "flight"
    BY <1>8 DEF Fail
  <2>2. CASE \E outcome : Answer(r, outcome)
    BY <2>1, <2>2, AnswerShrinks
  <2>3. CASE pc' = pc /\ attempt' = [attempt EXCEPT ![r] = NextAttempt(@)]
    <3>1. pc'[r] = "flight" /\ attempt'[r] = attempt[r] + 1
      BY <2>1, <2>3 DEF NextAttempt, IInv, TypeOK
    <3>2. StepsLeft(r)' = RetryAttempts + 1 - (attempt[r] + 1)
      BY <3>1 DEF StepsLeft, Tries
    <3>3. StepsLeft(r) = RetryAttempts + 1 - attempt[r]
      BY <2>1 DEF StepsLeft, Tries
    <3> QED
      BY <1>1, <2>1, <3>2, <3>3, PoolAssumption
  <2> QED
    BY <1>8, <2>2, <2>3 DEF Fail
<1>9. CASE EnterPermitted(r)
  <2>1. pc[r] = "permitted" /\ pc'[r] = "flight" /\ attempt'[r] = attempt[r]
    BY <1>9 DEF EnterPermitted, IInv, TypeOK
  <2>2. StepsLeft(r)' = RetryAttempts + 1 - attempt[r]
    BY <2>1 DEF StepsLeft, Tries
  <2>3. StepsLeft(r) = RetryAttempts + 2
    BY <2>1 DEF StepsLeft
  <2> QED
    BY <1>1, <2>1, <2>2, <2>3, PoolAssumption
<1>10. CASE GiveUp(r)
  BY <1>10, AnswerShrinks DEF GiveUp
<1> QED
  BY <1>2, <1>3, <1>4, <1>5, <1>6, <1>7, <1>8, <1>9, <1>10 DEF Handle

\* Steps of other handlers, of the clock and of the health loop take nothing from r and
\* add nothing to it.
LEMMA OthersLeave ==
    ASSUME IInv, [Next]_vars, NEW r \in Requests, pc[r] # "done", ~Handle(r)
    PROVE  StepsLeft(r)' = StepsLeft(r)
<1>1. pc'[r] = pc[r] /\ index'[r] = index[r] /\ attempt'[r] = attempt[r]
  <2>1. ASSUME NEW s \in Requests, Handle(s)
        PROVE  pc'[r] = pc[r] /\ index'[r] = index[r] /\ attempt'[r] = attempt[r]
    <3>1. s # r
      BY <2>1
    <3> QED
      BY <2>1, <3>1 DEF Handle, ScanHealthy, PickNext, PickLoad, PickAllow, EnterPermitted, Enter,
                        GiveUp, Succeed, Fail, Answer, PassOver, Admit, IInv, TypeOK
  <2>2. ASSUME NEW s \in Requests, Arrive(s)
        PROVE  pc'[r] = pc[r] /\ index'[r] = index[r] /\ attempt'[r] = attempt[r]
    BY <2>2 DEF Arrive, IInv, TypeOK
  <2>3. ASSUME \/ \E e \in Endpoints : CooldownElapses(e)
               \/ CheckHealth \/ Tick \/ ExitLoop \/ Stop \/ UNCHANGED vars
        PROVE  UNCHANGED reqVars
    BY <2>3 DEF CooldownElapses, CheckHealth, CheckAnswer, StoreResult, ResetBreaker,
                Tick, ExitLoop, Stop, vars
  <2> QED
    BY <2>1, <2>2, <2>3 DEF Next, reqVars
<1> QED
  BY <1>1 DEF StepsLeft, Remaining, Tries

\* Whatever endpoints answer and whatever the others do, a request takes at most as many
\* steps as its pool has flags, candidates and tries: none of its loops goes on for ever,
\* and nobody else can make it start over.
THEOREM RequestsAreFinite == Spec => [][WorkShrinks]_vars
<1>1. IInv /\ [Next]_vars => [WorkShrinks]_vars
  BY HandleShrinks, OthersLeave, WorkBounded DEF WorkShrinks
<1> QED
  BY <1>1, InitIInv, StepIInv, PTL DEF Spec
=============================================================================
