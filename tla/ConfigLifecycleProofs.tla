------------------------- MODULE ConfigLifecycleProofs -------------------------
(* Proofs about ConfigLifecycle, for every set of clients and configurations and  *)
(* without the bound on versions.                                                 *)
EXTENDS ConfigLifecycle, SequenceTheorems, TLAPS

-----------------------------------------------------------------------------
(* The inductive invariant.                                                       *)

\* c is in the critical section; the data plane is ahead of the control plane.
Holding(c) == pc[c] \in {"activate", "record", "publish"}
Ahead(c)   == pc[c] \in {"record", "publish"}

\* The mutex is held by the one handler that is in the critical section, and what
\* that handler checked when it got the mutex stays true until it is released.
LockInv ==
    \A c \in Clients :
        /\ Holding(c) <=> mu = c
        /\ Holding(c) => VersionMatches(c) /\ HasTarget(c)

\* The control plane holds the version it counts and the one before.
LogInv ==
    /\ Len(log) >= version + 1
    /\ log[version + 1] = cpConfig
    /\ cpPrevious = IF version = 0 THEN NoConfig ELSE log[version]

\* The data plane and the manager hold the last configuration activated, except
\* that they run ahead one after the other while a write goes through.
CopyInv ==
    /\ (\A c \in Clients : ~Ahead(c)) =>
           Len(log) = version + 1 /\ dpConfig = cpConfig /\ mgrConfig = cpConfig
    /\ \A c \in Clients : Ahead(c) =>
           /\ Len(log) = version + 2 /\ log[version + 2] = dpConfig
           /\ dpConfig = Clone(Candidate(c))
           /\ mgrConfig = IF pc[c] = "record" THEN cpConfig ELSE dpConfig

\* What is active, or was, has the settings of the start and compiles.
Fit(d) == SameRestart(d, Clone(Initial)) /\ Compiles(d)
FitInv == \A d \in {cpConfig, mgrConfig, dpConfig, cpPrevious} \ {NoConfig} : Fit(d)

\* The version a won write named is used up.
WinnerInv ==
    \A c \in Clients : pc[c] = "respond" => ifMatch[c] \in Nat /\ ifMatch[c] < version

IInv ==
    /\ TypeOK /\ LockInv /\ LogInv /\ CopyInv /\ FitInv /\ WinnerInv
    /\ RollbackAlwaysActivates /\ OneWinnerPerVersion

-----------------------------------------------------------------------------
(* Configurations.                                                                *)

LEMMA CloneFacts ==
    ASSUME NEW d \in Configs
    PROVE  /\ Clone(d) \in Activated
           /\ d \in Activated => Clone(d) = d
           /\ Compiles(Clone(d)) <=> Compiles(d)
  BY DEF Configs, Activated, Clone, Compiles, Valid

\* What agrees with an activated configuration in the settings that need a restart
\* is a clone already, as far as these go.
LEMMA SameRestartFacts ==
    ASSUME NEW d \in Configs, NEW e \in Activated, SameRestart(e, d)
    PROVE  /\ SameRestart(Clone(d), Clone(Initial)) <=> SameRestart(e, Clone(Initial))
  BY DEF Configs, Activated, Clone, SameRestart

LEMMA InitialFit == Clone(Initial) \in Activated /\ Fit(Clone(Initial))
  BY ConfigAssumption, CloneFacts DEF Fit, SameRestart

LEMMA ActivatedFacts == Activated \subseteq Configs /\ NoConfig \notin Activated
  BY ConfigAssumption DEF Activated

\* The log after one more activation.
LEMMA LogAppend ==
    ASSUME log \in Seq(Activated), NEW d \in Activated, log' = Append(log, d)
    PROVE  /\ log' \in Seq(Activated) /\ Len(log') = Len(log) + 1
           /\ log'[Len(log) + 1] = d
           /\ \A i \in 1 .. Len(log) : log'[i] = log[i]
  BY AppendProperties

-----------------------------------------------------------------------------
LEMMA InitIInv == Init => IInv
<1> SUFFICES ASSUME Init PROVE IInv
  OBVIOUS
<1> DEFINE d == Clone(Initial)
<1>1. d \in Activated /\ d \in Configs /\ Fit(d)
  BY InitialFit, ActivatedFacts
<1>2. <<d>> \in Seq(Activated) /\ Len(<<d>>) = 1 /\ <<d>>[1] = d
  BY <1>1
<1>3. TypeOK
  BY <1>1, <1>2 DEF Init, TypeOK, Answers
<1>4. LockInv /\ WinnerInv /\ RollbackAlwaysActivates /\ OneWinnerPerVersion
  BY ConfigAssumption
     DEF Init, LockInv, Holding, WinnerInv, RollbackAlwaysActivates, OneWinnerPerVersion, Won
<1>5. LogInv
  BY <1>2 DEF Init, LogInv
<1>6. CopyInv
  BY <1>2 DEF Init, CopyInv, Ahead
<1>7. FitInv
  BY <1>1 DEF Init, FitInv
<1> QED
  BY <1>3, <1>4, <1>5, <1>6, <1>7 DEF IInv

-----------------------------------------------------------------------------
(* Steps that touch neither the configurations nor the mutex.                     *)

Copies == <<cpVars, mgrConfig, dpConfig, log>>

\* A client that is not in the critical section does something outside of it.
LEMMA OutsideStep ==
    ASSUME IInv, TypeOK', UNCHANGED <<Copies, mu>>, NEW c \in Clients, ~Holding(c), ~Holding(c)',
           \A d \in Clients \ {c} : /\ pc'[d] = pc[d] /\ op'[d] = op[d] /\ body'[d] = body[d]
                                    /\ ifMatch'[d] = ifMatch[d] /\ result'[d] = result[d],
           pc'[c] # "respond",
           op'[c] = "rollback" => result'[c] \notin {"restartOnly", "uncompilable"}
    PROVE  IInv'
<1> USE DEF Copies, cpVars
<1>1. LockInv'
  BY DEF IInv, LockInv, Holding, VersionMatches, HasTarget
<1>2. LogInv' /\ FitInv'
  BY DEF IInv, LogInv, FitInv
<1>3. \A d \in Clients : /\ Ahead(d)' <=> Ahead(d)
                         /\ Ahead(d) => pc'[d] = pc[d] /\ Candidate(d)' = Candidate(d)
  BY DEF Holding, Ahead, Candidate
<1>4. CopyInv'
  BY <1>3 DEF IInv, CopyInv
<1>5. WinnerInv'
  BY DEF IInv, WinnerInv
<1>6. RollbackAlwaysActivates'
  BY DEF IInv, RollbackAlwaysActivates
<1>7. OneWinnerPerVersion'
  BY DEF IInv, OneWinnerPerVersion, Won, Holding
<1> QED
  BY <1>1, <1>2, <1>4, <1>5, <1>6, <1>7 DEF IInv

\* A candidate that is handed to Activate is a configuration.
LEMMA CandidateTyped ==
    ASSUME IInv, NEW c \in Clients, Holding(c)
    PROVE  /\ Candidate(c) \in Configs /\ Clone(Candidate(c)) \in Activated
           /\ op[c] = "rollback" => Candidate(c) = cpPrevious /\ cpPrevious \in Activated
                                     /\ version # 0 /\ Candidate(c) = log[version]
<1>1. VersionMatches(c) /\ HasTarget(c)
  BY DEF IInv, LockInv
<1>2. CASE op[c] = "put"
  BY <1>2, CloneFacts DEF IInv, TypeOK, Candidate
<1>3. CASE op[c] = "rollback"
  BY <1>1, <1>3, CloneFacts, ActivatedFacts DEF IInv, TypeOK, LogInv, Candidate, HasTarget
<1> QED
  BY <1>2, <1>3 DEF IInv, TypeOK

\* Only one handler is in the critical section.
LEMMA OneHolder ==
    ASSUME IInv, NEW c \in Clients, Holding(c)
    PROVE  \A d \in Clients \ {c} : ~Holding(d)
  BY DEF IInv, LockInv

-----------------------------------------------------------------------------
(* One lemma for each step that touches them.                                     *)

LEMMA AcceptStep == ASSUME IInv, NEW c \in Clients, Accept(c) PROVE IInv'
<1> USE DEF Accept, cpVars, clientVars
<1>1. TypeOK'
  BY DEF IInv, TypeOK
<1>2. LockInv'
  BY ConfigAssumption DEF IInv, TypeOK, LockInv, Holding, VersionMatches, HasTarget
<1>3. LogInv' /\ FitInv'
  BY DEF IInv, LogInv, FitInv
<1>4. \A d \in Clients : /\ Ahead(d)' <=> Ahead(d)
                         /\ Ahead(d) => pc'[d] = pc[d] /\ Candidate(d)' = Candidate(d)
  BY DEF IInv, TypeOK, Ahead, Candidate
<1>5. CopyInv'
  BY <1>4 DEF IInv, CopyInv
<1>6. WinnerInv' /\ RollbackAlwaysActivates'
  BY DEF IInv, TypeOK, WinnerInv, RollbackAlwaysActivates
<1>7. OneWinnerPerVersion'
  BY DEF IInv, TypeOK, OneWinnerPerVersion, Won
<1> QED
  BY <1>1, <1>2, <1>3, <1>5, <1>6, <1>7 DEF IInv

LEMMA SwapStep == ASSUME IInv, NEW c \in Clients, Swap(c) PROVE IInv'
<1> USE DEF Swap, cpVars, clientVars
<1> DEFINE d == Clone(Candidate(c))
<1>1. Holding(c) /\ mu = c /\ VersionMatches(c) /\ HasTarget(c)
  BY DEF Holding, IInv, LockInv
<1>2. Candidate(c) \in Configs /\ d \in Activated
  BY <1>1, CandidateTyped
<1>3. \A e \in Clients : ~Ahead(e)
  BY <1>1, OneHolder DEF Ahead, Holding
<1>4. Len(log) = version + 1 /\ dpConfig = cpConfig /\ mgrConfig = cpConfig /\ version \in Nat
  BY <1>3 DEF IInv, CopyInv, TypeOK
<1>5. /\ log' \in Seq(Activated) /\ Len(log') = Len(log) + 1 /\ log'[Len(log) + 1] = d
      /\ \A i \in 1 .. Len(log) : log'[i] = log[i]
  BY <1>2, LogAppend DEF IInv, TypeOK
<1>6. TypeOK'
  BY <1>2, <1>5 DEF IInv, TypeOK
<1>7. \A e \in Clients : /\ Holding(e)' <=> Holding(e)
                         /\ Ahead(e)' <=> e = c
                         /\ Candidate(e)' = Candidate(e)
  BY <1>1, <1>3 DEF IInv, TypeOK, Holding, Ahead, Candidate
<1>8. LockInv'
  BY <1>7 DEF IInv, LockInv, VersionMatches, HasTarget
<1>9. LogInv'
  BY <1>4, <1>5 DEF IInv, LogInv
<1>10. CopyInv'
  BY <1>4, <1>5, <1>7 DEF IInv, TypeOK, CopyInv
<1>11. Fit(d)
  <2>1. SameRestart(mgrConfig, Candidate(c)) /\ Compiles(Candidate(c))
    BY DEF NeedsRestart
  <2>2. mgrConfig \in Activated /\ Fit(mgrConfig)
    BY ActivatedFacts DEF IInv, TypeOK, FitInv
  <2> QED
    BY <1>2, <2>1, <2>2, SameRestartFacts, CloneFacts DEF Fit
<1>12. FitInv'
  BY <1>11 DEF IInv, FitInv
<1>13. WinnerInv' /\ RollbackAlwaysActivates'
  BY DEF IInv, TypeOK, WinnerInv, RollbackAlwaysActivates
<1>14. OneWinnerPerVersion'
  <2>1. \A e \in Clients \ {c} : Won(e)' => Won(e) /\ pc[e] = "respond"
    BY <1>3 DEF IInv, TypeOK, Won, Ahead
  <2>2. \A e \in Clients \ {c} : Won(e)' => ifMatch[e] # version
    BY <1>4, <2>1 DEF IInv, WinnerInv
  <2>3. ifMatch[c] = version
    BY <1>1 DEF VersionMatches
  <2> QED
    BY <2>1, <2>2, <2>3 DEF IInv, OneWinnerPerVersion
<1> QED
  BY <1>6, <1>8, <1>9, <1>10, <1>12, <1>13, <1>14 DEF IInv

\* An activation that fails leaves every copy alone.  It is never a rollback's: the
\* target was active once, so it is Fit.
LEMMA ActivationFailsStep == ASSUME IInv, NEW c \in Clients, ActivationFails(c) PROVE IInv'
<1> USE DEF ActivationFails, MuAfterFailure, cpVars, clientVars
<1>1. Holding(c) /\ mu = c
  BY DEF Holding, IInv, LockInv
<1>2. \A e \in Clients \ {c} : ~Holding(e) /\ ~Holding(e)'
  BY <1>1, OneHolder DEF IInv, TypeOK, Holding
<1>3. ~Holding(c)' /\ \A e \in Clients : ~Ahead(e) /\ ~Ahead(e)'
  BY <1>1, <1>2 DEF IInv, TypeOK, Holding, Ahead
<1>4. TypeOK'
  BY DEF IInv, TypeOK, Answers
<1>5. LockInv'
  BY <1>2, <1>3, ConfigAssumption DEF LockInv
<1>6. LogInv' /\ CopyInv' /\ FitInv'
  BY <1>3 DEF IInv, LogInv, CopyInv, FitInv
<1>7. op[c] # "rollback"
  <2> SUFFICES ASSUME op[c] = "rollback" PROVE FALSE
    OBVIOUS
  <2>1. Candidate(c) = cpPrevious /\ cpPrevious \in Activated
    BY <1>1, CandidateTyped
  <2>2. Fit(cpPrevious) /\ Fit(mgrConfig) /\ Fit(dpConfig)
    BY <2>1, ActivatedFacts DEF IInv, TypeOK, FitInv
  <2> QED
    BY <2>1, <2>2 DEF Fit, NeedsRestart, SameRestart
<1>8. WinnerInv' /\ RollbackAlwaysActivates'
  BY <1>7 DEF IInv, TypeOK, WinnerInv, RollbackAlwaysActivates
<1>9. OneWinnerPerVersion'
  BY DEF IInv, TypeOK, OneWinnerPerVersion, Won
<1> QED
  BY <1>4, <1>5, <1>6, <1>8, <1>9 DEF IInv

LEMMA RecordStep == ASSUME IInv, NEW c \in Clients, Record(c) PROVE IInv'
<1> USE DEF Record, Recorded, cpVars, clientVars
<1>1. Holding(c) /\ Ahead(c) /\ mu = c
  BY DEF Holding, Ahead, IInv, LockInv
<1>2. Clone(Candidate(c)) = dpConfig /\ mgrConfig' = dpConfig
  BY <1>1 DEF IInv, CopyInv
<1>3. TypeOK'
  BY <1>2 DEF IInv, TypeOK
<1>4. \A e \in Clients : /\ Holding(e)' <=> Holding(e)
                         /\ Ahead(e)' <=> Ahead(e)
                         /\ Ahead(e) => e = c
                         /\ Candidate(e)' = Candidate(e)
  BY <1>1, OneHolder DEF IInv, TypeOK, Holding, Ahead, Candidate
<1>5. LockInv' /\ LogInv'
  BY <1>4 DEF IInv, LockInv, LogInv, VersionMatches, HasTarget
<1>6. pc'[c] = "publish"
  BY DEF IInv, TypeOK
<1>7. CopyInv'
  BY <1>1, <1>2, <1>4, <1>6 DEF IInv, CopyInv
<1>8. FitInv'
  BY <1>2 DEF IInv, FitInv
<1>9. WinnerInv' /\ RollbackAlwaysActivates'
  BY DEF IInv, TypeOK, WinnerInv, RollbackAlwaysActivates
<1>10. OneWinnerPerVersion'
  BY DEF IInv, TypeOK, OneWinnerPerVersion, Won
<1> QED
  BY <1>3, <1>5, <1>7, <1>8, <1>9, <1>10 DEF IInv

LEMMA PublishStep == ASSUME IInv, NEW c \in Clients, Publish(c) PROVE IInv'
<1> USE DEF Publish, PreviousAfter
<1>1. Holding(c) /\ Ahead(c) /\ mu = c /\ VersionMatches(c)
  BY DEF Holding, Ahead, IInv, LockInv
<1>2. /\ Len(log) = version + 2 /\ log[version + 2] = dpConfig
      /\ cpConfig' = dpConfig /\ mgrConfig = dpConfig
  BY <1>1 DEF IInv, CopyInv
<1>3. version' = version + 1 /\ version \in Nat /\ version' \in Nat /\ ifMatch[c] = version
  BY <1>1 DEF IInv, TypeOK, VersionMatches
<1>4. TypeOK'
  BY <1>2, <1>3 DEF IInv, TypeOK
<1>5. \A e \in Clients : ~Holding(e)' /\ ~Ahead(e)'
  BY <1>1, OneHolder DEF IInv, TypeOK, Holding, Ahead
<1>6. LockInv'
  BY <1>5, ConfigAssumption DEF LockInv
<1>7. LogInv'
  BY <1>2, <1>3 DEF IInv, LogInv
<1>8. CopyInv'
  BY <1>2, <1>3, <1>5 DEF CopyInv
<1>9. FitInv'
  BY <1>2 DEF IInv, FitInv
<1>10. WinnerInv'
  BY <1>3 DEF IInv, TypeOK, WinnerInv
<1>11. RollbackAlwaysActivates' /\ OneWinnerPerVersion'
  BY DEF IInv, TypeOK, RollbackAlwaysActivates, OneWinnerPerVersion, Won
<1> QED
  BY <1>4, <1>6, <1>7, <1>8, <1>9, <1>10, <1>11 DEF IInv

-----------------------------------------------------------------------------
LEMMA DecodedTyped ==
    ASSUME NEW hot \in HotSettings, NEW restart \in Restarts, NEW lists \in Lists
    PROVE  Decoded(hot, restart, lists) \in Configs
  BY ConfigAssumption DEF Decoded, Configs

LEMMA StepIInv == IInv /\ [Next]_vars => IInv'
<1> SUFFICES ASSUME IInv, [Next]_vars PROVE IInv'
  OBVIOUS
<1>1. ASSUME NEW c \in Clients, Get(c) PROVE IInv'
  <2>1. TypeOK'
    BY <1>1 DEF Get, cpVars, IInv, TypeOK
  <2> QED
    BY <1>1, <2>1, OutsideStep
       DEF Get, Copies, cpVars, Holding, IInv, TypeOK, RollbackAlwaysActivates
<1>2. ASSUME NEW c \in Clients, NEW candidate \in Configs,
             Put(c, candidate) \/ PutInvalid(c, candidate)
      PROVE  IInv'
  <2>1. CASE Put(c, candidate)
    <3>1. TypeOK'
      BY <2>1 DEF Put, cpVars, IInv, TypeOK, Answers
    <3> QED
      BY <2>1, <3>1, OutsideStep DEF Put, Copies, cpVars, Holding, IInv, TypeOK
  <2>2. CASE PutInvalid(c, candidate)
    <3>1. TypeOK'
      BY <2>2 DEF PutInvalid, cpVars, IInv, TypeOK, Answers
    <3> QED
      BY <2>2, <3>1, OutsideStep DEF PutInvalid, Copies, cpVars, Holding, IInv, TypeOK
  <2> QED
    BY <1>2, <2>1, <2>2
<1>3. ASSUME NEW c \in Clients, Rollback(c) PROVE IInv'
  <2>1. TypeOK'
    BY <1>3 DEF Rollback, cpVars, IInv, TypeOK, Answers
  <2> QED
    BY <1>3, <2>1, OutsideStep DEF Rollback, Copies, cpVars, Holding, IInv, TypeOK
<1>4. ASSUME NEW c \in Clients, Reject(c) PROVE IInv'
  <2>1. TypeOK'
    BY <1>4 DEF Reject, cpVars, clientVars, IInv, TypeOK, Answers
  <2> QED
    BY <1>4, <2>1, OutsideStep DEF Reject, Copies, cpVars, clientVars, Holding, IInv, TypeOK
<1>5. ASSUME NEW c \in Clients, Respond(c) PROVE IInv'
  <2>1. TypeOK'
    BY <1>5 DEF Respond, cpVars, IInv, TypeOK, Answers
  <2> QED
    BY <1>5, <2>1, OutsideStep DEF Respond, Copies, cpVars, Holding, IInv, TypeOK
<1>6. ASSUME SetDraining \/ UNCHANGED vars PROVE IInv'
  <2>1. UNCHANGED <<cpVars, mu, mgrConfig, dpConfig, log, pc, clientVars, result>> /\ TypeOK'
    BY <1>6 DEF SetDraining, vars, cpVars, clientVars, IInv, TypeOK
  <2> QED
    BY <2>1 DEF cpVars, clientVars, IInv, LockInv, LogInv, CopyInv, FitInv, WinnerInv,
                RollbackAlwaysActivates, OneWinnerPerVersion, Holding, Ahead, Won,
                VersionMatches, HasTarget, Candidate
<1> QED
  BY <1>1, <1>2, <1>3, <1>4, <1>5, <1>6, DecodedTyped, AcceptStep, SwapStep,
     ActivationFailsStep, RecordStep, PublishStep
     DEF Next, Submit, Work

LEMMA AlwaysIInv == Spec => []IInv
  BY InitIInv, StepIInv, PTL DEF Spec

\* The variables keep their types, however many versions there are.
THEOREM TypeCorrect == Spec => []TypeOK
<1>1. IInv => TypeOK
  BY DEF IInv
<1> QED
  BY <1>1, AlwaysIInv, PTL

\* Nobody is ahead while the mutex is free.
LEMMA FreeMeansSettled ==
    ASSUME IInv, mu = Free
    PROVE  \A c \in Clients : ~Ahead(c)
  BY ConfigAssumption DEF IInv, LockInv, Holding, Ahead

\* Between writes the control plane, the manager and the data plane hold the same
\* configuration.
THEOREM PlanesAlwaysAgree == Spec => []PlanesAgree
<1>1. IInv => PlanesAgree
  BY FreeMeansSettled DEF IInv, CopyInv, PlanesAgree
<1> QED
  BY <1>1, AlwaysIInv, PTL

\* The rollback target is the configuration of one version ago.
THEOREM PreviousAlwaysLastVersion == Spec => []PreviousIsLastVersion
<1>1. IInv => PreviousIsLastVersion
  BY FreeMeansSettled DEF IInv, CopyInv, LogInv, PreviousIsLastVersion
<1> QED
  BY <1>1, AlwaysIInv, PTL

\* No write and no rollback ever changes a setting that needs a restart.
THEOREM RestartSettingsNeverChange == Spec => []RestartSettingsFixed
<1>1. IInv => RestartSettingsFixed
  BY DEF IInv, FitInv, Fit, RestartSettingsFixed, SameRestart, Clone
<1> QED
  BY <1>1, AlwaysIInv, PTL

\* The activation of a rollback never fails.
THEOREM RollbacksActivate == Spec => []RollbackAlwaysActivates
<1>1. IInv => RollbackAlwaysActivates
  BY DEF IInv
<1> QED
  BY <1>1, AlwaysIInv, PTL

\* Two writes that name the same version are never both activated.
THEOREM OneWinner == Spec => []OneWinnerPerVersion
<1>1. IInv => OneWinnerPerVersion
  BY DEF IInv
<1> QED
  BY <1>1, AlwaysIInv, PTL

\* What a handler checked when it got the mutex, the version of its If-Match header and
\* the target of a rollback, is still true when it publishes, and nobody else is past
\* that check: the mutex is held by this one handler, or by nobody.
THEOREM ChecksStayTrue == Spec => []LockInv
<1>1. IInv => LockInv
  BY DEF IInv
<1> QED
  BY <1>1, AlwaysIInv, PTL

\* How far apart the copies can be: the data plane, which reads no version, serves what
\* was activated last, and that is the version the control plane reports or, while a
\* write holds the mutex, the next one.
AtMostOneAhead ==
    /\ dpConfig = log[Len(log)] /\ cpConfig = log[version + 1]
    /\ Len(log) = version + 1 \/ (Len(log) = version + 2 /\ mu # Free)

THEOREM OneAheadAtMost == Spec => []AtMostOneAhead
<1>1. IInv => AtMostOneAhead
  <2> SUFFICES ASSUME IInv PROVE AtMostOneAhead
    OBVIOUS
  <2>1. cpConfig = log[version + 1] /\ version \in Nat
    BY DEF IInv, LogInv, TypeOK
  <2>2. CASE \A c \in Clients : ~Ahead(c)
    BY <2>1, <2>2 DEF IInv, CopyInv, AtMostOneAhead
  <2>3. ASSUME NEW c \in Clients, Ahead(c) PROVE AtMostOneAhead
    <3>1. mu = c /\ mu # Free
      BY <2>3, ConfigAssumption DEF IInv, LockInv, Holding, Ahead
    <3> QED
      BY <2>1, <2>3, <3>1 DEF IInv, CopyInv, AtMostOneAhead
  <2> QED
    BY <2>2, <2>3
<1> QED
  BY <1>1, AlwaysIInv, PTL

\* A version names one configuration for ever: no activation is taken back or replaced
\* (not by a rollback, which is an activation of its own), versions count up one by one,
\* and what a version, and so its ETag, stands for changes only together with it.
VersionNamesConfig ==
    /\ Len(log') >= Len(log) /\ \A i \in 1 .. Len(log) : log'[i] = log[i]
    /\ version' \in {version, version + 1}
    /\ cpConfig' # cpConfig => version' = version + 1
    /\ log'[version' + 1] = cpConfig'

THEOREM VersionsNameConfigs == Spec => [][VersionNamesConfig]_vars
<1>1. IInv /\ IInv' /\ [Next]_vars => [VersionNamesConfig]_vars
  <2> SUFFICES ASSUME IInv, IInv', [Next]_vars PROVE VersionNamesConfig
    OBVIOUS
  <2>1. /\ log \in Seq(Activated) /\ version \in Nat
        /\ cpConfig' = log'[version' + 1]
    BY DEF IInv, TypeOK, LogInv
  <2>2. ASSUME NEW c \in Clients, Swap(c) PROVE VersionNamesConfig
    <3>1. log' = Append(log, Clone(Candidate(c)))
      BY <2>2 DEF Swap
    <3>2. Clone(Candidate(c)) \in Activated
      <4>1. log' \in Seq(Activated) /\ dpConfig' \in Activated /\ dpConfig' = Clone(Candidate(c))
        BY <2>2 DEF Swap, IInv, TypeOK
      <4> QED
        BY <4>1
    <3>3. Len(log') = Len(log) + 1 /\ \A i \in 1 .. Len(log) : log'[i] = log[i]
      BY <2>1, <3>1, <3>2
    <3>4. Len(log) \in Nat
      BY <2>1
    <3>5. cpConfig' = cpConfig /\ version' = version
      BY <2>2 DEF Swap, cpVars
    <3>6. Len(log') >= Len(log) /\ \A i \in 1 .. Len(log) : log'[i] = log[i]
      BY <3>3, <3>4
    <3>7. log'[version' + 1] = cpConfig'
      BY <2>1
    <3> QED
      BY <3>5, <3>6, <3>7 DEF VersionNamesConfig
  <2>3. ASSUME NEW c \in Clients, Publish(c) PROVE VersionNamesConfig
    BY <2>1, <2>3 DEF Publish, VersionNamesConfig
  <2>4. CASE UNCHANGED <<log, version, cpConfig>>
    BY <2>1, <2>4 DEF VersionNamesConfig
  <2> QED
    BY <2>2, <2>3, <2>4
       DEF Next, Get, Submit, Put, PutInvalid, Rollback, Reject, Accept, Work, ActivationFails,
           Record, Respond, SetDraining, vars, cpVars
<1> QED
  BY <1>1, AlwaysIInv, PTL DEF Spec

-----------------------------------------------------------------------------
(* The refinement of VersionedConfig.                                             *)

\* A request of c that the store has not decided is never NoRequest.
LEMMA PendingFacts ==
    ASSUME NEW c \in Clients
    PROVE  /\ pc[c] \notin {"lock", "activate"} => Pending[c] = NoRequest
           /\ pc[c] \in {"lock", "activate"} =>
                /\ Pending[c] # NoRequest /\ Pending[c].base = ifMatch[c]
                /\ op[c] = "put" => /\ Pending[c].op = "put"
                                    /\ Pending[c].config = Clone(body[c])
                /\ op[c] # "put" => Pending[c].op = "rollback"
  BY DEF Pending, NoRequest

\* Only the request of c may have changed.
LEMMA PendingStep ==
    ASSUME NEW c \in Clients,
           \A d \in Clients \ {c} : /\ pc'[d] = pc[d] /\ op'[d] = op[d]
                                    /\ body'[d] = body[d] /\ ifMatch'[d] = ifMatch[d]
    PROVE  Pending' = [Pending EXCEPT ![c] = Pending'[c]]
  BY DEF Pending

LEMMA PendingUnchanged ==
    ASSUME NEW c \in Clients, Pending'[c] = Pending[c],
           \A d \in Clients \ {c} : /\ pc'[d] = pc[d] /\ op'[d] = op[d]
                                    /\ body'[d] = body[d] /\ ifMatch'[d] = ifMatch[d]
    PROVE  Pending' = Pending
  BY DEF Pending

LEMMA InitPromise == Init => Promise!Init
<1> SUFFICES ASSUME Init PROVE Promise!Init
  OBVIOUS
<1>1. dpConfig \in Activated /\ log = <<dpConfig>>
  BY InitialFit DEF Init
<1>2. Pending = [c \in Clients |-> NoRequest]
  BY DEF Init, Pending
<1> QED
  BY <1>1, <1>2 DEF Promise!Init

LEMMA StepPromise == IInv /\ [Next]_vars => [Promise!Next]_Promise!vars
<1> SUFFICES ASSUME IInv, [Next]_vars PROVE [Promise!Next]_Promise!vars
  OBVIOUS
<1> USE DEF Promise!vars
<1>1. ASSUME NEW c \in Clients, Get(c) PROVE UNCHANGED Promise!vars
  BY <1>1 DEF Get, Pending
<1>2. ASSUME NEW c \in Clients, NEW candidate \in Configs, Put(c, candidate)
      PROVE  [Promise!Next]_Promise!vars
  <2>1. /\ pc'[c] = "lock" /\ op'[c] = "put" /\ body'[c] = candidate
        /\ ifMatch'[c] \in Nat \cup {NoVersion}
    BY <1>2 DEF Put, IInv, TypeOK
  <2>2. Pending'[c] = [op |-> "put", config |-> Clone(candidate), base |-> ifMatch'[c]]
    BY <2>1 DEF Pending
  <2>3. Pending'[c] \in Promise!Writes
    BY <2>1, <2>2, CloneFacts DEF Promise!Writes
  <2>4. Pending' = [Pending EXCEPT ![c] = Pending'[c]]
    BY <1>2, PendingStep DEF Put, IInv, TypeOK
  <2>5. Pending[c] = NoRequest /\ UNCHANGED <<log, dpConfig>>
    BY <1>2, PendingFacts DEF Put
  <2>6. Promise!Submit(c)
    BY <2>3, <2>4, <2>5 DEF Promise!Submit
  <2> QED
    BY <2>6 DEF Promise!Next
<1>10. ASSUME NEW c \in Clients, NEW candidate \in Configs, PutInvalid(c, candidate)
       PROVE  UNCHANGED Promise!vars
  <2>1. Pending'[c] = Pending[c]
    BY <1>10 DEF PutInvalid, Pending
  <2> QED
    BY <1>10, <2>1, PendingUnchanged DEF PutInvalid, IInv, TypeOK
<1>3. ASSUME NEW c \in Clients, Rollback(c) PROVE [Promise!Next]_Promise!vars
  <2>1. /\ pc'[c] = "lock" /\ op'[c] = "rollback" /\ ifMatch'[c] \in Nat \cup {NoVersion}
        /\ UNCHANGED <<log, dpConfig>>
    BY <1>3 DEF Rollback, IInv, TypeOK
  <2>2. Pending' = [Pending EXCEPT ![c] = Pending'[c]]
    BY <1>3, PendingStep DEF Rollback, IInv, TypeOK
  <2>3. Pending'[c] = [op |-> "rollback", base |-> ifMatch'[c]]
    BY <2>1 DEF Pending
  <2>4. Pending'[c] \in Promise!Undos
    BY <2>1, <2>3 DEF Promise!Undos
  <2>5. Pending[c] = NoRequest
    BY <1>3, PendingFacts DEF Rollback
  <2>6. Promise!Submit(c)
    BY <2>1, <2>2, <2>4, <2>5 DEF Promise!Submit
  <2> QED
    BY <2>6 DEF Promise!Next
\* A request that is rejected, or whose activation fails, is refused.
<1>4. ASSUME NEW c \in Clients, pc[c] \in {"lock", "activate"}, pc' = [pc EXCEPT ![c] = "idle"],
             UNCHANGED <<log, dpConfig, op, body, ifMatch>>
      PROVE  [Promise!Next]_Promise!vars
  <2>1. Pending[c] # NoRequest
    BY <1>4, PendingFacts
  <2>2. Pending'[c] = NoRequest
    BY <1>4 DEF Pending, IInv, TypeOK
  <2>3. Pending' = [Pending EXCEPT ![c] = NoRequest]
    BY <1>4, <2>2, PendingStep DEF IInv, TypeOK
  <2>4. Promise!Refuse(c)
    BY <1>4, <2>1, <2>3 DEF Promise!Refuse
  <2> QED
    BY <2>4 DEF Promise!Next
<1>5. ASSUME NEW c \in Clients, Reject(c) \/ ActivationFails(c) PROVE [Promise!Next]_Promise!vars
  BY <1>4, <1>5 DEF Reject, ActivationFails, clientVars
<1>6. ASSUME NEW c \in Clients, Accept(c) PROVE UNCHANGED Promise!vars
  <2>1. Pending'[c] = Pending[c]
    BY <1>6 DEF Accept, clientVars, Pending, IInv, TypeOK
  <2> QED
    BY <1>6, <2>1, PendingUnchanged DEF Accept, clientVars, IInv, TypeOK
<1>7. ASSUME NEW c \in Clients, Swap(c) PROVE [Promise!Next]_Promise!vars
  <2> DEFINE d == Clone(Candidate(c))
  <2>1. Holding(c) /\ VersionMatches(c)
    BY <1>7 DEF Swap, Holding, IInv, LockInv
  <2>2. Len(log) = version + 1 /\ version \in Nat
    <3>1. \A e \in Clients : ~Ahead(e)
      BY <1>7, <2>1, OneHolder DEF Swap, Ahead, Holding
    <3> QED
      BY <3>1 DEF IInv, CopyInv, TypeOK
  <2>3. Pending[c] # NoRequest /\ Pending[c].base = Len(log) - 1
    BY <1>7, <2>1, <2>2, PendingFacts DEF Swap, VersionMatches
  <2>4. Pending' = [Pending EXCEPT ![c] = NoRequest]
    <3>1. Pending'[c] = NoRequest
      BY <1>7 DEF Swap, clientVars, Pending, IInv, TypeOK
    <3> QED
      BY <1>7, <3>1, PendingStep DEF Swap, clientVars, IInv, TypeOK
  <2>5. Promise!Serve(d)
    BY <1>7 DEF Swap, Promise!Serve
  <2>6. CASE op[c] = "put"
    <3>1. Pending[c].op = "put" /\ Pending[c].config = d
      BY <1>7, <2>6, PendingFacts DEF Swap, Candidate
    <3>2. Promise!Apply(c)
      BY <2>3, <2>4, <2>5, <3>1 DEF Promise!Apply
    <3> QED
      BY <3>2 DEF Promise!Next
  <2>7. CASE op[c] = "rollback"
    <3>1. Pending[c].op = "rollback"
      BY <1>7, <2>7, PendingFacts DEF Swap
    <3>2. d = log[Len(log) - 1] /\ Len(log) > 1
      <4>1. Candidate(c) \in Activated /\ version # 0 /\ Candidate(c) = log[version]
        BY <2>1, <2>7, CandidateTyped
      <4> QED
        BY <2>2, <4>1, CloneFacts, ActivatedFacts
    <3>3. Promise!Apply(c)
      BY <2>3, <2>4, <2>5, <3>1, <3>2 DEF Promise!Apply
    <3> QED
      BY <3>3 DEF Promise!Next
  <2> QED
    BY <2>6, <2>7 DEF IInv, TypeOK
<1>8. ASSUME NEW c \in Clients, Record(c) \/ Publish(c) \/ Respond(c) PROVE UNCHANGED Promise!vars
  <2>1. /\ pc[c] \in {"record", "publish", "respond"} /\ pc'[c] \in {"publish", "respond", "idle"}
        /\ UNCHANGED <<log, dpConfig, op, body, ifMatch>>
        /\ \A d \in Clients \ {c} : pc'[d] = pc[d]
    BY <1>8 DEF Record, Publish, Respond, clientVars, IInv, TypeOK
  <2>2. Pending'[c] = Pending[c]
    BY <2>1 DEF Pending
  <2> QED
    BY <2>1, <2>2, PendingUnchanged
<1>9. ASSUME SetDraining \/ UNCHANGED vars PROVE UNCHANGED Promise!vars
  BY <1>9 DEF SetDraining, vars, clientVars, Pending
<1> QED
  BY <1>1, <1>2, <1>3, <1>5, <1>6, <1>7, <1>8, <1>9, <1>10, DecodedTyped
     DEF Next, Submit, Work

\* Control plane, manager and data plane together implement the versioned store.
THEOREM Implements == Spec => ImplementsPromise
  BY AlwaysIInv, InitPromise, StepPromise, PTL DEF Spec, ImplementsPromise, Promise!Spec
=============================================================================
