--------------------------- MODULE ConfigLifecycle ---------------------------
(***************************************************************************)
(* Configuration writes: the handlers of internal/controlplane/server.go   *)
(* under its mutex, runtime.Manager.Activate, and the swap of the runtime  *)
(* in internal/dataplane/server.go.  The active configuration exists three *)
(* times: the control plane's snapshot, the manager's copy and the one the *)
(* data plane serves.  Concurrent clients read, replace and roll back, and *)
(* the process begins to drain.  The configuration is kept in memory only; *)
(* a restart begins again at Init.                                         *)
(***************************************************************************)
EXTENDS Naturals, Sequences, FiniteSets

CONSTANTS
    Clients,      \* the users of the admin API; each has one request at a time
    HotSettings,  \* values of what may change at run time: routes, upstreams, limits
    Uncompilable, \* those the data plane refuses: unknown upstream, bad URL, ...
    Restarts,     \* JSON-visible values of the server, auth and cluster sections
    Oidc,         \* those with auth.mode = "oidc"
    Lists,        \* how clients write an empty list: "nil" if they leave it out, or "empty"
    MaxVersion,   \* bound on the versions one run of the process reaches
    Initial,      \* the configuration file the process was started with
    NoConfig,     \* s.previous is nil
    NoVersion,    \* a request without a version in its If-Match header
    Free          \* nobody holds the control plane's mutex for writing

\* What the code does with a configuration depends on: hot, what may change at run
\* time; restart, the sections that need a restart, as far as JSON shows them; files,
\* their settings tagged json:"-" (TLS files, OIDC secret files, VIP commands); and
\* lists, how an empty list in these sections is represented.
Configs == [hot: HotSettings, restart: Restarts, files: {"unset", "set"}, lists: {"nil", "empty"}]

\* Mutant: the copy shares its lists with the original.
ShallowCopy(c) == c

\* Config.Clone makes every empty list nil.
Clone(c) == [c EXCEPT !.lists = "nil"]

\* Config.Validate: OIDC cannot do without its secret files.
Valid(c) == c.restart \in Oidc => c.files = "set"

\* ReconfigureWithAuthorizer builds pools and routes from it.
Compiles(c) == Valid(c) /\ c.hot \notin Uncompilable

\* Mutant: a section is left out of the comparison.
SameRestartButOne(c, d) == c.files = d.files /\ c.lists = d.lists

\* reflect.DeepEqual of the sections Server, Auth and Cluster.
SameRestart(c, d) == c.restart = d.restart /\ c.files = d.files /\ c.lists = d.lists

ASSUME ConfigAssumption ==
    /\ Initial \in Configs /\ Compiles(Initial)
    /\ Lists \subseteq {"nil", "empty"}
    /\ NoConfig \notin Configs
    /\ Free \notin Clients
    /\ NoVersion \notin Nat
    /\ MaxVersion \in Nat

VARIABLES
    cpConfig, cpPrevious,   \* Server.config and Server.previous of the control plane
    version, state,         \* its version and state
    readyState,             \* FALSE once the process drains
    mu,                     \* which handler holds its mutex for writing
    mgrConfig,              \* Manager.config
    dpConfig,               \* the cfg of the data plane's runtime state
    log,                    \* history: every configuration that was activated
    pc,                     \* where each client's request is; "idle" without one
    op,                     \* "put" or "rollback"
    body,                   \* the decoded candidate of a put
    ifMatch,                \* the version in the If-Match header of the request
    etag,                   \* the version of the ETag the client received last
    result                  \* the outcome of the client's last request

cpVars     == <<cpConfig, cpPrevious, version>>
clientVars == <<op, body, ifMatch, etag>>
vars == <<cpVars, state, readyState, mu, mgrConfig, dpConfig, log, pc, clientVars, result>>

Answers == {"none", "ok", "invalid", "conflict", "notFound", "restartOnly", "uncompilable"}

-----------------------------------------------------------------------------
Init ==
    /\ cpConfig = Clone(Initial)
    /\ cpPrevious = NoConfig
    /\ version = 0
    /\ state = "bootstrap"
    /\ readyState = TRUE
    /\ mu = Free
    /\ mgrConfig = Clone(Initial)
    /\ dpConfig = Clone(Initial)
    /\ log = <<Clone(Initial)>>
    /\ pc = [c \in Clients |-> "idle"]
    /\ op = [c \in Clients |-> "put"]
    /\ body = [c \in Clients |-> Clone(Initial)]
    /\ ifMatch = [c \in Clients |-> NoVersion]
    /\ etag = [c \in Clients |-> NoVersion]
    /\ result = [c \in Clients |-> "none"]

\* GET /api/v1/config: contents and ETag under one read lock.
Get(c) ==
    /\ pc[c] = "idle" /\ mu = Free
    /\ etag' = [etag EXCEPT ![c] = version]
    /\ UNCHANGED <<cpVars, state, readyState, mu, mgrConfig, dpConfig, log,
                   pc, op, body, ifMatch, result>>

\* The bound of the model: nobody writes once the last version is reached.
MayAddVersion == version < MaxVersion

\* The body of a PUT once decoded.  JSON does not carry the settings tagged
\* json:"-", so the candidate has none of them.
Decoded(hot, restart, lists) ==
    [hot |-> hot, restart |-> restart, files |-> "unset", lists |-> lists]

\* PUT /api/v1/config with a candidate that passes Validate.
Put(c, candidate) ==
    /\ pc[c] = "idle" /\ MayAddVersion
    /\ Valid(candidate)
    /\ pc' = [pc EXCEPT ![c] = "lock"]
    /\ op' = [op EXCEPT ![c] = "put"]
    /\ body' = [body EXCEPT ![c] = candidate]
    /\ ifMatch' = [ifMatch EXCEPT ![c] = etag[c]]
    /\ result' = [result EXCEPT ![c] = "none"]
    /\ UNCHANGED <<cpVars, state, readyState, mu, mgrConfig, dpConfig, log, etag>>

\* With one that does not: answered before the mutex is asked for.
PutInvalid(c, candidate) ==
    /\ pc[c] = "idle"
    /\ ~Valid(candidate)
    /\ op' = [op EXCEPT ![c] = "put"]
    /\ result' = [result EXCEPT ![c] = "invalid"]
    /\ UNCHANGED <<cpVars, state, readyState, mu, mgrConfig, dpConfig, log, pc,
                   body, ifMatch, etag>>

\* POST /api/v1/config/rollback.
Rollback(c) ==
    /\ pc[c] = "idle" /\ MayAddVersion
    /\ pc' = [pc EXCEPT ![c] = "lock"]
    /\ op' = [op EXCEPT ![c] = "rollback"]
    /\ ifMatch' = [ifMatch EXCEPT ![c] = etag[c]]
    /\ result' = [result EXCEPT ![c] = "none"]
    /\ UNCHANGED <<cpVars, state, readyState, mu, mgrConfig, dpConfig, log, body, etag>>

\* Mutant: the version of the request is not compared.
AnyVersion(c) == TRUE

VersionMatches(c) == ifMatch[c] = version
HasTarget(c) == op[c] = "rollback" => cpPrevious # NoConfig

\* A handler gets the mutex and rejects the request at once, releasing it.
Reject(c) ==
    /\ pc[c] = "lock" /\ mu = Free
    /\ ~VersionMatches(c) \/ ~HasTarget(c)
    /\ result' = [result EXCEPT ![c] = IF VersionMatches(c) THEN "notFound" ELSE "conflict"]
    /\ pc' = [pc EXCEPT ![c] = "idle"]
    /\ UNCHANGED <<cpVars, state, readyState, mu, mgrConfig, dpConfig, log, clientVars>>

\* Or it keeps the mutex and goes on to activate.
Accept(c) ==
    /\ pc[c] = "lock" /\ mu = Free
    /\ VersionMatches(c) /\ HasTarget(c)
    /\ mu' = c
    /\ pc' = [pc EXCEPT ![c] = "activate"]
    /\ UNCHANGED <<cpVars, state, readyState, mgrConfig, dpConfig, log, clientVars, result>>

\* Mutant: a rollback activates what the request carries.
CandidateOfRequest(c) == body[c]

\* What is handed to Activate: the candidate, or a clone of the previous snapshot.
Candidate(c) == IF op[c] = "put" THEN body[c] ELSE cpPrevious

\* Manager.Activate compares with its own copy and the data plane with its own.
NeedsRestart(d) == ~SameRestart(mgrConfig, d) \/ ~SameRestart(dpConfig, d)

\* Activation succeeds: the data plane swaps its runtime.
Swap(c) ==
    /\ pc[c] = "activate"
    /\ ~NeedsRestart(Candidate(c)) /\ Compiles(Candidate(c))
    /\ dpConfig' = Clone(Candidate(c))
    /\ log' = Append(log, Clone(Candidate(c)))
    /\ pc' = [pc EXCEPT ![c] = "record"]
    /\ UNCHANGED <<cpVars, state, readyState, mu, mgrConfig, clientVars, result>>

\* Mutant: the early return does not unlock.
MuKept(c) == c

MuAfterFailure(c) == Free

\* Activation fails: the state says so, the mutex is released, nothing else changes.
ActivationFails(c) ==
    /\ pc[c] = "activate"
    /\ \/ /\ NeedsRestart(Candidate(c))
          /\ result' = [result EXCEPT ![c] = "restartOnly"]
       \/ /\ ~NeedsRestart(Candidate(c)) /\ ~Compiles(Candidate(c))
          /\ result' = [result EXCEPT ![c] = "uncompilable"]
    /\ state' = "failed"
    /\ mu' = MuAfterFailure(c)
    /\ pc' = [pc EXCEPT ![c] = "idle"]
    /\ UNCHANGED <<cpVars, readyState, mgrConfig, dpConfig, log, clientVars>>

\* Mutant: the manager does not keep what it activated.
NotRecorded(c) == mgrConfig

Recorded(c) == Clone(Candidate(c))

\* The manager keeps the activated configuration.
Record(c) ==
    /\ pc[c] = "record"
    /\ mgrConfig' = Recorded(c)
    /\ pc' = [pc EXCEPT ![c] = "publish"]
    /\ UNCHANGED <<cpVars, state, readyState, mu, dpConfig, log, clientVars, result>>

\* Mutant: a rollback leaves its target in place.
PreviousKeptByRollback(c) == IF op[c] = "rollback" THEN cpPrevious ELSE cpConfig

PreviousAfter(c) == cpConfig

\* The control plane stores the new snapshot and the one it replaces, counts the
\* version up and releases the mutex.
Publish(c) ==
    /\ pc[c] = "publish"
    /\ cpConfig' = Clone(Candidate(c))
    /\ cpPrevious' = PreviousAfter(c)
    /\ version' = version + 1
    /\ state' = "active"
    /\ mu' = Free
    /\ pc' = [pc EXCEPT ![c] = "respond"]
    /\ UNCHANGED <<readyState, mgrConfig, dpConfig, log, op, body, ifMatch, etag, result>>

\* The answer is written under a read lock of its own: its ETag is the version
\* of that moment.
Respond(c) ==
    /\ pc[c] = "respond" /\ mu = Free
    /\ etag' = [etag EXCEPT ![c] = version]
    /\ result' = [result EXCEPT ![c] = "ok"]
    /\ pc' = [pc EXCEPT ![c] = "idle"]
    /\ UNCHANGED <<cpVars, state, readyState, mu, mgrConfig, dpConfig, log,
                   op, body, ifMatch>>

\* main has received SIGTERM.
SetDraining ==
    /\ mu = Free /\ readyState
    /\ readyState' = FALSE
    /\ state' = "draining"
    /\ UNCHANGED <<cpVars, mu, mgrConfig, dpConfig, log, pc, clientVars, result>>

-----------------------------------------------------------------------------
Submit(c) ==
    \/ \E hot \in HotSettings, restart \in Restarts, lists \in Lists :
          Put(c, Decoded(hot, restart, lists)) \/ PutInvalid(c, Decoded(hot, restart, lists))
    \/ Rollback(c)

\* The step of a handler that is in the critical section.
Work(c) == Swap(c) \/ ActivationFails(c) \/ Record(c) \/ Publish(c)

Next ==
    \/ \E c \in Clients : Get(c) \/ Submit(c) \/ Reject(c) \/ Accept(c) \/ Work(c) \/ Respond(c)
    \/ SetDraining

Spec == Init /\ [][Next]_vars

\* Handlers in the critical section go on.  sync.RWMutex hands itself to whoever
\* waits for it, readers and writers, so nobody is passed over for ever although
\* the mutex is only free from time to time.
Fairness ==
    \A c \in Clients :
        /\ WF_vars(Work(c))
        /\ SF_vars(Reject(c) \/ Accept(c))
        /\ SF_vars(Respond(c))

FairSpec == Spec /\ Fairness

-----------------------------------------------------------------------------
(* Properties.                                                              *)

Activated == {c \in Configs : c.lists = "nil"}

\* The types of the variables; stored configurations are clones.
TypeOK ==
    /\ cpConfig \in Activated /\ mgrConfig \in Activated /\ dpConfig \in Activated
    /\ cpPrevious \in Activated \cup {NoConfig}
    /\ version \in Nat
    /\ state \in {"bootstrap", "active", "failed", "draining"}
    /\ readyState \in BOOLEAN
    /\ mu \in Clients \cup {Free}
    /\ log \in Seq(Activated)
    /\ pc \in [Clients -> {"idle", "lock", "activate", "record", "publish", "respond"}]
    /\ op \in [Clients -> {"put", "rollback"}]
    /\ body \in [Clients -> Configs]
    /\ ifMatch \in [Clients -> Nat \cup {NoVersion}]
    /\ etag \in [Clients -> Nat \cup {NoVersion}]
    /\ result \in [Clients -> Answers]

\* Three copies are updated by three steps, and the data plane serves without the
\* control plane's mutex.  Whenever no write is in its critical section, the control
\* plane, the manager and the data plane hold the same configuration.
PlanesAgree == mu = Free => cpConfig = mgrConfig /\ mgrConfig = dpConfig

\* Rejected, failed and successful writes of any order: the rollback target is what
\* was active one version ago, and there is none before the first write.
PreviousIsLastVersion ==
    mu = Free =>
        /\ Len(log) = version + 1 /\ log[version + 1] = cpConfig
        /\ cpPrevious = IF version = 0 THEN NoConfig ELSE log[version]

\* Settings that need a restart are those the process was started with in every
\* configuration it serves, comes back to, or could come back to.
RestartSettingsFixed ==
    \A c \in {cpConfig, mgrConfig, dpConfig, cpPrevious} \ {NoConfig} :
        c.restart = Initial.restart /\ c.files = Initial.files

\* A rollback that got past the version check and has a target is activated: what was
\* active once is neither refused as restart-only nor fails to compile.
RollbackAlwaysActivates ==
    \A c \in Clients :
        op[c] = "rollback" => result[c] \notin {"restartOnly", "uncompilable"}

\* The request of c was activated and is not answered yet.
Won(c) == pc[c] \in {"record", "publish", "respond"}

\* Of the writes that name the same version in If-Match one is activated at most.
OneWinnerPerVersion ==
    \A c, d \in Clients : Won(c) /\ Won(d) /\ c # d => ifMatch[c] # ifMatch[d]

NoRequest == [op |-> "none"]

\* What the store has been asked and has not decided yet.
Pending ==
    [c \in Clients |->
        IF pc[c] \notin {"lock", "activate"} THEN NoRequest
        ELSE IF op[c] = "put"
             THEN [op |-> "put", config |-> Clone(body[c]), base |-> ifMatch[c]]
             ELSE [op |-> "rollback", base |-> ifMatch[c]]]

Promise == INSTANCE VersionedConfig
    WITH Configs <- Activated, serving <- dpConfig, request <- Pending, Idle <- NoRequest

\* The lifecycle implements the versioned store: a write takes effect when the data
\* plane swaps its runtime, on top of the version it named and of nothing else, and a
\* rollback brings back the version before, whatever the clients do meanwhile.
ImplementsPromise == Promise!Spec

\* Every write is answered: no handler keeps the mutex, whichever way it ends.
EveryWriteAnswered == \A c \in Clients : pc[c] # "idle" ~> pc[c] = "idle"

-----------------------------------------------------------------------------
(* What the documents say and the code does not do; see the README.         *)

\* A write is refused as restart-only when it changes a setting that needs a restart.
RestartRejectionJustified ==
    [][\A c \in Clients : pc[c] = "activate" /\ result'[c] = "restartOnly" /\ pc'[c] = "idle"
           => Candidate(c).restart # mgrConfig.restart]_vars
=============================================================================
