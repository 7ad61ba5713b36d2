# go-serve: a TLA+ verification of the server

go-serve (`src/`) is an HTTP server with a public data plane that proxies requests to
upstreams, a control plane that replaces the configuration at run time, and an optional Raft
cluster that assigns clients to nodes. This directory models the parts of it that keep state or
decide about requests, checks them with TLC on small instances and proves what matters most with
TLAPS.

## Inventory

| part | code | state it keeps | operations |
|---|---|---|---|
| upstream pool | `internal/dataplane/server.go` 345-504 | shared counter, a health flag and a circuit breaker per endpoint | `hasHealthyEndpoint`, `pick`, `RoundTrip`, `allow`, `success`, `failure`, `healthLoop` |
| data plane | same, 21-284 | pointer to the runtime state; per generation routes, pools, semaphore, context | `Handler`, `ReconfigureWithAuthorizer`, `Close` |
| request path | same, 252-323, 506-576 | none of its own; headers of the request | `match`, `stripTrustedHeaders`, `applyRouteHeaders`, `Authorize` |
| connection limit | same, 578-614 | channel of tokens, release function per connection | `Accept`, `Close` |
| control plane | `internal/controlplane/server.go` | configuration, previous one, version, state, readiness, under one mutex | `getConfig`, `replaceConfig`, `rollbackConfig`, `SetDraining`, `ready` |
| runtime manager | `internal/runtime/manager.go` | a copy of the configuration, the data plane | `Activate`, `Close` |
| configuration | `internal/config/config.go` | none; values | `ParseTOML`, `Validate`, `Clone` |
| process | `cmd/server/main.go` | two servers, drain goroutine, error channel | start, drain, exit |
| cluster | `internal/cluster/node.go` | Raft, table of client assignments, what the leadership loop heard last | `Proxy`, `Assign`, `Apply`, `Snapshot`, `Restore`, `leadershipLoop`, `joinLoop`, `/cluster/join`, members |
| authentication | `internal/auth/auth.go` | login states waiting for their callback; sessions are in cookies | `login`, `callback`, `logout`, `Authorize` |
| TLS | `internal/dataplane/tls.go` | cached certificate and file times | `load` |
| metrics | `internal/observability/metrics.go` | counters, bounded series map | `Middleware`, `Endpoint` |

How they interact. A public connection passes the connection limit, then `cluster.Proxy` (when
clustered; `Metrics.Middleware` is around both), then the data plane's handler, which loads the runtime pointer once and stays with
that generation: its semaphore, its routes, its authorizer, its pools. With TLS the handshake
asks the certificate loader. The login endpoints and `/cluster/` are on the admin listener. An admin request that writes the
configuration holds the control plane's mutex, calls `Manager.Activate`, which takes its own
mutex and calls the data plane, which builds a generation, swaps the pointer and cancels the
context of the one before; health loops run under that context. `main` starts both servers, and
on a signal a goroutine marks the control plane as draining, shuts both servers down one after
the other and closes manager and cluster, while `main` itself waits for the first server to end.
The three parts of a cluster node (assignments, leadership loop, membership) meet in Raft only.

What is hard here: requests report to breakers long after the breaker's state has changed, and
so does the health loop; generations overlap; the configuration exists three times; `Close` of a
connection may run twice; a drain races with writes, requests and the end of `main`; nodes of a
cluster lead, lag behind, crash and restore; notifications of leadership replace each other while
a command runs; joins are answered late or never; certificate files change between two looks at
them; callbacks of logins overlap. `PROJECT.json` lists these hazards at the line
where each bites, with the properties that cover them.

What makes each part correct:

- pool: a breaker is never in a mixed state; half open means that one probe was let in and nobody
  has reported since; nobody gets past a refusing breaker; retries are bounded and only of what may be repeated; every request
  is answered; endpoints recover; health loops end.
- data plane: slots are given back where they were taken; a health loop lives as long as its
  generation is current, and not much longer.
- connection limit: one token per connection, never more than the limit.
- configuration: a write takes effect at once and on top of the version it named, or not at
  all; the copies agree; rollback brings back the version before.
- process: a signalled process ends, with its requests answered or its deadline used up.
- cluster: every table is what the log says; requests follow committed assignments; the virtual
  IP is where the leadership is; who asks to join gets in; the leader is a member.
- request path: a route with the longest matching prefix serves, the first of those with the same
  host; what an endpoint reads about the client's identity was verified; nobody passes without the scopes a route asks for.
- authentication: a login gives one session at most, and its own.
- TLS: a new handshake presents what is in the files.
- metrics: the counters are of the same requests and reconcile.

## Modules

| module | models | abstract view or composition |
|---|---|---|
| `UpstreamPool` | one pool: handlers, breakers, health loop | |
| `EndpointSelection` | one undisturbed call of `pick`, for pools of every size | |
| `ConfigLifecycle` | control plane writes, manager, the swap | implements `VersionedConfig` |
| `VersionedConfig` | what the configuration API promises | |
| `LostUpdates` | `ConfigLifecycle` with what each client has seen | |
| `DataPlane`, `ConnectionLimit` | generations, semaphore, health loops; `limitedListener`, `limitedConn` | composed by `Process` |
| `Process` | the servers and the shutdown of `main` | |
| `RaftGroup` | leader, who takes itself for it, running nodes, voters (external) | shared by the next three |
| `ClusterAssignment` | `Proxy`, assignments, state machine and snapshots | composed by `ClusterNode` |
| `VirtualIP` | `leadershipLoop` and its commands, `Close` | composed by `ClusterNode` |
| `Membership` | `joinLoop`, `/cluster/join`, member operations of the admin API | composed by `ClusterNode` |
| `CertificateLoader` | `load` of the TLS certificate | composed by `PublicAccess` |
| `Authentication` | `login`, `callback`, `logout`, sessions | composed by `PublicAccess` |
| `Metrics` | `Middleware`, `recordSeries` | composed by `PublicAccess` |
| `RequestPath` | the handler of a request from the semaphore to `pick`, `match`, `Authorize` | composed by `PublicAccess` |
| `*Proofs` | theorems about the module they are named after | |
| `MC*` | constants for TLC | |

Modules without `Spec` of their own have initial states and steps, with their variables as a tuple
(`assignVars`, `tlsVars`, ...), for the module that composes them.

Two of the compositions let one part move. The parts of `ClusterNode` share Raft's variables and
nothing else, no step of one reads or writes a variable of another, and no property speaks of two of
them; so every behaviour of all, seen by one part, is a behaviour of that part with Raft, and the
variable `moves` says which part this is. The parts of `PublicAccess` share nothing at all: a
handshake is over before its connection carries a request, a request finds a session valid or not
(`Credentials` allows every case), counters see route and status. Their product would be large and say
nothing more. `Process` on the other hand is a real product, since a shutdown touches everything
in it.

How state and actions correspond to the code:

- **UpstreamPool.** A step is one atomic operation: an atomic load, store or add, one breaker
  method (each holds the breaker's mutex throughout), or one answer of the network. `pc` says
  where a handler is: `scan` (hasHealthyEndpoint), `pick`/`load`/`allow` (the three parts of an
  iteration of `pick`), `enter` (RoundTrip without a permit), `permitted` (let in by `pick`, which
  the Director calls, and not yet in RoundTrip), `flight` (the exchange). From `permitted` a request
  goes on (`EnterPermitted`) or `httputil.ReverseProxy` answers with `ErrorHandler` and never calls
  RoundTrip (`GiveUp`), as it does with an `Upgrade` value it cannot print: then nobody reports and the
  permit is lost. Method and body, which only `RoundTrip` looks at, are chosen when it is entered. `openUntil` is
  the zero time, in the future or in the past; `CooldownElapses` is the clock. `failures` saturates
  at the threshold because no code distinguishes larger values. `next` is kept modulo the pool
  size, which is all `pick` uses. `probers` and `lost` are history: who was let in past an opened
  breaker, or given up after it was, with no report on the endpoint since. A result `badGateway` is whatever
  `ErrorHandler` answered 502 to: an open circuit, a request not sent, a failed exchange.
- **EndpointSelection** has the same loop alone, to say what one call covers.
- **ConfigLifecycle.** A configuration is what the code's decisions depend on: `hot` (what may
  change), `restart` (sections Server, Auth and Cluster as JSON shows them), `files` (their
  settings tagged `json:"-"`) and `lists` (nil or empty, which `reflect.DeepEqual` tells apart and
  `Clone` makes nil). A write is `Put`/`Rollback`, then `Reject` or `Accept` with the mutex, `Swap`
  or `ActivationFails`, `Record` (the manager's copy), `Publish`, `Respond` under a read lock of its
  own. `log` is history.
- **VersionedConfig** is the promise: writes that apply in one step on the version they name.
  The refinement maps the served configuration to the data plane's copy and a pending write to
  a handler that has not passed `Swap`; steps after `Swap` stutter.
- **DataPlane.** `current` is the pointer, generations are numbered; a handler's `gen` is what it
  loaded. `Build`, `Swap`, `StopPrevious` are the three steps of a reconfiguration, under the
  manager's mutex. A configuration that does not compile returns before it changes anything.
- **ConnectionLimit.** `tokens` is the channel's length; the inner `Close` with the test of
  `release`, and the release itself, are two steps, for the connection's goroutine and for `Shutdown`.
- **Process.** `drain` is the drain goroutine's place, `control` and `public` the two calls of
  `Serve`, `errors` the channel, `exit` how `main` ended; nothing moves after that.
- **LostUpdates** repeats the steps of `ConfigLifecycle` and adds to `seen` the versions a client reads
  with GET or makes with a write of its own.
- **RaftGroup.** `leader` commits; `believes` are the nodes whose Raft state is Leader, which a deposed
  node still is for a while. No votes are counted.
- **ClusterAssignment.** Raft is a log that every node applies in order. An assignment is its place
  in the log; `expired` is the clock.
  `Find`, `MakeAssignment`, `Commit`/`AssignFails`, `Committed`, `ServeHere`/`Forward` are `Proxy`;
  `TakeSnapshot` copies and `Persist` writes, with entries applied in between. `Forward` always ends in
  502, since `http.Client` refuses a cloned server request (see the findings).
- **VirtualIP.** `notice` is Raft's `LeaderCh`, which holds the latest notification only; `previous` is
  the loop's variable and `hook` the command it waits for. A command that succeeds sets `vip`; one
  that fails, or is killed by `Close` or with the process, may or may not have. `unsure` is history: the
  nodes whose last command did not succeed, or that started with the address still there.
- **Membership.** `contact` is the place of `joinLoop` in its list, `post` its request. `silent` nodes do not
  answer in time; `late` are handlers of `/cluster/join` whose client has given up after two seconds,
  while `AddVoter` goes on for ten. Admin servers of `protected` nodes ask for credentials, which `joinLoop`
  does not send: their answer is 401. Every contact that is up may refuse, one that leads too: 503 when it does not
  lead, 409 when `AddVoter` fails, with the change committed all the same or not. `joinLoop` runs again at every start. Adding, removing and
  transferring are Raft operations of a node that leads.
- **CertificateLoader.** A file is the number of the pair it belongs to, which stands for its
  modification time; the loader looks at the files, reads certificate and key, in five steps under its
  mutex. Files are replaced by newer ones in one step each (rename) or taken away first.
- **Authentication.** `states` is the map, by its expiry times; lookup and delete are one critical
  section. The exchange brings any claims, the verification may fail, and `now` goes on between them.
- **RequestPath.** A path is the tuple of its segments, of one character each, so that lengths are those
  of the code; `TryRoute` is one iteration of `match`. Headers are known by whose value they
  carry. What the cookie and the token say is chosen when `Authorize` looks at it, a route's policy when
  the route is found, and the pool's state when `pick` begins; what is not looked at again is reset.
  `Send` is what `httputil.ReverseProxy` does after the Director: it removes the headers the client's
  `Connection` names; `CannotSend` is its call of `ErrorHandler` instead.
- **Metrics.** Each atomic addition is a step; `CountersReconcile` has a part that counts requests and one that
  adds the series up, by counting the pairs of a series and a number up to its counter (`Marks`, `Total`);
  a handler that panics ends like one that returns, because the additions at the end are deferred.

External, modelled as far as this code uses it: `net/http` (accepting, one goroutine per
connection, `Shutdown`), the network and the endpoints, `hashicorp/raft`, clocks.

## Runs

| run | instance | shows |
|---|---|---|
| `pool_safety` | 2 handlers, 2 endpoints, threshold 2, 1 retry, health checks | safety of breakers, admission, retries |
| `pool_progress` | 1 handler, otherwise the same, fair | answers, recovery, the loop's end |
| `config_writes` | 2 clients, 3 hot values (one does not compile), 3 restart values (one invalid), versions 0 to 2, fair | lifecycle safety, refinement, answers |
| `process_lifecycle` | 2 connections, limit 2, max_in_flight 1, 2 generations, fair | accounting, shutdown |
| `cluster` | 2 nodes, 1 client key, 1 request at a time, 2 assignments; n1 bootstraps, n2 has it as its second contact and nobody answers at the first; fair | tables, routing, answers; the virtual IP; joining |
| `public_access` | 2 handshakes and 3 pairs of files; 2 logins, 2 callbacks, a login lasts 1 of 3 ticks; 2 handlers, 4 requests, 2 of 6 series kept; every list of up to 3 routes of 16, 20 requests; pools of 1 to 7 endpoints | certificates, logins, counters, routes, identity headers, what `pick` can and cannot reach |

Violations, each a disagreement between the code and what is written about it:

| run | what happens |
|---|---|
| `selection_even` | with two endpoints `pick` looks at one of them twice and falls back on endpoint 0 |
| `pool_roundtrip` | `return nil, err` with a nil error after a 5xx on a request with a body |
| `config_restart` | with TLS files configured every PUT is refused, whatever it changes |
| `config_lost_update` | the ETag of an answer is of another client's write that came in after one's own |
| `process_drain` | `main` returns when the control listener closes, public requests under way |
| `cluster_forwarding` | forwarding to a peer always ends in 502 |

Why the bounds are enough. Two handlers and the health loop are three reporters for one
breaker: a probe, a late answer, and a check. Two endpoints give selection, fallback and the
health loop a choice, a threshold of two separates counting from opening, one retry separates
first from last attempts. Two clients give every race of two writes on each version, and three
versions are enough for a write, its rollback and a write against a stale version; the theorems
below hold for any number. Two generations, two connections and a semaphore of one make one
request hold an old slot while another is refused or takes a new one. Two assignments let one
replace another after it expired, and let tables, snapshots and logs differ. Two nodes are enough for a
leader that is deposed and one that takes over, and for a contact that leads, does not lead, does
not run or does not answer. Three pairs let both files change between two looks and once
more after them. Two callbacks are every overlap for one login, and three ticks make it
expire before, at and after its callback. Three routes let a match be replaced by a longer one and
kept against a shorter or an equal one; the prefixes are the root, written both ways, `/a`, `/a/` and
`/a/b`, the paths one that each of them is the longest match of and `/b`. With two series and
six possible ones the bound is met. Every bound is a
constant: `MaxEndpoints`, `MaxVersion`, `MaxGenerations`, `MaxLog`, `MaxPairs`, `MaxTime`, `MaxRoutes`,
`MaxSeries`, `MaxRequests`.

Handlers are interchangeable, so `pool_safety` uses their permutations as symmetry; runs that
check liveness use none. `CHECK_DEADLOCK FALSE` is set because the systems may rest: nobody sends
anything, the process has ended, or the bounded number of versions is reached.

## Fairness

Goroutines that can run do (weak fairness of their steps); waits on the network end, because
`request_timeout` and Raft's own timeouts bound them; clocks advance (`CooldownElapses`,
`DeadlinePasses`). Strong fairness appears twice: Go's `select` picks among ready cases at random,
so the health loop cannot miss its cancelled context for ever (`ExitLoop`), and `sync.RWMutex`
serves readers and writers that wait (`Reject`/`Accept`, `Respond`). In the cluster, where all
fairness is weak, handlers and loops go on, Raft applies
what is committed and commands of the virtual IP end, which nothing in the code bounds: they are the
operator's. Nothing is assumed of clients, endpoints, signals, failures, elections and the
network: `AddressFollowsLeadership` and `EveryJoinEnds` say what happens once leadership, and the
connection to a contact, stay as they are, and `EveryJoinEnds` is of a contact that asks for no credentials and
does not refuse for ever. `HalfOpenResolves` leaves out endpoints whose probe was given up unsent: nothing but a
good health check, or a late report, ends those.

## Proofs

The theorems hold for every value of the constants under the assumptions the modules name:

- `PoolAssumption`: at least one endpoint and a positive threshold, which
  `ReconfigureWithAuthorizer` enforces; `SelectionAssumption`: a pool's size is a number.
- `ConfigAssumption`: the initial configuration compiles, or `main` would not have come this far.
- `DataPlaneAssumption`, `ConnectionAssumption`: the limits are positive (`Validate` requires it), requests
  and connections are finitely many, `Nobody` is not one of them; `ProcessAssumption`: a connection carries one request
  at a time.
- `GroupAssumption`, `ClusterAssumption`, `MembershipAssumption`, `FoundersAssumption`: peers, contacts and
  founders are nodes, a hash is a number, `NoNode` is no node.
- `LoaderAssumption`: there is a pair at the start (`main` loads it), and `NoHandshake` is none;
  `LoginAssumption`: `NoLogin` is no login, and clocks and lifetimes are positive.
- `MetricsAssumption`: bounds are numbers, `Unknown` is no route's name; `RouteAssumption`: prefixes are
  sequences and `AnyHost` is no host's name.

- `UpstreamPoolProofs`: `TypeCorrect` first, since every index must be in range before a breaker
  can be looked up. `BreakersConsistent` is inductive with it. `HalfOpenOwned` says that a breaker is half
  open exactly as long as one request was let in past it and nobody has reported, or that request was
  given up unsent; it needs consistency, so that no second request is let in, and that a request leaves
  `permitted` and `flight` with a report or as a lost one. `AdmissionGuarded` is an action property:
  both ways in go through `allow`, which refuses in the cooldown and, by `HalfOpenOwned`, while a probe has
  no report. It does not say that no probe is under way: a late report of an earlier request ends
  the half-open state, and after the next cooldown a second probe joins the first.
- `UpstreamPoolProofs`, `RequestsAreFinite`: a bound of the steps a request has left, which its own
  steps lower and nobody else's touch. With the fairness of `Handle` it is why `EveryRequestReturns`.
- `EndpointSelectionProofs`: `ReachCovered`, for pools of any size. After i iterations exactly the candidates
  start + 1 + 2j, j < i, were not servable. Two is invertible modulo an odd number, so after count
  iterations every endpoint is one of them; modulo an even number the candidates keep their
  parity, so one half of the endpoints is looked at, twice, and the other never, which is how far
  `selection_even` goes.
- `ConfigLifecycleProofs`: an inductive invariant ties each place of the mutex's holder to what the
  copies hold then (all equal before `Swap`; the data plane ahead after it; the manager too after
  `Record`), and the last two entries of the history to current and previous configuration. It
  gives agreement, rollback target, restart settings, one winner, and that a rollback always
  activates, because what was active compiles and has the same restart settings. `ChecksStayTrue` is a
  conjunct of it, `OneAheadAtMost` says of every moment what agreement says of those without a write, and
  `VersionsNameConfigs`, an action property, that what an ETag stands for never changes. `Implements`
  shows that initial states map to initial states and every step to a step or a stutter.
- `ProcessProofs`: data plane and connection limit have an invariant each, which a step of the other, or
  of `main`, leaves alone. `SlotsAccounted` is inductive with the types: a handler counts for the
  generation it loaded. It needs that generations are numbered in the order they are built, so that
  no request can hold a slot of one that is being built. `NoLoopOrphaned` is not inductive, as it says
  nothing during a reconfiguration: `ReconfigurationInv` says which loops may run at each of
  its three steps. `ConnectionsLimited` bounds the tokens from both
  sides: none is left behind, and those missing are at most the connections in `ClosedByBoth`, closed by
  `Shutdown` and by their own goroutine when each had found the release function (`server.go:609`). `ReleaseInv`
  is what that needs: a connection has its release function exactly until its goroutine has
  closed it as long as `Shutdown` has closed nothing; `Shutdown` closes nothing before the listener accepts no
  more; and who is about to release what is released already is the second to close it.
  `EndsInOrder` has the places of the drain (`DrainInv`): which listener is closed at each of them, and that
  the errors sent are in the channel until `main` takes one, so that `main` always has a way out and
  the channel always has room. `ServedUntilOver` orders the generations: those cancelled are older
  than the current one until `Close`.
- `ClusterNodeProofs`: an invariant for Raft and one for each part, of which those of assignments and of
  the virtual IP do not speak of Raft; for the two parts that do not move, that no command
  and no post is under way, so that crashes change nothing there. `TablesAreOfTheLog`: table,
  the copy a snapshot makes and what was written each reflect a prefix of the log, for nodes that are
  down too. `ForwardsCommitted` needs what a handler has at each place: nothing, a member
  it is going to commit, the place of the entry it waits for, a committed assignment. `LeadersAreMembers` is
  inductive with the types. `HooksAlternate` is an action property: the loop's `previous` is
  where the address is, between commands and as far as they succeeded. `AddressFollowsNews` adds
  `NewsInv`: what a loop was told last, read (`previous`) or not (`notice`), is its node's role, so a loop with
  nothing to read has put the address where its node leads. `ReplicasConsistent` and `NothingForgotten` follow from
  `TablesAreOfTheLog` and `SnapshotsInv`: a snapshot on its way is of what its node had applied, and the one
  saved is never ahead of the node. A late `Persist` does not replace a newer saved snapshot: Raft lists snapshots by
  index and the newest one is restored. `LoopsEndWhenAdded`:
  an answer that says so follows from a node that is added, and posts are of nodes that run.
- `CertificateLoaderProofs`, `AuthenticationProofs`: the inductive invariants of these parts, for
  `PublicAccessProofs`. A certificate in memory is never newer than the files and never older than the
  times recorded with it; what the holder of the mutex has read so far bounds what it will record;
  and files are replaced by newer ones, so equal times leave one pair. A callback past
  `TakeLogin` has a login nobody else has and which is out of the map; the cookie's login is out of
  the map too and nobody's any more.
- `PublicAccessProofs`: the parts share no variable, so the conjunction of their invariants is inductive.
  `LongestMatchFound` has the loop's invariant: `best` is the first of the longest matches among
  the routes before `position`, which is more than the property asks. `IdentityComesFromVerification`: identity headers are absent between the
  two places that strip them and are those of `verified` from `Authorize` on, which the route's headers
  cannot change because they leave them out, and `Send` can only make absent. `CountersAgree`: at every moment, and
  not only when it is quiet, requests are the responses and the handlers that have yet to count theirs,
  and the handlers are finitely many because they are counted. `SeriesInv` says it of the series: while
  fewer than `MaxSeries` are kept, their marks and the handlers about to add to one are as many as the
  responses, and those of errors as many as the server errors. A series that grows adds one mark, so no
  induction over the series is needed. `RequestsCoverReach` carries `ReachCovered` over to the request that calls `pick`.

Only model-checked:

- all liveness (`EveryRequestReturns`, `HalfOpenResolves`, `EndpointRecovers`, `LoopEnds`, `EveryWriteAnswered`,
  `ProcessExits`, `RetiredLoopsEnd`, `EveryRequestEnds`, `AddressFollowsLeadership`, `EveryJoinEnds`): fairness
  and ENABLED are beyond the prover;
- the violations, which are counterexamples.

## Not modelled, and why

Path rewriting, body limits, validation of single fields, OpenAPI, UI assets and the text of
`/metrics` are pure or formatting. Token verification and session sealing are cryptography: a
token verifies or not, a cookie opens or not. Counters nothing relates to others are left out.

What was met in the documents and has no run of its own:

- `docs/CONTRIBUTING.md:60` has the route table select "the most specific host/path match"; `match`
  compares prefixes only. A route without a host wins with a longer prefix, and with an equal one if it is
  listed before the route that has the request's host. `RouteIsLongestMatch` leaves the choice between equal
  prefixes of different hosts open.
- `docs/PLAN.md:181` asks for "a single guarded half-open probe after cooldown". `pick` takes the permit
  in the Director (`server.go:327-335`) and `RoundTrip` reports; a request that `httputil.ReverseProxy`
  gives up in between goes to `ErrorHandler` (`server.go:338-340`), its permit is never given back, and the
  endpoint stays half open until somebody else reports on it: a request sent before, or the health loop. Without a
  `health_path` and with no such request it refuses for ever. `HalfOpenHasOwner` and `HalfOpenResolves` name
  these endpoints (`lost`).
- Nor is the probe always single: `success()` and `failure()` do not know whose report they are
  given (`server.go:424-440`), so a late one ends the half-open state with the probe under way, and a second
  probe may be let in beside it. `AdmissionRespectsBreaker` is stated so.
- Headers of the verified identity may not reach the endpoint: `httputil.ReverseProxy` removes what the
  client's `Connection` header names after the Director has run (`server.go:282`).
  `IdentityHeadersTrusted` has them verified or absent at `sent`.
- `docs/OPERATIONS.md:14` has `/ready` say `draining`; a write that is in its handler when the drain begins
  sets the state to `active` afterwards (`Publish` after `SetDraining`). The 503 stays.
- A browser request that a public route refuses is redirected to `/oauth2/login`, which the admin
  listener serves (`auth.go:270`, `main.go:82`).
- With authentication enabled `/cluster/join` is behind it (`main.go:82-84`), and `joinLoop` sends no
  credentials (`node.go:226-230`): its posts are answered 401 by whoever leads, and the loop never ends. In the
  model the contact is `protected`, and `EveryJoinEnds` is of contacts that are not.
- A node that is removed joins again at its next start if it does not bootstrap (`node.go:95`).
- A handshake between the replacement of the two files fails although the loader still has a pair that
  matches (`tls.go:49`); `CertificatesAreFresh` states it so.

Abstractions a reader should know. The data plane's handler and the pool are separate modules:
between slot and release `DataPlane` does not look into the pool. Health checks are good, bad
or cancelled; events for metrics are left out. `ClusterAssignment` takes clocks to agree. `RaftGroup`
counts no votes: a leader commits whoever else is up, which allows
more than Raft does. Assignments and leadership are checked for a cluster everybody has joined, joining for
one that grows and shrinks. Both virtual IP commands are taken to be configured. Two files
with equal times, or an older file put in the place of a newer one with its time kept, are not
in `CertificateLoader`. A process's restart begins again at `Init`, because configuration
and breakers are kept in memory only; what a cluster node keeps on disk survives.

## Plan

1. Done: pool, selection, configuration with its refinement and lost updates, data plane with connections
   and shutdown; the cluster's three parts over one Raft group; certificates, logins, metrics and
   the request path. Theorems about all of them: every safety invariant and action property of the
   passing runs, and of the liveness properties the safety half: `RequestsAreFinite`, `EndsInOrder`,
   `AddressFollowsNews`, `ChecksStayTrue`.
2. Next, if the prover learns fairness: the liveness properties from these halves. A composition of the
   data plane's handler with its pools would let one theorem speak of a request from slot to answer.
3. Not planned: response bodies and path rewriting, which change no state anything here speaks of.
