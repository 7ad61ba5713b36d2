----------------------------- MODULE RequestPath -----------------------------
(***************************************************************************)
(* One request in the data plane's handler of                              *)
(* internal/dataplane/server.go, between the semaphore, which DataPlane    *)
(* has, and the exchange with an endpoint, which UpstreamPool has: the     *)
(* client's identity headers are removed, a route is matched, Authorize of *)
(* internal/auth/auth.go decides, the route's headers are set, pick        *)
(* (EndpointSelection) chooses and httputil.ReverseProxy sends the request.*)
(* Initial states and steps; PublicAccess composes them.                   *)
(*                                                                         *)
(* A path is the tuple of its segments, each of them one character or, for *)
(* a slash at the end, none: "/" is <<"">>, "/a/" is <<"a", "">>.          *)
(***************************************************************************)
EXTENDS EndpointSelection, Sequences, SequencesExt, FiniteSetsExt

CONSTANTS
    Hosts,      \* host names in lower case
    RouteHosts, \* those of them that routes have
    AnyHost,    \* the host of a route that has none
    Methods,
    PathPrefixes,   \* path prefixes in the configuration
    Paths,      \* paths of requests
    Scopes,
    MaxRoutes   \* bound on the routes

ASSUME RouteAssumption ==
    /\ RouteHosts \subseteq Hosts /\ AnyHost \notin Hosts
    /\ PathPrefixes \subseteq Seq(STRING)
    /\ MaxRoutes \in Nat

VARIABLES
    stage,      \* where the handler is
    routes,     \* runtime.routes
    request,    \* what matching looks at
    position,   \* match: the loop variable
    best,       \* match: best, as its place in routes; 0 for nil
    methodAllowed,
    policy,     \* the matched route: requireAuth and scopes
    trusted,    \* whose values the identity headers of the request are
    verified,   \* history: the identity Authorize accepted
    answer      \* what was answered before an endpoint was asked; 0 if it has given none

pickVars    == <<count, servable, start, next, index, pick>>
matchVars   == <<routes, request, position, best, methodAllowed>>
requestVars == <<stage, matchVars, policy, trusted, verified, answer, pickVars>>

Root == <<"">>

\* The number of characters.
Length(path) == Len(path) + Cardinality({i \in DOMAIN path : path[i] # ""})

\* Host names are written with a port, a dot at the end or capitals, or plainly.
Written(names) == [name: names, plain: BOOLEAN]

normalizeHost(written) == written.name

Configured ==
    [host: Written(RouteHosts) \cup {AnyHost}, prefix: PathPrefixes,
     methods: {{}, {CHOOSE m \in Methods : TRUE}}]

HostOf(route) == IF route.host = AnyHost THEN AnyHost ELSE normalizeHost(route.host)

\* Mutant: the prefix of a route stays as it was written.
PrefixAsWritten(route) == [route EXCEPT !.host = HostOf(route)]

Compiled(route) ==
    [route EXCEPT !.host = HostOf(route), !.prefix = IF @ = <<>> THEN Root ELSE @]

\* Of a request, what is matched: its host as normalizeHost leaves it, path and method.
MatchedRequests ==
    [host: {normalizeHost(written) : written \in Written(Hosts)}, path: Paths, method: Methods]
IdleRequest == CHOOSE r \in MatchedRequests : TRUE

IdentityHeaders == {"subject", "email", "scopes"}
Headers == IdentityHeaders \cup {"authorization", "other"}

Identities == [known: {TRUE}, email: BOOLEAN, scopes: SUBSET Scopes]
NoOne == [known |-> FALSE, email |-> FALSE, scopes |-> {}]
Public == [requireAuth |-> FALSE, scopes |-> {}]

\* The client sends values of its own for every header.
RequestInit ==
    /\ stage = "arrived"
    /\ routes \in {[i \in DOMAIN list |-> Compiled(list[i])] :
                      list \in BoundedSeq(Configured, MaxRoutes)}
    /\ request \in MatchedRequests
    /\ position = 1 /\ best = 0 /\ methodAllowed = FALSE
    /\ policy = Public
    /\ trusted = [h \in Headers |-> "client"]
    /\ verified = NoOne
    /\ answer = 0
    /\ count = 1 /\ servable = {} /\ start = 0 /\ next = 0 /\ index = 0 /\ pick = Pending

-----------------------------------------------------------------------------
(* match.                                                                   *)

\* Mutant: headers go through as the client sent them.
Untouched(headers) == headers

\* Header.Set, or Header.Del, of some names: whose values they have then.
SetHeaders(headers, names, whose) ==
    [h \in Headers |-> IF h \in names THEN whose ELSE headers[h]]

\* stripTrustedHeaders, and stripIdentityHeaders of Authorize.
Stripped(headers) == SetHeaders(headers, IdentityHeaders, "absent")

StripTrusted ==
    /\ stage = "arrived"
    /\ stage' = "match"
    /\ trusted' = Stripped(trusted)
    /\ UNCHANGED <<matchVars, policy, verified, answer, pickVars>>

\* strings.TrimSuffix(prefix, "/")
Trimmed(prefix) == IF Last(prefix) = "" THEN Front(prefix) ELSE prefix

pathMatches(prefix, path) ==
    \/ prefix = Root
    \/ path = prefix
    \/ IsStrictPrefix(Trimmed(prefix), path)

HostAndPathMatch(route) ==
    /\ route.host \in {AnyHost, request.host}
    /\ pathMatches(route.prefix, request.path)

MethodMatches(route) == route.methods = {} \/ request.method \in route.methods

\* Mutant: of two routes with the same prefix the later one wins.
NotShorter(route) == best = 0 \/ Length(route.prefix) >= Length(routes[best].prefix)

Better(route) == best = 0 \/ Length(route.prefix) > Length(routes[best].prefix)

\* One iteration of the loop over the routes.
TryRoute ==
    LET route == routes[position] IN
    /\ stage = "match" /\ position <= Len(routes)
    /\ position' = position + 1
    /\ methodAllowed' = (methodAllowed \/ (HostAndPathMatch(route) /\ ~MethodMatches(route)))
    /\ best' = IF HostAndPathMatch(route) /\ MethodMatches(route) /\ Better(route)
               THEN position ELSE best
    /\ UNCHANGED <<stage, routes, request, policy, trusted, verified, answer, pickVars>>

Matched == stage = "match" /\ position > Len(routes)

\* What pick was called with, and returned, is gone.
PickIsOver ==
    /\ count' = 1 /\ servable' = {} /\ start' = 0
    /\ next' = 0 /\ index' = 0 /\ pick' = Pending

Reject(status) ==
    /\ stage' = "answered" /\ answer' = status
    /\ PickIsOver
    /\ UNCHANGED <<matchVars, policy, trusted, verified>>

NoRoute == Matched /\ best = 0 /\ Reject(IF methodAllowed THEN 405 ELSE 404)

\* The route's policy is told when it is first looked at, and what only matching looks
\* at is forgotten then: nothing after this depends on it.
RouteFound ==
    /\ Matched /\ best # 0
    /\ stage' = "authorize"
    /\ policy' \in [requireAuth: {TRUE}, scopes: SUBSET Scopes] \cup {Public}
    /\ routes' = <<>> /\ position' = 1 /\ best' = 0 /\ methodAllowed' = FALSE
    /\ request' = IdleRequest
    /\ UNCHANGED <<trusted, verified, answer, pickVars>>

-----------------------------------------------------------------------------
(* Authorize.                                                               *)

\* Who the cookie and the bearer token are of: nobody if there is none, it does not open
\* or verify, or its claims are not valid now.
Credentials == [session: Identities \cup {NoOne}, bearer: Identities \cup {NoOne}, browser: BOOLEAN]

authenticate(given) == IF given.session # NoOne THEN given.session ELSE given.bearer

\* The identity's own headers in the place of any the request has.
WithIdentity(headers, identity) ==
    SetHeaders(Stripped(headers),
               {"subject", "scopes"} \cup (IF identity.email THEN {"email"} ELSE {}), "verified")

\* The route asks for nobody.
AdmitAnybody ==
    /\ stage = "authorize" /\ ~policy.requireAuth
    /\ stage' = "admitted"
    /\ UNCHANGED <<matchVars, policy, trusted, verified, answer, pickVars>>

\* No authorizer: requests are refused, not let through.
NoAuthorizer == stage = "authorize" /\ policy.requireAuth /\ Reject(503)

Authorize(given) ==
    LET identity == authenticate(given) IN
    /\ stage = "authorize" /\ policy.requireAuth
    /\ identity # NoOne /\ policy.scopes \subseteq identity.scopes
    /\ stage' = "admitted"
    /\ trusted' = WithIdentity(trusted, identity)
    /\ verified' = identity
    /\ UNCHANGED <<matchVars, policy, answer, pickVars>>

\* In mode "oidc" a browser that asks for a page is sent to the login.
Refuse(given, mode) ==
    LET identity == authenticate(given) IN
    /\ stage = "authorize" /\ policy.requireAuth
    /\ ~(identity # NoOne /\ policy.scopes \subseteq identity.scopes)
    /\ Reject(CASE identity # NoOne -> 403
                [] identity = NoOne /\ mode = "oidc" /\ given.browser -> 302
                [] OTHER -> 401)

-----------------------------------------------------------------------------
(* On to an endpoint.                                                       *)

\* hasHealthyEndpoint
NoneHealthy == stage = "admitted" /\ Reject(503)

Denied == IdentityHeaders \cup {"authorization"}

\* applyRouteHeaders, whatever the route sets.
ApplyRouteHeaders ==
    /\ stage = "admitted"
    /\ \E set \in SUBSET Headers : trusted' = SetHeaders(trusted, set \ Denied, "route")
    /\ stage' = "proxy"
    /\ UNCHANGED <<matchVars, policy, verified, answer, pickVars>>

\* The Director is called, with the pool in any state.
PickBegins ==
    /\ stage = "proxy"
    /\ stage' = "pick"
    /\ count' \in 1 .. MaxEndpoints
    /\ servable' \in SUBSET (0 .. count' - 1)
    /\ start' \in 0 .. count' - 1 /\ next' = start'
    /\ index' = 0 /\ pick' = Pending
    /\ UNCHANGED <<matchVars, policy, trusted, verified, answer>>

PickStep ==
    /\ stage = "pick"
    /\ Choose \/ PassOver \/ FallBack
    /\ UNCHANGED <<stage, matchVars, policy, trusted, verified, answer>>

\* After the Director the reverse proxy removes the headers that the request's
\* Connection header names, whichever the client put there, and the request goes out.
Send ==
    /\ stage = "pick" /\ pick.done
    /\ stage' = "sent"
    /\ \E named \in SUBSET Headers : trusted' = SetHeaders(trusted, named, "absent")
    /\ PickIsOver
    /\ UNCHANGED <<matchVars, policy, verified, answer>>

\* Or the reverse proxy finds that it cannot send the request: ErrorHandler.
CannotSend == stage = "pick" /\ pick.done /\ Reject(502)

RequestNext ==
    \/ StripTrusted \/ TryRoute \/ NoRoute \/ RouteFound
    \/ AdmitAnybody \/ NoAuthorizer
    \/ \E given \in Credentials :
          Authorize(given) \/ \E mode \in {"oidc", "bearer"} : Refuse(given, mode)
    \/ NoneHealthy \/ ApplyRouteHeaders \/ PickBegins \/ PickStep \/ Send \/ CannotSend

-----------------------------------------------------------------------------
RequestTypeOK ==
    /\ stage \in {"arrived", "match", "authorize", "admitted", "proxy", "pick", "sent", "answered"}
    /\ \A i \in DOMAIN routes :
          routes[i].host \in RouteHosts \cup {AnyHost} /\ routes[i].prefix # <<>>
    /\ position \in 1 .. Len(routes) + 1 /\ best \in 0 .. Len(routes)
    /\ methodAllowed \in BOOLEAN
    /\ policy \in [requireAuth: BOOLEAN, scopes: SUBSET Scopes]
    /\ trusted \in [Headers -> {"client", "absent", "verified", "route"}]
    /\ verified \in Identities \cup {NoOne}
    /\ answer \in {0, 302, 401, 403, 404, 405, 502, 503}
    /\ next \in Nat /\ index \in 0 .. count

\* In whichever order the routes are listed, and whichever of them match only in part,
\* the loop ends with one of the routes with the longest prefix that match host, path and
\* method, of those with the same host the first, or with none exactly if there is none; a
\* method is reported as not allowed only if a route has the path.  Which of two hosts wins
\* with equal prefixes, a route's own or none, is left open: "the most specific host/path
\* match" would be the former, and the code takes the one listed first.
RouteIsLongestMatch ==
    LET fits == {i \in DOMAIN routes : HostAndPathMatch(routes[i]) /\ MethodMatches(routes[i])}
        longest == {i \in fits : \A j \in fits : Length(routes[i].prefix) >= Length(routes[j].prefix)}
    IN  Matched =>
            /\ best \in IF fits = {} THEN {0} ELSE longest
            /\ \A i \in longest : routes[i].host = routes[best].host => best <= i
            /\ best = 0 => (methodAllowed <=> \E i \in DOMAIN routes : HostAndPathMatch(routes[i]))

\* What an identity header has to say, given who was verified.
OwnValue(h) == IF verified.known /\ (h = "email" => verified.email) THEN "verified" ELSE "absent"

\* "Route identity headers must be stripped from incoming requests before trusted values
\* are added", and the route's own headers do not bring them back: what the Director is
\* given names the identity that was verified and has the scopes the route asks for, or
\* nobody where the route asks for nobody.  The client's Connection header can take some
\* of it away before it goes out, and the endpoint of a protected route is then told less
\* than was verified, but nothing the client says of itself gets there.
IdentityHeadersTrusted ==
    /\ stage \in {"proxy", "pick"} =>
          trusted["authorization"] = "client" /\ \A h \in IdentityHeaders : trusted[h] = OwnValue(h)
    /\ stage = "sent" => \A h \in IdentityHeaders : trusted[h] \in {OwnValue(h), "absent"}
    /\ stage \in {"proxy", "pick", "sent"} =>
          /\ policy.requireAuth <=> verified.known
          /\ policy.scopes \subseteq verified.scopes
=============================================================================
