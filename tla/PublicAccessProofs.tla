------------------------- MODULE PublicAccessProofs -------------------------
(* Proofs about PublicAccess, for every number of handshakes, logins, requests, *)
(* routes and endpoints.  Each part has an inductive invariant of its own.      *)
EXTENDS PublicAccess, CertificateLoaderProofs, AuthenticationProofs, EndpointSelectionProofs,
        FiniteSetTheorems

-----------------------------------------------------------------------------
(* The path of a request: matching.                                             *)

RouteShape == [host: RouteHosts \cup {AnyHost}, prefix: (PathPrefixes \ {<<>>}) \cup {Root},
               methods: {{}, {CHOOSE m \in Methods : TRUE}}]

FitsRequest(i) == HostAndPathMatch(routes[i]) /\ MethodMatches(routes[i])
OtherMethod(i) == HostAndPathMatch(routes[i]) /\ ~MethodMatches(routes[i])
Size(i) == Length(routes[i].prefix)
Tried == 1 .. position - 1

\* Of the routes the loop has looked at, best is the first with the longest prefix.
LoopSoFar ==
    /\ best = 0 => \A i \in Tried : ~FitsRequest(i)
    /\ best # 0 => /\ best \in Tried /\ FitsRequest(best)
                   /\ \A i \in Tried : FitsRequest(i) => Size(i) <= Size(best)
                   /\ \A i \in Tried : FitsRequest(i) /\ i < best => Size(i) < Size(best)
    /\ methodAllowed <=> \E i \in Tried : OtherMethod(i)

MatchInv ==
    /\ routes \in Seq(RouteShape)
    /\ position \in 1 .. Len(routes) + 1 /\ best \in 0 .. Len(routes) /\ methodAllowed \in BOOLEAN
    /\ stage = "arrived" => position = 1 /\ best = 0 /\ methodAllowed = FALSE
    /\ stage = "match" => LoopSoFar

\* A path has a length.
LEMMA Lengths ==
    ASSUME NEW S, NEW path \in Seq(S)
    PROVE  Length(path) \in Nat
<1> DEFINE letters == {i \in DOMAIN path : path[i] # ""}
<1>1. Len(path) \in Nat /\ DOMAIN path = 1 .. Len(path)
  OBVIOUS
<1>2. letters \subseteq DOMAIN path
  OBVIOUS
<1>3. IsFiniteSet(DOMAIN path)
  BY <1>1, FS_Interval
<1> HIDE DEF letters
<1>4. Cardinality(letters) \in Nat
  BY <1>2, <1>3, FS_Subset, FS_CardinalityType
<1>5. Length(path) = Len(path) + Cardinality(letters)
  BY DEF Length, letters
<1> QED
  BY <1>1, <1>4, <1>5

LEMMA Sizes ==
    ASSUME routes \in Seq(RouteShape), NEW i \in 1 .. Len(routes)
    PROVE  Size(i) \in Nat
<1>1. routes[i] \in RouteShape
  OBVIOUS
<1>2. routes[i].prefix \in PathPrefixes \cup {Root}
  BY <1>1 DEF RouteShape
<1>3. Root \in Seq({""})
  BY DEF Root
<1> QED
  BY <1>2, <1>3, Lengths, RouteAssumption DEF Size

LEMMA CompiledRoutes ==
    ASSUME NEW route \in Configured
    PROVE  Compiled(route) \in RouteShape
<1>1. HostOf(route) \in RouteHosts \cup {AnyHost}
  BY DEF Configured, HostOf, Written, normalizeHost
<1> QED
  BY <1>1 DEF Configured, Compiled, RouteShape

LEMMA InitMatch == RequestInit => MatchInv
<1> SUFFICES ASSUME RequestInit PROVE MatchInv
  OBVIOUS
<1>1. PICK list \in BoundedSeq(Configured, MaxRoutes) :
          routes = [i \in DOMAIN list |-> Compiled(list[i])]
  BY DEF RequestInit
<1>2. PICK m \in 0 .. MaxRoutes : list \in [1 .. m -> Configured]
  BY DEF BoundedSeq, SeqOf
<1>3. routes \in [1 .. m -> RouteShape]
  BY <1>1, <1>2, CompiledRoutes
<1>4. m \in Nat
  BY <1>2, RouteAssumption
<1>5. routes \in Seq(RouteShape) /\ Len(routes) \in Nat
  BY <1>3, <1>4
<1>6. stage = "arrived" /\ position = 1 /\ best = 0 /\ methodAllowed = FALSE
  BY DEF RequestInit
<1>7. position \in 1 .. Len(routes) + 1 /\ best \in 0 .. Len(routes)
  BY <1>5, <1>6
<1>8. stage # "match"
  BY <1>6
<1>9. methodAllowed \in BOOLEAN
  BY <1>6
<1> QED
  BY <1>5, <1>6, <1>7, <1>8, <1>9, Zenon DEF MatchInv

\* One more route is looked at.
LEMMA RouteTried == MatchInv /\ TryRoute => MatchInv'
<1> SUFFICES ASSUME MatchInv, TryRoute PROVE MatchInv'
  OBVIOUS
<1>1. /\ stage = "match" /\ UNCHANGED <<stage, routes, request>> /\ position' = position + 1
      /\ Len(routes) \in Nat /\ position \in 1 .. Len(routes) /\ best \in 0 .. position - 1
  BY DEF TryRoute, MatchInv, LoopSoFar, Tried
<1>2. /\ methodAllowed' <=> methodAllowed \/ OtherMethod(position)
      /\ best' = IF FitsRequest(position) /\ (best = 0 \/ Size(position) > Size(best)) THEN position ELSE best
  BY DEF TryRoute, FitsRequest, OtherMethod, Better, Size
<1>3. /\ Tried' = Tried \cup {position} /\ position \notin Tried /\ Tried \subseteq 1 .. Len(routes)
      /\ \A i \in Tried : i < position
  BY <1>1 DEF Tried
<1>4. /\ \A i : (FitsRequest(i))' <=> FitsRequest(i)
      /\ \A i : (Size(i))' = Size(i)
      /\ \A i : (OtherMethod(i))' <=> OtherMethod(i)
  BY <1>1 DEF FitsRequest, OtherMethod, HostAndPathMatch, MethodMatches, Size
<1>5. \A i \in 1 .. Len(routes) : Size(i) \in Nat
  BY Sizes DEF MatchInv
<1>6. LoopSoFar
  BY <1>1 DEF MatchInv
<1>7. methodAllowed' <=> \E i \in Tried' : (OtherMethod(i))'
  BY <1>2, <1>3, <1>4, <1>6, Zenon DEF LoopSoFar
<1>8. LoopSoFar'
  <2>1. CASE FitsRequest(position) /\ (best = 0 \/ Size(position) > Size(best))
    <3>1. best' = position
      BY <1>2, <2>1
    <3>2. \A i \in Tried : FitsRequest(i) => Size(i) < Size(position)
      BY <1>1, <1>3, <1>5, <1>6, <2>1 DEF LoopSoFar
    <3> QED
      BY <1>1, <1>3, <1>4, <1>5, <1>7, <2>1, <3>1, <3>2 DEF LoopSoFar
  <2>2. CASE ~(FitsRequest(position) /\ (best = 0 \/ Size(position) > Size(best)))
    <3>1. best' = best
      BY <1>2, <2>2
    <3>2. best # 0 => best \in Tried
      BY <1>6 DEF LoopSoFar
    <3> QED
      BY <1>1, <1>3, <1>4, <1>5, <1>6, <1>7, <2>2, <3>1, <3>2 DEF LoopSoFar
  <2> QED
    BY <2>1, <2>2
<1>9. methodAllowed' \in BOOLEAN
  BY DEF TryRoute
<1>10. best' \in 0 .. Len(routes) /\ position' \in 1 .. Len(routes) + 1
  BY <1>1, <1>2
<1> QED
  BY <1>1, <1>8, <1>9, <1>10 DEF MatchInv

LEMMA StepMatch == MatchInv /\ [RequestNext]_requestVars => MatchInv'
<1> SUFFICES ASSUME MatchInv, [RequestNext]_requestVars PROVE MatchInv'
  OBVIOUS
<1>1. CASE StripTrusted
  <2>1. /\ UNCHANGED <<routes, position, best, methodAllowed>>
        /\ position = 1 /\ best = 0 /\ methodAllowed = FALSE /\ stage' = "match"
    BY <1>1 DEF StripTrusted, matchVars, MatchInv
  <2>2. LoopSoFar'
    BY <2>1 DEF LoopSoFar, Tried
  <2> QED
    BY <2>1, <2>2 DEF MatchInv
<1>2. CASE RouteFound
  <2>1. routes' = <<>> /\ position' = 1 /\ best' = 0 /\ methodAllowed' = FALSE /\ stage' = "authorize"
    BY <1>2 DEF RouteFound
  <2>2. routes' \in Seq(RouteShape) /\ position' \in 1 .. Len(routes') + 1 /\ best' \in 0 .. Len(routes')
    BY <2>1
  <2>3. methodAllowed' \in BOOLEAN
    BY <2>1
  <2>4. stage' # "arrived" /\ stage' # "match"
    BY <2>1
  <2> QED
    BY <2>2, <2>3, <2>4, Zenon DEF MatchInv
<1>3. CASE UNCHANGED <<matchVars, stage>>
  BY <1>3 DEF matchVars, MatchInv, LoopSoFar, Tried, FitsRequest, OtherMethod, HostAndPathMatch, MethodMatches, Size
<1>4. CASE stage' \notin {"arrived", "match"} /\ UNCHANGED matchVars
  BY <1>4 DEF matchVars, MatchInv
<1>5. TryRoute \/ StripTrusted \/ RouteFound \/ UNCHANGED <<matchVars, stage>>
      \/ (stage' \notin {"arrived", "match"} /\ UNCHANGED matchVars)
  BY DEF RequestNext, requestVars, NoRoute, Reject, AdmitAnybody, NoAuthorizer, Authorize, Refuse, NoneHealthy,
         ApplyRouteHeaders, PickBegins, PickStep, Send, CannotSend
<1> QED
  BY <1>1, <1>2, <1>3, <1>4, <1>5, RouteTried
\* At the end of the loop it is the first of all the longest routes that fit.
LEMMA LongestOfInv == MatchInv => RouteIsLongestMatch
<1> SUFFICES ASSUME MatchInv PROVE RouteIsLongestMatch
  OBVIOUS
<1> DEFINE fits == {i \in DOMAIN routes : FitsRequest(i)}
           longest == {i \in fits : \A j \in fits : Size(i) >= Size(j)}
<1> SUFFICES ASSUME Matched
             PROVE  /\ best \in IF fits = {} THEN {0} ELSE longest
                    /\ \A i \in longest : best <= i
                    /\ best = 0 => (methodAllowed <=> \E i \in DOMAIN routes : HostAndPathMatch(routes[i]))
  BY DEF RouteIsLongestMatch, FitsRequest, Size
<1>1. LoopSoFar /\ position = Len(routes) + 1 /\ Len(routes) \in Nat /\ DOMAIN routes = 1 .. Len(routes)
  BY DEF Matched, MatchInv
<1>2. Tried = DOMAIN routes
  BY <1>1 DEF Tried
<1>3. \A i \in DOMAIN routes : Size(i) \in Nat
  BY <1>1, Sizes DEF MatchInv
<1>4. CASE best = 0
  BY <1>1, <1>2, <1>4 DEF LoopSoFar, FitsRequest, OtherMethod
<1>5. CASE best # 0
  <2>1. best \in longest
    BY <1>1, <1>2, <1>3, <1>5 DEF LoopSoFar
  <2>2. ASSUME NEW i \in longest PROVE best <= i
    BY <1>1, <1>2, <1>3, <1>5, <2>1, <2>2 DEF LoopSoFar
  <2> QED
    BY <1>5, <2>1, <2>2
<1> QED
  BY <1>4, <1>5

-----------------------------------------------------------------------------
(* The path of a request: headers.                                              *)

Absent == \A h \in IdentityHeaders : trusted[h] = "absent"

\* Who is verified is whom the route asks for, from the moment the request is admitted.
Entitled == (policy.requireAuth <=> verified.known) /\ policy.scopes \subseteq verified.scopes

\* What goes to the Director.
Admitted ==
    /\ \A h \in IdentityHeaders : trusted[h] = OwnValue(h)
    /\ trusted["authorization"] = "client"
    /\ Entitled

Whose == {"client", "absent", "verified", "route"}
Policies == [requireAuth: {TRUE}, scopes: SUBSET Scopes] \cup {Public}
Stages == {"arrived", "match", "authorize", "admitted", "proxy", "pick", "sent", "answered"}
Answers == {0, 302, 401, 403, 404, 405, 502, 503}

HeaderTypes ==
    /\ stage \in Stages
    /\ trusted \in [Headers -> Whose]
    /\ verified \in Identities \cup {NoOne}
    /\ policy \in Policies
    /\ answer \in Answers

HeaderInv ==
    /\ HeaderTypes
    /\ stage \in {"arrived", "match", "authorize"} => trusted["authorization"] = "client"
    /\ stage \in {"match", "authorize"} => Absent
    /\ stage \in {"arrived", "match", "authorize"} => verified = NoOne
    /\ stage \in {"admitted", "proxy", "pick"} => Admitted
    /\ stage = "sent" => Entitled /\ \A h \in IdentityHeaders : trusted[h] \in {OwnValue(h), "absent"}

LEMMA InitHeaders == RequestInit => HeaderInv
  BY DEF RequestInit, HeaderInv, HeaderTypes, Headers, IdentityHeaders, Stages, Whose, Policies, Answers

\* Headers that are set have the new value, and the others the old one.
LEMMA HeadersSet ==
    ASSUME NEW old \in [Headers -> Whose], NEW names,
           NEW whose \in Whose
    PROVE  /\ SetHeaders(old, names, whose) \in [Headers -> Whose]
           /\ \A h \in Headers : SetHeaders(old, names, whose)[h] = IF h \in names THEN whose ELSE old[h]
  BY DEF SetHeaders

\* The handler's own answers leave the request as it is.
LEMMA Rejected ==
    ASSUME HeaderInv, NEW code \in {302, 401, 403, 404, 405, 502, 503}, Reject(code)
    PROVE  HeaderInv'
<1>1. stage' = "answered" /\ answer' = code /\ UNCHANGED <<policy, trusted, verified>>
  BY DEF Reject
<1>2. HeaderTypes'
  BY <1>1 DEF HeaderInv, HeaderTypes, Stages, Answers
<1> QED
  BY <1>1, <1>2 DEF HeaderInv

LEMMA RequestAuthorized ==
    ASSUME HeaderInv, NEW given \in Credentials, Authorize(given)
    PROVE  HeaderInv'
<1> DEFINE identity == authenticate(given)
           names == {"subject", "scopes"} \cup (IF identity.email THEN {"email"} ELSE {})
           bare == Stripped(trusted)
<1>1. identity \in Identities /\ policy.requireAuth /\ policy.scopes \subseteq identity.scopes
  BY DEF Authorize, authenticate, Credentials
<1>2. /\ stage' = "admitted" /\ verified' = identity /\ UNCHANGED <<policy, answer>>
      /\ trusted' = SetHeaders(bare, names, "verified")
  BY DEF Authorize, WithIdentity
<1>3. /\ bare \in [Headers -> Whose]
      /\ \A h \in Headers : bare[h] = IF h \in IdentityHeaders THEN "absent" ELSE trusted[h]
  BY HeadersSet DEF Whose, HeaderInv, HeaderTypes, Stripped
<1> HIDE DEF bare
<1>4. /\ trusted' \in [Headers -> Whose]
      /\ \A h \in Headers : trusted'[h] = IF h \in names THEN "verified" ELSE bare[h]
  BY <1>2, <1>3, HeadersSet DEF Whose
<1>5. trusted'["authorization"] = "client"
  BY <1>3, <1>4 DEF HeaderInv, Authorize, Headers, IdentityHeaders
<1>6. identity.known /\ identity.email \in BOOLEAN
  BY <1>1 DEF Identities
<1>7. Admitted'
  BY <1>1, <1>2, <1>3, <1>4, <1>5, <1>6 DEF Admitted, Entitled, OwnValue, Headers, IdentityHeaders
<1> HIDE DEF identity
<1>8. HeaderTypes'
  BY <1>1, <1>2, <1>4 DEF HeaderInv, HeaderTypes, Stages
<1> QED
  BY <1>2, <1>7, <1>8 DEF HeaderInv

LEMMA RouteHeadersSet == HeaderInv /\ ApplyRouteHeaders => HeaderInv'
<1> SUFFICES ASSUME HeaderInv, ApplyRouteHeaders PROVE HeaderInv'
  OBVIOUS
<1>1. stage = "admitted" /\ stage' = "proxy" /\ UNCHANGED <<policy, verified, answer>>
  BY DEF ApplyRouteHeaders
<1>2. PICK set \in SUBSET Headers : trusted' = SetHeaders(trusted, set \ Denied, "route")
  BY DEF ApplyRouteHeaders
<1>3. /\ trusted' \in [Headers -> Whose]
      /\ \A h \in Headers : trusted'[h] = IF h \in set \ Denied THEN "route" ELSE trusted[h]
  BY <1>2, HeadersSet DEF Whose, HeaderInv, HeaderTypes
<1>4. \A h \in Denied : h \in Headers /\ trusted'[h] = trusted[h]
  BY <1>3 DEF Denied, Headers
<1>5. HeaderTypes'
  BY <1>1, <1>3 DEF HeaderInv, HeaderTypes, Stages
<1>6. Admitted'
  BY <1>1, <1>4 DEF HeaderInv, Admitted, Entitled, OwnValue, Denied
<1> QED
  BY <1>1, <1>5, <1>6 DEF HeaderInv

\* What the client's Connection header names is gone; nothing takes its place.
LEMMA HeadersSent == HeaderInv /\ Send => HeaderInv'
<1> SUFFICES ASSUME HeaderInv, Send PROVE HeaderInv'
  OBVIOUS
<1>1. stage = "pick" /\ stage' = "sent" /\ UNCHANGED <<policy, verified, answer>>
  BY DEF Send
<1>2. PICK named \in SUBSET Headers : trusted' = SetHeaders(trusted, named, "absent")
  BY DEF Send
<1>3. /\ trusted' \in [Headers -> Whose]
      /\ \A h \in Headers : trusted'[h] = IF h \in named THEN "absent" ELSE trusted[h]
  BY <1>2, HeadersSet DEF Whose, HeaderInv, HeaderTypes
<1>4. HeaderTypes'
  BY <1>1, <1>3 DEF HeaderInv, HeaderTypes, Stages
<1>5. Entitled'
  BY <1>1 DEF HeaderInv, Admitted, Entitled
<1>6. \A h \in IdentityHeaders : trusted'[h] \in {OwnValue(h)', "absent"}
  BY <1>1, <1>3 DEF HeaderInv, Admitted, OwnValue, Headers
<1> QED
  BY <1>1, <1>4, <1>5, <1>6 DEF HeaderInv

LEMMA StepHeaders == HeaderInv /\ [RequestNext]_requestVars => HeaderInv'
<1> SUFFICES ASSUME HeaderInv, [RequestNext]_requestVars PROVE HeaderInv'
  OBVIOUS
<1>1. CASE StripTrusted
  <2>1. stage = "arrived" /\ stage' = "match" /\ UNCHANGED <<policy, verified, answer>>
        /\ trusted' = SetHeaders(trusted, IdentityHeaders, "absent")
    BY <1>1 DEF StripTrusted, Stripped
  <2>2. /\ trusted' \in [Headers -> Whose]
        /\ \A h \in Headers : trusted'[h] = IF h \in IdentityHeaders THEN "absent" ELSE trusted[h]
    BY <2>1, HeadersSet DEF Whose, HeaderInv, HeaderTypes
  <2>3. HeaderTypes' /\ Absent' /\ trusted'["authorization"] = "client"
    BY <2>1, <2>2 DEF HeaderInv, HeaderTypes, Absent, Headers, IdentityHeaders, Stages
  <2> QED
    BY <2>1, <2>3 DEF HeaderInv
<1>2. CASE RouteFound
  <2>1. stage' = "authorize" /\ UNCHANGED <<trusted, verified, answer>> /\ stage = "match"
        /\ policy' \in Policies
    BY <1>2 DEF RouteFound, Matched, Policies
  <2>2. HeaderTypes' /\ Absent'
    BY <2>1 DEF HeaderInv, HeaderTypes, Absent, Stages
  <2> QED
    BY <2>1, <2>2 DEF HeaderInv
<1>3. CASE AdmitAnybody
  <2>1. stage = "authorize" /\ stage' = "admitted" /\ ~policy.requireAuth
        /\ UNCHANGED <<policy, trusted, verified, answer>>
    BY <1>3 DEF AdmitAnybody
  <2>2. policy = Public /\ verified = NoOne
    BY <2>1 DEF HeaderInv, HeaderTypes, Policies
  <2>3. Admitted'
    BY <2>1, <2>2 DEF HeaderInv, Absent, Admitted, Entitled, OwnValue, Public, NoOne
  <2>4. HeaderTypes'
    BY <2>1 DEF HeaderInv, HeaderTypes, Stages
  <2> QED
    BY <2>1, <2>3, <2>4 DEF HeaderInv
<1>4. ASSUME NEW code \in {302, 401, 403, 404, 405, 502, 503}, Reject(code) PROVE HeaderInv'
  BY <1>4, Rejected
<1>5. CASE UNCHANGED <<policy, trusted, verified, answer>> /\ (UNCHANGED stage \/ (stage = "proxy" /\ stage' = "pick"))
  <2>1. HeaderTypes'
    BY <1>5 DEF HeaderInv, HeaderTypes, Stages
  <2> QED
    BY <1>5, <2>1 DEF HeaderInv, Absent, Admitted, Entitled, OwnValue
<1>6. CASE RequestNext
  <2>1. CASE NoRoute \/ NoAuthorizer \/ NoneHealthy \/ CannotSend
    BY <1>4, <2>1 DEF NoRoute, NoAuthorizer, NoneHealthy, CannotSend
  <2>2. ASSUME NEW given \in Credentials, NEW mode, Refuse(given, mode) PROVE HeaderInv'
    BY <1>4, <2>2 DEF Refuse
  <2>3. CASE TryRoute \/ PickBegins \/ PickStep
    BY <1>5, <2>3 DEF TryRoute, PickBegins, PickStep
  <2> QED
    BY <1>1, <1>2, <1>3, <1>6, <2>1, <2>2, <2>3, RequestAuthorized, RouteHeadersSet, HeadersSent
       DEF RequestNext
<1>7. CASE UNCHANGED requestVars
  BY <1>5, <1>7 DEF requestVars
<1> QED
  BY <1>6, <1>7

LEMMA HeadersOfInv == HeaderInv => IdentityHeadersTrusted
  BY DEF HeaderInv, HeaderTypes, Admitted, Entitled, IdentityHeadersTrusted

-----------------------------------------------------------------------------
(* The path of a request: pick, whose invariant is EndpointSelectionProofs'.    *)

\* Before its first iteration.
LEMMA PickFresh ==
    ASSUME count \in Nat \ {0}, servable \subseteq Endpoints, start \in Endpoints,
           next = start, index = 0, pick = Pending
    PROVE  IInv
<1>1. index \in 0 .. count /\ next \in Nat /\ 0 \in Endpoints /\ next = start + index
  BY DEF Endpoints
<1>2. pick \in [endpoint: Endpoints, permitted: BOOLEAN, done: BOOLEAN] /\ ~pick.done
  BY <1>1 DEF Pending
<1> QED
  BY <1>1, <1>2 DEF IInv

LEMMA InitPick == RequestInit => IInv
<1> SUFFICES ASSUME RequestInit PROVE IInv
  OBVIOUS
<1>1. count = 1 /\ servable = {} /\ start = 0 /\ next = 0 /\ index = 0 /\ pick = Pending
  BY DEF RequestInit
<1>2. count \in Nat \ {0} /\ servable \subseteq Endpoints /\ start \in Endpoints
  BY <1>1 DEF Endpoints
<1> QED
  BY <1>1, <1>2, PickFresh

LEMMA StepPick == IInv /\ [RequestNext]_requestVars => IInv'
<1> SUFFICES ASSUME IInv, [RequestNext]_requestVars PROVE IInv'
  OBVIOUS
<1>1. CASE UNCHANGED pickVars
  <2>1. UNCHANGED vars
    BY <1>1 DEF pickVars, vars
  <2> QED
    BY <2>1, StepIInv
<1>2. CASE PickStep
  BY <1>2, StepIInv DEF PickStep, Next
<1>3. CASE PickBegins
  <2>1. /\ count' \in Nat \ {0} /\ servable' \subseteq Endpoints' /\ start' \in Endpoints'
        /\ next' = start' /\ index' = 0 /\ pick' = Pending
    <3>1. count' \in 1 .. MaxEndpoints
      BY <1>3 DEF PickBegins
    <3>2. count' \in Nat \ {0}
      BY <3>1, SelectionAssumption
    <3>3. /\ servable' \subseteq 0 .. count' - 1 /\ start' \in 0 .. count' - 1
          /\ next' = start' /\ index' = 0 /\ pick' = Pending
      BY <1>3 DEF PickBegins
    <3> QED
      BY <3>2, <3>3 DEF Endpoints
  <2>2. index' \in 0 .. count' /\ next' \in Nat /\ 0 \in Endpoints' /\ next' = start' + index'
    <3>1. PICK n \in Nat \ {0} : count' = n
      BY <2>1
    <3>2. PICK first \in Endpoints' : start' = first
      BY <2>1
    <3>3. Endpoints' = 0 .. n - 1
      BY <3>1 DEF Endpoints
    <3>4. first \in Nat /\ 0 \in 0 .. n - 1 /\ 0 \in 0 .. n /\ first = first + 0
      BY <3>2, <3>3
    <3> QED
      BY <2>1, <3>1, <3>2, <3>3, <3>4
  <2>3. pick' \in [endpoint: Endpoints', permitted: BOOLEAN, done: BOOLEAN] /\ ~pick'.done
    BY <2>1, <2>2 DEF Pending
  <2>4. \A i \in 0 .. index' - 1 : FALSE
    BY <2>1
  <2> QED
    BY <2>1, <2>2, <2>3, <2>4 DEF IInv
<1>4. CASE PickIsOver
  <2>1. count' = 1 /\ servable' = {} /\ start' = 0 /\ next' = 0 /\ index' = 0 /\ pick' = Pending
    BY <1>4 DEF PickIsOver
  <2>2. Endpoints' = 0 .. 0 /\ 0 \in Endpoints'
    BY <2>1 DEF Endpoints
  <2>3. pick' \in [endpoint: Endpoints', permitted: BOOLEAN, done: BOOLEAN] /\ ~pick'.done
    BY <2>1, <2>2 DEF Pending
  <2>4. \A i \in 0 .. index' - 1 : FALSE
    BY <2>1
  <2> QED
    BY <2>1, <2>2, <2>3, <2>4 DEF IInv
<1> QED
  BY <1>1, <1>2, <1>3, <1>4
     DEF RequestNext, requestVars, StripTrusted, TryRoute, NoRoute, RouteFound, AdmitAnybody, NoAuthorizer,
         Authorize, Refuse, NoneHealthy, ApplyRouteHeaders, Send, CannotSend, Reject

RequestInv == MatchInv /\ HeaderInv /\ IInv

LEMMA RequestTyped == RequestInv => RequestTypeOK
<1> SUFFICES ASSUME RequestInv PROVE RequestTypeOK
  OBVIOUS
<1>1. ASSUME NEW i \in DOMAIN routes
      PROVE  routes[i].host \in RouteHosts \cup {AnyHost} /\ routes[i].prefix # <<>>
  <2>1. routes[i] \in RouteShape
    BY <1>1 DEF RequestInv, MatchInv
  <2>2. routes[i].host \in RouteHosts \cup {AnyHost} /\ routes[i].prefix \in (PathPrefixes \ {<<>>}) \cup {Root}
    BY <2>1 DEF RouteShape
  <2>3. Root # <<>>
    BY DEF Root
  <2> QED
    BY <2>2, <2>3
<1>2. policy \in [requireAuth: BOOLEAN, scopes: SUBSET Scopes]
  <2>1. CASE policy = Public
    BY <2>1 DEF Public
  <2>2. CASE policy \in [requireAuth: {TRUE}, scopes: SUBSET Scopes]
    <3>1. [requireAuth: {TRUE}, scopes: SUBSET Scopes] \subseteq [requireAuth: BOOLEAN, scopes: SUBSET Scopes]
      OBVIOUS
    <3> QED
      BY <2>2, <3>1
  <2> QED
    BY <2>1, <2>2 DEF RequestInv, HeaderInv, HeaderTypes, Policies
<1>3. next \in Nat /\ index \in 0 .. count
  BY DEF RequestInv, IInv
<1> QED
  BY <1>1, <1>2, <1>3 DEF RequestInv, MatchInv, HeaderInv, HeaderTypes, Stages, Whose, Answers, RequestTypeOK

-----------------------------------------------------------------------------
(* The counters.                                                                *)

InPhase(phases) == {h \in Handlers : phase[h] \in phases}

Busy    == {"counted", "serving", "left", "responded", "record"}
ToCome  == {"counted", "serving", "left"}       \* not counted as answered yet
ToError == {"responded"}                        \* answered, the error not counted yet
ToKeep  == {"responded", "record"}              \* answered, the series not counted yet

\* Requests under way are finitely many, since they are counted; what is counted and what
\* is still to come of them add up.
MetricsInv ==
    /\ {requests, activeRequests, responses, serverErrors} \subseteq Nat
    /\ series \in [Series -> Nat]
    /\ phase \in [Handlers -> Busy \cup {"none"}]
    /\ status \in [Handlers -> Statuses \cup {0}]
    /\ label \in [Handlers -> RouteNames \cup {Unknown}]
    /\ IsFiniteSet(InPhase(Busy))
    /\ requests <= MaxRequests
    /\ activeRequests = Cardinality(InPhase({"serving"}))
    /\ requests = responses + Cardinality(InPhase(ToCome))
    /\ serverErrors + Cardinality(InPhase(ToError)) <= responses
    /\ \A s \in Series : series[s] + Cardinality(InPhase(ToKeep)) <= responses
    /\ IsFiniteSet(Kept) /\ Cardinality(Kept) <= MaxSeries

LEMMA InitMetrics == MetricsInit => MetricsInv
<1> SUFFICES ASSUME MetricsInit PROVE MetricsInv
  OBVIOUS
<1>1. \A phases \in {Busy, {"serving"}, ToCome, ToError, ToKeep} : InPhase(phases) = {}
  BY DEF MetricsInit, InPhase, Busy, ToCome, ToError, ToKeep
<1>2. Kept = {}
  BY DEF MetricsInit, Kept
<1>3. IsFiniteSet({}) /\ Cardinality({}) = 0
  BY FS_EmptySet
<1> QED
  BY <1>1, <1>2, <1>3, MetricsAssumption DEF MetricsInit, MetricsInv, Statuses

\* A set of handlers by phase when one of them moves.
LEMMA MoveCounted ==
    ASSUME MetricsInv, NEW h \in Handlers, NEW there \in Busy \cup {"none"}, Moves(h, there),
           NEW phases \in SUBSET Busy
    PROVE  /\ IsFiniteSet(InPhase(phases)') /\ Cardinality(InPhase(phases)) \in Nat
           /\ Cardinality(InPhase(phases)') \in Nat
           /\ (phase[h] \in phases <=> there \in phases) => InPhase(phases)' = InPhase(phases)
           /\ phase[h] \in phases /\ there \notin phases =>
                Cardinality(InPhase(phases)) = Cardinality(InPhase(phases)') + 1
           /\ phase[h] \notin phases /\ there \in phases =>
                Cardinality(InPhase(phases)') = Cardinality(InPhase(phases)) + 1
<1> DEFINE these == InPhase(phases)
<1>1. phase'[h] = there /\ \A k \in Handlers \ {h} : phase'[k] = phase[k]
  BY DEF Moves, MetricsInv
<1>2. IsFiniteSet(these)
  <2>1. these \subseteq InPhase(Busy)
    BY DEF InPhase
  <2> QED
    BY <2>1, FS_Subset DEF MetricsInv
<1>3. /\ (phase[h] \in phases <=> there \in phases) => these' = these
      /\ phase[h] \in phases /\ there \notin phases => these' = these \ {h} /\ h \in these
      /\ phase[h] \notin phases /\ there \in phases => these' = these \cup {h} /\ h \notin these
  BY <1>1 DEF InPhase
<1> HIDE DEF these
<1>4. Cardinality(these) \in Nat
  BY <1>2, FS_CardinalityType
<1>5. IsFiniteSet(these \cup {h}) /\ (h \notin these => Cardinality(these \cup {h}) = Cardinality(these) + 1)
  BY <1>2, FS_AddElement
<1>6. IsFiniteSet(these \ {h}) /\ (h \in these => Cardinality(these \ {h}) = Cardinality(these) - 1)
  BY <1>2, FS_RemoveElement
<1>7. IsFiniteSet(these') /\ Cardinality(these') \in Nat
  BY <1>2, <1>3, <1>5, <1>6, FS_CardinalityType
<1>8. phase[h] \in phases /\ there \notin phases => Cardinality(these) = Cardinality(these') + 1
  <2>1. phase[h] \in phases /\ there \notin phases => Cardinality(these') = Cardinality(these) - 1
    BY <1>3, <1>6
  <2> QED
    BY <1>4, <1>7, <2>1
<1>9. phase[h] \notin phases /\ there \in phases => Cardinality(these') = Cardinality(these) + 1
  BY <1>3, <1>5
<1> QED
  BY <1>2, <1>3, <1>4, <1>7, <1>8, <1>9 DEF these

\* The sets of MetricsInv when one handler moves.
LEMMA MoveSeen ==
    ASSUME MetricsInv, NEW h \in Handlers, NEW there \in Busy \cup {"none"}, Moves(h, there)
    PROVE  /\ phase' \in [Handlers -> Busy \cup {"none"}]
           /\ IsFiniteSet(InPhase(Busy)')
           /\ \A phases \in {{"serving"}, ToCome, ToError, ToKeep} :
                /\ Cardinality(InPhase(phases)) \in Nat /\ Cardinality(InPhase(phases)') \in Nat
                /\ (phase[h] \in phases <=> there \in phases) =>
                     Cardinality(InPhase(phases)') = Cardinality(InPhase(phases))
                /\ phase[h] \in phases /\ there \notin phases =>
                     Cardinality(InPhase(phases)) = Cardinality(InPhase(phases)') + 1
                /\ phase[h] \notin phases /\ there \in phases =>
                     Cardinality(InPhase(phases)') = Cardinality(InPhase(phases)) + 1
<1>1. phase' \in [Handlers -> Busy \cup {"none"}]
  BY DEF Moves, MetricsInv
<1>2. IsFiniteSet(InPhase(Busy)')
  BY MoveCounted
<1>3. ASSUME NEW phases \in {{"serving"}, ToCome, ToError, ToKeep} PROVE phases \in SUBSET Busy
  BY <1>3 DEF ToCome, ToError, ToKeep, Busy
<1> QED
  BY <1>1, <1>2, <1>3, MoveCounted

LEMMA StepMetrics == MetricsInv /\ [MetricsNext]_metricsVars => MetricsInv'
<1> SUFFICES ASSUME MetricsInv, [MetricsNext]_metricsVars PROVE MetricsInv'
  OBVIOUS
<1> DEFINE serving == Cardinality(InPhase({"serving"}))
           toCome  == Cardinality(InPhase(ToCome))
           toError == Cardinality(InPhase(ToError))
           toKeep  == Cardinality(InPhase(ToKeep))
<1>1. /\ requests \in Nat /\ activeRequests \in Nat /\ responses \in Nat /\ serverErrors \in Nat
      /\ series \in [Series -> Nat] /\ MaxRequests \in Nat
  BY MetricsAssumption DEF MetricsInv
<1>2. ASSUME UNCHANGED series PROVE UNCHANGED Kept
  BY <1>2 DEF Kept
<1>3. ASSUME NEW h \in Handlers, CountRequest(h) PROVE MetricsInv'
  <2>1. /\ phase[h] = "none" /\ Moves(h, "counted") /\ requests < MaxRequests /\ requests' = requests + 1
        /\ UNCHANGED <<activeRequests, responses, serverErrors, series, status, label, Kept>>
    BY <1>2, <1>3 DEF CountRequest
  <2>2. phase' \in [Handlers -> Busy \cup {"none"}] /\ IsFiniteSet(InPhase(Busy)')
    BY <2>1, MoveSeen DEF Busy
  <2>3. toCome \in Nat /\ toCome' = toCome + 1 /\ serving' = serving /\ toError' = toError /\ toKeep' = toKeep
    BY <2>1, MoveSeen DEF Busy, ToCome, ToError, ToKeep
  <2> HIDE DEF serving, toCome, toError, toKeep
  <2>4. requests' <= MaxRequests /\ requests' = responses' + toCome' /\ requests' \in Nat
    BY <1>1, <2>1, <2>3 DEF MetricsInv, toCome
  <2> QED
    BY <2>1, <2>2, <2>3, <2>4 DEF MetricsInv, serving, toCome, toError, toKeep
<1>4. ASSUME NEW h \in Handlers, CountActive(h) PROVE MetricsInv'
  <2>1. /\ phase[h] = "counted" /\ Moves(h, "serving") /\ activeRequests' = activeRequests + 1
        /\ UNCHANGED <<requests, responses, serverErrors, series, status, label, Kept>>
    BY <1>2, <1>4 DEF CountActive
  <2>2. phase' \in [Handlers -> Busy \cup {"none"}] /\ IsFiniteSet(InPhase(Busy)')
    BY <2>1, MoveSeen DEF Busy
  <2>3. toCome' = toCome /\ serving' = serving + 1 /\ toError' = toError /\ toKeep' = toKeep
    BY <2>1, MoveSeen DEF Busy, ToCome, ToError, ToKeep
  <2> HIDE DEF serving, toCome, toError, toKeep
  <2>4. activeRequests' = serving' /\ activeRequests' \in Nat
    BY <1>1, <2>1, <2>3 DEF MetricsInv, serving
  <2> QED
    BY <2>1, <2>2, <2>3, <2>4 DEF MetricsInv, serving, toCome, toError, toKeep
<1>5. ASSUME NEW h \in Handlers, GetRoute(h) \/ WriteStatus(h) PROVE MetricsInv'
  <2>1. UNCHANGED <<requests, activeRequests, responses, serverErrors, series, phase, Kept>>
    BY <1>2, <1>5 DEF GetRoute, WriteStatus, counterVars
  <2>2. status' \in [Handlers -> Statuses \cup {0}] /\ label' \in [Handlers -> RouteNames \cup {Unknown}]
    BY <1>5 DEF GetRoute, WriteStatus, MetricsInv
  <2> QED
    BY <2>1, <2>2 DEF MetricsInv, InPhase
<1>6. ASSUME NEW h \in Handlers, NoLongerActive(h) PROVE MetricsInv'
  <2>1. /\ phase[h] = "serving" /\ Moves(h, "left") /\ activeRequests' = activeRequests - 1
        /\ UNCHANGED <<requests, responses, serverErrors, series, status, label, Kept>>
    BY <1>2, <1>6 DEF NoLongerActive
  <2>2. phase' \in [Handlers -> Busy \cup {"none"}] /\ IsFiniteSet(InPhase(Busy)')
    BY <2>1, MoveSeen DEF Busy
  <2>3. toCome' = toCome /\ serving = serving' + 1 /\ serving' \in Nat /\ toError' = toError /\ toKeep' = toKeep
    BY <2>1, MoveSeen DEF Busy, ToCome, ToError, ToKeep
  <2> HIDE DEF serving, toCome, toError, toKeep
  <2>4. activeRequests = serving
    BY DEF MetricsInv, serving
  <2>5. activeRequests' = serving' /\ activeRequests' \in Nat
    <3>1. PICK left \in Nat : serving' = left
      BY <2>3
    <3>2. activeRequests = left + 1 /\ activeRequests' = activeRequests - 1
      BY <2>1, <2>3, <2>4, <3>1
    <3> QED
      BY <3>1, <3>2
  <2> QED
    BY <2>1, <2>2, <2>3, <2>5 DEF MetricsInv, serving, toCome, toError, toKeep
<1>7. ASSUME NEW h \in Handlers, CountResponse(h) PROVE MetricsInv'
  <2>1. /\ phase[h] = "left" /\ Moves(h, "responded") /\ responses' = responses + 1
        /\ UNCHANGED <<requests, activeRequests, serverErrors, series, status, label, Kept>>
    BY <1>2, <1>7 DEF CountResponse
  <2>2. phase' \in [Handlers -> Busy \cup {"none"}] /\ IsFiniteSet(InPhase(Busy)')
    BY <2>1, MoveSeen DEF Busy
  <2>3. /\ toCome = toCome' + 1 /\ serving' = serving /\ toError' = toError + 1 /\ toKeep' = toKeep + 1
        /\ {toCome', toError, toKeep} \subseteq Nat
    BY <2>1, MoveSeen DEF Busy, ToCome, ToError, ToKeep
  <2> HIDE DEF serving, toCome, toError, toKeep
  <2>4. requests' = responses' + toCome' /\ serverErrors' + toError' <= responses' /\ responses' \in Nat
    BY <1>1, <2>1, <2>3 DEF MetricsInv, toCome, toError
  <2>5. ASSUME NEW s \in Series PROVE series'[s] + toKeep' <= responses'
    <3>1. series[s] \in Nat /\ series[s] + toKeep <= responses
      BY <1>1 DEF MetricsInv, toKeep
    <3> QED
      BY <1>1, <2>1, <2>3, <3>1
  <2> QED
    BY <2>1, <2>2, <2>3, <2>4, <2>5 DEF MetricsInv, serving, toCome, toError, toKeep
<1>8. ASSUME NEW h \in Handlers, CountError(h) PROVE MetricsInv'
  <2>1. /\ phase[h] = "responded" /\ Moves(h, "record")
        /\ serverErrors' \in {serverErrors, serverErrors + 1}
        /\ UNCHANGED <<requests, activeRequests, responses, series, status, label, Kept>>
    BY <1>2, <1>8 DEF CountError
  <2>2. phase' \in [Handlers -> Busy \cup {"none"}] /\ IsFiniteSet(InPhase(Busy)')
    BY <2>1, MoveSeen DEF Busy
  <2>3. /\ toCome' = toCome /\ serving' = serving /\ toError = toError' + 1 /\ toKeep' = toKeep
        /\ toError' \in Nat
    BY <2>1, MoveSeen DEF Busy, ToCome, ToError, ToKeep
  <2> HIDE DEF serving, toCome, toError, toKeep
  <2>4. serverErrors' + toError' <= responses' /\ serverErrors' \in Nat
    BY <1>1, <2>1, <2>3 DEF MetricsInv, toError
  <2> QED
    BY <2>1, <2>2, <2>3, <2>4 DEF MetricsInv, serving, toCome, toError, toKeep
<1>9. ASSUME NEW h \in Handlers, RecordSeries(h) PROVE MetricsInv'
  <2> DEFINE s == [route |-> label[h], status |-> StatusOf(h)]
  <2>1. /\ phase[h] = "record" /\ Moves(h, "none")
        /\ series' = (IF Fits(s) THEN [series EXCEPT ![s] = @ + 1] ELSE series)
        /\ UNCHANGED <<requests, activeRequests, responses, serverErrors>>
    BY <1>9 DEF RecordSeries
  <2>2. status' \in [Handlers -> Statuses \cup {0}] /\ label' \in [Handlers -> RouteNames \cup {Unknown}]
    BY <1>9 DEF RecordSeries, MetricsInv
  <2>3. s \in Series
    BY DEF MetricsInv, StatusOf, Statuses, Series
  <2> HIDE DEF s
  <2>4. phase' \in [Handlers -> Busy \cup {"none"}] /\ IsFiniteSet(InPhase(Busy)')
    BY <2>1, MoveSeen DEF Busy
  <2>5. /\ toCome' = toCome /\ serving' = serving /\ toError' = toError /\ toKeep = toKeep' + 1
        /\ toKeep' \in Nat
    BY <2>1, MoveSeen DEF Busy, ToCome, ToError, ToKeep
  <2> HIDE DEF serving, toCome, toError, toKeep
  <2>6. series' \in [Series -> Nat]
    BY <1>1, <2>1, <2>3
  <2>7. ASSUME NEW t \in Series PROVE series'[t] + toKeep' <= responses'
    <3>1. series[t] \in Nat /\ series[t] + toKeep <= responses
      BY <1>1 DEF MetricsInv, toKeep
    <3>2. series'[t] \in {series[t], series[t] + 1}
      BY <1>1, <2>1, <2>3
    <3> QED
      BY <1>1, <2>1, <2>5, <3>1, <3>2
  <2>8. IsFiniteSet(Kept') /\ Cardinality(Kept') <= MaxSeries
    <3>1. IsFiniteSet(Kept) /\ Cardinality(Kept) <= MaxSeries /\ Cardinality(Kept) \in Nat /\ MaxSeries \in Nat
      BY FS_CardinalityType, MetricsAssumption DEF MetricsInv
    <3>2. CASE ~Fits(s)
      BY <1>2, <2>1, <3>1, <3>2
    <3>3. CASE Fits(s)
      <4>1. Kept' = Kept \cup {s}
        BY <1>1, <2>1, <2>3, <3>3 DEF Kept
      <4>2. s \in Kept \/ Cardinality(Kept) < MaxSeries
        BY <3>3 DEF Fits
      <4>3. /\ IsFiniteSet(Kept \cup {s})
            /\ Cardinality(Kept \cup {s}) = (IF s \in Kept THEN Cardinality(Kept) ELSE Cardinality(Kept) + 1)
        BY <3>1, FS_AddElement
      <4>4. Cardinality(Kept \cup {s}) <= MaxSeries
        BY <3>1, <4>2, <4>3
      <4> QED
        BY <4>1, <4>3, <4>4
    <3> QED
      BY <3>2, <3>3
  <2> QED
    BY <2>1, <2>2, <2>4, <2>5, <2>6, <2>7, <2>8 DEF MetricsInv, serving, toCome, toError, toKeep
<1>10. CASE UNCHANGED metricsVars
  <2>1. UNCHANGED <<requests, activeRequests, responses, serverErrors, series, phase, status, label, Kept>>
    BY <1>2, <1>10 DEF metricsVars, counterVars
  <2> QED
    BY <2>1 DEF MetricsInv, InPhase
<1> QED
  BY <1>3, <1>4, <1>5, <1>6, <1>7, <1>8, <1>9, <1>10 DEF MetricsNext

\* What MetricsInv says of how many handlers are where.
LEMMA PhasesCounted ==
    MetricsInv => /\ \A phases \in SUBSET Busy : Cardinality(InPhase(phases)) \in Nat
                  /\ Cardinality(InPhase({"serving"})) <= Cardinality(InPhase(ToCome))
<1> SUFFICES ASSUME MetricsInv
             PROVE  /\ \A phases \in SUBSET Busy : Cardinality(InPhase(phases)) \in Nat
                    /\ Cardinality(InPhase({"serving"})) <= Cardinality(InPhase(ToCome))
  OBVIOUS
<1>1. ASSUME NEW phases \in SUBSET Busy
      PROVE  IsFiniteSet(InPhase(phases)) /\ Cardinality(InPhase(phases)) \in Nat
  <2>1. InPhase(phases) \subseteq InPhase(Busy)
    BY DEF InPhase
  <2> QED
    BY <2>1, FS_Subset, FS_CardinalityType DEF MetricsInv
<1>2. ToCome \in SUBSET Busy /\ InPhase({"serving"}) \subseteq InPhase(ToCome)
  BY DEF ToCome, Busy, InPhase
<1> QED
  BY <1>1, <1>2, FS_Subset

LEMMA MetricsTyped == MetricsInv => MetricsTypeOK
<1> SUFFICES ASSUME MetricsInv PROVE MetricsTypeOK
  OBVIOUS
<1>1. /\ Cardinality(InPhase(ToCome)) \in Nat /\ Cardinality(InPhase(ToError)) \in Nat
      /\ Cardinality(InPhase(ToKeep)) \in Nat
      /\ Cardinality(InPhase({"serving"})) <= Cardinality(InPhase(ToCome))
  BY PhasesCounted DEF ToCome, ToError, ToKeep, Busy
<1>2. /\ requests \in Nat /\ activeRequests \in Nat /\ responses \in Nat /\ serverErrors \in Nat
      /\ series \in [Series -> Nat] /\ MaxRequests \in Nat
  BY MetricsAssumption DEF MetricsInv
<1>3. responses <= requests /\ activeRequests <= requests /\ requests <= MaxRequests
  BY <1>1, <1>2 DEF MetricsInv
<1>4. serverErrors <= responses
  BY <1>1, <1>2 DEF MetricsInv
<1>5. ASSUME NEW s \in Series PROVE series[s] \in 0 .. MaxRequests
  <2>1. series[s] \in Nat /\ series[s] + Cardinality(InPhase(ToKeep)) <= responses
    BY <1>2 DEF MetricsInv
  <2> QED
    BY <1>1, <1>2, <1>3, <2>1
<1>6. {requests, activeRequests, responses, serverErrors} \subseteq 0 .. MaxRequests
  BY <1>2, <1>3, <1>4
<1>7. series \in [Series -> 0 .. MaxRequests]
  BY <1>2, <1>5
<1>8. Busy \cup {"none"} = {"none", "counted", "serving", "left", "responded", "record"}
  BY DEF Busy
<1> QED
  BY <1>6, <1>7, <1>8 DEF MetricsInv, MetricsTypeOK

ErrorSeries == {s \in Series : s.status >= 500}
IsError(h) == StatusOf(h) >= 500
ErrorsToKeep == {h \in Handlers : phase[h] = "record" /\ IsError(h)}

\* What the series miss is what handlers still have to record, unless a series was
\* dropped, and no series is dropped before MaxSeries are kept.
SeriesInv ==
    /\ IsFiniteSet(Marks(Series))
    /\ Total(Series) + Cardinality(InPhase(ToKeep)) <= responses
    /\ Cardinality(Kept) < MaxSeries =>
          /\ Total(Series) + Cardinality(InPhase(ToKeep)) = responses
          /\ Total(ErrorSeries) + Cardinality(ErrorsToKeep) = serverErrors

LEMMA InitSeries == MetricsInit => SeriesInv
<1> SUFFICES ASSUME MetricsInit PROVE SeriesInv
  OBVIOUS
<1>1. \A s \in Series : series[s] = 0
  BY DEF MetricsInit
<1>2. Marks(Series) = {} /\ Marks(ErrorSeries) = {}
  BY <1>1, MetricsAssumption DEF Marks, ErrorSeries
<1>3. InPhase(ToKeep) = {} /\ ErrorsToKeep = {}
  BY DEF MetricsInit, InPhase, ToKeep, ErrorsToKeep
<1>4. IsFiniteSet({}) /\ Cardinality({}) = 0
  BY FS_EmptySet
<1> QED
  BY <1>2, <1>3, <1>4 DEF MetricsInit, SeriesInv, Total

\* One more of a series is one more mark of the sets it is in.
LEMMA MarkAdded ==
    ASSUME MetricsInv, NEW s \in Series, series[s] < MaxRequests,
           series' = [series EXCEPT ![s] = @ + 1],
           NEW these \in SUBSET Series, IsFiniteSet(Marks(these))
    PROVE  /\ IsFiniteSet(Marks(these)') /\ Total(these) \in Nat
           /\ s \in these => Total(these)' = Total(these) + 1
           /\ s \notin these => Total(these)' = Total(these)
<1>1. series \in [Series -> Nat] /\ MaxRequests \in Nat
  BY MetricsAssumption DEF MetricsInv
<1>2. PICK n \in Nat : n = series[s] + 1 /\ n \in 1 .. MaxRequests
  BY <1>1
<1>3. series'[s] = n /\ \A t \in Series \ {s} : series'[t] = series[t]
  BY <1>1, <1>2
<1>4. <<s, n>> \notin Marks(these)
  BY <1>1, <1>2 DEF Marks
<1>5. ASSUME s \in these PROVE Marks(these)' = Marks(these) \cup {<<s, n>>}
  <2>1. ASSUME NEW t \in these, NEW i \in 1 .. MaxRequests
        PROVE  i <= series'[t] <=> (i <= series[t] \/ <<t, i>> = <<s, n>>)
    BY <1>1, <1>2, <1>3
  <2> QED
    BY <1>2, <1>5, <2>1 DEF Marks
<1>6. ASSUME s \notin these PROVE Marks(these)' = Marks(these)
  BY <1>3, <1>6 DEF Marks
<1>7. Total(these) \in Nat
  BY FS_CardinalityType DEF Total
<1>8. /\ IsFiniteSet(Marks(these) \cup {<<s, n>>})
      /\ Cardinality(Marks(these) \cup {<<s, n>>}) = Cardinality(Marks(these)) + 1
  BY <1>4, FS_AddElement
<1> QED
  BY <1>5, <1>6, <1>7, <1>8 DEF Total

\* A handler records what it wrote and nobody else writes: errors still to be recorded
\* change only when their own handler moves.
LEMMA ErrorsMoved ==
    ASSUME MetricsInv, NEW h \in Handlers, NEW there \in Busy \cup {"none"}, Moves(h, there),
           \A k \in Handlers \ {h} : status'[k] = status[k]
    PROVE  /\ IsFiniteSet(ErrorsToKeep) /\ Cardinality(ErrorsToKeep) \in Nat
           /\ there # "record" =>
                ErrorsToKeep' = IF h \in ErrorsToKeep THEN ErrorsToKeep \ {h} ELSE ErrorsToKeep
           /\ there = "record" /\ phase[h] # "record" /\ status'[h] = status[h] =>
                ErrorsToKeep' = IF IsError(h) THEN ErrorsToKeep \cup {h} ELSE ErrorsToKeep
<1>1. IsFiniteSet(ErrorsToKeep) /\ Cardinality(ErrorsToKeep) \in Nat
  <2>1. ErrorsToKeep \subseteq InPhase(Busy)
    BY DEF ErrorsToKeep, InPhase, Busy
  <2> QED
    BY <2>1, FS_Subset, FS_CardinalityType DEF MetricsInv
<1>2. phase'[h] = there /\ \A k \in Handlers \ {h} : phase'[k] = phase[k]
  BY DEF Moves, MetricsInv
<1>3. \A k \in Handlers : status'[k] = status[k] => (IsError(k)' <=> IsError(k))
  BY DEF IsError, StatusOf
<1>4. \A k \in Handlers \ {h} : k \in ErrorsToKeep' <=> k \in ErrorsToKeep
  BY <1>2, <1>3 DEF ErrorsToKeep
<1>5. h \in ErrorsToKeep' <=> there = "record" /\ IsError(h)'
  BY <1>2 DEF ErrorsToKeep
<1>6. ErrorsToKeep \subseteq Handlers /\ ErrorsToKeep' \subseteq Handlers
  BY DEF ErrorsToKeep
<1>7. h \in ErrorsToKeep => phase[h] = "record"
  BY DEF ErrorsToKeep
<1> HIDE DEF ErrorsToKeep
<1>8. there # "record" =>
        ErrorsToKeep' = IF h \in ErrorsToKeep THEN ErrorsToKeep \ {h} ELSE ErrorsToKeep
  BY <1>4, <1>5, <1>6
<1>9. there = "record" /\ phase[h] # "record" /\ status'[h] = status[h] =>
        ErrorsToKeep' = IF IsError(h) THEN ErrorsToKeep \cup {h} ELSE ErrorsToKeep
  BY <1>3, <1>4, <1>5, <1>6, <1>7
<1> QED
  BY <1>1, <1>8, <1>9

LEMMA StepSeries == MetricsInv /\ SeriesInv /\ [MetricsNext]_metricsVars => SeriesInv'
<1> SUFFICES ASSUME MetricsInv, SeriesInv, [MetricsNext]_metricsVars PROVE SeriesInv'
  OBVIOUS
<1> DEFINE toKeep == Cardinality(InPhase(ToKeep))
           errors == Cardinality(ErrorsToKeep)
<1>1. /\ responses \in Nat /\ serverErrors \in Nat
      /\ series \in [Series -> Nat] /\ MaxRequests \in Nat /\ MaxSeries \in Nat
  BY MetricsAssumption DEF MetricsInv
<1>2. ASSUME UNCHANGED series
      PROVE  UNCHANGED <<Kept, Marks(Series), Total(Series), Total(ErrorSeries)>>
  BY <1>2 DEF Kept, Marks, Total
<1>3. ASSUME NEW h \in Handlers, NEW there \in Busy \cup {"none"}, Moves(h, there),
             phase[h] \notin ToKeep, there \notin ToKeep,
             UNCHANGED <<responses, serverErrors, series>>,
             \A k \in Handlers \ {h} : status'[k] = status[k]
      PROVE  SeriesInv'
  <2>1. toKeep' = toKeep
    BY <1>3, MoveSeen
  <2>2. ErrorsToKeep' = ErrorsToKeep
    BY <1>3, ErrorsMoved DEF ErrorsToKeep, ToKeep
  <2> QED
    BY <1>2, <1>3, <2>1, <2>2 DEF SeriesInv
<1>4. ASSUME NEW h \in Handlers, CountRequest(h) \/ CountActive(h) \/ NoLongerActive(h) PROVE SeriesInv'
  BY <1>3, <1>4 DEF CountRequest, CountActive, NoLongerActive, Busy, ToKeep
<1>5. ASSUME NEW h \in Handlers, GetRoute(h) \/ WriteStatus(h) PROVE SeriesInv'
  <2>1. /\ UNCHANGED <<responses, serverErrors, series, phase>> /\ phase[h] = "serving"
        /\ \A k \in Handlers \ {h} : status'[k] = status[k]
    BY <1>5 DEF GetRoute, WriteStatus, counterVars, MetricsInv
  <2>2. InPhase(ToKeep)' = InPhase(ToKeep) /\ ErrorsToKeep' = ErrorsToKeep
    BY <2>1 DEF InPhase, ErrorsToKeep, IsError, StatusOf
  <2> QED
    BY <1>2, <2>1, <2>2 DEF SeriesInv
<1>6. ASSUME NEW h \in Handlers, CountResponse(h) PROVE SeriesInv'
  <2>1. /\ phase[h] = "left" /\ Moves(h, "responded") /\ responses' = responses + 1
        /\ UNCHANGED <<serverErrors, series, status>>
    BY <1>6 DEF CountResponse
  <2>2. toKeep' = toKeep + 1 /\ toKeep \in Nat
    BY <2>1, MoveSeen DEF Busy, ToKeep
  <2>3. ErrorsToKeep' = ErrorsToKeep
    BY <2>1, ErrorsMoved DEF ErrorsToKeep, Busy
  <2>4. Total(Series) \in Nat
    BY FS_CardinalityType DEF SeriesInv, Total
  <2> HIDE DEF toKeep
  <2>5. /\ Total(Series)' + toKeep' <= responses'
        /\ Cardinality(Kept)' < MaxSeries => Total(Series)' + toKeep' = responses'
    BY <1>1, <1>2, <2>1, <2>2, <2>4 DEF SeriesInv, toKeep
  <2> QED
    BY <1>2, <2>1, <2>3, <2>5 DEF SeriesInv, toKeep
<1>7. ASSUME NEW h \in Handlers, CountError(h) PROVE SeriesInv'
  <2>1. /\ phase[h] = "responded" /\ Moves(h, "record")
        /\ serverErrors' = IF IsError(h) THEN serverErrors + 1 ELSE serverErrors
        /\ UNCHANGED <<responses, series, status>>
    BY <1>7 DEF CountError, IsError
  <2>2. toKeep' = toKeep
    BY <2>1, MoveSeen DEF Busy, ToKeep
  <2>3. /\ ErrorsToKeep' = IF IsError(h) THEN ErrorsToKeep \cup {h} ELSE ErrorsToKeep
        /\ IsFiniteSet(ErrorsToKeep) /\ errors \in Nat
    BY <2>1, ErrorsMoved DEF Busy
  <2>4. h \notin ErrorsToKeep
    BY <2>1 DEF ErrorsToKeep
  <2>5. Cardinality(ErrorsToKeep \cup {h}) = Cardinality(ErrorsToKeep) + 1
    BY <2>3, <2>4, FS_AddElement
  <2>6. errors' = IF IsError(h) THEN errors + 1 ELSE errors
    BY <2>3, <2>5
  <2>7. Marks(ErrorSeries) \subseteq Marks(Series)
    BY DEF Marks, ErrorSeries
  <2>8. Total(ErrorSeries) \in Nat
    BY <2>7, FS_Subset, FS_CardinalityType DEF SeriesInv, Total
  <2> HIDE DEF errors
  <2>9. Cardinality(Kept)' < MaxSeries => Total(ErrorSeries)' + errors' = serverErrors'
    BY <1>1, <1>2, <2>1, <2>3, <2>6, <2>8 DEF SeriesInv, errors
  <2> QED
    BY <1>2, <2>1, <2>2, <2>9 DEF SeriesInv, errors
<1>8. ASSUME NEW h \in Handlers, RecordSeries(h) PROVE SeriesInv'
  <2> DEFINE s == [route |-> label[h], status |-> StatusOf(h)]
  <2>1. /\ phase[h] = "record" /\ Moves(h, "none")
        /\ series' = (IF Fits(s) THEN [series EXCEPT ![s] = @ + 1] ELSE series)
        /\ UNCHANGED <<responses, serverErrors>>
        /\ \A k \in Handlers \ {h} : status'[k] = status[k]
    BY <1>8 DEF RecordSeries, MetricsInv
  <2>2. s \in Series /\ (s \in ErrorSeries <=> IsError(h))
    BY DEF MetricsInv, StatusOf, Statuses, Series, ErrorSeries, IsError
  <2> HIDE DEF s
  <2>3. toKeep = toKeep' + 1 /\ toKeep' \in Nat
    BY <2>1, MoveSeen DEF Busy, ToKeep
  <2>4. /\ ErrorsToKeep' = IF h \in ErrorsToKeep THEN ErrorsToKeep \ {h} ELSE ErrorsToKeep
        /\ IsFiniteSet(ErrorsToKeep) /\ errors \in Nat
    BY <2>1, ErrorsMoved DEF Busy
  <2>5. h \in ErrorsToKeep <=> IsError(h)
    BY <2>1 DEF ErrorsToKeep
  <2>6. /\ IsFiniteSet(ErrorsToKeep \ {h})
        /\ IsError(h) => Cardinality(ErrorsToKeep \ {h}) = Cardinality(ErrorsToKeep) - 1
    BY <2>4, <2>5, FS_RemoveElement
  <2>7. errors' = (IF IsError(h) THEN errors - 1 ELSE errors)
    BY <2>4, <2>5, <2>6
  <2> HIDE DEF toKeep, errors
  <2>8. CASE ~Fits(s)
    <3>1. UNCHANGED series /\ ~(Cardinality(Kept) < MaxSeries)
      BY <2>1, <2>8 DEF Fits
    <3>2. Total(Series) \in Nat
      BY FS_CardinalityType DEF SeriesInv, Total
    <3>3. Total(Series)' + toKeep' <= responses'
      BY <1>1, <1>2, <2>1, <2>3, <3>1, <3>2 DEF SeriesInv, toKeep
    <3> QED
      BY <1>2, <3>1, <3>3 DEF SeriesInv, toKeep
  <2>9. CASE Fits(s)
    <3>1. series' = [series EXCEPT ![s] = @ + 1]
      BY <2>1, <2>9
    <3>2. series[s] < MaxRequests
      <4>1. series[s] \in Nat /\ series[s] + toKeep <= responses
        BY <1>1, <2>2 DEF MetricsInv, toKeep
      <4>2. responses <= MaxRequests
        BY MetricsTyped, <1>1 DEF MetricsTypeOK
      <4> QED
        BY <1>1, <2>3, <4>1, <4>2
    <3>3. /\ IsFiniteSet(Marks(Series)') /\ Total(Series) \in Nat
          /\ Total(Series)' = Total(Series) + 1
      BY <2>2, <3>1, <3>2, MarkAdded DEF SeriesInv
    <3>4. ErrorSeries \in SUBSET Series /\ IsFiniteSet(Marks(ErrorSeries))
      <4>1. ErrorSeries \in SUBSET Series /\ Marks(ErrorSeries) \subseteq Marks(Series)
        BY DEF Marks, ErrorSeries
      <4> QED
        BY <4>1, FS_Subset DEF SeriesInv
    <3>5. /\ Total(ErrorSeries) \in Nat
          /\ Total(ErrorSeries)' = IF IsError(h) THEN Total(ErrorSeries) + 1 ELSE Total(ErrorSeries)
      BY <2>2, <3>1, <3>2, <3>4, MarkAdded
    <3>6. Cardinality(Kept)' < MaxSeries => Cardinality(Kept) < MaxSeries
      <4>1. Kept \subseteq Kept' /\ IsFiniteSet(Kept)
        BY <1>1, <2>2, <3>1 DEF Kept, MetricsInv
      <4>2. IsFiniteSet(Kept')
        BY StepMetrics DEF MetricsInv
      <4>3. Cardinality(Kept) <= Cardinality(Kept') /\ Cardinality(Kept) \in Nat /\ Cardinality(Kept') \in Nat
        BY <4>1, <4>2, FS_Subset, FS_CardinalityType
      <4> QED
        BY <1>1, <4>3
    <3>7. Total(Series)' + toKeep' <= responses'
      BY <1>1, <2>1, <2>3, <3>3 DEF SeriesInv, toKeep
    <3>8. ASSUME Cardinality(Kept)' < MaxSeries
          PROVE  /\ Total(Series)' + toKeep' = responses'
                 /\ Total(ErrorSeries)' + errors' = serverErrors'
      <4>1. Total(Series) + toKeep = responses /\ Total(ErrorSeries) + errors = serverErrors
        BY <3>6, <3>8 DEF SeriesInv, toKeep, errors
      <4>2. Total(Series)' + toKeep' = responses'
        BY <1>1, <2>1, <2>3, <3>3, <4>1
      <4>3. Total(ErrorSeries)' + errors' = serverErrors'
        BY <1>1, <2>1, <2>4, <2>7, <3>5, <4>1
      <4> QED
        BY <4>2, <4>3
    <3> QED
      BY <3>3, <3>7, <3>8 DEF SeriesInv, toKeep, errors
  <2> QED
    BY <2>8, <2>9
<1>9. CASE UNCHANGED metricsVars
  <2>1. UNCHANGED <<responses, serverErrors, series, phase, status>>
    BY <1>9 DEF metricsVars, counterVars
  <2>2. InPhase(ToKeep)' = InPhase(ToKeep) /\ ErrorsToKeep' = ErrorsToKeep
    BY <2>1 DEF InPhase, ErrorsToKeep, IsError, StatusOf
  <2> QED
    BY <1>2, <2>1, <2>2 DEF SeriesInv
<1> QED
  BY <1>4, <1>5, <1>6, <1>7, <1>8, <1>9 DEF MetricsNext

LEMMA ReconcileOfInv == MetricsInv => RequestsReconcile
<1> SUFFICES ASSUME MetricsInv PROVE RequestsReconcile
  OBVIOUS
<1>1. Cardinality(Kept) <= MaxSeries
  BY DEF MetricsInv
<1>2. ASSUME Quiet PROVE /\ activeRequests = Cardinality({h \in Handlers : phase[h] = "serving"})
                         /\ requests = responses + activeRequests
  <2>1. InPhase(ToCome) = InPhase({"serving"})
    BY <1>2 DEF Quiet, InPhase, ToCome
  <2>2. InPhase({"serving"}) = {h \in Handlers : phase[h] = "serving"}
    BY DEF InPhase
  <2> QED
    BY <2>1, <2>2 DEF MetricsInv
<1> QED
  BY <1>1, <1>2 DEF RequestsReconcile

LEMMA SeriesOfInv == MetricsInv /\ SeriesInv => SeriesReconcile
<1> SUFFICES ASSUME MetricsInv, SeriesInv, Quiet
             PROVE  /\ Total(Series) <= responses
                    /\ Cardinality(Kept) < MaxSeries =>
                          /\ Total(Series) = responses
                          /\ Total({s \in Series : s.status >= 500}) = serverErrors
  BY DEF SeriesReconcile
<1>1. InPhase(ToKeep) = {} /\ ErrorsToKeep = {}
  BY DEF Quiet, InPhase, ToKeep, ErrorsToKeep
<1>2. Cardinality({}) = 0
  BY FS_EmptySet
<1>3. Total(Series) \in Nat /\ Total(ErrorSeries) \in Nat
  <2>1. Marks(ErrorSeries) \subseteq Marks(Series)
    BY DEF Marks, ErrorSeries
  <2> QED
    BY <2>1, FS_Subset, FS_CardinalityType DEF SeriesInv, Total
<1> QED
  BY <1>1, <1>2, <1>3 DEF SeriesInv, ErrorSeries

-----------------------------------------------------------------------------
(* The composition.                                                             *)

AccessInv == TLSInv /\ AuthInv /\ MetricsInv /\ SeriesInv /\ RequestInv

LEMMA InitAccess == AccessInit => AccessInv
  BY InitTLS, InitAuth, InitMetrics, InitSeries, InitMatch, InitHeaders, InitPick DEF AccessInit, AccessInv, RequestInv

LEMMA StepAccess == AccessInv /\ [AccessNext]_accessVars => AccessInv'
<1> SUFFICES ASSUME AccessInv, [AccessNext]_accessVars PROVE AccessInv'
  OBVIOUS
<1>1. [TLSNext]_tlsVars /\ [AuthNext]_authVars /\ [MetricsNext]_metricsVars /\ [RequestNext]_requestVars
  BY DEF AccessNext, Handshaking, LoggingIn, Counting, Requesting, accessVars
<1>2. TLSInv'
  BY <1>1, StepTLS DEF AccessInv
<1>3. AuthInv'
  BY <1>1, StepAuth DEF AccessInv
<1>4. MetricsInv'
  BY <1>1, StepMetrics DEF AccessInv
<1>8. SeriesInv'
  BY <1>1, StepSeries DEF AccessInv
<1>5. MatchInv'
  BY <1>1, StepMatch DEF AccessInv, RequestInv
<1>6. HeaderInv'
  BY <1>1, StepHeaders DEF AccessInv, RequestInv
<1>7. IInv'
  BY <1>1, StepPick DEF AccessInv, RequestInv
<1> QED
  BY <1>2, <1>3, <1>4, <1>5, <1>6, <1>7, <1>8 DEF AccessInv, RequestInv

\* The parts of the way to an endpoint share no variable, so the conjunction of their
\* invariants is inductive: any of them may move.
THEOREM Invariance == AccessSpec => []AccessInv
  BY InitAccess, StepAccess, PTL DEF AccessSpec

\* The variables of TLS, authentication, metrics and the handler keep their types.
THEOREM TypeCorrect == AccessSpec => []TypeOK
<1>1. AccessInv => TypeOK
  BY MetricsTyped, RequestTyped DEF AccessInv, TLSInv, AuthInv, TypeOK
<1> QED
  BY Invariance, <1>1, PTL

\* getCertificate hands out a pair that belongs together and is the one in the files,
\* however the files are replaced and handshakes overlap.
THEOREM CertificatesReloaded == AccessSpec => []CertificatesAreFresh
<1>1. AccessInv => CertificatesAreFresh
  BY FreshOfInv DEF AccessInv
<1> QED
  BY Invariance, <1>1, PTL

\* A callback takes the login it is for out of the map, under loginMu, before it does
\* anything else: no second one finds it.
THEOREM LoginsTakenOnce == AccessSpec => []LoginTakenOnce
<1>1. AccessInv => LoginTakenOnce
  BY LoginsOfInv DEF AccessInv
<1> QED
  BY Invariance, <1>1, PTL

\* Callbacks under way are for different logins, and what finishLogin seals into the
\* cookie are the claims of that login's identity token.
THEOREM SessionsBelongToLogins == AccessSpec => []SessionBelongsToLogin
<1>1. AccessInv => SessionBelongsToLogin
  BY LoginsOfInv DEF AccessInv
<1> QED
  BY Invariance, <1>1, PTL

\* match ends with a route with the longest prefix that fits, of those with its host the
\* first, for every list of routes.
THEOREM LongestMatchFound == AccessSpec => []RouteIsLongestMatch
<1>1. AccessInv => RouteIsLongestMatch
  BY LongestOfInv DEF AccessInv, RequestInv
<1> QED
  BY Invariance, <1>1, PTL

\* Handler strips the trusted headers and only an authorized identity sets them; what is
\* removed on the way out is replaced by nothing.
THEOREM IdentityComesFromVerification == AccessSpec => []IdentityHeadersTrusted
<1>1. AccessInv => IdentityHeadersTrusted
  BY HeadersOfInv DEF AccessInv, RequestInv
<1> QED
  BY Invariance, <1>1, PTL

\* The request that pick serves here gets a servable endpoint within the call's reach if
\* there is one: of an odd pool any, of an even pool every other one.
THEOREM RequestsCoverReach == AccessSpec => []SelectsWithinReach
<1>1. AccessInv => SelectsWithinReach
  BY ReachOfInv DEF AccessInv, RequestInv
<1> QED
  BY Invariance, <1>1, PTL

\* Whatever requests Middleware has let in were answered or are being served, and
\* recordSeries keeps to its bound; while it has dropped none, the series add up to the
\* answers, and those of 5xx to the server errors.
THEOREM CountersAgree == AccessSpec => []CountersReconcile
<1>1. AccessInv => CountersReconcile
  BY ReconcileOfInv, SeriesOfInv DEF AccessInv, CountersReconcile
<1> QED
  BY Invariance, <1>1, PTL
=============================================================================
