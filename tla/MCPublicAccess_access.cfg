SPECIFICATION AccessSpec
CONSTANTS
    h1 = h1
    h2 = h2
    l1 = l1
    l2 = l2
    c1 = c1
    c2 = c2
    Handshakes = {h1, h2}
    NoHandshake = NoHandshake
    MaxPairs = 3
    Logins = {l1, l2}
    Callbacks = {c1, c2}
    NoLogin = NoLogin
    LoginTime = 1
    MaxTime = 3
    g1 = g1
    g2 = g2
    Handlers = {g1, g2}
    RouteNames = {"api"}
    Unknown = Unknown
    MaxSeries = 2
    MaxRequests = 4
    Hosts = {"x", "y"}
    RouteHosts = {"x"}
    AnyHost = AnyHost
    Methods = {"GET", "PUT"}
    PathPrefixes <- SomePrefixes
    Paths <- SomePaths
    Scopes = {"s"}
    MaxRoutes = 3
    MaxEndpoints = 7
INVARIANTS
    TypeOK
    SelectsWithinReach
    CertificatesAreFresh
    LoginTakenOnce
    SessionBelongsToLogin
    CountersReconcile
    RouteIsLongestMatch
    IdentityHeadersTrusted
CHECK_DEADLOCK FALSE
