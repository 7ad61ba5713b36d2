SPECIFICATION Spec
CONSTANTS
    r1 = r1
    r2 = r2
    Requests = {r1, r2}
    EndpointCount = 2
    Threshold = 2
    RetryAttempts = 1
    HealthChecks = TRUE
SYMMETRY HandlerSymmetry
INVARIANTS
    TypeOK
    BreakerConsistent
    HalfOpenHasOwner
    RetryBound
PROPERTIES
    AdmissionRespectsBreaker
CHECK_DEADLOCK FALSE
