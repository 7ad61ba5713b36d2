SPECIFICATION Spec
CONSTANTS
    r1 = r1
    Requests = {r1}
    EndpointCount = 1
    Threshold = 2
    RetryAttempts = 1
    HealthChecks = FALSE
SYMMETRY HandlerSymmetry
INVARIANTS RoundTripAnswers
CHECK_DEADLOCK FALSE
