SPECIFICATION FairSpec
CONSTANTS
    r1 = r1
    Requests = {r1}
    EndpointCount = 2
    Threshold = 2
    RetryAttempts = 1
    HealthChecks = TRUE
PROPERTIES
    EveryRequestReturns
    HalfOpenResolves
    EndpointRecovers
    LoopEnds
CHECK_DEADLOCK FALSE
