SPECIFICATION FairSpec
CONSTANTS
    c1 = c1
    c2 = c2
    Connections = {c1, c2}
    Requests = {c1, c2}
    MaxConnections = 2
    Limits = {1}
    MaxGenerations = 2
    Nobody = Nobody
INVARIANTS
    TypeOK
    SlotsMatchRequests
    NoOrphanLoop
    SlotsMatchConnections
PROPERTIES
    ProcessExits
    RetiredLoopsEnd
CHECK_DEADLOCK FALSE
