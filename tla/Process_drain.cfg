SPECIFICATION FairSpec
CONSTANTS
    c1 = c1
    Connections = {c1}
    Requests = {c1}
    MaxConnections = 1
    Limits = {1}
    MaxGenerations = 1
    Nobody = Nobody
PROPERTIES
    DrainsBeforeExit
CHECK_DEADLOCK FALSE
