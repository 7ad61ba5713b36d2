SPECIFICATION SeenSpec
CONSTANTS
    c1 = c1
    c2 = c2
    Clients = {c1, c2}
    HotSettings = {"a", "b"}
    Uncompilable = {}
    Restarts = {"plain"}
    Oidc = {}
    Lists = {"nil"}
    MaxVersion = 3
    Initial <- PlainFile
    NoConfig = NoConfig
    NoVersion = NoVersion
    Free = Free
PROPERTIES
    NoLostUpdate
CHECK_DEADLOCK FALSE
