SPECIFICATION Spec
CONSTANTS
    c1 = c1
    Clients = {c1}
    HotSettings = {"a", "b"}
    Uncompilable = {}
    Restarts = {"plain"}
    Oidc = {}
    Lists = {"nil", "empty"}
    MaxVersion = 2
    Initial <- TLSFile
    NoConfig = NoConfig
    NoVersion = NoVersion
    Free = Free
PROPERTIES
    RestartRejectionJustified
CHECK_DEADLOCK FALSE
