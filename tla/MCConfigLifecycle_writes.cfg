SPECIFICATION FairSpec
CONSTANTS
    c1 = c1
    c2 = c2
    Clients = {c1, c2}
    HotSettings = {"a", "b", "broken"}
    Uncompilable = {"broken"}
    Restarts = {"plain", "other", "oidc"}
    Oidc = {"oidc"}
    Lists = {"nil"}
    MaxVersion = 2
    Initial <- PlainFile
    NoConfig = NoConfig
    NoVersion = NoVersion
    Free = Free
INVARIANTS
    TypeOK
    PlanesAgree
    PreviousIsLastVersion
    RestartSettingsFixed
    RollbackAlwaysActivates
    OneWinnerPerVersion
PROPERTIES
    ImplementsPromise
    EveryWriteAnswered
CHECK_DEADLOCK FALSE
