SPECIFICATION FairCommandSpec
CONSTANTS
    None = None
    Streams = {trades, bbo}
    SeqNumbers = {}
    MaxTime = 3
    StalenessLimit = 1
    SilenceThreshold = 1
    HeartbeatThreshold = 1
    Interval = 1
    CallbackFails = TRUE
    PERMITTED_ENVIRONMENTS = {"DEVELOPMENT", "TESTNET"}
    SUPPORTED_ASSETS = {"BTC", "ETH"}
    PrivateKeyHexLength = 2
    Environments <- MCEnvironments
    MaxStaleness = 3
    TimeLimit = 1
    Raised = Raised
INVARIANTS
    ReportedOnce
    EverySilenceRegistered
    ReadOnlyRun
    ReportIsComplete
PROPERTIES
    RecoversOnEvidence
    SilenceNoticed
    SilentConnectionDetected
    CommandEnds
CHECK_DEADLOCK FALSE
