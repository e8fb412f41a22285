SPECIFICATION Spec
CONSTANTS
    None = None
    Frames <- MCAllFrames
    Streams <- MCStreams
    SeqNumbers <- MCSeqNumbers
    MaxFrames = 3
    MaxTime = 1
    HeartbeatThreshold = 0
    SilenceThreshold = 0
    StalenessLimit = 0
    Window = 5
    Capacity = 10
    FailingWrites = {"raw", "gap", "market", "trader", "flush"}
INVARIANTS
    ReportsDisjoint
    NothingSilent
    LossesCounted
    NoDoubleCount
PROPERTIES
    LossVisible
    AsMonitored
    KeepsEvidence
    ReportsAreDefinite
CHECK_DEADLOCK FALSE
