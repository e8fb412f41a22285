SPECIFICATION Spec
CONSTANTS
    None = None
    Frames <- MCAllFrames
    Streams <- MCStreams
    SeqNumbers <- MCSeqNumbers
    MaxFrames = 2
    MaxTime = 0
    HeartbeatThreshold = 1
    SilenceThreshold = 1
    StalenessLimit = 1
    Window = 5
    Capacity = 10
    FailingWrites = {}
INVARIANTS
    KeepsRunning
CHECK_DEADLOCK FALSE
