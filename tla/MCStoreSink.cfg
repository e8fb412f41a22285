SPECIFICATION Spec
CONSTANTS
    None = None
    Frames = {f1, f2, f3}
    Times <- MCTimes
    BatchSize = 3
    MaxBatchAge = 1
    MaxDoubts = 1
SYMMETRY FrameSymmetry
INVARIANTS
    IndexedEvidence
    AcceptedKept
    VolatileBounded
    RepeatedOnlyInDoubt
PROPERTIES
    KeepsEvidence
CHECK_DEADLOCK FALSE
