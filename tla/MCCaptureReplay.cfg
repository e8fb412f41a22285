CONSTANTS
    Events = {e1, e2}
    Control = Control
    Broken = Broken
    Fatal = Fatal
    None = None
    Times <- MCTimes
    Cutoff = 100
    MaxFrames = 3
    MaxLines = 4
SPECIFICATION Spec
INVARIANTS
    ArchivedIsLoaded
    ReplayRestores
    RefusedOnlyForClock
    SpanIsOfSession
CHECK_DEADLOCK FALSE
