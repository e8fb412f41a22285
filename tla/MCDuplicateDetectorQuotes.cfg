SPECIFICATION MCSpec
CONSTANTS
    None = None
    Events <- MCEvents
    Times <- MCTimes
    Window = 2
    Capacity = 2
    ClockStep = 1
    MaxCalls = 5
PROPERTIES
    DropsNothingNew
CHECK_DEADLOCK FALSE
