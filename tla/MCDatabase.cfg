CONSTANTS
    long = long
    short = short
    Runners = {r1, r2}
    Contents = {long, short}
    Statements <- MCStatements
    MaxVersion = 2
    MaxEdits = 2
    Reports <- MCReports
    Times <- MCTimes
    MaxAttempts = 2
    None = None
SPECIFICATION MCSpec
INVARIANTS
    EarlierRecordedFirst
    RecordedAsExecuted
    OneHistory
    AppliedIsRecorded
    WrittenIsKept
CHECK_DEADLOCK TRUE
