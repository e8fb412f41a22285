SPECIFICATION MCSpec
CONSTANTS
    None = None
    MaxTime = 8
    MaxAttempts = None
    InitialSeconds = 5
    MaximumSeconds = 10
    Multiplier = 2
    JitterPercent = 10
    MaxExponent = 12
    Null = Null
    Wallets = {"w1", "w2"}
    Malformed = Malformed
    MAX_PLAUSIBLE_VENUE_MS = 100
    MAX_PLAUSIBLE_SOURCE_DELAY = 3
    MAX_PLAUSIBLE_CLOCK_SKEW = 1
    MaxSpreadPercent = 10
    VenueFrames <- MCMalformedOnly
    ReceivedAt = 10
    ReadingsOfNow <- MCReadingsOfNow
INVARIANTS
    KeepsTrying
CHECK_DEADLOCK FALSE
