CONSTANTS
    Channels = {trades, bbo}
    Stores = {postgres}
    MinimumFrames = 3
    MaxFrames = 4
SPECIFICATION Spec
SYMMETRY ChannelSymmetry
INVARIANTS
    AcceptedIsLossless
    FailedForCause
CHECK_DEADLOCK FALSE
