SPECIFICATION FairSpec
CONSTANTS
    CallId = {c1, c2}
    ChainLength = 2
    MaxIterations = 3
    MaxCalls = 2
    CanAbort = TRUE
    CanBeLate = TRUE
    StreamCanFail = TRUE
    ToolCanThrow = TRUE
INVARIANTS RequestsComplete AbortBounds
PROPERTY AbortEnds
CHECK_DEADLOCK FALSE
