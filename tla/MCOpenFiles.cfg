SPECIFICATION Spec
CONSTANTS
    Limit = 7
    Starts <- MCStarts
    MaxFiles = 3
    Id <- Handles
    Cap = 2
    MayFail = TRUE
    MaxCalls = 4
CHECK_DEADLOCK FALSE
INVARIANTS
    HandedAboveStdio
    FdsHaveOneOwner
    CursorPastRun
    NoByteTwice
PROPERTIES
    AppendsKeepAll
    OffsetsAreKept
