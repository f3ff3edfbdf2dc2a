SPECIFICATION Spec
CONSTANTS
    Hosts = {TRUE, FALSE}
    Dir <- Dirs
    Top = 0
    Home = 1
    Name <- Names
    Depth = 2
    Lossy <- MCLossy
    Starts <- MCStarts
    Locked0 = {}
    Paths <- MCPaths
    MaxCalls = 3
    MaxMoves = 2
CHECK_DEADLOCK FALSE
INVARIANTS
    OneRoot
    LostCwdActsNowhere
    SetCwdIsUsed
PROPERTY
    FailureStays
