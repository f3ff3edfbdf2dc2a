SPECIFICATION LocalesSpec
CONSTANTS
    Raw = Raw
    Half = Half
    Mark = Mark
    Nul = Nul
    None = None
    Starts <- MCStarts
    Names <- MCNames
    OsPaths <- MCPaths
    Letters = {"a", "i", "x", "A", "C"}
    Words = {"en", "EN", "US", "fr", "POSIX", "utf"}
    Digits = {"1"}
    Long = Long
    Capitals <- MCCapitals
INVARIANTS
    VarIsInDict
    NothingIsLost
    LocalesAreNamed
CHECK_DEADLOCK FALSE
