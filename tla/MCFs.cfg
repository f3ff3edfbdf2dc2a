SPECIFICATION Spec
CONSTANTS
    Ino <- Thirteen
    Top = 0
    Root = 1
    MaxHops = 3
    NoIno = NoIno
    Hosts <- AllHosts
    Base <- RootBase
    Scenes <- AllScenes
CHECK_DEADLOCK FALSE
INVARIANTS
    TypeOK
    CopyNeverBroader
    CopyIsFaithful
    FailureLeavesTheTree
    OnlyNamedEntriesGo
    LinksLeadInside
    DescriptorNamesItsDirectory
PROPERTIES
    ConfinedReadsInside
    ConfinedWritesInside
    ModeSetUnderItsName
    FileCopyKeepsTheRest
