SPECIFICATION Spec
CONSTANTS
    Ino <- Thirteen
    Top = 0
    Root = 1
    MaxHops = 3
    NoIno = NoIno
    Hosts <- PlainRaceHosts
    Base <- RootBase
    Scenes <- AllScenes
CHECK_DEADLOCK FALSE
PROPERTY
    ModeSetOnTheMadeDirectory
