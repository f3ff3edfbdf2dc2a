SPECIFICATION Spec
CONSTANTS
    Ino <- Ten
    Top = 0
    Root = 1
    MaxHops = 2
    Mask = {"others"}
    NoIno = NoIno
    Base <- RootBase
    Calls <- AllCalls
    Sequence <- SequenceCalls
    MaxCalls = 2
    Trees <- AgreeTrees
CHECK_DEADLOCK FALSE
INVARIANT Agree
