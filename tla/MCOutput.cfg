SPECIFICATION Spec
CONSTANTS
    Texts <- MCTexts
    Message <- MCMessage
    Capacity = 3
    ShutSets = {{}, {"stdout"}}
    MaxCalls = 3
    MaxFaults = 1
    MaxChildBytes = 1
INVARIANTS
    OkIsOut
    OnceInOrder
CHECK_DEADLOCK FALSE
