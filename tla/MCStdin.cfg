SPECIFICATION Spec
CONSTANTS
    Handles = {s1, s2}
    NoHandle = NoHandle
    Direct = Direct
    Input <- MCInput
    Requests <- MCRequests
    Cap = 3
    ChunkMax = 4
    MaxFaults = 2
    MaxCalls = 3
CHECK_DEADLOCK FALSE
INVARIANTS
    LockFreeBetweenCalls
    OneEndPerCall
PROPERTIES
    CallsAnswer
    IsOneQueue
