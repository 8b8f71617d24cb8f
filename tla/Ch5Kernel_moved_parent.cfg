SPECIFICATION Spec
CONSTANTS
    MaxPid = 3
    BIG_STRIDE = 1
    UsizeMax = 5
    Priorities = {2}
    InitPriority = 2
    NoProc = NoProc
    ExitCodes = {0}
    NoCode = NoCode
    UserValue = UserValue
    LeafCapacity = 2
PROPERTIES
    ParentGetsChildPid
