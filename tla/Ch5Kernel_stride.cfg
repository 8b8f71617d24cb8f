SPECIFICATION Spec
CONSTANTS
    MaxPid = 2
    BIG_STRIDE = 4
    UsizeMax = 8
    Priorities = {2, 4}
    InitPriority = 4
    NoProc = NoProc
    ExitCodes = {0}
    NoCode = NoCode
    UserValue = UserValue
    LeafCapacity = 2
INVARIANTS
    TypeOK
    StrideGap
