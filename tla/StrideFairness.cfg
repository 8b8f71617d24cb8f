SPECIFICATION FairSpec
CONSTANTS
    MaxPid = 2
    BIG_STRIDE = 7
    UsizeMax = 100
    Priorities = {2, 3, 6}
    InitPriority = 3
    NoProc = NoProc
INVARIANTS
    StridesTogether
PROPERTIES
    AllGetTurns
