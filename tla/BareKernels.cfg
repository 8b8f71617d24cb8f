SPECIFICATION BareSpec
CONSTANTS
    MaxApps = 4
    AppCapacity = 3
    Quantum = 2
    CountedIds = {"write", "trace"}
    MaxCount = 1
    Applications = 3
    MaxCalls = 2
INVARIANTS
    TypeOK
    RemainExact
    RoundRobin
    OwnInstructions
PROPERTIES
    FullQuantum
    TraceAnswers
    AllGetTurns
