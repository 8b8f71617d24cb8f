SPECIFICATION Spec4
CONSTANTS
    Apps = 3
    CountedIds = {"trace", "write", "clock_gettime", "sched_yield", "exit"}
    MaxCount = 3
    Builds <- SomeBuilds
    PageCount = 19
    FrameCount = 32
    PAGE_SIZE = 2
    NoProt = NoProt
    NoPage = NoPage
    SleepRounds = 2
INVARIANTS
    Types
    
    MemoryTestsPass
    
PROPERTIES
    TraceAnswers
