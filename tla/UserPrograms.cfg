SPECIFICATION Spec
CONSTANTS
    N = 4
    ROUND = 2
    BUFFER_SIZE = 2
    PRODUCER_COUNT = 2
    NUMBER_PER_PRODUCER = 2
    THREAD_COUNT = 3
    PER_THREAD = 2
    MaxPid = 8
    MAX_CHILD = 3
    DEPTH = 2
    TESTS <- SomeTests
    CommandLines <- SomeLines
    CommandCount = 2
    STR_LEN = 3
    LENGTH = 5
    SUM_LEN = 2
    BUFFER_LEN = 4
    PipeSize = 2
INVARIANTS
    TypeOK
    ThreadTestsPass
    Synchronised
    ProcessTestsPass
    PipeExact
PROPERTY AllTestsEnd
