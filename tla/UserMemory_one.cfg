SPECIFICATION Spec
CONSTANTS
    MaxProc = 0
    PageCount = 5
    FrameCount = 5
    PAGE_SIZE = 2
    ElfEnds = {1, 3}
    Sizes <- SizesOfOne
    Lengths = {0, 1, 3}
    Prots <- SomeProts
    NoProt = NoProt
    Data = {}
    MaxSpan = 1
    NoPage = NoPage
INVARIANTS
    TypeOK
    HeapExact
    

    
