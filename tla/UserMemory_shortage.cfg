SPECIFICATION Spec
CONSTANTS
    MaxProc = 0
    PageCount = 5
    FrameCount = 5
    PAGE_SIZE = 2
    ElfEnds = {1}
    Sizes <- SizesOfMany
    Lengths = {2}
    Prots <- SomeProts
    NoProt = NoProt
    Data = {}
    MaxSpan = 1
    NoPage = NoPage
INVARIANTS
    MmapReportsShortage
