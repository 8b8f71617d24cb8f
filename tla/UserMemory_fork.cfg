SPECIFICATION Spec
CONSTANTS
    MaxProc = 1
    PageCount = 3
    FrameCount = 5
    PAGE_SIZE = 2
    ElfEnds = {2}
    Sizes <- SizesOfMany
    Lengths = {2}
    Prots <- OneProt
    NoProt = NoProt
    Data = {"data"}
    MaxSpan = 1
    NoPage = NoPage
INVARIANTS
    FramesPrivate
PROPERTIES
    PrivateSpec
