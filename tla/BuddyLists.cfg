SPECIFICATION Spec
CONSTANTS
    MIN_ORDER = 1
    MAX_ORDER = 2
    Base = 6
    TotalSize = 14
    Layouts <- SomeLayouts
INVARIANTS
    BytesAccountedFor
    BlockFitsLayout
    NullOnlyWhenFull
