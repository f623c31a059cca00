SPECIFICATION Spec
CONSTANTS
    BranchHalf = 256
    CondHalf = 128
    TestHalf = 64
    Wrap = 8192
    PageWords = 16
    Families <- All
    Bases <- EvenOdd
    Mapped <- Memory
    Writable <- Changing
INVARIANTS
    TypeOK
    MeaningKept
    FallsThrough
    CopyFitsRow
CHECK_DEADLOCK FALSE
