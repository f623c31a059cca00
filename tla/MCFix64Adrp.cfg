SPECIFICATION Spec
CONSTANTS
    BranchHalf = 256
    CondHalf = 128
    TestHalf = 64
    Wrap = 8192
    PageWords = 16
    Families <- JustAdrp
    Bases <- OnTwo
    Mapped <- Memory
    Writable <- Changing
INVARIANTS
    AdrpRefersBack
CHECK_DEADLOCK FALSE
