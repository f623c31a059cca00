SPECIFICATION FairSpec
CONSTANTS
    t1 = t1
    t2 = t2
    big = big
    other = other
    tiny = tiny
    NoDex = NoDex
    Threads <- TwoThreads
    Dexes <- Both
    Length <- SameBytes
    Blocks = 2
    MinLen = 1
    Inclusive = FALSE
    Writers = {"native"}
    FdLimit = 4
    MaxCalls = 2
    MaxCrashes = 0
    Faults = {}
PROPERTIES
    EveryDexDumped
CHECK_DEADLOCK FALSE
