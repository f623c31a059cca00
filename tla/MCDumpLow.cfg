SPECIFICATION FairSpec
CONSTANTS
    t1 = t1
    t2 = t2
    big = big
    other = other
    tiny = tiny
    NoDex = NoDex
    Threads <- TwoThreads
    Dexes <- WithTiny
    Length <- Distinct
    Blocks = 2
    MinLen = 1
    Inclusive = FALSE
    Writers = {"native", "java"}
    FdLimit = 4
    MaxCalls = 4
    MaxCrashes = 0
    Faults = {}
INVARIANTS
    SettledIsWhole
PROPERTIES
    EveryDexDumped
CHECK_DEADLOCK FALSE
