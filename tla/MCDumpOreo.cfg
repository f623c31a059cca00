SPECIFICATION Spec
CONSTANTS
    t1 = t1
    t2 = t2
    big = big
    other = other
    tiny = tiny
    NoDex = NoDex
    Threads <- TwoThreads
    Dexes <- WithTiny
    Length <- Distinct
    Blocks = 2
    MinLen = 1
    Inclusive = TRUE
    Writers = {"native"}
    FdLimit = 3
    MaxCalls = 4
    MaxCrashes = 1
    Faults = {"short", "mkdir"}
INVARIANTS
    TypeOK
    DumpsArePrefixes
PROPERTIES
    CompleteStaysComplete
CHECK_DEADLOCK FALSE
