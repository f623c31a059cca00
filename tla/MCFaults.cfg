SPECIFICATION FairSpec
CONSTANTS
    main = main
    worker1 = worker1
    worker2 = worker2
    f = f
    g = g
    p1 = p1
    p2 = p2
    NoThread = NoThread
    NoTarget = NoTarget
    NoPage = NoPage
    Threads <- MCThreads
    InitThreads <- MCSpawned
    Main = main
    Caller = worker1
    HeapUsers = {worker2}
    Targets <- MCTargets
    Chaining = {f}
    Pages <- MCPages
    Cap = 1
    Layout <- LongAndArm
    Counts = {0, 2, 16}
    Calls = {"hook", "unhook"}
    Faults = {"fork", "attach", "getregs", "spawn", "cold"}
INVARIANTS
    TypeOK
    LostOnlyIfExposed
PROPERTIES
    CallReturnsOrWedged
CHECK_DEADLOCK FALSE
