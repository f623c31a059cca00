SPECIFICATION FairSpec
CONSTANTS
    main = main
    worker1 = worker1
    worker2 = worker2
    f = f
    g = g
    p1 = p1
    p2 = p2
    NoThread = NoThread
    NoTarget = NoTarget
    NoPage = NoPage
    Threads <- MCThreads
    InitThreads <- MCThreads
    Main = main
    Caller = main
    HeapUsers = {worker1}
    Targets <- MCTargets
    Chaining = {f}
    Pages <- MCPages
    Cap = 2
    Layout <- ThumbAndArm
    Counts = {0}
    Calls = {"hook", "hookAll"}
    Faults = {}
INVARIANTS
    OnlyReturnersLost
PROPERTIES
    CallReturns
