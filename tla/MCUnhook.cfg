SPECIFICATION FairSpec
CONSTANTS
    main = main
    worker1 = worker1
    worker2 = worker2
    f = f
    g = g
    p1 = p1
    p2 = p2
    NoThread = NoThread
    NoTarget = NoTarget
    NoPage = NoPage
    Threads <- MCSpawned
    InitThreads <- MCSpawned
    Main = main
    Caller = main
    HeapUsers = {worker1}
    Targets <- MCTargets
    Chaining = {f}
    Pages <- MCPages
    Cap = 2
    Layout <- TwoArm
    Counts = {0, 2}
    Calls = {"hook", "unhook", "hookAll", "unhookAll"}
    Faults = {}
INVARIANTS
    TableConsistent
    CodeMatchesTable
    ProtoReady
    HookedIsFlushed
    LostOnlyIfExposed
PROPERTIES
    AllMeansAll
    ImplementsRegistry
CHECK_DEADLOCK FALSE
