SPECIFICATION FairSpec
CONSTANTS
    c1 = c1
    c2 = c2
    t1 = t1
    f = f
    g = g
    NoSymbol = NoSymbol
    NoCaller = NoCaller
    Callers <- TwoCallers
    Threads <- OneThread
    Symbols <- Two
    Patched <- Mixed
    Times = 2
    MAX_BACKUPS = 2
    Faults = {"mprotect", "stale"}
INVARIANTS
    TypeOK
    NearIsSafe
    LostOnlyIfInside
    AllOrNothing
PROPERTIES
    RowKept
    GetsOut
CHECK_DEADLOCK FALSE
