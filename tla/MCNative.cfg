SPECIFICATION FairSpec
CONSTANTS
    main = main
    worker = worker
    other = other
    p = p
    q = q
    NoPackage = NoPackage
    Main = main
    Loaders <- Three
    Packages <- TwoPackages
    Processes <- Devices
    Packings <- OneOfBaidu
    TableSize = 2
    MaxLoads = 2
INVARIANTS
    TypeOK
    OnlyRacesCrash
    JavaBacksUp
    DumpsUnderAName
    ReplacementFits
PROPERTIES
    EventuallyHooked
    LoadsEnd
CHECK_DEADLOCK FALSE
