SPECIFICATION Spec
CONSTANTS
    StdPageSize = 2
    StdMaxSize = 3
    StdBurst = 2
    MaxInt = 15
    Ids = {1, 2, 3, 4}
    MaxClock = 1
    Files <- MCFiles
    SizeParams <- MCSizeParams
INVARIANTS
    TypeOK
    SeenInOrder
    MissedAtMostLosses
    PagesPartition
CHECK_DEADLOCK FALSE
