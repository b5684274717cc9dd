SPECIFICATION Spec
CONSTANTS
    Ids = {i1, i2}
    Names = {n1, n2}
    SeedNames = {n1}
    Clients = {c1, c2}
    Main = main
    Nobody = nobody
    NoFile = nofile
    Torn = torn
    NoReq = noreq
    SeedData = TRUE
    LoadMayFail = TRUE
SYMMETRY Symmetry
INVARIANTS
    StoreInv
    UniqueNames
    ListIsSnapshot
    ListIsDurable
    AckIsDurable
    FileIsWhole
    SuccessMeansSaved
PROPERTIES
    OldUntilRenamed
    ImplementsDurableTable
