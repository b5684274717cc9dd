SPECIFICATION Spec
CONSTANTS
    Ids = {i1, i2}
    Names = {n1, n2}
    SeedNames = {n1}
    Clients = {c1}
    Main = main
    Nobody = nobody
    NoFile = nofile
    Torn = torn
    NoReq = noreq
    SeedData = TRUE
    LoadMayFail = TRUE
PROPERTY SeedKeepsData
