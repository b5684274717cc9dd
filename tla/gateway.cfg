SPECIFICATION Spec
CONSTANTS
    StdPageSize = 2
    StdMaxSize = 3
    StdBurst = 2
    Clients = {c1, c2}
    Tokens = {k1}
    NoToken = notoken
    Life = 1
    Period = 2
    MaxClock = 3
    RateFiles <- MCRateFiles
    ServedRoutes <- MCRoutes
SYMMETRY Symmetry
INVARIANTS
    TypeOK
    TokensLiveTheirLife
    AdmitsWithinRate
PROPERTY
    RefusesOnlySpent
CHECK_DEADLOCK FALSE
