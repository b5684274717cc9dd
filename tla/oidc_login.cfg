SPECIFICATION Spec
CONSTANTS
    Browsers = {b1, b2}
    Threads = {t1, t2}
    States = {s1, s2}
    Sids = {i1, i2}
    None = none
    Forever = forever
    StateLife = 1
    SessionLife = 2
    Lives = {1}
    MaxClock = 3
SYMMETRY Symmetry
INVARIANTS
    TypeOK
    OneExchangePerState
    LoginsAreInTime
    ShownIsLive
PROPERTY
    SessionsEndForCause
CHECK_DEADLOCK FALSE
