SPECIFICATION Spec
CONSTANTS
    Threads = {t1, t2}
    Nobody = nobody
    Maps = {m1, m2}
    Arrays = {a1, a2}
    NoMap = nomap
    NoRow = norow
    MaxLen = 2
INVARIANT NoDataRace
CHECK_DEADLOCK FALSE
