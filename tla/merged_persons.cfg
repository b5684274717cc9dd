SPECIFICATION MergedSpec
CONSTANTS
    PersonIds = {p1, p2}
    ContractIds = {c1, c2}
    AttrKeys = {}
    PersonFields = {}
    ContractFields = {}
    NoOne = noone
    SeedData = FALSE
    SavesFail = FALSE
    Readers = {r1}
SYMMETRY Symmetry
INVARIANT RowsAreTrue
