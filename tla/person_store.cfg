SPECIFICATION Spec
CONSTANTS
    PersonIds = {p1, p2}
    ContractIds = {c1, c2}
    AttrKeys = {k1}
    PersonFields = {k1}
    ContractFields = {k1}
    NoOne = noone
    SeedData = TRUE
    SavesFail = TRUE
SYMMETRY Symmetry
INVARIANTS
    TypeOK
    ContractsHavePersons
    PhonesAreLists
    CustomFieldsKept
