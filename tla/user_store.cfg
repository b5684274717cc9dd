SPECIFICATION UpdatesSpec
CONSTANTS
    p1 = p1
    Ids = {i1, i2}
    Names = {noname, n1}
    NoName = noname
    SeedNames = {n1}
    Permissions = {nopermission, p1}
    NoPermission = nopermission
    BodyPerms <- EmptyOrTwice
    Managers = {}
    NoManager = nomanager
    AttrKeys = {k1}
    CustomFields = {k1}
    Clients = {c1}
    SeedData = TRUE
    SavesFail = FALSE
    NoUser = nouser
SYMMETRY Symmetry
INVARIANTS
    UniqueUsernames
    CustomFieldsKept
    UpdatesAddUp
PROPERTIES
    PermissionsStayDistinct
    AnswersShowOutcome
