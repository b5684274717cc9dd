SPECIFICATION Spec
CONSTANTS
    Ids = {i1, i2}
    Names = {noname, n1}
    NoName = noname
    SeedNames = {n1}
    Permissions = {nopermission}
    NoPermission = nopermission
    BodyPerms <- OnlyEmpty
    Managers = {}
    NoManager = nomanager
    AttrKeys = {}
    CustomFields = {}
    Clients = {c1}
    SeedData = TRUE
    SavesFail = TRUE
INVARIANT TypeOK
PROPERTY ImplementsDurableTable
