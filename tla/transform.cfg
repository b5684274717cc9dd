SPECIFICATION Spec
CONSTANTS
    Text = {a, b}
    EmptyText = emptytext
    Yes = yes
    No = no
    Null = null
    Dollar = dollar
    Missing = missing
    NoKey = nokey
    AttrKeys = {"k1", "k2"}
    a = a
    Profiles <- MCProfiles
    Templates <- MCTemplates
INVARIANTS
    TypeOK
    AsAsked
    RefusedForTypes
    AnswerShowsRow
