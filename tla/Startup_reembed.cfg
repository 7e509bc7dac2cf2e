\* --reembed does not help a database that has recorded its dim alone.
CONSTANTS
    Providers = {gemini, voyage}
    Models = {m1, m2}
    Dims = {d1, d2}
    Paths = {p1, p2}
    Contents = {c1, c2}
    NONE = NONE
    MaxBoots = 3

SPECIFICATION Spec

INVARIANT ReembedReindexes

CHECK_DEADLOCK FALSE
