\* Three boots over every kind of database, with crashes between commits.
CONSTANTS
    Providers = {gemini, voyage}
    Models = {m1, m2}
    Dims = {d1, d2}
    Paths = {p1, p2}
    Contents = {c1, c2}
    NONE = NONE
    MaxBoots = 3

SPECIFICATION Spec

INVARIANTS
    TypeOK
    FingerprintTellsSpace
    ServesOneSpace
    ServedAtOneDim

PROPERTIES
    WipeOnlyOnRequest

CHECK_DEADLOCK FALSE
