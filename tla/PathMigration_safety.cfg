\* Three boots over databases of earlier builds, with three vaults.
CONSTANTS
    Dirs <- MCDirs
    Similar <- MCSimilar
    my_vault = my_vault
    my_hyphen_vault = my_hyphen_vault
    notes = notes
    Names = {n1, n2}
    REL = REL
    NONE = NONE
    MaxBoots = 3

SPECIFICATION Spec

INVARIANTS
    TypeOK
    RelativeOnceCurrent

PROPERTIES
    RowsFollowTheirFiles

CHECK_DEADLOCK FALSE
