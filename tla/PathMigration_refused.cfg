\* The scan after a refused migration prunes the rows it refused.
CONSTANTS
    Dirs <- MCDirs
    Similar <- MCSimilar
    my_vault = my_vault
    my_hyphen_vault = my_hyphen_vault
    notes = notes
    Names = {n1, n2}
    REL = REL
    NONE = NONE
    MaxBoots = 3

SPECIFICATION Spec

PROPERTIES
    RefusalKeepsRows

CHECK_DEADLOCK FALSE
