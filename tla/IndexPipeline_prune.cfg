\* The startup scan can prune a file that is on disk.
CONSTANTS
    Paths = {note, todo}
    MediaPaths = {}
    Contents = {c1}
    BigContents = {}
    Policies = {plain}
    MediaOn = {}
    NONE = NONE
    DIR = DIR
    TextProfile = TextProfile
    MaxChanges = 2
    MaxRestarts = 0

SPECIFICATION Spec

PROPERTIES
    PrunedPathsVanished

CHECK_DEADLOCK FALSE
