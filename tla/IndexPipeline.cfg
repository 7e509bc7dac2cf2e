\* Every interleaving of the tasks with the vault, failures and a restart, and
\* whether the index converges once the vault is left alone.
CONSTANTS
    Paths = {note, scan}
    MediaPaths = {scan}
    Contents = {c1, big}
    BigContents = {big}
    Policies = {plain, media}
    MediaOn = {media}
    NONE = NONE
    DIR = DIR
    TextProfile = TextProfile
    MaxChanges = 2
    MaxRestarts = 1

SPECIFICATION FairSpec

INVARIANTS
    TypeOK
    NoLostUpdate
    OutdatedWorkIsRedone

PROPERTIES
    Converges

CHECK_DEADLOCK FALSE
