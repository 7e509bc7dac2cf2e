\* Every combination of the server's settings, one area at a time; every command
\* with every combination of the client's.
CONSTANTS
    NONE = NONE
    EMPTY = EMPTY
    BAD = BAD
    NAN = NAN

SPECIFICATION ClientSpec

CHECK_DEADLOCK FALSE

INVARIANTS
    AcceptedCanEmbed
    KeyIsOfItsService
    ExitTellsOutcome
    OnlyTheBearerIsServed

PROPERTIES
    MaskedEditIsNoChange
    IdentityIsDeliberate
