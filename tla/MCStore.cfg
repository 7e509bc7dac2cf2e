\* Two paths, five versions, a failure or a crash at any statement.
CONSTANTS
    Paths = {p1, p2}
    Docs <- MCDocs
    ChunksOf <- MCChunksOf
    Bodies = {intro, todo, image}
    intro = intro
    todo = todo
    image = image
    NONE = NONE
    MaxId = 7

SPECIFICATION Spec

INVARIANTS
    TypeOK
    MirrorsFollowChunks
    InsertsNeverCollide
    IndexedIsCached

PROPERTIES
    ImplementsAtomicIndex
