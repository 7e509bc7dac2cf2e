\* Documents of up to four lines, with options zero, equal and one apart; PDFs
\* of up to three pages and pictures about the pixel limit, under two starts.
CONSTANTS
    DEFAULT_MAX_TOKENS = 4
    DEFAULT_OVERLAP_TOKENS = 1
    MaxTokens = {0, 1, 3}
    Overlaps = {0, 1, 2}
    MaxLines = 4
    HeadingWords = {1, 3}
    ProseWords = {0, 1, 4}
    MAX_IMAGE_PIXELS = 6
    PagesPerChunk = {1, 2, 3}
    Dpis = {2, 3}
    MaxFileMb = {1, 2}
    Contents = {"a", "b"}
    MaxPages = 3
    Sides = {1, 2, 9}
    MaxStarts = 3

SPECIFICATION FileSpec

INVARIANTS
    TypeOK
    NothingIsLost
    WindowsOverlap
    ChunksAreSelfIdentifying
    PagesAreTagged
    PayloadsAreAcceptable
    VectorsAreOfTheirChunks

CHECK_DEADLOCK FALSE
