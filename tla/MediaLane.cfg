\* Pools and limits up to four, three text and three media chunks at three
\* distances: ties, gates on either side of them, full and partial pools.
CONSTANTS
    TextIds = {1, 2, 3}
    ImageIds = {4, 6}
    PdfIds = {5}
    Distances = {0, 1, 2}
    MaxPool = 4

SPECIFICATION LaneSpec

INVARIANTS
    NearestAreConsidered
    FusionIsKept
    LaneIsFilled

CHECK_DEADLOCK FALSE
