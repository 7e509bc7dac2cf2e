\* A pool that holds every chunk, one commit during the request.
CONSTANTS
    n1 = n1
    n2 = n2
    i1 = i1
    d1 = d1
    Notes = {n1, n2}
    Images = {i1}
    Pdfs = {d1}
    CANDIDATE_K = 4
    MaxLimit = 3
    MaxId = 4
    MaxChanges = 1

SPECIFICATION Spec

INVARIANTS
    HitsAreDistinct
    AnswersTheCorpus
    PageIsFull
    FoundByBothFirst

CHECK_DEADLOCK FALSE
