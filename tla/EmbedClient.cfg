\* Up to three inputs in batches of one, two or three, up to three retries.
CONSTANTS
    MAX_BATCH = 3
    MAX_MULTIMODAL_BATCH = 2
    EMBEDDING_2_BATCH_SIZE = 2
    RetryAfters = {0, 5, 90}
    RETRY_AFTER_MAX = 60
    BaseDelay = 1
    MaxInputs = 3
    MaxRetries = 3

SPECIFICATION Spec

INVARIANTS
    VectorsMatchInputs
    RetriesAreBounded

PROPERTIES
    CallEnds

CHECK_DEADLOCK FALSE
