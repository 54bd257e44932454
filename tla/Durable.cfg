SPECIFICATION DFairSpec
CONSTANTS
    Friends = {1}
    Payloads = {1, 2, 3}
    Receipts = {0}
    MQ_CAPACITY = 2
    MQ_ACK_TIMEOUT_SEC = 1
    MQ_RETRY_BACKOFF_SEC = 1
    MQ_MAX_ATTEMPTS = 2
    QUEUE_SAVE_INTERVAL = 2
INVARIANTS
    NeverTorn
    CleanMeansMirrored
    SavedSurvives
PROPERTY
    DirtyIsSaved
