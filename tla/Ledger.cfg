SPECIFICATION LFairSpec
CONSTANTS
    Friends = {1}
    Payloads = {1, 2, 3, 4}
    Receipts = {0}
    MQ_CAPACITY = 3
    MQ_ACK_TIMEOUT_SEC = 2
    MQ_RETRY_BACKOFF_SEC = 1
    MQ_MAX_ATTEMPTS = 3
    MaxRejections = 1
INVARIANTS
    Conservation
    AttemptsMatchCalls
    SettledForCause
PROPERTY
    ImplementsContract
