SPECIFICATION MQFairSpec
CONSTANTS
    Friends = {1, 2}
    Payloads = {1}
    Receipts = {0}
    MQ_CAPACITY = 3
    MQ_ACK_TIMEOUT_SEC = 2
    MQ_RETRY_BACKOFF_SEC = 1
    MQ_MAX_ATTEMPTS = 3
INVARIANTS
    TypeOK
    mq_check_invariants
    HeadIsOccupied
    EntriesConsistent
PROPERTY
    AckWindowRespected
    NoStarvation
