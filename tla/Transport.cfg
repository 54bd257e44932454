SPECIFICATION TSpec
CONSTANTS
    Friends = {0, 1, 2}
    Payloads = {1, 2}
    Receipts = {1, 2}
    MQ_CAPACITY = 2
    MQ_ACK_TIMEOUT_SEC = 1
    MQ_RETRY_BACKOFF_SEC = 1
    MQ_MAX_ATTEMPTS = 2
    MaxRejections = 1
    MAX_Friend_NUM = 2
    MaxReceipt = 2
INVARIANTS
    ReceiptsUnambiguous
    ConfirmedWasReceived
