SPECIFICATION RSpec
CONSTANTS
    TG_SN_MAX = 11
    SN_MAX_PENDING = 1
    RELAY_MAX_GAP = 1
    MaxSent = 5
    FirstSerial = 9
    RELAY_MAX_REPLAY = 2
    OnePerSecond = TRUE
    LossyReplay = TRUE
    MaxRefused = 1
    MaxFaults = 0
    MaxRestarts = 0
INVARIANTS
    OutstandingExact
    AcceptedAtMostOnce
    RejectedWasSeen
CHECK_DEADLOCK FALSE
