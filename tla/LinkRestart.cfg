SPECIFICATION RFairSpec
CONSTANTS
    TG_SN_MAX = 11
    SN_MAX_PENDING = 3
    RELAY_MAX_GAP = 2
    MaxSent = 3
    FirstSerial = 1
    RELAY_MAX_REPLAY = 2
    OnePerSecond = FALSE
    LossyReplay = FALSE
    MaxRefused = 1
    MaxFaults = 1
    MaxRestarts = 1
INVARIANTS
    ExpectedFollowsHighest
PROPERTY
    StoredNotAcceptedAgain
    GapsClose
CHECK_DEADLOCK FALSE
