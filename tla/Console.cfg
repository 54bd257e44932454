SPECIFICATION CSpec
CONSTANTS
    TG_SN_MAX = 2
    TG_FIELD_MAX = 3
    TG_BODY_MAX = 7
    LineSize = 4
    TerminatorLength = 2
    IntMax = 3
    LongMax = 15
    BodyLength = 6
    WireMax = 20
    MAX_Friend_NUM = 2
    MaxFriends = 3
    AddressLength = 1
    Keyboard = {"/", "#", "add", " ", "0", "N"}
    KeyMax = 4
    TempSize = 3
    ArgumentLength = 6
    MAX_NUM_ARGS = 3
    MAX_COMMAND_LENGTH = 7
INVARIANTS
    RoundTrip
    PeerReadsTyped
    RedirectedByFriendsOnly
    ArgumentsAsWritten
