SPECIFICATION NSpec
CONSTANTS
    Keys = {k1, k2, k3}
    SelfKey = me
    NoKey = none
    MAX_Friend_NUM = 2
    MaxFriends = 2
    MaxHeld = 1
INVARIANT
    OwnTelegramsKept
