SPECIFICATION NSpec
SYMMETRY KeySymmetry
CONSTANTS
    Keys = {k1, k2, k3}
    SelfKey = me
    NoKey = none
    MAX_Friend_NUM = 2
    MaxFriends = 3
    MaxHeld = 1
INVARIANTS
    DirectoryResolves
    HelloRemembered
    KnownGetTheirs
