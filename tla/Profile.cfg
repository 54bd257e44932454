SPECIFICATION PSpec
CONSTANTS
    Keys = {k1}
    Ids = {1, 2}
    ReadMayFail = FALSE
INVARIANTS
    IdentityKept
    ProfileOnDisk
PROPERTY
    ProfileHeals
CHECK_DEADLOCK FALSE
