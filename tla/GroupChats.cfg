SPECIFICATION GFairSpec
CONSTANTS
    MAX_NUM_GROUPS = 2
    MaxConferences = 3
    Members = {m1}
    Titles = {t1, t2}
    NoTitle = none
    Passwords = {p}
    NoPass = open
    TooLong = toolong
INVARIANTS
    TableMatchesToxcore
    CommandsReachGroup
PROPERTIES
    PurgeIsExact
    OutageSparesGroups
    EmptyGroupsGo
