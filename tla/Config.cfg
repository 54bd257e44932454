SPECIFICATION
    ConfigSpec
CONSTANTS
    Friends = {1}
    Writers = {0}
    TG_SN_MAX = 4
    INI_BUFFERSIZE = 17
    Missing = Missing
    MaxCalls = 3
    MaxMishaps = 1
    MAX_Friend_NUM = 2
    KeySymbols = {"''", "bs", ";"}
    KeyLength = 2
INVARIANTS
    NothingForgotten
    SerialsNotReused
PROPERTIES
    ImplementsSettings
