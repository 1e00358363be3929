SPECIFICATION Spec
CONSTANTS
    Char = {"$", "*", "nl", "0", "1"}
    UsPerMs = 2
    MsPerSec = 2
    ULongMod = 64
    Values <- MCShortValues
    AckSize = 80
    QuerySize = 5
    SlowBoard = FALSE
    MaxFaults = 0
PROPERTY
    CallsReturn
