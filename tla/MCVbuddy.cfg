SPECIFICATION Spec
CONSTANTS
    Char = {"$", "*", "nl", "0", "1"}
    UsPerMs = 2
    MsPerSec = 2
    ULongMod = 64
    Values <- MCValues
    AckSize = 80
    QuerySize = 5
    SlowBoard = TRUE
    MaxFaults = 2
INVARIANT
    TypeOK
PROPERTIES
    ImplementsCommands
    QueryExact
    CallsReturn
