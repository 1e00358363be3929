SPECIFICATION Spec
CONSTANTS
    Char = {"x", "*"}
    FinalChar = "*"
    UsPerMs = 2
    MsPerSec = 2
    ULongMod = 64
    MaxBytes = 2
    MaxTimeOut = 2
    MaxRx = 2
    MaxClock = 13
    MaxSetBack = 2
    Faulty = TRUE
INVARIANTS
    TypeOK
    StreamIntact
PROPERTIES
    ResultMeaning
    TimeoutHonest
    TimedReadsReturn
