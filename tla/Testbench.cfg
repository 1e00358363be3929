SPECIFICATION Spec
CONSTANTS
    MAX_SIM_CYC = 13
    MaxFaults = 1
    MaxKeys = 2
CHECK_DEADLOCK FALSE
INVARIANTS
    TypeOK
    CleanEnd
    QuitHeard
PROPERTIES
    ShownTogether
    Terminates
