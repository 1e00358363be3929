SPECIFICATION MCSpec
CONSTANTS
    MEM_ADDRESS_WIDTH = 4
    SET_ADDRESS_WIDTH = 1
    b0 = b0
    b1 = b1
    RamByte <- MCBytes
    ZeroByte <- MCZero
    Requests <- MCRequests
INVARIANTS
    TypeOK
    LateHitFresh
    StallBounded
PROPERTY
    StallEnds
