SPECIFICATION Spec
CONSTANTS
    BYTE_WIDTH = 1
    SHIFT_WIDTH = 2
    MAX_ONES = 3
CHECK_DEADLOCK FALSE
INVARIANTS
    ResultCorrect
    BranchCorrect
    SignedBranchPartial
    StoreLoadRoundTrip
    ImmediateDecoded
    UnitTestsAgree
