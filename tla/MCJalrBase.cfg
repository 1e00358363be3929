SPECIFICATION MCSpec
CONSTANTS
    BYTE_WIDTH = 2
    SHIFT_WIDTH = 3
    REG_ADDRESS_WIDTH = 2
    MEM_ADDRESS_WIDTH = 4
    SET_ADDRESS_WIDTH = 1
    ROM_ADDRESS_WIDTH = 5
    RESET_CYCLES = 1
    MAX_SIM_CYC = 12
    Length = 2
    Alphabet <- JalrAlphabet
    RamByte <- Byte
    ZeroByte = 0
    Roms <- Programs
CHECK_DEADLOCK FALSE
INVARIANT
    JumpBaseCurrent
