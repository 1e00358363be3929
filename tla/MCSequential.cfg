SPECIFICATION MCSpec
CONSTANTS
    BYTE_WIDTH = 2
    SHIFT_WIDTH = 3
    REG_ADDRESS_WIDTH = 2
    MEM_ADDRESS_WIDTH = 4
    SET_ADDRESS_WIDTH = 1
    ROM_ADDRESS_WIDTH = 6
    RESET_CYCLES = 1
    MAX_SIM_CYC = 18
    Length = 4
    Alphabet <- OneLoadAlphabet
    RamByte <- Byte
    ZeroByte = 0
    Roms <- SequentialPrograms
CHECK_DEADLOCK FALSE
PROPERTY
    ImplementsSequential
