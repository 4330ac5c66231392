SPECIFICATION Spec
CONSTANTS
    NREG = 5
    RA = 4
    BYTE = 16
    WORD = 2
    PAGE = 4
    KSEG0 = 128
    GENERAL = 8
    RAM <- MCRam
    Device <- MCDevice
    Instr <- MCInstr
    Rom <- MCRom
    CODE <- MCCode
    Boot <- Boots
    RATIO = 1
    WAIT_CYCLE = 4
    WriteTicks <- MCWriteTicks
    MAX_INTS = 1
PROPERTY KeepsBranches
CONSTRAINT OwnFaults AfterProduct
