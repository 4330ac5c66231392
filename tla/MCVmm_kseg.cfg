SPECIFICATION Spec
CONSTANTS
    Proc = {p1, p2}
    NFRAME = 16
    NVA = 8
    PTSIZE = 4
    USTACKPAGE = 3
    KSTACKPAGE = 1
    NTLB = 2
    MAX_STEPS = 6
    TOUCHES <- MCTouches
    STRAYS = {0, 16}
    Program <- MCProgram
SYMMETRY Symmetry
PROPERTIES
    KernelSegments
CHECK_DEADLOCK FALSE
