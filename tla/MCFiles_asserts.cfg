SPECIFICATION Spec
CONSTANTS
    NBLOCKS = 21
    BLKSIZE = 3
    NDIRECT = 2
    MAX_FILE_SIZE = 20
    Device <- MCDevice
    Stdin <- MCStdin
    Stdout <- MCStdout
    Disk0 <- MCDisk0
    HOST_TREE <- MCHost
    IMAGE <- create_img
    Proc = {1, 2}
    shell = 1
    FS_STRUCT_NENTRY = 4
    OPENS <- MCOpens
    PATHS <- MCPaths
    LENS = {4}
    FDS = {1, 2, 3}
    SEEKS <- MCSeeks
    WORDS = {7}
    KFAILS = {0, 1}
    MAX_CALLS = 5
INVARIANT AssertsHold
CHECK_DEADLOCK FALSE
