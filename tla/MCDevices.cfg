CONSTANTS
  MAX_PROCESS = 6
  MAX_PID = 7
  proc1 = proc1
  proc2 = proc2
  proc3 = proc3
  Procs = {proc1, proc2, proc3}
  Order <- SemOrder
  Queues <- ThreeQueues
  kbd = "kbd"
  NoQueue = NoQueue
  DISK0_BLK_NSECT = 2
  BUFBLKS = 2
  d_blocks = 9
  super_blocks = 8
  MaxOps = 2
  CONSBUFSIZE = 3
  NR_ROW = 2
  NR_COL = 2
  Contents <- Files
  OutChars = {8, 10, 13, 97, 114}
  KeyChars = {98, 113, 127}
  HeapSize = 3
  Limits <- Bounds
  Reports <- SomeReports
  MaxReports = 3
  MaxFaults = 2
  MaxTimeouts = 1
  Nodes = {1, 2, 3, 4, 5, 6, 7, 8}
  data <- TreeKeys
  Cells = 4
  Bytes = {0, 1, 200}
  BUFSIZE = 4
  SCREEN_WIDTH = 4
  SCREEN_HEIGHT = 2
  MaxApples = 1
SPECIFICATION DevSpec
INVARIANTS UniquePids CacheSafe SemExact DiskExact ConsoleExact FetchExact KeysExact SnakeExact TreeExact TextExact
PROPERTIES GetPidReturns DownReturns
CHECK_DEADLOCK FALSE
