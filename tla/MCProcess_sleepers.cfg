CONSTANTS
    idleproc = idleproc
    initproc = initproc
    users = {u1, u2}
    Proc = {idleproc, initproc, u1, u2}
    KillTargets = {u1, u2}
    MaxTimeSlice = 1
    STDIN_BUFSIZE = 1
    MaxSleep = 2
    MaxRead = 1
SPECIFICATION FairSpec
INVARIANTS NoAssertionFails
PROPERTIES TimersExact InitKeepsReaping SystemEnds QueuedRuns SleepEnds KilledSleeperExits
