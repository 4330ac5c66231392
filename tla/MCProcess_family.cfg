CONSTANTS
    idleproc = idleproc
    initproc = initproc
    users = {u1, u2, u3}
    Proc = {idleproc, initproc, u1, u2, u3}
    KillTargets = {initproc, u1, u2, u3}
    MaxTimeSlice = 1
    STDIN_BUFSIZE = 1
    MaxSleep = 0
    MaxRead = 1
SPECIFICATION Spec
SYMMETRY Symmetry
INVARIANTS TypeOK RunQueueExact NoDanglingProc Kinship NoLostWakeup
PROPERTIES NoSpuriousWakeup ReapedByParent ImplementsLifecycle
