----------------------------- MODULE Lifecycle -----------------------------
(***************************************************************************)
(* What the kernel promises of a process, as the state diagram at the head *)
(* of kern/process/proc.c draws it (lines 26-44): the states, who may take *)
(* a process from one to the next, and who may be given the CPU.  How the  *)
(* kernel chooses among the runnable processes, and what a process sleeps  *)
(* for, is left open.  Module Process implements this specification.       *)
(***************************************************************************)
CONSTANTS Proc, idleproc, initproc

VARIABLES state, current

lifecycle_vars == <<state, current>>

Is(p, s) == state[p] = s

Init ==
    /\ state = [p \in Proc |-> IF p \in {idleproc, initproc} THEN "PROC_RUNNABLE"
                               ELSE "PROC_FREE"]
    /\ current = idleproc

\* A running process creates another.
Create(p) ==
    /\ Is(current, "PROC_RUNNABLE") /\ Is(p, "PROC_FREE")
    /\ state' = [state EXCEPT ![p] = "PROC_RUNNABLE"]
    /\ UNCHANGED current

\* Only the running process goes to sleep, and never idleproc.
Sleep ==
    /\ current # idleproc /\ Is(current, "PROC_RUNNABLE")
    /\ state' = [state EXCEPT ![current] = "PROC_SLEEPING"]
    /\ UNCHANGED current

Wakeup(p) ==
    /\ Is(p, "PROC_SLEEPING")
    /\ state' = [state EXCEPT ![p] = "PROC_RUNNABLE"]
    /\ UNCHANGED current

\* Only the running process exits, and never idleproc or initproc; the parent is
\* woken in the same step if it waits.
Exit ==
    LET zombie == [state EXCEPT ![current] = "PROC_ZOMBIE"]
    IN  /\ current \notin {idleproc, initproc} /\ Is(current, "PROC_RUNNABLE")
        /\ \/ state' = zombie
           \/ \E p \in Proc \ {current} :
                 /\ Is(p, "PROC_SLEEPING")
                 /\ state' = [zombie EXCEPT ![p] = "PROC_RUNNABLE"]
        /\ UNCHANGED current

\* A running process frees a zombie.
Reap(p) ==
    /\ Is(current, "PROC_RUNNABLE") /\ Is(p, "PROC_ZOMBIE")
    /\ state' = [state EXCEPT ![p] = "PROC_FREE"]
    /\ UNCHANGED current

\* The CPU goes to a runnable process.
Dispatch(p) ==
    /\ Is(p, "PROC_RUNNABLE")
    /\ current' = p
    /\ UNCHANGED state

Next ==
    \/ Sleep \/ Exit
    \/ \E p \in Proc : Create(p) \/ Wakeup(p) \/ Reap(p) \/ Dispatch(p)

Spec == Init /\ [][Next]_lifecycle_vars
=============================================================================
