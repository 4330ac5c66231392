------------------------------- MODULE Sched -------------------------------
(***************************************************************************)
(* The scheduler of the ucore kernel: kern/schedule/sched.c (wakeup_proc,  *)
(* schedule, the timer list) over the round-robin class of                 *)
(* kern/schedule/default_sched.c.                                          *)
(*                                                                         *)
(* The module has no next-state relation of its own: every function of     *)
(* sched.c runs on behalf of a process or of an interrupt handler, and     *)
(* module Process calls the actions defined here the way proc.c and trap.c *)
(* call the functions.  The kernel runs on one CPU, and each function is   *)
(* one critical section between local_intr_save and local_intr_restore;    *)
(* the two loops (add_timer, run_timer_list) take one step an iteration.   *)
(***************************************************************************)
EXTENDS Naturals, SequencesExt

CONSTANTS
    Proc,           \* the proc_struct slots, idleproc and initproc among them
    idleproc,       \* pid 0: runs cpu_idle when nothing is runnable
    initproc,       \* pid 1: runs init_main
    MaxTimeSlice    \* rq->max_time_slice (20 in sched_init)

ASSUME ProcAssumption ==
    /\ idleproc \in Proc
    /\ initproc \in Proc
    /\ idleproc # initproc

ASSUME MaxTimeSliceAssumption == MaxTimeSlice \in Nat \ {0}

VARIABLES
    state,          \* proc->state; "PROC_FREE" for a slot that is not allocated
    wait_state,     \* proc->wait_state, without the WT_INTERRUPTED bit
    need_resched,   \* proc->need_resched
    time_slice,     \* proc->time_slice
    run_list,       \* rq->run_list
    current,        \* the process the CPU runs
    timer_list,     \* the delta list of armed timers, by the process they wake
    expires,        \* timer->expires of the process's timer
    panic           \* "none", or why the kernel entered the monitor

run_vars == <<state, wait_state, need_resched, time_slice, run_list, current>>
timer_vars == <<timer_list, expires>>

ProcState == {"PROC_FREE", "PROC_SLEEPING", "PROC_RUNNABLE", "PROC_ZOMBIE"}
\* Every wait state of the model carries WT_INTERRUPTED (WT_KSEM, which does
\* not, is the semaphores': nothing here sleeps while it holds one).
WaitState == {"NONE", "WT_CHILD", "WT_TIMER", "WT_KBD"}

Live(p) == state[p] # "PROC_FREE"

(***************************************************************************)
(* assert(cond): a failing assertion is a panic.                           *)
(***************************************************************************)
kassert(cond) == panic' = IF cond THEN panic ELSE "assertion"

-----------------------------------------------------------------------------
(* The run queue.                                                          *)

\* RR_enqueue: to the tail; a slice that is used up, or has never been given,
\* is refilled.  sched_class_enqueue leaves idleproc out.
RR_enqueue(p) ==
    IF p = idleproc
    THEN UNCHANGED <<run_list, time_slice>>
    ELSE /\ run_list' = Append(run_list, p)
         /\ time_slice' = [time_slice EXCEPT ![p] =
                              IF @ = 0 \/ @ > MaxTimeSlice THEN MaxTimeSlice ELSE @]

\* wakeup_proc(p), where st is proc->state as the caller has left it.
\* A process that is runnable already only earns a warning.
wakeup_proc(st, p) ==
    /\ kassert(st[p] # "PROC_ZOMBIE" /\
               (st[p] # "PROC_RUNNABLE" /\ p # current => p \notin Range(run_list)))
    /\ IF st[p] # "PROC_RUNNABLE"
       THEN /\ state' = [st EXCEPT ![p] = "PROC_RUNNABLE"]
            /\ wait_state' = [wait_state EXCEPT ![p] = "NONE"]
            /\ IF p # current THEN RR_enqueue(p) ELSE UNCHANGED <<run_list, time_slice>>
       ELSE /\ state' = st
            /\ UNCHANGED <<wait_state, run_list, time_slice>>

\* Mutant: current goes back to the queue although it sleeps or is dead.
ReadyQueue_always ==
    IF current # idleproc THEN Append(run_list, current) ELSE run_list

\* Mutant: current goes back to the head of the queue.
ReadyQueue_front ==
    IF state[current] = "PROC_RUNNABLE" /\ current # idleproc
    THEN <<current>> \o run_list ELSE run_list

\* The queue schedule() picks from: current goes back to the tail if it is
\* still runnable.
ReadyQueue ==
    IF state[current] = "PROC_RUNNABLE" /\ current # idleproc
    THEN Append(run_list, current) ELSE run_list

\* schedule(): the head of the queue gets the CPU, idleproc if there is none.
schedule ==
    /\ kassert(state[current] = "PROC_RUNNABLE" => current \notin Range(run_list))
    /\ need_resched' = [need_resched EXCEPT ![current] = FALSE]
    /\ IF state[current] = "PROC_RUNNABLE" /\ current # idleproc
       THEN time_slice' = [time_slice EXCEPT ![current] =
                              IF @ = 0 \/ @ > MaxTimeSlice THEN MaxTimeSlice ELSE @]
       ELSE UNCHANGED time_slice
    /\ IF ReadyQueue = << >>
       THEN current' = idleproc /\ run_list' = << >>
       ELSE current' = Head(ReadyQueue) /\ run_list' = Tail(ReadyQueue)
    /\ UNCHANGED <<state, wait_state>>

\* sched_class_proc_tick(current): RR_proc_tick, or idleproc gives way.
proc_tick ==
    LET left == IF time_slice[current] > 0 THEN time_slice[current] - 1 ELSE 0
    IN  IF current = idleproc
        THEN /\ need_resched' = [need_resched EXCEPT ![current] = TRUE]
             /\ UNCHANGED time_slice
        ELSE /\ time_slice' = [time_slice EXCEPT ![current] = left]
             /\ need_resched' = [need_resched EXCEPT ![current] = @ \/ left = 0]

-----------------------------------------------------------------------------
(* The timer list: each entry holds the ticks that remain after the entry  *)
(* before it has expired.                                                  *)

\* add_timer's loop passes entry i of the list, whose expiry is not later.
add_timer_pass(i) ==
    /\ i <= Len(timer_list)
    /\ expires[current] >= expires[timer_list[i]]
    /\ expires' = [expires EXCEPT ![current] = @ - expires[timer_list[i]]]
    /\ UNCHANGED timer_list

\* add_timer's loop ends at entry i, or behind the last: link the timer there.
add_timer_link(i) ==
    /\ i <= Len(timer_list) => expires[current] < expires[timer_list[i]]
    /\ timer_list' = InsertAt(timer_list, i, current)
    /\ expires' = IF i <= Len(timer_list)
                  THEN [expires EXCEPT ![timer_list[i]] = @ - expires[current]]
                  ELSE expires

\* Mutant: the ticks of the entry are lost.
del_timer_drop(p) ==
    /\ expires' = [expires EXCEPT ![p] = 0]
    /\ timer_list' = IF \E i \in DOMAIN timer_list : timer_list[i] = p
                     THEN RemoveAt(timer_list,
                              CHOOSE i \in DOMAIN timer_list : timer_list[i] = p)
                     ELSE timer_list

\* del_timer: the ticks of the entry go to the one behind it.  The timer is on
\* the stack of its process, and its field is gone (0) once it is unlinked.
del_timer(p) ==
    IF \E i \in DOMAIN timer_list : timer_list[i] = p
    THEN LET i == CHOOSE i \in DOMAIN timer_list : timer_list[i] = p
         IN  /\ timer_list' = RemoveAt(timer_list, i)
             /\ expires' = [q \in Proc |->
                    IF q = p THEN 0
                    ELSE IF i < Len(timer_list) /\ q = timer_list[i+1]
                         THEN expires[q] + expires[p] ELSE expires[q]]
    ELSE /\ expires' = [expires EXCEPT ![p] = 0]
         /\ UNCHANGED timer_list

\* Mutant: a tick in idleproc does not count.
run_timer_list_busy ==
    IF timer_list = << >> \/ current = idleproc
    THEN UNCHANGED <<timer_list, expires, panic>>
    ELSE /\ kassert(expires[Head(timer_list)] # 0)
         /\ expires' = [expires EXCEPT ![Head(timer_list)] = IF @ = 0 THEN 0 ELSE @ - 1]
         /\ UNCHANGED timer_list

\* run_timer_list, first part: one tick is taken from the head of the list.
run_timer_list ==
    IF timer_list = << >>
    THEN UNCHANGED <<timer_list, expires, panic>>
    ELSE /\ kassert(expires[Head(timer_list)] # 0)
         /\ expires' = [expires EXCEPT ![Head(timer_list)] = IF @ = 0 THEN 0 ELSE @ - 1]
         /\ UNCHANGED timer_list

\* run_timer_list, the loop: it runs while the head has expired.
HeadExpired == timer_list # << >> /\ expires[Head(timer_list)] = 0

\* One iteration: wake the process and unlink its timer.  wait_state = 0 (the
\* process was killed and has not run yet) only earns a warning.
expire_timer ==
    /\ HeadExpired
    /\ wakeup_proc(state, Head(timer_list))
    /\ del_timer(Head(timer_list))
    /\ UNCHANGED <<need_resched, current>>
=============================================================================
