------------------------------ MODULE Process ------------------------------
(***************************************************************************)
(* Processes of the ucore kernel: kern/process/proc.c (fork, exit, wait,   *)
(* kill, sleep, yield, init_main, cpu_idle) and the trap entry and exit of *)
(* kern/trap/trap.c, over the scheduler (Sched) and the stdin device       *)
(* (Stdin).                                                                *)
(*                                                                         *)
(* One CPU runs the process current.  pc[p] says where process p is: in    *)
(* user code, or at a label in the kernel.  A trap clears the interrupt    *)
(* enable bit (trap/exception.S), so only user code, cpu_idle, and the     *)
(* kernel threads init_main and user_main can be interrupted; the rest of  *)
(* the handlers in progress is the sequence irq, and no process moves      *)
(* until it is empty.  The kernel gives the CPU up in schedule() only.     *)
(***************************************************************************)
EXTENDS Stdin

CONSTANTS
    MaxSleep,       \* bound: longest time passed to sleep, in ticks
    MaxRead,        \* bound: most characters a read asks for (0: nobody reads)
    KillTargets     \* the processes other processes may kill

ASSUME BoundAssumption ==
    /\ MaxSleep \in Nat
    /\ MaxRead \in Nat
    /\ KillTargets \subseteq Proc

VARIABLES
    exiting,        \* proc->flags & PF_EXITING
    parent,         \* proc->parent
    children,       \* proc->cptr and the optr chain from it: the youngest first
    pc,             \* where the process is
    wait_pid,       \* the pid do_wait looks for; idleproc's, 0, is any child
    le,             \* the list entry add_timer's loop is at (0: no loop runs)
    irq             \* what the interrupt handlers have left to do

proc_vars == <<exiting, parent, children, pc, wait_pid, le, irq>>
vars == <<run_vars, timer_vars, stdin_vars, proc_vars, panic>>

(***************************************************************************)
(* The calls to schedule(), and where the process goes on after each.      *)
(***************************************************************************)
After == [ preempt     |-> "user",        \* mips_trap, need_resched
           wait_sched  |-> "waited",      \* do_wait
           sleep_sched |-> "slept",       \* do_sleep
           read_sched  |-> "read_woken",  \* dev_stdin_read
           init_sched  |-> "wait" ]       \* init_main's loop

\* user_main is the kernel thread that becomes the first user process; exit and
\* reparent are do_exit; idle is cpu_idle; init_start is init_main before
\* it has created user_main; trapret is the end of mips_trap.
Label == DOMAIN After \union
    { "free", "idle", "init_start", "user_main", "user", "trapret", "exit",
      "reparent", "zombie", "wait", "waited", "add_timer", "slept", "read",
      "read_woken" }

IrqStep == {"char", "wakeup", "clock", "timers"}

TypeOK ==
    /\ state \in [Proc -> ProcState]
    /\ wait_state \in [Proc -> WaitState]
    /\ need_resched \in [Proc -> BOOLEAN]
    /\ time_slice \in [Proc -> 0..MaxTimeSlice]
    /\ run_list \in Seq(Proc)
    /\ current \in Proc
    /\ timer_list \in Seq(Proc)
    /\ expires \in [Proc -> Nat]
    /\ panic \in {"none", "assertion", "memory assertion", "initproc exit"}
    /\ wait_queue \in Seq(Proc)
    /\ wakeup_flags \in [Proc -> BOOLEAN]
    /\ unread \in 0..STDIN_BUFSIZE
    /\ len \in [Proc -> Nat]
    /\ exiting \in [Proc -> BOOLEAN]
    /\ parent \in [Proc -> Proc]
    /\ children \in [Proc -> Seq(Proc)]
    /\ pc \in [Proc -> Label]
    /\ wait_pid \in [Proc -> Proc]
    /\ le \in Nat
    /\ irq \in Seq(IrqStep)

\* A slot that is not allocated has no parent; idleproc stands for NULL.
NoParent == idleproc

\* proc_init has run: idleproc has created initproc, and enters cpu_idle.
Init ==
    /\ state = [p \in Proc |-> IF p \in {idleproc, initproc} THEN "PROC_RUNNABLE"
                               ELSE "PROC_FREE"]
    /\ wait_state = [p \in Proc |-> "NONE"]
    /\ need_resched = [p \in Proc |-> p = idleproc]
    /\ time_slice = [p \in Proc |-> IF p = initproc THEN MaxTimeSlice ELSE 0]
    /\ run_list = <<initproc>>
    /\ current = idleproc
    /\ timer_list = << >>
    /\ expires = [p \in Proc |-> 0]
    /\ panic = "none"
    /\ wait_queue = << >>
    /\ wakeup_flags = [p \in Proc |-> FALSE]
    /\ unread = 0
    /\ len = [p \in Proc |-> 0]
    /\ exiting = [p \in Proc |-> FALSE]
    /\ parent = [p \in Proc |-> NoParent]
    /\ children = [p \in Proc |-> IF p = idleproc THEN <<initproc>> ELSE << >>]
    /\ pc = [p \in Proc |-> CASE p = idleproc -> "idle"
                              [] p = initproc -> "init_start"
                              [] OTHER -> "free"]
    /\ wait_pid = [p \in Proc |-> idleproc]
    /\ le = 0
    /\ irq = << >>

-----------------------------------------------------------------------------
(* Control.                                                                *)

\* The process at the CPU is at the label, and no handler has interrupted it.
At(label) == panic = "none" /\ irq = << >> /\ pc[current] = label

Goto(label) == pc' = [pc EXCEPT ![current] = label]

family_vars == <<exiting, parent, children, wait_pid>>

\* The process moves on in its code, and nothing else changes.
Jump(from, to) ==
    /\ At(from)
    /\ Goto(to)
    /\ UNCHANGED <<run_vars, timer_vars, stdin_vars, family_vars, le, irq, panic>>

\* Every call to schedule(): a zombie has passed on all its children first,
\* and cpu_idle looks at need_resched.  A zombie never comes back.
Schedule ==
    /\ panic = "none"
    /\ irq = << >>
    /\ \/ /\ pc[current] \in DOMAIN After
          /\ Goto(After[pc[current]])
       \/ /\ pc[current] = "reparent"
          /\ children[current] = << >>
          /\ Goto("zombie")
       \/ /\ pc[current] = "idle"
          /\ need_resched[current]
          /\ UNCHANGED pc
    /\ schedule
    /\ UNCHANGED <<family_vars, timer_vars, stdin_vars, le, irq>>

\* The end of mips_trap on the way back to user mode.
TrapReturn ==
    Jump("trapret", IF exiting[current] THEN "exit"
                    ELSE IF need_resched[current] THEN "preempt" ELSE "user")

-----------------------------------------------------------------------------
(* Interrupts.                                                             *)

\* Interrupts are enabled in user code and in the three kernel threads.
Interruptible ==
    /\ panic = "none"
    /\ irq = << >>
    /\ current = initproc \/ pc[current] \in {"user", "user_main", "idle"}

\* What the handler of a line that is pending does first.
Pending(line, step) == IF line THEN <<step>> ELSE << >>

\* interrupt_handler takes the pending lines in the order of their numbers: a
\* character at COM1_IRQ, one at KEYBOARD_IRQ, the clock at TIMER0_IRQ.  A trap from
\* the kernel returns to where it was; one from user code leaves by mips_trap's end.
Interrupt(serial, keyboard, clock) ==
    /\ Interruptible
    /\ serial \/ keyboard \/ clock
    /\ irq' = Pending(serial, "char") \o Pending(keyboard, "char") \o Pending(clock, "clock")
    /\ IF pc[current] = "user" THEN Goto("trapret") ELSE UNCHANGED pc
    /\ UNCHANGED <<run_vars, timer_vars, stdin_vars, family_vars, le, panic>>

\* The next thing the handlers do, and what they have left after it.
Handle(step, rest) ==
    /\ panic = "none"
    /\ irq # << >>
    /\ Head(irq) = step
    /\ irq' = rest \o Tail(irq)
    /\ UNCHANGED <<family_vars, pc, le>>

\* dev_stdin_write, up to its call of wakeup_queue.
StdinWrite ==
    /\ Handle("char", <<"wakeup">>)
    /\ dev_stdin_store
    /\ UNCHANGED <<run_vars, timer_vars, panic, wait_queue, wakeup_flags, len>>

WakeReader ==
    /\ Handle("wakeup", <<"wakeup">>)
    /\ wakeup_wait
    /\ UNCHANGED <<need_resched, current, timer_vars, unread, len>>

WakeReaderDone ==
    /\ Handle("wakeup", << >>)
    /\ wait_queue = << >>
    /\ UNCHANGED <<run_vars, timer_vars, stdin_vars, panic>>

\* clock_int_handler: run_timer_list.
ClockTick ==
    /\ Handle("clock", <<"timers">>)
    /\ run_timer_list
    /\ UNCHANGED <<run_vars, stdin_vars>>

\* Mutant: one timer a tick.
ExpireTimer_once ==
    /\ Handle("timers", << >>)
    /\ expire_timer
    /\ UNCHANGED stdin_vars

ExpireTimer ==
    /\ Handle("timers", <<"timers">>)
    /\ expire_timer
    /\ UNCHANGED stdin_vars

ProcTick ==
    /\ Handle("timers", << >>)
    /\ ~HeadExpired
    /\ proc_tick
    /\ UNCHANGED <<state, wait_state, run_list, current, timer_vars, stdin_vars, panic>>

-----------------------------------------------------------------------------
(* The system calls of the process in user code.                           *)

\* do_exit from sys_exit, from an address error or a page fault that no
\* mapping explains, or from an exec that fails after it let the old image go.
SysExit == Jump("user", "exit")

\* A call that changes none of this state: exec, getpid, the files; a call that
\* returns an error (no memory or no process to fork, a bad pid); a TLB refill.
SysOther == Jump("user", "trapret")

\* set_links(proc), after proc->parent = current.
set_links(p) ==
    /\ parent' = [parent EXCEPT ![p] = current]
    /\ children' = [children EXCEPT ![current] = <<p>> \o @]

\* do_fork: alloc_proc has given the child a slot with every field cleared.
\* The child starts at the label entry.
do_fork(child, entry, next) ==
    /\ state[child] = "PROC_FREE"
    /\ set_links(child)
    /\ pc' = [pc EXCEPT ![current] = next, ![child] = entry]
    /\ wakeup_proc(state, child)
    /\ UNCHANGED <<need_resched, current, timer_vars, stdin_vars, exiting, wait_pid, le, irq>>

SysFork(child) == At("user") /\ do_fork(child, "user", "trapret")

SysYield ==
    /\ At("user")
    /\ need_resched' = [need_resched EXCEPT ![current] = TRUE]
    /\ Goto("trapret")
    /\ UNCHANGED <<family_vars, state, wait_state, time_slice, run_list, current,
                   timer_vars, stdin_vars, le, irq, panic>>

\* Mutant: do_kill wakes the process whatever its wait_state.
SysKill_wake(p) ==
    /\ At("user")
    /\ Live(p) /\ p # idleproc
    /\ ~exiting[p]
    /\ exiting' = [exiting EXCEPT ![p] = TRUE]
    /\ wakeup_proc(state, p)
    /\ Goto("trapret")
    /\ UNCHANGED <<need_resched, current, timer_vars, stdin_vars,
                   parent, children, wait_pid, le, irq>>

\* do_kill of a process that is not being killed yet.
SysKill(p) ==
    /\ At("user")
    /\ Live(p) /\ p # idleproc
    /\ ~exiting[p]
    /\ exiting' = [exiting EXCEPT ![p] = TRUE]
    /\ IF wait_state[p] # "NONE"
       THEN wakeup_proc(state, p)
       ELSE UNCHANGED <<state, wait_state, run_list, time_slice, panic>>
    /\ Goto("trapret")
    /\ UNCHANGED <<need_resched, current, timer_vars, stdin_vars,
                   parent, children, wait_pid, le, irq>>

\* do_sleep(time), up to add_timer's loop; time = 0 is a SysOther.
SysSleep(time) ==
    /\ At("user")
    /\ kassert(\A i \in DOMAIN timer_list : timer_list[i] # current)
    /\ expires' = [expires EXCEPT ![current] = time]
    /\ state' = [state EXCEPT ![current] = "PROC_SLEEPING"]
    /\ wait_state' = [wait_state EXCEPT ![current] = "WT_TIMER"]
    /\ le' = 1
    /\ Goto("add_timer")
    /\ UNCHANGED <<family_vars, need_resched, time_slice, run_list, current,
                   timer_list, stdin_vars, irq>>

AddTimerPass ==
    /\ At("add_timer")
    /\ add_timer_pass(le)
    /\ le' = le + 1
    /\ UNCHANGED <<family_vars, run_vars, stdin_vars, pc, irq, panic>>

AddTimerLink ==
    /\ At("add_timer")
    /\ add_timer_link(le)
    /\ le' = 0
    /\ Goto("sleep_sched")
    /\ UNCHANGED <<family_vars, run_vars, stdin_vars, irq, panic>>

\* do_sleep after schedule(): a process that was killed still has its timer.
SleepDone ==
    /\ At("slept")
    /\ del_timer(current)
    /\ Goto("trapret")
    /\ UNCHANGED <<family_vars, run_vars, stdin_vars, le, irq, panic>>

-----------------------------------------------------------------------------
(* Reading from, and writing to, stdin.                                    *)

SysRead(n) ==
    /\ At("user")
    /\ len' = [len EXCEPT ![current] = n]
    /\ Goto("read")
    /\ UNCHANGED <<family_vars, run_vars, timer_vars, wait_queue, wakeup_flags, unread,
                   le, irq, panic>>

\* sysfile_write to descriptor 0 feeds stdin, a character at a time.
SysWriteStdin(n) ==
    /\ At("user")
    /\ irq' = [i \in 1..n |-> "char"]
    /\ Goto("trapret")
    /\ UNCHANGED <<run_vars, timer_vars, stdin_vars, family_vars, le, panic>>

ReadDone ==
    /\ At("read")
    /\ dev_stdin_read_done
    /\ Goto("trapret")
    /\ UNCHANGED <<family_vars, run_vars, timer_vars, le, irq, panic>>

ReadWait ==
    /\ At("read")
    /\ dev_stdin_read_wait
    /\ Goto("read_sched")
    /\ UNCHANGED <<family_vars, need_resched, time_slice, run_list, current, timer_vars,
                   le, irq, panic>>

\* A reader woken by a character tries again, one woken by do_kill gives up.
\* Its wait_t, on its stack, is gone in either case.
ReadWoken ==
    /\ At("read_woken")
    /\ wait_current_del
    /\ wakeup_flags' = [wakeup_flags EXCEPT ![current] = FALSE]
    /\ IF wakeup_flags[current]
       THEN Goto("read") /\ UNCHANGED len
       ELSE Goto("trapret") /\ len' = [len EXCEPT ![current] = 0]
    /\ UNCHANGED <<family_vars, run_vars, timer_vars, unread, le, irq, panic>>

-----------------------------------------------------------------------------
(* do_wait.                                                                *)

AnyChild == idleproc

\* The children do_wait looks at: those on the list, or the process the pid
\* finds if its parent is current.
Kids ==
    IF wait_pid[current] = AnyChild
    THEN Range(children[current])
    ELSE { p \in {wait_pid[current]} : Live(p) /\ parent[p] = current }

\* Mutant: the state of the child is not looked at.
FirstZombie_any(p) == p \in Kids

\* The zombie it takes: for any child, the first on the list.
FirstZombie(p) ==
    /\ p \in Kids
    /\ state[p] = "PROC_ZOMBIE"
    /\ wait_pid[current] = AnyChild =>
         \E i \in DOMAIN children[current] :
            /\ children[current][i] = p
            /\ \A j \in 1..(i-1) : state[children[current][j]] # "PROC_ZOMBIE"

\* Mutant: the pointers of a parent's youngest child are taken out instead.
remove_links_youngest(p) ==
    /\ children' = [children EXCEPT ![parent[p]] = Tail(@)]
    /\ parent' = [parent EXCEPT ![p] = NoParent]

remove_links(p) ==
    /\ children' = [children EXCEPT ![parent[p]] =
                       RemoveAt(@, CHOOSE i \in DOMAIN @ : @[i] = p)]
    /\ parent' = [parent EXCEPT ![p] = NoParent]

SysWait(pid) ==
    /\ At("user")
    /\ wait_pid' = [wait_pid EXCEPT ![current] = pid]
    /\ Goto("wait")
    /\ UNCHANGED <<run_vars, timer_vars, stdin_vars, exiting, parent, children, le, irq, panic>>

\* found: unhash_proc, remove_links, and the slot is free, its fields cleared.
WaitReap(p) ==
    /\ At("wait")
    /\ FirstZombie(p)
    /\ kassert(p \notin {idleproc, initproc})
    /\ state' = [state EXCEPT ![p] = "PROC_FREE"]
    /\ remove_links(p)
    /\ exiting' = [exiting EXCEPT ![p] = FALSE]
    /\ time_slice' = [time_slice EXCEPT ![p] = 0]
    /\ wait_pid' = [wait_pid EXCEPT ![p] = idleproc, ![current] = idleproc]
    /\ pc' = [pc EXCEPT ![p] = "free",
                        ![current] = IF current = initproc THEN "init_sched" ELSE "trapret"]
    /\ UNCHANGED <<wait_state, need_resched, run_list, current, timer_vars, stdin_vars, le, irq>>

\* haskid, and none is a zombie: sleep.
WaitSleep ==
    /\ At("wait")
    /\ Kids # {}
    /\ \A p \in Kids : state[p] # "PROC_ZOMBIE"
    /\ state' = [state EXCEPT ![current] = "PROC_SLEEPING"]
    /\ wait_state' = [wait_state EXCEPT ![current] = "WT_CHILD"]
    /\ Goto("wait_sched")
    /\ UNCHANGED <<family_vars, need_resched, time_slice, run_list, current,
                   timer_vars, stdin_vars, le, irq, panic>>

\* -E_BAD_PROC.
WaitNone ==
    /\ At("wait")
    /\ Kids = {}
    /\ current # initproc
    /\ wait_pid' = [wait_pid EXCEPT ![current] = idleproc]
    /\ Goto("trapret")
    /\ UNCHANGED <<run_vars, timer_vars, stdin_vars, exiting, parent, children, le, irq, panic>>

\* The same in init_main, which takes it for the end of all user processes, asserts
\* so and returns: the designed end of the system is do_exit's panic.  Whether the
\* pages and the kernel objects are as many as before the first user process, which
\* it asserts last, is not decided by the state of this module.
InitEnd ==
    /\ At("wait")
    /\ Kids = {}
    /\ current = initproc
    /\ panic' \in IF /\ children[initproc] = << >>
                     /\ children[idleproc] = <<initproc>>
                     /\ \A p \in Proc \ {idleproc, initproc} : ~Live(p)
                  THEN {"initproc exit", "memory assertion"} ELSE {"assertion"}
    /\ UNCHANGED <<run_vars, timer_vars, stdin_vars, family_vars, pc, le, irq>>

\* Mutant: PF_EXITING is not looked at after schedule().
Waited_unchecked == Jump("waited", "wait")

\* do_wait after schedule().
Waited == Jump("waited", IF exiting[current] THEN "exit" ELSE "wait")

-----------------------------------------------------------------------------
(* do_exit.                                                                *)

\* initproc was killed.
InitExit ==
    /\ At("exit")
    /\ current = initproc
    /\ panic' = "initproc exit"
    /\ UNCHANGED <<run_vars, timer_vars, stdin_vars, family_vars, pc, le, irq>>

\* Mutant: the parent of a zombie is not woken.
NotifyParent_never(st, p) ==
    state' = st /\ UNCHANGED <<wait_state, run_list, time_slice, panic>>

\* Mutant: the parent is woken whatever it waits for.
NotifyParent_any(st, p) ==
    IF wait_state[p] # "NONE"
    THEN wakeup_proc(st, p)
    ELSE state' = st /\ UNCHANGED <<wait_state, run_list, time_slice, panic>>

\* Process p has got a zombie child: wake it if it waits for one.  st is
\* proc->state as the caller has left it.
NotifyParent(st, p) ==
    IF wait_state[p] = "WT_CHILD"
    THEN wakeup_proc(st, p)
    ELSE state' = st /\ UNCHANGED <<wait_state, run_list, time_slice, panic>>

\* The process is a zombie, and its parent is woken if it waits for children.
Exit ==
    LET zombie == [state EXCEPT ![current] = "PROC_ZOMBIE"]
    IN  /\ At("exit")
        /\ current # initproc
        /\ NotifyParent(zombie, parent[current])
        /\ Goto("reparent")
        /\ UNCHANGED <<family_vars, need_resched, current, timer_vars, stdin_vars, le, irq>>

\* One iteration of the loop that gives the children to initproc.
Reparent ==
    LET p == Head(children[current])
    IN  /\ At("reparent")
        /\ children[current] # << >>
        /\ children' = [children EXCEPT ![current] = Tail(@),
                                        ![initproc] = <<p>> \o @]
        /\ parent' = [parent EXCEPT ![p] = initproc]
        /\ IF state[p] = "PROC_ZOMBIE"
           THEN NotifyParent(state, initproc)
           ELSE UNCHANGED <<state, wait_state, run_list, time_slice, panic>>
        /\ UNCHANGED <<need_resched, current, timer_vars, stdin_vars, exiting, pc,
                       wait_pid, le, irq>>

-----------------------------------------------------------------------------
(* The kernel threads.                                                     *)

\* init_main creates user_main.
InitMain(child) == At("init_start") /\ do_fork(child, "user_main", "wait")

\* user_main: kernel_execve of sh works, or do_execve ends the process.
UserMain == Jump("user_main", "user") \/ Jump("user_main", "exit")

\* panic: interrupts are off, and the monitor runs for ever.
Monitor == panic # "none" /\ UNCHANGED vars

-----------------------------------------------------------------------------

Syscall ==
    \/ SysExit \/ SysOther \/ SysYield
    \/ \E p \in Proc : SysFork(p) \/ SysWait(p)
    \/ \E p \in KillTargets : SysKill(p)
    \/ \E time \in 1..MaxSleep : SysSleep(time)
    \/ \E n \in 1..MaxRead : SysRead(n) \/ SysWriteStdin(n)

\* What a handler of an interrupt does next.
Handler ==
    \/ StdinWrite \/ WakeReader \/ WakeReaderDone
    \/ ClockTick \/ ExpireTimer \/ ProcTick

\* What the current process does next inside the kernel.
KernelStep ==
    \/ Schedule \/ TrapReturn
    \/ AddTimerPass \/ AddTimerLink \/ SleepDone
    \/ ReadDone \/ ReadWait \/ ReadWoken
    \/ \E p \in Proc : WaitReap(p) \/ InitMain(p)
    \/ WaitSleep \/ WaitNone \/ Waited \/ InitEnd
    \/ InitExit \/ Exit \/ Reparent \/ UserMain

ClockInterrupt == \E serial, keyboard \in BOOLEAN : Interrupt(serial, keyboard, TRUE)

Next ==
    \/ Syscall
    \/ Handler
    \/ KernelStep
    \/ \E serial, keyboard, clock \in BOOLEAN : Interrupt(serial, keyboard, clock)
    \/ Monitor

Spec == Init /\ [][Next]_vars

(***************************************************************************)
(* Fairness.  A handler runs to its end.  Between two interrupts the code  *)
(* they interrupt makes progress: the clock interval (TIMER0_INTERVAL,     *)
(* 1250000 cycles) is far longer than a handler.  The timer interrupt is   *)
(* latched until it is taken, so it is taken if interrupts are enabled     *)
(* again and again.  Nothing is assumed of what user code calls, or of the *)
(* keyboard.                                                               *)
(***************************************************************************)
Fairness ==
    /\ WF_vars(Handler)
    /\ SF_vars(KernelStep)
    /\ SF_vars(ClockInterrupt)

FairSpec == Spec /\ Fairness

-----------------------------------------------------------------------------
(* Safety.                                                                 *)

Running == panic = "none"

\* No assertion of wakeup_proc, RR_enqueue, run_timer_list, add_timer or do_wait
\* fails, nor one of those of init_main on processes: nobody wakes a zombie or queues
\* a process twice, the head of the timer list always has ticks left, and when
\* initproc finds no children left to wait for, no process is left.  init_main's two
\* assertions on memory are not among them (InitEnd): the second can fail.
NoAssertionFails == panic # "assertion"

\* The run queue holds exactly the runnable processes that do not have the CPU,
\* each once: schedule() and wakeup_proc lose nobody, and run nobody twice.
RunQueueExact ==
    /\ IsInjective(run_list)
    /\ Range(run_list) =
         { p \in Proc \ {idleproc, current} : state[p] = "PROC_RUNNABLE" }

\* What do_exit and do_wait leave behind refers to nothing that is gone: a dead
\* process has no timer (it is on its stack), no entry on the stdin queue (the
\* same) and no place in the run queue, and a freed one is no process's child,
\* no live process's parent, and not what the CPU runs.
NoDanglingProc ==
    \A p \in Proc :
        /\ state[p] \in {"PROC_ZOMBIE", "PROC_FREE"} =>
              p \notin Range(run_list) \union Range(timer_list) \union Range(wait_queue)
        /\ state[p] = "PROC_FREE" =>
              /\ p # current
              /\ \A q \in Proc : /\ p \notin Range(children[q])
                                 /\ Live(q) => parent[q] # p

\* The child lists (cptr, optr) and proc->parent say the same, and do_exit leaves
\* no process behind with a dead parent: a zombie has children only while it is
\* still in do_exit's loop.
Kinship ==
    /\ \A q \in Proc : IsInjective(children[q])
    /\ \A p, q \in Proc :
          p \in Range(children[q]) <=> p # idleproc /\ Live(p) /\ parent[p] = q
    /\ \A q \in Proc :
          children[q] # << >> =>
             state[q] # "PROC_ZOMBIE" \/ (q = current /\ pc[q] = "reparent")

\* The children do_wait of process p looks at.
KidsOf(p) ==
    { c \in Range(children[p]) : wait_pid[p] \in {AnyChild, c} }

\* No sleep without somebody left to end it: a parent asleep in do_wait has a
\* child to wait for and none of them is a zombie (no exit is missed), a sleeper
\* has its timer on the list, a reader is on the queue and has not slept through
\* a character.
NoLostWakeup ==
    \A p \in Proc :
        /\ wait_state[p] = "WT_CHILD" =>
              /\ KidsOf(p) # {}
              /\ \A c \in KidsOf(p) : state[c] # "PROC_ZOMBIE"
        /\ wait_state[p] = "WT_TIMER" =>
              p \in Range(timer_list) \/ (p = current /\ pc[p] = "add_timer")
        /\ wait_state[p] = "WT_KBD" =>
              /\ p \in Range(wait_queue)
              /\ unread > 0 => irq # << >> /\ Head(irq) = "wakeup"

\* A sleeper is woken for the reason it sleeps for, or because it is killed:
\* an exited child on its list, its timer at the head with no tick left, a
\* character in the ring.
NoSpuriousWakeup ==
    [][\A p \in Proc :
         state[p] = "PROC_SLEEPING" /\ state'[p] = "PROC_RUNNABLE" =>
            \/ ~exiting[p] /\ exiting'[p]
            \/ wait_state[p] = "WT_CHILD" /\
                  \E c \in Range(children'[p]) : state'[c] = "PROC_ZOMBIE"
            \/ wait_state[p] = "WT_TIMER" /\ expires[p] = 0 /\ Head(timer_list) = p
            \/ wait_state[p] = "WT_KBD" /\ unread > 0]_vars

\* The ticks until the timer of p expires: its own and those of the entries
\* before it, also while add_timer is still looking for its place.  SumTo adds
\* up the first n entries of a list.
SumTo(s, ticks, n) ==
    LET sum[i \in 0..Len(s)] == IF i = 0 THEN 0 ELSE sum[i-1] + ticks[s[i]]
    IN  sum[n]
ExpirySum(n) == SumTo(timer_list, expires, n)
Armed(p) == p \in Range(timer_list) \/ pc[p] = "add_timer"
Due(p) ==
    IF pc[p] = "add_timer" THEN ExpirySum(le - 1) + expires[p]
    ELSE ExpirySum(CHOOSE i \in DOMAIN timer_list : timer_list[i] = p)

\* The delta list keeps time: whatever is linked and unlinked around it, a timer
\* loses one tick in each clock interrupt and none otherwise, and leaves the list
\* when it is due or because its process was killed.
TimersExact ==
    [][\A p \in Proc : Armed(p) =>
         IF Armed(p)'
         THEN Due(p)' = Due(p) - (IF irq # << >> /\ Head(irq) = "clock" THEN 1 ELSE 0)
         ELSE Due(p) = 0 \/ exiting[p]]_vars

\* A process is freed once it is a zombie that has left the CPU, by its parent,
\* and with no child of its own.
ReapedByParent ==
    [][\A p \in Proc :
         Live(p) /\ state'[p] = "PROC_FREE" =>
            /\ state[p] = "PROC_ZOMBIE"
            /\ pc[p] = "zombie"
            /\ parent[p] = current
            /\ children[p] = << >>]_vars

\* The processes live as the diagram at the head of proc.c says.
LC == INSTANCE Lifecycle
ImplementsLifecycle == LC!Spec

-----------------------------------------------------------------------------
(* Liveness, under FairSpec.                                               *)

\* Round robin starves nobody: a queued process gets the CPU.
QueuedRuns ==
    \A p \in Proc : p \in Range(run_list) ~> ~Running \/ current = p

\* A process that sleeps for a time gets up again.
SleepEnds ==
    \A p \in Proc : wait_state[p] = "WT_TIMER" ~>
        ~Running \/ (pc[p] = "slept" /\ current = p)

\* initproc does not leave its zombies lying: as long as it has one, do_wait goes
\* on taking one.  (Which one: the youngest on its list, so an older orphan can
\* stay as long as processes keep forking and exiting.)
InitKeepsReaping ==
    (\E p \in Range(children[initproc]) : state[p] = "PROC_ZOMBIE") ~>
        ~Running \/ pc[initproc] = "init_sched"

\* Once every user process has exited, initproc reaps them all and comes to the end
\* of init_main, which is the end of the system.
SystemEnds ==
    (/\ pc[initproc] # "init_start"
     /\ \A p \in Proc \ {idleproc, initproc} : state[p] \in {"PROC_ZOMBIE", "PROC_FREE"})
      ~> panic \in {"initproc exit", "memory assertion"}

\* A process killed while it sleeps in do_wait or do_sleep exits.
KilledSleeperExits ==
    \A p \in Proc :
        exiting[p] /\ state[p] = "PROC_RUNNABLE" /\ pc[p] \in {"waited", "slept"} ~>
            ~Running \/ state[p] \in {"PROC_ZOMBIE", "PROC_FREE"}

\* What the comment in proc.c says of SYS_kill: the process is flagged, woken,
\* and reaches do_exit.
KilledExits ==
    \A p \in Proc : exiting[p] ~> ~Running \/ state[p] \in {"PROC_ZOMBIE", "PROC_FREE"}
=============================================================================
