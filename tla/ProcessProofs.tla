--------------------------- MODULE ProcessProofs ---------------------------
(***************************************************************************)
(* Proofs about module Process, for any set of processes, any slice and    *)
(* any bounds.                                                             *)
(*                                                                         *)
(* First: TypeOK, RunQueueExact, Kinship and NoDanglingProc are            *)
(* invariants.  None of them is inductive alone.  What they need besides   *)
(* each other is Labels: where a process is (pc) determines what it has    *)
(* left behind on the kernel's lists.                                      *)
(*                                                                         *)
(* Then who sleeps and who wakes: NoAssertionFails and NoLostWakeup are    *)
(* invariants, every step keeps ReapedByParent, NoSpuriousWakeup and       *)
(* TimersExact, and Process implements Lifecycle.  The invariant is the    *)
(* first and where a process that sleeps is in its code, which list will   *)
(* wake it, what the timer list and the handlers have left to do, and that *)
(* parents lead back to initproc.                                          *)
(***************************************************************************)
EXTENDS Process, SeqLemmas

\* The labels initproc can be at: it never runs user code.
InitLabel == {"init_start", "wait", "wait_sched", "waited", "init_sched", "exit"}

\* The labels with no obligation on any list.
PlainLabel == Label \ { "free", "idle", "reparent", "zombie", "add_timer",
                        "sleep_sched", "slept", "read_sched", "read_woken" }

\* A slot is at "free" exactly if it is free, a zombie is in do_exit or past it,
\* add_timer's loop belongs to the process at the CPU and no interrupt gets in,
\* and an entry on the timer list or the stdin queue is that of a process in
\* do_sleep or dev_stdin_read, each there once.
Labels ==
    /\ pc[idleproc] = "idle"
    /\ pc[initproc] \in InitLabel
    /\ pc[current] # "free"
    /\ IsInjective(timer_list)
    /\ IsInjective(wait_queue)
    /\ \A p \in Proc :
          /\ state[p] = "PROC_FREE" <=> pc[p] = "free"
          /\ state[p] = "PROC_ZOMBIE" => pc[p] \in {"reparent", "zombie"}
          /\ pc[p] = "add_timer" =>
                p = current /\ irq = << >> /\ le \in 1..(Len(timer_list) + 1)
          /\ p \in Range(timer_list) => pc[p] \in {"sleep_sched", "slept"}
          /\ p \in Range(wait_queue) => pc[p] \in {"read_sched", "read_woken"}

\* Kinship, and what keeps a list of children from outliving its owner.
Family ==
    /\ Kinship
    /\ parent[idleproc] = idleproc
    /\ \A q \in Proc : children[q] # << >> => Live(q)

\* The inductive invariant.
IInv == TypeOK /\ RunQueueExact /\ Family /\ Labels

-----------------------------------------------------------------------------
(* What the operators of Sched do.                                         *)

\* After is total on the labels of schedule()'s callers, and never leads to a
\* label that is a caller's, or that stands for a slot without a process.
LEMMA AfterValues ==
    /\ DOMAIN After = {"preempt", "wait_sched", "sleep_sched", "read_sched", "init_sched"}
    /\ After["preempt"] = "user"
    /\ After["wait_sched"] = "waited"
    /\ After["sleep_sched"] = "slept"
    /\ After["read_sched"] = "read_woken"
    /\ After["init_sched"] = "wait"
BY DEF After

\* The types of the run variables after a step.
RunType ==
    /\ state \in [Proc -> ProcState]
    /\ wait_state \in [Proc -> WaitState]
    /\ need_resched \in [Proc -> BOOLEAN]
    /\ time_slice \in [Proc -> 0..MaxTimeSlice]
    /\ run_list \in Seq(Proc)
    /\ current \in Proc
    /\ panic \in {"none", "assertion", "memory assertion", "initproc exit"}

\* The slice RR_enqueue leaves a process with.
LEMMA Refilled ==
    ASSUME NEW t \in 0..MaxTimeSlice
    PROVE  (IF t = 0 \/ t > MaxTimeSlice THEN MaxTimeSlice ELSE t) \in 0..MaxTimeSlice
BY MaxTimeSliceAssumption

\* wakeup_proc makes p runnable and nothing else of anybody's state, and leaves
\* the run queue exact if it was exact for the states its caller has prepared.
LEMMA WakeupEffect ==
    ASSUME RunType, NEW st \in [Proc -> ProcState], NEW p \in Proc,
           IsInjective(run_list),
           Range(run_list) = { q \in Proc \ {idleproc, current} : st[q] = "PROC_RUNNABLE" },
           wakeup_proc(st, p), UNCHANGED <<need_resched, current>>
    PROVE  /\ RunType'
           /\ RunQueueExact'
           /\ state' = [st EXCEPT ![p] = "PROC_RUNNABLE"]
<1>1. panic' \in {"none", "assertion", "memory assertion", "initproc exit"}
  BY DEF wakeup_proc, kassert, RunType
<1>2. CASE st[p] = "PROC_RUNNABLE"
  <2>1. state' = st /\ UNCHANGED <<wait_state, run_list, time_slice>>
    BY <1>2 DEF wakeup_proc
  <2>2. state' = [st EXCEPT ![p] = "PROC_RUNNABLE"]
    BY <2>1, <1>2
  <2>3. RunType'
    BY <1>1, <2>1 DEF RunType
  <2>4. RunQueueExact'
    BY <2>1 DEF RunQueueExact
  <2> QED BY <2>2, <2>3, <2>4
<1>3. CASE st[p] # "PROC_RUNNABLE"
  <2>1. /\ state' = [st EXCEPT ![p] = "PROC_RUNNABLE"]
        /\ wait_state' = [wait_state EXCEPT ![p] = "NONE"]
    BY <1>3 DEF wakeup_proc
  <2>2. state' \in [Proc -> ProcState] /\ wait_state' \in [Proc -> WaitState]
    BY <2>1 DEF RunType, ProcState, WaitState
  <2>3. \A q \in Proc : state'[q] = IF q = p THEN "PROC_RUNNABLE" ELSE st[q]
    BY <2>1
  <2>4. CASE p = current \/ p = idleproc
    <3>1. UNCHANGED <<run_list, time_slice>>
      BY <2>4, <1>3 DEF wakeup_proc, RR_enqueue
    <3>2. RunType'
      BY <1>1, <2>2, <3>1 DEF RunType
    <3>3. { q \in Proc \ {idleproc, current} : st[q] = "PROC_RUNNABLE" } =
            { q \in Proc \ {idleproc, current} : state'[q] = "PROC_RUNNABLE" }
      BY <2>3, <2>4
    <3> QED BY <2>1, <3>1, <3>2, <3>3 DEF RunQueueExact
  <2>5. CASE p # current /\ p # idleproc
    <3>1. /\ run_list' = Append(run_list, p)
          /\ time_slice' = [time_slice EXCEPT ![p] =
                               IF @ = 0 \/ @ > MaxTimeSlice THEN MaxTimeSlice ELSE @]
      BY <2>5, <1>3 DEF wakeup_proc, RR_enqueue
    <3>2. time_slice' \in [Proc -> 0..MaxTimeSlice]
      <4> DEFINE t == IF time_slice[p] = 0 \/ time_slice[p] > MaxTimeSlice
                      THEN MaxTimeSlice ELSE time_slice[p]
      <4>1. time_slice \in [Proc -> 0..MaxTimeSlice]
        BY DEF RunType
      <4>2. t \in 0..MaxTimeSlice
        BY <4>1, Refilled
      <4>3. time_slice' = [time_slice EXCEPT ![p] = t]
        BY <3>1
      <4> HIDE DEF t
      <4> QED BY <4>1, <4>2, <4>3
    <3>3. p \notin Range(run_list)
      BY <1>3
    <3>4. /\ run_list' \in Seq(Proc)
          /\ Range(run_list') = Range(run_list) \union {p}
          /\ IsInjective(run_list')
      <4>1. run_list \in Seq(Proc) /\ p \in Proc
        BY DEF RunType
      <4> QED BY <3>1, <3>3, <4>1, AppendElements
    <3>5. RunType'
      BY <1>1, <2>2, <3>2, <3>4 DEF RunType
    <3>6. Range(run_list') = { q \in Proc \ {idleproc, current} : state'[q] = "PROC_RUNNABLE" }
      BY <2>3, <2>5, <3>4
    <3> QED BY <2>1, <3>4, <3>5, <3>6 DEF RunQueueExact
  <2> QED BY <2>4, <2>5
<1> QED BY <1>2, <1>3

\* schedule() gives the CPU to a runnable process or to idleproc, and leaves the
\* run queue exact.
LEMMA ScheduleEffect ==
    ASSUME RunType, RunQueueExact, schedule
    PROVE  /\ RunType'
           /\ RunQueueExact'
           /\ UNCHANGED state
           /\ current' = idleproc \/ state[current'] = "PROC_RUNNABLE"
<1> USE ProcAssumption
<1>1. /\ panic' \in {"none", "assertion", "memory assertion", "initproc exit"}
      /\ need_resched' \in [Proc -> BOOLEAN]
      /\ UNCHANGED <<state, wait_state>>
  BY DEF schedule, kassert, RunType
<1>2. time_slice' \in [Proc -> 0..MaxTimeSlice]
  BY Refilled DEF schedule, RunType
<1>3. /\ ReadyQueue \in Seq(Proc)
      /\ IsInjective(ReadyQueue)
      /\ Range(ReadyQueue) = { q \in Proc \ {idleproc} : state[q] = "PROC_RUNNABLE" }
  <2>1. CASE state[current] = "PROC_RUNNABLE" /\ current # idleproc
    <3>1. ReadyQueue = Append(run_list, current) /\ current \notin Range(run_list)
      BY <2>1 DEF ReadyQueue, RunQueueExact
    <3>2. run_list \in Seq(Proc) /\ current \in Proc /\ IsInjective(run_list)
      BY DEF RunType, RunQueueExact
    <3>3. /\ ReadyQueue \in Seq(Proc)
          /\ IsInjective(ReadyQueue)
          /\ Range(ReadyQueue) = Range(run_list) \union {current}
      BY <3>1, <3>2, AppendElements
    <3> QED BY <2>1, <3>2, <3>3 DEF RunQueueExact
  <2>2. CASE ~(state[current] = "PROC_RUNNABLE" /\ current # idleproc)
    BY <2>2 DEF ReadyQueue, RunType, RunQueueExact
  <2> QED BY <2>1, <2>2
<1>4. CASE ReadyQueue = << >>
  <2>1. current' = idleproc /\ run_list' = << >>
    BY <1>4 DEF schedule
  <2>2. run_list' \in Seq(Proc) /\ IsInjective(run_list') /\ Range(run_list') = {}
    BY <2>1 DEF IsInjective, Range
  <2>3. Range(ReadyQueue) = {}
    BY <1>4 DEF Range
  <2>4. RunType'
    BY <1>1, <1>2, <2>1, <2>2 DEF RunType
  <2> QED BY <1>1, <1>3, <2>1, <2>2, <2>3, <2>4 DEF RunQueueExact
<1>5. CASE ReadyQueue # << >>
  <2>1. current' = Head(ReadyQueue) /\ run_list' = Tail(ReadyQueue)
    BY <1>5 DEF schedule
  <2>2. /\ current' \in Proc
        /\ current' \in Range(ReadyQueue)
        /\ run_list' \in Seq(Proc)
        /\ IsInjective(run_list')
        /\ Range(run_list') = Range(ReadyQueue) \ {current'}
    BY <1>3, <1>5, <2>1, TailElements
  <2>3. RunType'
    BY <1>1, <1>2, <2>2 DEF RunType
  <2> QED BY <1>1, <1>3, <2>2, <2>3 DEF RunQueueExact
<1> QED BY <1>1, <1>4, <1>5

\* del_timer takes p's timer, and no other, out of the list.
LEMMA DelTimerEffect ==
    ASSUME timer_list \in Seq(Proc), IsInjective(timer_list),
           expires \in [Proc -> Nat], NEW p \in Proc, del_timer(p)
    PROVE  /\ timer_list' \in Seq(Proc)
           /\ IsInjective(timer_list')
           /\ Range(timer_list') = Range(timer_list) \ {p}
           /\ expires' \in [Proc -> Nat]
<1>1. CASE \E i \in DOMAIN timer_list : timer_list[i] = p
  <2> DEFINE k == CHOOSE i \in DOMAIN timer_list : timer_list[i] = p
  <2>1. k \in DOMAIN timer_list /\ timer_list[k] = p
    BY <1>1
  <2>2. /\ timer_list' = RemoveAt(timer_list, k)
        /\ expires' = [q \in Proc |->
               IF q = p THEN 0
               ELSE IF k < Len(timer_list) /\ q = timer_list[k+1]
                    THEN expires[q] + expires[p] ELSE expires[q]]
    BY <1>1 DEF del_timer
  <2> HIDE DEF k
  <2>3. expires' \in [Proc -> Nat]
    <3>1. \A q \in Proc :
             (IF q = p THEN 0
              ELSE IF k < Len(timer_list) /\ q = timer_list[k+1]
                   THEN expires[q] + expires[p] ELSE expires[q]) \in Nat
      OBVIOUS
    <3> QED BY <2>2, <3>1
  <2> QED BY <2>1, <2>2, <2>3, RemoveAtElements
<1>2. CASE ~ \E i \in DOMAIN timer_list : timer_list[i] = p
  <2>1. timer_list' = timer_list /\ expires' = [expires EXCEPT ![p] = 0]
    BY <1>2 DEF del_timer
  <2>2. p \notin Range(timer_list)
    BY <1>2 DEF Range
  <2> QED BY <2>1, <2>2
<1> QED BY <1>1, <1>2

\* wait_current_del takes the current process, and no other, out of the queue.
LEMMA WaitCurrentDelEffect ==
    ASSUME wait_queue \in Seq(Proc), IsInjective(wait_queue), wait_current_del
    PROVE  /\ wait_queue' \in Seq(Proc)
           /\ IsInjective(wait_queue')
           /\ Range(wait_queue') = Range(wait_queue) \ {current}
<1>1. CASE \E i \in DOMAIN wait_queue : wait_queue[i] = current
  <2> DEFINE k == CHOOSE i \in DOMAIN wait_queue : wait_queue[i] = current
  <2>1. k \in DOMAIN wait_queue /\ wait_queue[k] = current
    BY <1>1
  <2>2. wait_queue' = RemoveAt(wait_queue, k)
    BY <1>1 DEF wait_current_del
  <2> HIDE DEF k
  <2> QED BY <2>1, <2>2, RemoveAtElements
<1>2. CASE ~ \E i \in DOMAIN wait_queue : wait_queue[i] = current
  BY <1>2 DEF wait_current_del, Range
<1> QED BY <1>1, <1>2

-----------------------------------------------------------------------------
(* What a step leaves alone.                                               *)

\* No slot is taken or freed, and nobody becomes a zombie.
SameLives ==
    \A q \in Proc : /\ state'[q] = "PROC_FREE" <=> state[q] = "PROC_FREE"
                    /\ state'[q] = "PROC_ZOMBIE" => state[q] = "PROC_ZOMBIE"

\* Waking a process that is not free.
LEMMA WakeupSameLives ==
    ASSUME state \in [Proc -> ProcState], NEW p \in Proc, Live(p),
           state' = [state EXCEPT ![p] = "PROC_RUNNABLE"]
    PROVE  SameLives
BY DEF SameLives, Live

\* Family lasts while nobody is born, dies or changes parents and do_exit's loop
\* goes on.
LEMMA FamilyFrame ==
    ASSUME current \in Proc, Family, SameLives, UNCHANGED <<children, parent>>,
           pc[current] = "reparent" /\ children[current] # << >>
              => UNCHANGED current /\ pc'[current] = "reparent"
    PROVE  Family'
BY DEF Family, Kinship, SameLives, Live

\* Labels lasts while nobody is born or dies, the lists do not grow, and the
\* current process stays where it is or moves between plain labels.
LEMMA LabelsFrame ==
    ASSUME TypeOK, Labels, SameLives, UNCHANGED current,
           IsInjective(timer_list'), Range(timer_list') \subseteq Range(timer_list),
           IsInjective(wait_queue'), Range(wait_queue') \subseteq Range(wait_queue),
           \/ UNCHANGED pc /\ pc[current] # "add_timer"
           \/ \E to \in PlainLabel :
                 /\ pc[current] \in PlainLabel
                 /\ pc' = [pc EXCEPT ![current] = to]
                 /\ current = initproc => to \in InitLabel
    PROVE  Labels'
<1> USE ProcAssumption
<1>1. current \in Proc /\ pc \in [Proc -> Label]
  BY DEF TypeOK
<1>2. CASE UNCHANGED pc /\ pc[current] # "add_timer"
  BY <1>1, <1>2 DEF Labels, SameLives
<1>3. ASSUME NEW to \in PlainLabel,
             pc[current] \in PlainLabel,
             pc' = [pc EXCEPT ![current] = to],
             current = initproc => to \in InitLabel
      PROVE  Labels'
  <2>1. \A p \in Proc : pc'[p] = IF p = current THEN to ELSE pc[p]
    BY <1>1, <1>3
  <2>2. \A l \in { "free", "idle", "reparent", "zombie", "add_timer",
                   "sleep_sched", "slept", "read_sched", "read_woken" } :
           to # l /\ pc[current] # l
    BY <1>3 DEF PlainLabel
  <2> QED BY <1>1, <1>3, <2>1, <2>2 DEF Labels, SameLives
<1> QED BY <1>2, <1>3

\* The slots of the kernel threads and of the current process are in use.
LEMMA LiveSlots ==
    ASSUME IInv
    PROVE  /\ current \in Proc
           /\ Live(current)
           /\ state[idleproc] \notin {"PROC_FREE", "PROC_ZOMBIE"}
           /\ state[initproc] \notin {"PROC_FREE", "PROC_ZOMBIE"}
           /\ current = idleproc => pc[current] = "idle"
           /\ current = initproc => pc[current] \in InitLabel
BY ProcAssumption DEF IInv, TypeOK, Labels, Live, InitLabel

-----------------------------------------------------------------------------
(* The system calls.                                                       *)

\* The parts of the invariant that a step keeps when it leaves their variables.
LEMMA RunQueueFrame ==
    ASSUME RunQueueExact, UNCHANGED <<run_list, state, current>>
    PROVE  RunQueueExact'
BY DEF RunQueueExact

\* Who is live, and who is dead, does not change while no state does.
LEMMA StateFrame == ASSUME UNCHANGED state PROVE SameLives
BY DEF SameLives

\* The plain labels, listed.
LEMMA PlainValues ==
    /\ {"init_start", "user_main", "user", "trapret", "exit", "wait", "waited",
        "read", "preempt", "wait_sched", "init_sched"} = PlainLabel
    /\ PlainLabel \subseteq Label
BY AfterValues DEF PlainLabel, Label

\* A move between plain labels that changes nothing else.
LEMMA JumpStep ==
    ASSUME IInv, NEW from \in PlainLabel, NEW to \in PlainLabel, Jump(from, to),
           current = initproc => to \in InitLabel
    PROVE  IInv'
<1>1. /\ pc[current] = from
      /\ pc' = [pc EXCEPT ![current] = to]
      /\ UNCHANGED <<run_vars, timer_vars, stdin_vars, family_vars, le, irq, panic>>
  BY DEF Jump, At, Goto
<1>2. TypeOK'
  BY <1>1, PlainValues DEF IInv, TypeOK, run_vars, timer_vars, stdin_vars, family_vars
<1>3. RunQueueExact'
  BY <1>1, RunQueueFrame DEF IInv, run_vars
<1>4. SameLives
  BY <1>1, StateFrame DEF run_vars
<1>5. Family'
  BY <1>1, <1>4, FamilyFrame, LiveSlots, PlainValues DEF IInv, run_vars, family_vars
<1>6. Labels'
  BY <1>1, <1>4, LabelsFrame DEF IInv, Labels, run_vars, timer_vars, stdin_vars
<1> QED BY <1>2, <1>3, <1>5, <1>6 DEF IInv

\* do_fork gives a free slot to the new process and makes it a child of current.
LEMMA ForkStep ==
    ASSUME IInv, NEW child \in Proc, NEW entry \in PlainLabel, NEW next \in PlainLabel,
           pc[current] \in PlainLabel, current = initproc => next \in InitLabel,
           do_fork(child, entry, next)
    PROVE  IInv'
<1> USE ProcAssumption
<1>1. /\ state[child] = "PROC_FREE"
      /\ parent' = [parent EXCEPT ![child] = current]
      /\ children' = [children EXCEPT ![current] = <<child>> \o @]
      /\ pc' = [pc EXCEPT ![current] = next, ![child] = entry]
      /\ wakeup_proc(state, child)
      /\ UNCHANGED <<need_resched, current, timer_vars, stdin_vars,
                     exiting, wait_pid, le, irq>>
  BY DEF do_fork, set_links
<1>2. /\ current \in Proc /\ child # current /\ child # idleproc /\ child # initproc
      /\ current # idleproc
  BY <1>1, LiveSlots, PlainValues DEF Live
<1>3. /\ RunType'
      /\ RunQueueExact'
      /\ state' = [state EXCEPT ![child] = "PROC_RUNNABLE"]
  BY <1>1, WakeupEffect DEF IInv, TypeOK, RunType, RunQueueExact
<1>4. \A q \in Proc : /\ state'[q] = IF q = child THEN "PROC_RUNNABLE" ELSE state[q]
                      /\ parent'[q] = IF q = child THEN current ELSE parent[q]
                      /\ pc'[q] = IF q = child THEN entry
                                  ELSE IF q = current THEN next ELSE pc[q]
  BY <1>1, <1>2, <1>3 DEF IInv, TypeOK
<1>5. \A q \in Proc : child \notin Range(children[q])
  BY <1>1 DEF IInv, Family, Kinship, Live
<1>6. /\ children' \in [Proc -> Seq(Proc)]
      /\ \A q \in Proc : q # current => children'[q] = children[q]
      /\ Range(children'[current]) = Range(children[current]) \union {child}
      /\ IsInjective(children'[current])
  <2>1. /\ children \in [Proc -> Seq(Proc)]
        /\ children[current] \in Seq(Proc)
        /\ IsInjective(children[current])
    BY <1>2 DEF IInv, TypeOK, Family, Kinship
  <2> DEFINE list == <<child>> \o children[current]
  <2>2. /\ list \in Seq(Proc)
        /\ Range(list) = Range(children[current]) \union {child}
        /\ IsInjective(list)
    BY <2>1, <1>2, <1>5, ConsElements
  <2>3. children' = [children EXCEPT ![current] = list]
    BY <1>1
  <2> HIDE DEF list
  <2> QED BY <2>1, <2>2, <2>3, <1>2
<1>7. TypeOK'
  <2>1. parent' \in [Proc -> Proc] /\ pc' \in [Proc -> Label]
    BY <1>1, <1>2, PlainValues DEF IInv, TypeOK
  <2> QED BY <1>1, <1>3, <1>6, <2>1 DEF IInv, TypeOK, RunType, timer_vars, stdin_vars
<1>8. Family'
  <2>1. \A q \in Proc : IsInjective(children'[q])
    BY <1>6 DEF IInv, Family, Kinship
  <2>2. ASSUME NEW p \in Proc, NEW q \in Proc
        PROVE  p \in Range(children'[q]) <=>
                  p # idleproc /\ state'[p] # "PROC_FREE" /\ parent'[p] = q
    <3>1. CASE p = child
      BY <3>1, <1>2, <1>4, <1>5, <1>6
    <3>2. CASE p # child
      <4>1. p \in Range(children'[q]) <=> p \in Range(children[q])
        BY <3>2, <1>6
      <4>2. state'[p] = state[p] /\ parent'[p] = parent[p]
        BY <3>2, <1>4
      <4> QED BY <4>1, <4>2 DEF IInv, Family, Kinship, Live
    <3> QED BY <3>1, <3>2
  <2>3. ASSUME NEW q \in Proc, children'[q] # << >>
        PROVE  /\ state'[q] # "PROC_FREE"
               /\ state'[q] # "PROC_ZOMBIE" \/ (q = current' /\ pc'[q] = "reparent")
    <3>1. CASE q = current
      BY <3>1, <1>2, <1>4, PlainValues, LiveSlots DEF IInv, Labels, Live
    <3>2. CASE q # current
      <4>1. children[q] # << >>
        BY <3>2, <2>3, <1>6
      <4> QED BY <3>2, <4>1, <1>1, <1>4 DEF IInv, Family, Kinship, Live
    <3> QED BY <3>1, <3>2
  <2>4. parent'[idleproc] = idleproc
    BY <1>2, <1>4 DEF IInv, Family
  <2> QED BY <2>1, <2>2, <2>3, <2>4 DEF Family, Kinship, Live
<1>9. Labels'
  <2>1. entry # "free" /\ entry # "add_timer" /\ next # "free" /\ next # "add_timer"
    BY PlainValues
  <2>2. UNCHANGED <<timer_list, wait_queue, current>>
    BY <1>1 DEF timer_vars, stdin_vars
  <2>3. /\ child \notin Range(timer_list) \union Range(wait_queue)
        /\ current \notin Range(timer_list) \union Range(wait_queue)
        /\ state[current] # "PROC_ZOMBIE" /\ state[current] # "PROC_FREE"
    BY <1>1, <1>2, LiveSlots, PlainValues DEF IInv, Labels, Live
  <2>4. /\ pc'[idleproc] = "idle"
        /\ pc'[initproc] \in InitLabel
        /\ pc'[current] # "free"
    BY <1>2, <1>4, <2>1 DEF IInv, Labels
  <2>5. ASSUME NEW p \in Proc
        PROVE  /\ state'[p] = "PROC_FREE" <=> pc'[p] = "free"
               /\ state'[p] = "PROC_ZOMBIE" => pc'[p] \in {"reparent", "zombie"}
               /\ pc'[p] # "add_timer"
               /\ p \in Range(timer_list) => pc'[p] \in {"sleep_sched", "slept"}
               /\ p \in Range(wait_queue) => pc'[p] \in {"read_sched", "read_woken"}
    <3>1. pc[p] # "add_timer" \/ p = child
      BY <1>2, PlainValues DEF IInv, Labels
    <3> QED BY <3>1, <1>2, <1>4, <2>1, <2>3 DEF IInv, Labels
  <2> QED BY <2>2, <2>4, <2>5 DEF IInv, Labels
<1> QED BY <1>3, <1>7, <1>8, <1>9 DEF IInv

\* do_yield asks for the CPU to be given away, and nothing else.
LEMMA YieldStep == ASSUME IInv, SysYield PROVE IInv'
<1>1. /\ pc[current] = "user"
      /\ pc' = [pc EXCEPT ![current] = "trapret"]
      /\ need_resched' = [need_resched EXCEPT ![current] = TRUE]
      /\ UNCHANGED <<family_vars, state, wait_state, time_slice, run_list, current,
                     timer_vars, stdin_vars, le, irq, panic>>
  BY DEF SysYield, At, Goto
<1>2. TypeOK'
  BY <1>1, PlainValues DEF IInv, TypeOK, timer_vars, stdin_vars, family_vars
<1>3. RunQueueExact'
  BY <1>1, RunQueueFrame DEF IInv
<1>4. SameLives
  BY <1>1, StateFrame
<1>5. Family'
  BY <1>1, <1>4, FamilyFrame, LiveSlots DEF IInv, family_vars
<1>6. Labels'
  BY <1>1, <1>4, LabelsFrame, LiveSlots, PlainValues
     DEF IInv, Labels, timer_vars, stdin_vars, InitLabel
<1> QED BY <1>2, <1>3, <1>5, <1>6 DEF IInv

\* The entry of do_wait notes the pid, and nothing else.
LEMMA WaitCallStep == ASSUME IInv, NEW pid \in Proc, SysWait(pid) PROVE IInv'
<1>1. /\ pc[current] = "user"
      /\ pc' = [pc EXCEPT ![current] = "wait"]
      /\ wait_pid' = [wait_pid EXCEPT ![current] = pid]
      /\ UNCHANGED <<run_vars, timer_vars, stdin_vars, exiting, parent, children,
                     le, irq, panic>>
  BY DEF SysWait, At, Goto
<1>2. TypeOK'
  BY <1>1, PlainValues DEF IInv, TypeOK, run_vars, timer_vars, stdin_vars
<1>3. RunQueueExact'
  BY <1>1, RunQueueFrame DEF IInv, run_vars
<1>4. SameLives
  BY <1>1, StateFrame DEF run_vars
<1>5. Family'
  BY <1>1, <1>4, FamilyFrame, LiveSlots DEF IInv
<1>6. Labels'
  BY <1>1, <1>4, LabelsFrame, LiveSlots, PlainValues
     DEF IInv, Labels, run_vars, timer_vars, stdin_vars, InitLabel
<1> QED BY <1>2, <1>3, <1>5, <1>6 DEF IInv

\* do_kill flags the process and ends its sleep, if it sleeps; what the process has
\* left on lists stays allowed at the label it wakes at.
LEMMA KillStep == ASSUME IInv, NEW p \in Proc, SysKill(p) PROVE IInv'
<1>1. /\ pc[current] = "user"
      /\ pc' = [pc EXCEPT ![current] = "trapret"]
      /\ Live(p)
      /\ exiting' = [exiting EXCEPT ![p] = TRUE]
      /\ UNCHANGED <<need_resched, current, timer_vars, stdin_vars,
                     parent, children, wait_pid, le, irq>>
  BY DEF SysKill, At, Goto
<1>2. RunType' /\ RunQueueExact' /\ SameLives
  <2>1. RunType /\ RunQueueExact /\ state \in [Proc -> ProcState]
    BY DEF IInv, TypeOK, RunType
  <2>2. CASE wakeup_proc(state, p)
    <3>1. /\ RunType' /\ RunQueueExact'
          /\ state' = [state EXCEPT ![p] = "PROC_RUNNABLE"]
      BY <1>1, <2>1, <2>2, WakeupEffect DEF RunQueueExact
    <3> QED BY <1>1, <2>1, <3>1, WakeupSameLives
  <2>3. CASE UNCHANGED <<state, wait_state, run_list, time_slice, panic>>
    <3>1. RunType'
      BY <1>1, <2>1, <2>3 DEF RunType
    <3> QED BY <1>1, <2>1, <2>3, <3>1, StateFrame, RunQueueFrame
  <2> QED BY <2>2, <2>3 DEF SysKill
<1>3. TypeOK'
  BY <1>1, <1>2, PlainValues DEF IInv, TypeOK, RunType, timer_vars, stdin_vars
<1>4. Family'
  BY <1>1, <1>2, FamilyFrame, LiveSlots DEF IInv
<1>5. Labels'
  BY <1>1, <1>2, LabelsFrame, LiveSlots, PlainValues
     DEF IInv, Labels, timer_vars, stdin_vars, InitLabel
<1> QED BY <1>2, <1>3, <1>4, <1>5 DEF IInv

\* do_sleep starts add_timer's loop; the current process becomes a sleeper while
\* it has the CPU, and the queue never held it.
LEMMA SleepStep == ASSUME IInv, NEW time \in 1..MaxSleep, SysSleep(time) PROVE IInv'
<1> USE ProcAssumption
<1>1. /\ pc[current] = "user" /\ irq = << >>
      /\ pc' = [pc EXCEPT ![current] = "add_timer"]
      /\ expires' = [expires EXCEPT ![current] = time]
      /\ state' = [state EXCEPT ![current] = "PROC_SLEEPING"]
      /\ wait_state' = [wait_state EXCEPT ![current] = "WT_TIMER"]
      /\ le' = 1
      /\ UNCHANGED <<family_vars, need_resched, time_slice, run_list, current,
                     timer_list, stdin_vars, irq>>
  BY DEF SysSleep, At, Goto
<1>2. panic' \in {"none", "assertion", "memory assertion", "initproc exit"}
  BY DEF SysSleep, kassert, IInv, TypeOK
<1>3. time \in Nat
  BY BoundAssumption
<1>4. current \in Proc /\ Live(current) /\ current # idleproc /\ current # initproc
  BY <1>1, LiveSlots DEF InitLabel
<1>5. TypeOK'
  BY <1>1, <1>2, <1>3 DEF IInv, TypeOK, ProcState, WaitState, Label, stdin_vars, family_vars
<1>6. \A q \in Proc : /\ state'[q] = IF q = current THEN "PROC_SLEEPING" ELSE state[q]
                      /\ pc'[q] = IF q = current THEN "add_timer" ELSE pc[q]
  BY <1>1 DEF IInv, TypeOK
<1>7. RunQueueExact'
  <2>1. { q \in Proc \ {idleproc, current} : state'[q] = "PROC_RUNNABLE" } =
          { q \in Proc \ {idleproc, current} : state[q] = "PROC_RUNNABLE" }
    BY <1>6
  <2> QED BY <1>1, <2>1 DEF IInv, RunQueueExact
<1>8. SameLives
  BY <1>4, <1>6 DEF SameLives, Live
<1>9. Family'
  BY <1>1, <1>4, <1>8, FamilyFrame DEF IInv, family_vars
<1>10. Labels'
  <2>1. current \notin Range(timer_list) \union Range(wait_queue)
    BY <1>1, <1>4 DEF IInv, Labels
  <2>2. Len(timer_list) \in Nat
    <3>1. timer_list \in Seq(Proc)
      BY DEF IInv, TypeOK
    <3> QED BY <3>1, LenProperties
  <2>3. 1 \in 1..(Len(timer_list) + 1)
    BY <2>2
  <2>4. UNCHANGED <<timer_list, wait_queue, irq, current>>
    BY <1>1 DEF stdin_vars
  <2>5. ASSUME NEW q \in Proc
        PROVE  /\ state'[q] = "PROC_FREE" <=> pc'[q] = "free"
               /\ state'[q] = "PROC_ZOMBIE" => pc'[q] \in {"reparent", "zombie"}
               /\ pc'[q] = "add_timer" => q = current
               /\ q \in Range(timer_list) => pc'[q] \in {"sleep_sched", "slept"}
               /\ q \in Range(wait_queue) => pc'[q] \in {"read_sched", "read_woken"}
    <3>1. CASE q = current
      BY <3>1, <1>6, <2>1
    <3>2. CASE q # current
      BY <3>2, <1>6 DEF IInv, Labels
    <3> QED BY <3>1, <3>2
  <2>6. pc'[idleproc] = "idle" /\ pc'[initproc] \in InitLabel /\ pc'[current] # "free"
    BY <1>4, <1>6 DEF IInv, Labels
  <2>7. IsInjective(timer_list) /\ IsInjective(wait_queue)
    BY DEF IInv, Labels
  <2> QED BY <1>1, <2>3, <2>4, <2>5, <2>6, <2>7 DEF Labels
<1> QED BY <1>5, <1>7, <1>9, <1>10 DEF IInv

\* The entry of dev_stdin_read notes the length, and nothing else.
LEMMA ReadCallStep == ASSUME IInv, NEW n \in 1..MaxRead, SysRead(n) PROVE IInv'
<1>1. /\ pc[current] = "user"
      /\ pc' = [pc EXCEPT ![current] = "read"]
      /\ len' = [len EXCEPT ![current] = n]
      /\ UNCHANGED <<family_vars, run_vars, timer_vars, wait_queue, wakeup_flags,
                     unread, le, irq, panic>>
  BY DEF SysRead, At, Goto
<1>2. n \in Nat
  BY BoundAssumption
<1>3. TypeOK'
  BY <1>1, <1>2, PlainValues DEF IInv, TypeOK, run_vars, timer_vars, family_vars
<1>4. RunQueueExact'
  BY <1>1, RunQueueFrame DEF IInv, run_vars
<1>5. SameLives
  BY <1>1, StateFrame DEF run_vars
<1>6. Family'
  BY <1>1, <1>5, FamilyFrame, LiveSlots DEF IInv, run_vars, family_vars
<1>7. Labels'
  BY <1>1, <1>5, LabelsFrame, LiveSlots, PlainValues
     DEF IInv, Labels, run_vars, timer_vars, InitLabel
<1> QED BY <1>3, <1>4, <1>6, <1>7 DEF IInv

\* A write to descriptor 0 only queues the characters for dev_stdin_write.
LEMMA WriteCallStep == ASSUME IInv, NEW n \in 1..MaxRead, SysWriteStdin(n) PROVE IInv'
<1>1. /\ pc[current] = "user"
      /\ pc' = [pc EXCEPT ![current] = "trapret"]
      /\ irq' = [i \in 1..n |-> "char"]
      /\ UNCHANGED <<run_vars, timer_vars, stdin_vars, family_vars, le, panic>>
  BY DEF SysWriteStdin, At, Goto
<1>2. irq' \in Seq(IrqStep)
  <2>1. n \in Nat /\ irq' \in [1..n -> IrqStep]
    BY <1>1, BoundAssumption DEF IrqStep
  <2> QED BY <2>1, SeqDef
<1>3. TypeOK'
  BY <1>1, <1>2, PlainValues DEF IInv, TypeOK, run_vars, timer_vars, stdin_vars, family_vars
<1>4. RunQueueExact'
  BY <1>1, RunQueueFrame DEF IInv, run_vars
<1>5. SameLives
  BY <1>1, StateFrame DEF run_vars
<1>6. Family'
  BY <1>1, <1>5, FamilyFrame, LiveSlots DEF IInv, run_vars, family_vars
<1>7. Labels'
  BY <1>1, <1>5, LabelsFrame, LiveSlots, PlainValues
     DEF IInv, Labels, run_vars, timer_vars, stdin_vars, InitLabel
<1> QED BY <1>3, <1>4, <1>6, <1>7 DEF IInv

\* Every system call from user code keeps the invariant.
LEMMA SyscallStep == ASSUME IInv, Syscall PROVE IInv'
<1>1. At("user") => current # initproc /\ pc[current] = "user"
  BY LiveSlots DEF At, InitLabel
<1>2. CASE SysExit
  BY <1>1, <1>2, JumpStep, PlainValues DEF SysExit, Jump
<1>3. CASE SysOther
  BY <1>1, <1>3, JumpStep, PlainValues DEF SysOther, Jump
<1>4. CASE SysYield
  BY <1>4, YieldStep
<1>5. CASE \E p \in Proc : SysFork(p) \/ SysWait(p)
  BY <1>1, <1>5, ForkStep, WaitCallStep, PlainValues DEF SysFork
<1>6. CASE \E p \in KillTargets : SysKill(p)
  BY <1>6, KillStep, BoundAssumption
<1>7. CASE \E time \in 1..MaxSleep : SysSleep(time)
  BY <1>7, SleepStep
<1>8. CASE \E n \in 1..MaxRead : SysRead(n) \/ SysWriteStdin(n)
  BY <1>8, ReadCallStep, WriteCallStep
<1> QED BY <1>2, <1>3, <1>4, <1>5, <1>6, <1>7, <1>8 DEF Syscall

-----------------------------------------------------------------------------
(* The interrupt handlers.                                                 *)

\* A handler consumes the head of irq and leaves every process where it is.
LEMMA HandleFacts ==
    ASSUME IInv, NEW step \in IrqStep, NEW rest \in Seq(IrqStep), Handle(step, rest)
    PROVE  /\ irq' \in Seq(IrqStep)
           /\ pc[current] # "add_timer"
           /\ UNCHANGED <<family_vars, pc, le>>
<1>1. irq \in Seq(IrqStep) /\ irq # << >> /\ irq' = rest \o Tail(irq)
  BY DEF Handle, IInv, TypeOK
<1>2. Tail(irq) \in Seq(IrqStep)
  BY <1>1, HeadTailProperties
<1>3. irq' \in Seq(IrqStep)
  BY <1>1, <1>2, ConcatProperties
<1>4. pc[current] # "add_timer"
  BY <1>1, LiveSlots DEF IInv, Labels
<1> QED BY <1>3, <1>4 DEF Handle

\* What the handlers have left is again a sequence of handler steps.
LEMMA IrqRests ==
    /\ << >> \in Seq(IrqStep) /\ <<"wakeup">> \in Seq(IrqStep) /\ <<"timers">> \in Seq(IrqStep)
    /\ {"char", "wakeup", "clock", "timers"} = IrqStep
BY DEF IrqStep

\* The steps of the handlers that wake nobody and change no list.
LEMMA QuietHandlerStep ==
    ASSUME IInv, StdinWrite \/ WakeReaderDone \/ ClockTick \/ ProcTick
    PROVE  IInv'
<1>1. /\ irq' \in Seq(IrqStep)
      /\ pc[current] # "add_timer"
      /\ UNCHANGED <<family_vars, pc, le, state, wait_state, run_list, current,
                     timer_list, wait_queue, wakeup_flags, len>>
  <2>1. CASE StdinWrite
    BY <2>1, HandleFacts, IrqRests DEF StdinWrite, run_vars, timer_vars
  <2>2. CASE WakeReaderDone
    BY <2>2, HandleFacts, IrqRests DEF WakeReaderDone, run_vars, timer_vars, stdin_vars
  <2>3. CASE ClockTick
    BY <2>3, HandleFacts, IrqRests DEF ClockTick, run_timer_list, run_vars, stdin_vars
  <2>4. CASE ProcTick
    BY <2>4, HandleFacts, IrqRests DEF ProcTick, timer_vars, stdin_vars
  <2> QED BY <2>1, <2>2, <2>3, <2>4
<1>2. /\ need_resched' \in [Proc -> BOOLEAN]
      /\ time_slice' \in [Proc -> 0..MaxTimeSlice]
      /\ expires' \in [Proc -> Nat]
      /\ unread' \in 0..STDIN_BUFSIZE
      /\ panic' \in {"none", "assertion", "memory assertion", "initproc exit"}
  <2>1. CASE StdinWrite
    <3>1. /\ UNCHANGED <<need_resched, time_slice, expires, panic>>
          /\ unread' = IF unread < STDIN_BUFSIZE THEN unread + 1 ELSE unread
      BY <2>1 DEF StdinWrite, dev_stdin_store, run_vars, timer_vars
    <3>2. unread \in 0..STDIN_BUFSIZE
      BY DEF IInv, TypeOK
    <3>3. unread' \in 0..STDIN_BUFSIZE
      BY <3>1, <3>2, StdinAssumption
    <3> QED BY <3>1, <3>3 DEF IInv, TypeOK
  <2>2. CASE WakeReaderDone
    BY <2>2 DEF WakeReaderDone, run_vars, timer_vars, stdin_vars, IInv, TypeOK
  <2>3. CASE ClockTick
    <3>1. UNCHANGED <<need_resched, time_slice, unread>>
      BY <2>3 DEF ClockTick, run_vars, stdin_vars
    <3>2. panic' \in {"none", "assertion", "memory assertion", "initproc exit"}
      BY <2>3 DEF ClockTick, run_timer_list, kassert, IInv, TypeOK
    <3>3. expires' \in [Proc -> Nat]
      <4>1. CASE timer_list = << >>
        BY <2>3, <4>1 DEF ClockTick, run_timer_list, IInv, TypeOK
      <4>2. CASE timer_list # << >>
        <5> DEFINE h == Head(timer_list)
                   left == IF expires[h] = 0 THEN 0 ELSE expires[h] - 1
        <5>1. h \in Proc
          BY <4>2, HeadTailProperties DEF IInv, TypeOK
        <5>2. expires' = [expires EXCEPT ![h] = left]
          BY <2>3, <4>2 DEF ClockTick, run_timer_list
        <5>3. expires \in [Proc -> Nat]
          BY DEF IInv, TypeOK
        <5>4. expires[h] \in Nat
          BY <5>1, <5>3
        <5>5. left \in Nat
          BY <5>4
        <5> HIDE DEF h, left
        <5> QED BY <5>1, <5>2, <5>3, <5>5
      <4> QED BY <4>1, <4>2
    <3> QED BY <3>1, <3>2, <3>3 DEF IInv, TypeOK
  <2>4. CASE ProcTick
    <3>1. UNCHANGED <<expires, unread, panic>>
      BY <2>4 DEF ProcTick, timer_vars, stdin_vars
    <3>2. current \in Proc /\ time_slice \in [Proc -> 0..MaxTimeSlice]
      BY DEF IInv, TypeOK
    <3> DEFINE left == IF time_slice[current] > 0 THEN time_slice[current] - 1 ELSE 0
    <3>3. left \in 0..MaxTimeSlice
      BY <3>2, MaxTimeSliceAssumption
    <3>4. \/ time_slice' = time_slice
          \/ time_slice' = [time_slice EXCEPT ![current] = left]
      BY <2>4 DEF ProcTick, proc_tick
    <3> HIDE DEF left
    <3>5. time_slice' \in [Proc -> 0..MaxTimeSlice]
      BY <3>2, <3>3, <3>4
    <3>6. need_resched' \in [Proc -> BOOLEAN]
      <4>1. PICK b \in BOOLEAN : need_resched' = [need_resched EXCEPT ![current] = b]
        <5>1. CASE current = idleproc
          BY <2>4, <5>1 DEF ProcTick, proc_tick
        <5>2. CASE current # idleproc
          <6> DEFINE b == need_resched[current] \/
                          (IF time_slice[current] > 0 THEN time_slice[current] - 1 ELSE 0) = 0
          <6>1. need_resched' = [need_resched EXCEPT ![current] = b] /\ b \in BOOLEAN
            BY <2>4, <5>2 DEF ProcTick, proc_tick
          <6> HIDE DEF b
          <6> QED BY <6>1
        <5> QED BY <5>1, <5>2
      <4>2. need_resched \in [Proc -> BOOLEAN]
        BY DEF IInv, TypeOK
      <4> QED BY <4>1, <4>2
    <3> QED BY <3>1, <3>5, <3>6 DEF IInv, TypeOK
  <2> QED BY <2>1, <2>2, <2>3, <2>4
<1>3. TypeOK'
  BY <1>1, <1>2 DEF IInv, TypeOK, family_vars
<1>4. RunQueueExact'
  BY <1>1, RunQueueFrame DEF IInv
<1>5. SameLives
  BY <1>1, StateFrame
<1>6. Family'
  BY <1>1, <1>5, FamilyFrame, LiveSlots DEF IInv, family_vars
<1>7. Labels'
  BY <1>1, <1>5, LabelsFrame DEF IInv, Labels
<1> QED BY <1>3, <1>4, <1>6, <1>7 DEF IInv

\* The two that wake the head of a list: it is not free, for it is in the middle
\* of do_sleep or dev_stdin_read.
LEMMA WakingHandlerStep ==
    ASSUME IInv, WakeReader \/ ExpireTimer
    PROVE  IInv'
<1>1. /\ irq' \in Seq(IrqStep)
      /\ pc[current] # "add_timer"
      /\ UNCHANGED <<family_vars, pc, le, need_resched, current, unread, len>>
  <2>1. CASE WakeReader
    BY <2>1, HandleFacts, IrqRests DEF WakeReader
  <2>2. CASE ExpireTimer
    BY <2>2, HandleFacts, IrqRests DEF ExpireTimer, expire_timer, stdin_vars
  <2> QED BY <2>1, <2>2
<1>2. PICK p \in Proc : /\ wakeup_proc(state, p)
                        /\ p \in Range(timer_list) \union Range(wait_queue)
  <2>1. CASE WakeReader
    <3>1. /\ wait_queue \in Seq(Proc) /\ wait_queue # << >>
          /\ wakeup_proc(state, Head(wait_queue))
      BY <2>1 DEF WakeReader, wakeup_wait, IInv, TypeOK
    <3>2. Head(wait_queue) \in Proc /\ Head(wait_queue) \in Range(wait_queue)
      BY <3>1, TailElements
    <3> QED BY <3>1, <3>2
  <2>2. CASE ExpireTimer
    <3>1. /\ timer_list \in Seq(Proc) /\ timer_list # << >>
          /\ wakeup_proc(state, Head(timer_list))
      BY <2>2 DEF ExpireTimer, expire_timer, HeadExpired, IInv, TypeOK
    <3>2. Head(timer_list) \in Proc /\ Head(timer_list) \in Range(timer_list)
      BY <3>1, TailElements
    <3> QED BY <3>1, <3>2
  <2> QED BY <2>1, <2>2
<1>3. Live(p)
  BY <1>2 DEF IInv, Labels, Live
<1>4. RunType' /\ RunQueueExact' /\ SameLives
  <2>1. RunType /\ RunQueueExact /\ state \in [Proc -> ProcState]
    BY DEF IInv, TypeOK, RunType
  <2>2. /\ RunType' /\ RunQueueExact'
        /\ state' = [state EXCEPT ![p] = "PROC_RUNNABLE"]
    BY <1>1, <1>2, <2>1, WakeupEffect DEF RunQueueExact
  <2> QED BY <1>3, <2>1, <2>2, WakeupSameLives
<1>5. /\ timer_list' \in Seq(Proc) /\ IsInjective(timer_list')
      /\ Range(timer_list') \subseteq Range(timer_list)
      /\ wait_queue' \in Seq(Proc) /\ IsInjective(wait_queue')
      /\ Range(wait_queue') \subseteq Range(wait_queue)
      /\ expires' \in [Proc -> Nat]
      /\ wakeup_flags' \in [Proc -> BOOLEAN]
  <2>1. /\ timer_list \in Seq(Proc) /\ IsInjective(timer_list)
        /\ wait_queue \in Seq(Proc) /\ IsInjective(wait_queue)
        /\ expires \in [Proc -> Nat] /\ wakeup_flags \in [Proc -> BOOLEAN]
    BY DEF IInv, TypeOK, Labels
  <2>2. CASE WakeReader
    <3>1. /\ wait_queue # << >>
          /\ wait_queue' = Tail(wait_queue)
          /\ wakeup_flags' = [wakeup_flags EXCEPT ![Head(wait_queue)] = TRUE]
          /\ UNCHANGED <<timer_list, expires>>
      BY <2>2 DEF WakeReader, wakeup_wait, timer_vars
    <3>2. /\ wait_queue' \in Seq(Proc) /\ IsInjective(wait_queue')
          /\ Range(wait_queue') \subseteq Range(wait_queue)
      BY <2>1, <3>1, TailElements
    <3> QED BY <2>1, <3>1, <3>2
  <2>3. CASE ExpireTimer
    <3>1. /\ timer_list # << >>
          /\ del_timer(Head(timer_list))
          /\ UNCHANGED <<wait_queue, wakeup_flags>>
      BY <2>3 DEF ExpireTimer, expire_timer, HeadExpired, stdin_vars
    <3>2. Head(timer_list) \in Proc
      BY <2>1, <3>1, HeadTailProperties
    <3>3. /\ timer_list' \in Seq(Proc) /\ IsInjective(timer_list')
          /\ Range(timer_list') = Range(timer_list) \ {Head(timer_list)}
          /\ expires' \in [Proc -> Nat]
      BY <2>1, <3>1, <3>2, DelTimerEffect
    <3> QED BY <2>1, <3>1, <3>3
  <2> QED BY <2>2, <2>3
<1>6. TypeOK'
  BY <1>1, <1>4, <1>5 DEF IInv, TypeOK, RunType, family_vars
<1>7. Family'
  BY <1>1, <1>4, FamilyFrame, LiveSlots DEF IInv, family_vars
<1>8. Labels'
  BY <1>1, <1>4, <1>5, LabelsFrame DEF IInv
<1> QED BY <1>4, <1>6, <1>7, <1>8 DEF IInv

\* Every step of an interrupt handler keeps the invariant.
LEMMA HandlerStep == ASSUME IInv, Handler PROVE IInv'
BY QuietHandlerStep, WakingHandlerStep DEF Handler

\* Taking an interrupt moves a process from user code to the end of mips_trap, and
\* leaves a kernel thread where it is.
LEMMA InterruptStep ==
    ASSUME IInv, NEW serial \in BOOLEAN, NEW keyboard \in BOOLEAN, NEW clock \in BOOLEAN,
           Interrupt(serial, keyboard, clock)
    PROVE  IInv'
<1>1. /\ irq = << >>
      /\ current = initproc \/ pc[current] \in {"user", "user_main", "idle"}
      /\ irq' = Pending(serial, "char") \o Pending(keyboard, "char") \o Pending(clock, "clock")
      /\ \/ pc[current] = "user" /\ pc' = [pc EXCEPT ![current] = "trapret"]
         \/ UNCHANGED pc
      /\ UNCHANGED <<run_vars, timer_vars, stdin_vars, family_vars, le, panic>>
  BY DEF Interrupt, Interruptible, Goto
<1>2. irq' \in Seq(IrqStep)
  <2>1. <<"char">> \in Seq(IrqStep) /\ <<"clock">> \in Seq(IrqStep) /\ << >> \in Seq(IrqStep)
    BY DEF IrqStep
  <2>2. /\ Pending(serial, "char") \in Seq(IrqStep)
        /\ Pending(keyboard, "char") \in Seq(IrqStep)
        /\ Pending(clock, "clock") \in Seq(IrqStep)
    BY <2>1 DEF Pending
  <2>3. Pending(serial, "char") \o Pending(keyboard, "char") \in Seq(IrqStep)
    BY <2>2, ConcatProperties
  <2> QED BY <1>1, <2>2, <2>3, ConcatProperties
<1>3. pc[current] # "add_timer"
  BY <1>1, LiveSlots DEF InitLabel
<1>4. TypeOK'
  BY <1>1, <1>2, PlainValues DEF IInv, TypeOK, run_vars, timer_vars, stdin_vars, family_vars
<1>5. RunQueueExact'
  BY <1>1, RunQueueFrame DEF IInv, run_vars
<1>6. SameLives
  BY <1>1, StateFrame DEF run_vars
<1>7. Family'
  BY <1>1, <1>6, FamilyFrame, LiveSlots DEF IInv, run_vars, family_vars
<1>8. Labels'
  BY <1>1, <1>3, <1>6, LabelsFrame, LiveSlots, PlainValues
     DEF IInv, Labels, run_vars, timer_vars, stdin_vars, InitLabel
<1> QED BY <1>4, <1>5, <1>7, <1>8 DEF IInv

-----------------------------------------------------------------------------
(* The steps of the current process inside the kernel.                     *)

\* schedule() may move the CPU, for its caller leaves nothing behind: it is at a
\* label that its wakeup finds, or it is a zombie without children.
LEMMA ScheduleStep == ASSUME IInv, Schedule PROVE IInv'
<1> USE ProcAssumption
<1>1. /\ irq = << >>
      /\ schedule
      /\ UNCHANGED <<family_vars, timer_vars, stdin_vars, le, irq>>
  BY DEF Schedule
<1>2. /\ current \in Proc
      /\ RunType' /\ RunQueueExact' /\ UNCHANGED state
      /\ current' = idleproc \/ state[current'] = "PROC_RUNNABLE"
  BY <1>1, ScheduleEffect DEF IInv, TypeOK, RunType
<1>3. SameLives
  BY <1>2, StateFrame
<1>4. PICK to \in Label :
         /\ pc' = [pc EXCEPT ![current] = to]
         /\ \/ /\ pc[current] \in DOMAIN After /\ to = After[pc[current]]
            \/ /\ pc[current] = "reparent" /\ to = "zombie"
               /\ children[current] = << >>
            \/ pc[current] = "idle" /\ to = "idle"
  <2>1. CASE pc[current] \in DOMAIN After /\ Goto(After[pc[current]])
    BY <2>1, AfterValues DEF Goto, Label
  <2>2. CASE /\ pc[current] = "reparent"
             /\ children[current] = << >>
             /\ Goto("zombie")
    BY <2>2 DEF Goto, Label
  <2>3. CASE pc[current] = "idle" /\ UNCHANGED pc
    <3>1. pc' = [pc EXCEPT ![current] = "idle"]
      BY <1>2, <2>3 DEF IInv, TypeOK
    <3> QED BY <2>3, <3>1 DEF Label
  <2> QED BY <2>1, <2>2, <2>3 DEF Schedule
<1>5. \A q \in Proc : pc'[q] = IF q = current THEN to ELSE pc[q]
  BY <1>2, <1>4 DEF IInv, TypeOK
<1>6. TypeOK'
  BY <1>1, <1>2, <1>4 DEF IInv, TypeOK, RunType, family_vars, timer_vars, stdin_vars
<1>7. Family'
  BY <1>1, <1>2, <1>3, <1>4, FamilyFrame, AfterValues DEF IInv, family_vars
<1>8. Labels'
  <2>1. \/ pc[current] = "sleep_sched" /\ to = "slept"
        \/ pc[current] = "read_sched" /\ to = "read_woken"
        \/ pc[current] = "reparent" /\ to = "zombie"
        \/ pc[current] = "idle" /\ to = "idle"
        \/ pc[current] = "preempt" /\ to = "user"
        \/ pc[current] = "wait_sched" /\ to = "waited"
        \/ pc[current] = "init_sched" /\ to = "wait"
    BY <1>4, AfterValues
  <2>2. UNCHANGED <<timer_list, wait_queue>>
    BY <1>1 DEF timer_vars, stdin_vars
  <2>3. /\ current = idleproc => to = "idle"
        /\ current = initproc => to \in InitLabel
    BY <2>1, LiveSlots DEF InitLabel
  <2>4. pc'[idleproc] = "idle" /\ pc'[initproc] \in InitLabel
    BY <1>5, <2>3 DEF IInv, Labels
  <2>5. ASSUME NEW p \in Proc
        PROVE  /\ state[p] = "PROC_FREE" <=> pc'[p] = "free"
               /\ state[p] = "PROC_ZOMBIE" => pc'[p] \in {"reparent", "zombie"}
               /\ pc'[p] # "add_timer"
               /\ p \in Range(timer_list) => pc'[p] \in {"sleep_sched", "slept"}
               /\ p \in Range(wait_queue) => pc'[p] \in {"read_sched", "read_woken"}
    <3>1. CASE p = current
      BY <3>1, <1>5, <2>1 DEF IInv, Labels
    <3>2. CASE p # current
      BY <3>2, <1>5 DEF IInv, Labels
    <3> QED BY <3>1, <3>2
  <2>6. pc'[current'] # "free"
    BY <1>2, <1>6, <2>4, <2>5 DEF TypeOK
  <2> QED BY <1>2, <2>2, <2>4, <2>5, <2>6 DEF IInv, Labels
<1> QED BY <1>2, <1>6, <1>7, <1>8 DEF IInv

\* add_timer's loop stays within one position behind the end of the list.
LEMMA AddTimerPassStep == ASSUME IInv, AddTimerPass PROVE IInv'
<1>1. /\ pc[current] = "add_timer"
      /\ le <= Len(timer_list)
      /\ expires[current] >= expires[timer_list[le]]
      /\ expires' = [expires EXCEPT ![current] = @ - expires[timer_list[le]]]
      /\ le' = le + 1
      /\ UNCHANGED <<family_vars, run_vars, stdin_vars, pc, irq, panic, timer_list>>
  BY DEF AddTimerPass, add_timer_pass, At
<1>2. /\ current \in Proc /\ timer_list \in Seq(Proc) /\ expires \in [Proc -> Nat]
      /\ le \in 1..(Len(timer_list) + 1) /\ le \in Nat /\ Len(timer_list) \in Nat
  <2>1. current \in Proc /\ timer_list \in Seq(Proc) /\ expires \in [Proc -> Nat] /\ le \in Nat
    BY DEF IInv, TypeOK
  <2> QED BY <1>1, <2>1, LenProperties DEF IInv, Labels
<1>3. le \in 1..Len(timer_list) /\ le' \in 1..(Len(timer_list) + 1) /\ le' \in Nat
  BY <1>1, <1>2
<1>4. expires' \in [Proc -> Nat]
  <2>1. timer_list[le] \in Proc
    BY <1>2, <1>3, ElementOfSeq
  <2>2. expires[current] \in Nat /\ expires[timer_list[le]] \in Nat
    BY <1>2, <2>1
  <2> DEFINE left == expires[current] - expires[timer_list[le]]
  <2>3. left \in Nat
    BY <1>1, <2>2
  <2>4. expires' = [expires EXCEPT ![current] = left]
    BY <1>1
  <2> HIDE DEF left
  <2> QED BY <1>2, <2>3, <2>4
<1>5. TypeOK'
  BY <1>1, <1>3, <1>4 DEF IInv, TypeOK, run_vars, stdin_vars, family_vars
<1>6. RunQueueExact'
  BY <1>1, RunQueueFrame DEF IInv, run_vars
<1>7. SameLives
  BY <1>1, StateFrame DEF run_vars
<1>8. Family'
  BY <1>1, <1>2, <1>7, FamilyFrame DEF IInv, run_vars, family_vars
<1>9. Labels'
  BY <1>1, <1>3 DEF IInv, Labels, run_vars, stdin_vars
<1> QED BY <1>5, <1>6, <1>8, <1>9 DEF IInv

\* The timer is linked: now the process is on the list, and about to give the
\* CPU up.
LEMMA AddTimerLinkStep == ASSUME IInv, AddTimerLink PROVE IInv'
<1> USE ProcAssumption
<1>1. /\ pc[current] = "add_timer"
      /\ add_timer_link(le)
      /\ le' = 0
      /\ pc' = [pc EXCEPT ![current] = "sleep_sched"]
      /\ UNCHANGED <<family_vars, run_vars, stdin_vars, irq, panic>>
  BY DEF AddTimerLink, At, Goto
<1>2. /\ current \in Proc /\ timer_list \in Seq(Proc) /\ expires \in [Proc -> Nat]
      /\ le \in 1..(Len(timer_list) + 1) /\ Len(timer_list) \in Nat
  <2>1. current \in Proc /\ timer_list \in Seq(Proc) /\ expires \in [Proc -> Nat]
    BY DEF IInv, TypeOK
  <2> QED BY <1>1, <2>1, LenProperties DEF IInv, Labels
<1>3. IsInjective(timer_list) /\ current \notin Range(timer_list)
  BY <1>1, <1>2 DEF IInv, Labels
<1>4. /\ timer_list' \in Seq(Proc)
      /\ IsInjective(timer_list')
      /\ Range(timer_list') = Range(timer_list) \union {current}
  <2>1. timer_list' = InsertAt(timer_list, le, current)
    BY <1>1 DEF add_timer_link
  <2>2. /\ InsertAt(timer_list, le, current) \in Seq(Proc)
        /\ Range(InsertAt(timer_list, le, current)) = Range(timer_list) \union {current}
        /\ IsInjective(InsertAt(timer_list, le, current))
    BY <1>2, <1>3, InsertAtElements
  <2> QED BY <2>1, <2>2
<1>5. expires' \in [Proc -> Nat]
  <2>1. CASE le <= Len(timer_list)
    <3> DEFINE q == timer_list[le]
               left == expires[q] - expires[current]
    <3>1. le \in 1..Len(timer_list)
      BY <1>2, <2>1
    <3>2. q \in Proc
      BY <1>2, <3>1, ElementOfSeq
    <3>3. expires[current] < expires[q] /\ expires' = [expires EXCEPT ![q] = left]
      BY <1>1, <2>1 DEF add_timer_link
    <3>4. expires[q] \in Nat /\ expires[current] \in Nat
      BY <1>2, <3>2
    <3>5. left \in Nat
      BY <3>3, <3>4
    <3> HIDE DEF q, left
    <3> QED BY <1>2, <3>2, <3>3, <3>5
  <2>2. CASE ~(le <= Len(timer_list))
    BY <1>1, <1>2, <2>2 DEF add_timer_link
  <2> QED BY <2>1, <2>2
<1>6. TypeOK'
  BY <1>1, <1>4, <1>5 DEF IInv, TypeOK, run_vars, stdin_vars, family_vars, Label, After
<1>7. RunQueueExact'
  BY <1>1, RunQueueFrame DEF IInv, run_vars
<1>8. SameLives
  BY <1>1, StateFrame DEF run_vars
<1>9. Family'
  BY <1>1, <1>2, <1>8, FamilyFrame DEF IInv, run_vars, family_vars
<1>10. Labels'
  <2>1. \A q \in Proc : pc'[q] = IF q = current THEN "sleep_sched" ELSE pc[q]
    BY <1>1 DEF IInv, TypeOK
  <2>2. UNCHANGED <<wait_queue, state, current>>
    BY <1>1 DEF stdin_vars, run_vars
  <2>3. current # idleproc /\ current # initproc
    BY <1>1, LiveSlots DEF InitLabel
  <2>4. pc'[idleproc] = "idle" /\ pc'[initproc] \in InitLabel /\ pc'[current] # "free"
    BY <1>2, <2>1, <2>3 DEF IInv, Labels
  <2>5. ASSUME NEW p \in Proc
        PROVE  /\ state[p] = "PROC_FREE" <=> pc'[p] = "free"
               /\ state[p] = "PROC_ZOMBIE" => pc'[p] \in {"reparent", "zombie"}
               /\ pc'[p] # "add_timer"
               /\ p \in Range(timer_list') => pc'[p] \in {"sleep_sched", "slept"}
               /\ p \in Range(wait_queue) => pc'[p] \in {"read_sched", "read_woken"}
    <3>1. CASE p = current
      BY <3>1, <1>1, <2>1 DEF IInv, Labels
    <3>2. CASE p # current
      BY <3>2, <1>4, <2>1 DEF IInv, Labels
    <3> QED BY <3>1, <3>2
  <2> QED BY <1>4, <2>2, <2>4, <2>5 DEF IInv, Labels
<1> QED BY <1>6, <1>7, <1>9, <1>10 DEF IInv

\* do_sleep ends: whether the timer expired or the process was killed, no entry
\* of it is left.
LEMMA SleepDoneStep == ASSUME IInv, SleepDone PROVE IInv'
<1> USE ProcAssumption
<1>1. /\ pc[current] = "slept"
      /\ del_timer(current)
      /\ pc' = [pc EXCEPT ![current] = "trapret"]
      /\ UNCHANGED <<family_vars, run_vars, stdin_vars, le, irq, panic>>
  BY DEF SleepDone, At, Goto
<1>2. /\ current \in Proc
      /\ timer_list' \in Seq(Proc)
      /\ IsInjective(timer_list')
      /\ Range(timer_list') = Range(timer_list) \ {current}
      /\ expires' \in [Proc -> Nat]
  BY <1>1, DelTimerEffect DEF IInv, TypeOK, Labels
<1>3. TypeOK'
  BY <1>1, <1>2, PlainValues DEF IInv, TypeOK, run_vars, stdin_vars, family_vars
<1>4. RunQueueExact'
  BY <1>1, RunQueueFrame DEF IInv, run_vars
<1>5. SameLives
  BY <1>1, StateFrame DEF run_vars
<1>6. Family'
  BY <1>1, <1>2, <1>5, FamilyFrame DEF IInv, run_vars, family_vars
<1>7. Labels'
  <2>1. \A q \in Proc : pc'[q] = IF q = current THEN "trapret" ELSE pc[q]
    BY <1>1 DEF IInv, TypeOK
  <2>2. UNCHANGED <<wait_queue, state, current>>
    BY <1>1 DEF stdin_vars, run_vars
  <2>3. current # idleproc /\ current # initproc
    BY <1>1, LiveSlots DEF InitLabel
  <2>4. pc'[idleproc] = "idle" /\ pc'[initproc] \in InitLabel /\ pc'[current] # "free"
    BY <1>2, <2>1, <2>3 DEF IInv, Labels
  <2>5. ASSUME NEW p \in Proc
        PROVE  /\ state[p] = "PROC_FREE" <=> pc'[p] = "free"
               /\ state[p] = "PROC_ZOMBIE" => pc'[p] \in {"reparent", "zombie"}
               /\ pc'[p] # "add_timer"
               /\ p \in Range(timer_list') => pc'[p] \in {"sleep_sched", "slept"}
               /\ p \in Range(wait_queue) => pc'[p] \in {"read_sched", "read_woken"}
    <3>1. CASE p = current
      BY <3>1, <1>1, <1>2, <2>1 DEF IInv, Labels
    <3>2. CASE p # current
      BY <3>2, <1>1, <1>2, <2>1 DEF IInv, Labels
    <3> QED BY <3>1, <3>2
  <2> QED BY <1>2, <2>2, <2>4, <2>5 DEF IInv, Labels
<1> QED BY <1>3, <1>4, <1>6, <1>7 DEF IInv

\* The steps that change only len, unread, wait_pid or panic, and move between
\* plain labels or not at all.
LEMMA QuietKernelStep ==
    ASSUME IInv, ReadDone \/ WaitNone \/ InitEnd \/ InitExit
    PROVE  IInv'
<1> USE ProcAssumption
<1>1. /\ pc[current] \in {"read", "wait", "exit"}
      /\ \/ pc' = [pc EXCEPT ![current] = "trapret"] /\ current # initproc
         \/ UNCHANGED pc
      /\ UNCHANGED <<run_vars, timer_vars, exiting, parent, children, le, irq,
                     wait_queue, wakeup_flags>>
  <2>1. CASE ReadDone
    BY <2>1, LiveSlots DEF ReadDone, dev_stdin_read_done, At, Goto, family_vars, InitLabel
  <2>2. CASE WaitNone
    BY <2>2 DEF WaitNone, At, Goto, stdin_vars
  <2>3. CASE InitEnd \/ InitExit
    BY <2>3 DEF InitEnd, InitExit, At, stdin_vars, family_vars
  <2> QED BY <2>1, <2>2, <2>3
<1>2. /\ unread' \in 0..STDIN_BUFSIZE
      /\ len' \in [Proc -> Nat]
      /\ wait_pid' \in [Proc -> Proc]
      /\ panic' \in {"none", "assertion", "memory assertion", "initproc exit"}
  <2>1. CASE ReadDone
    <3>1. /\ unread >= len[current] /\ unread' = unread - len[current]
          /\ len' = [len EXCEPT ![current] = 0]
          /\ UNCHANGED <<wait_pid, panic>>
      BY <2>1 DEF ReadDone, dev_stdin_read_done, family_vars
    <3>2. unread \in 0..STDIN_BUFSIZE /\ len \in [Proc -> Nat] /\ len[current] \in Nat
      BY DEF IInv, TypeOK
    <3>3. unread' \in 0..STDIN_BUFSIZE
      BY <3>1, <3>2, StdinAssumption
    <3> QED BY <3>1, <3>2, <3>3 DEF IInv, TypeOK
  <2>2. CASE WaitNone
    BY <2>2 DEF WaitNone, stdin_vars, IInv, TypeOK
  <2>3. CASE InitEnd \/ InitExit
    BY <2>3 DEF InitEnd, InitExit, stdin_vars, family_vars, IInv, TypeOK
  <2> QED BY <2>1, <2>2, <2>3
<1>3. TypeOK'
  BY <1>1, <1>2, PlainValues DEF IInv, TypeOK, run_vars, timer_vars
<1>4. RunQueueExact'
  BY <1>1, RunQueueFrame DEF IInv, run_vars
<1>5. SameLives
  BY <1>1, StateFrame DEF run_vars
<1>6. Family'
  BY <1>1, <1>5, FamilyFrame, LiveSlots DEF IInv, run_vars
<1>7. Labels'
  BY <1>1, <1>5, LabelsFrame, PlainValues DEF IInv, Labels, run_vars, timer_vars
<1> QED BY <1>3, <1>4, <1>6, <1>7 DEF IInv

\* The current process goes to sleep while it has the CPU.
LEMMA SleeperEffect ==
    ASSUME IInv, UNCHANGED <<run_list, current>>,
           state' = [state EXCEPT ![current] = "PROC_SLEEPING"]
    PROVE  RunQueueExact' /\ SameLives
<1>1. \A q \in Proc : state'[q] = IF q = current THEN "PROC_SLEEPING" ELSE state[q]
  BY DEF IInv, TypeOK
<1>2. { q \in Proc \ {idleproc, current} : state'[q] = "PROC_RUNNABLE" } =
        { q \in Proc \ {idleproc, current} : state[q] = "PROC_RUNNABLE" }
  BY <1>1
<1>3. RunQueueExact'
  BY <1>2 DEF IInv, RunQueueExact
<1>4. SameLives
  BY <1>1, LiveSlots DEF SameLives, Live
<1> QED BY <1>3, <1>4

\* A parent without a zombie goes to sleep in do_wait, on the CPU.
LEMMA WaitSleepStep == ASSUME IInv, WaitSleep PROVE IInv'
<1>1. /\ pc[current] = "wait"
      /\ state' = [state EXCEPT ![current] = "PROC_SLEEPING"]
      /\ wait_state' = [wait_state EXCEPT ![current] = "WT_CHILD"]
      /\ pc' = [pc EXCEPT ![current] = "wait_sched"]
      /\ UNCHANGED <<family_vars, need_resched, time_slice, run_list, current,
                     timer_vars, stdin_vars, le, irq, panic>>
  BY DEF WaitSleep, At, Goto
<1>2. TypeOK'
  BY <1>1, PlainValues
     DEF IInv, TypeOK, ProcState, WaitState, timer_vars, stdin_vars, family_vars
<1>3. RunQueueExact' /\ SameLives
  BY <1>1, SleeperEffect
<1>4. Family'
  BY <1>1, <1>3, FamilyFrame, LiveSlots DEF IInv, family_vars
<1>5. Labels'
  BY <1>1, <1>3, LabelsFrame, PlainValues
     DEF IInv, Labels, timer_vars, stdin_vars, InitLabel
<1> QED BY <1>2, <1>3, <1>4, <1>5 DEF IInv

\* A reader queues itself and sleeps.
LEMMA ReadWaitStep == ASSUME IInv, ReadWait PROVE IInv'
<1> USE ProcAssumption
<1>1. /\ pc[current] = "read"
      /\ unread < len[current]
      /\ unread' = 0
      /\ len' = [len EXCEPT ![current] = @ - unread]
      /\ state' = [state EXCEPT ![current] = "PROC_SLEEPING"]
      /\ wait_state' = [wait_state EXCEPT ![current] = "WT_KBD"]
      /\ wait_queue' = Append(wait_queue, current)
      /\ wakeup_flags' = [wakeup_flags EXCEPT ![current] = FALSE]
      /\ pc' = [pc EXCEPT ![current] = "read_sched"]
      /\ UNCHANGED <<family_vars, need_resched, time_slice, run_list, current,
                     timer_vars, le, irq, panic>>
  BY DEF ReadWait, dev_stdin_read_wait, wait_current_set, At, Goto
<1>2. current \in Proc /\ current # idleproc /\ current # initproc
  BY <1>1, LiveSlots DEF InitLabel
<1>3. /\ wait_queue' \in Seq(Proc)
      /\ IsInjective(wait_queue')
      /\ Range(wait_queue') = Range(wait_queue) \union {current}
  <2>1. wait_queue \in Seq(Proc) /\ IsInjective(wait_queue) /\ current \notin Range(wait_queue)
    BY <1>1, <1>2 DEF IInv, TypeOK, Labels
  <2> QED BY <1>1, <1>2, <2>1, AppendElements
<1>4. unread' \in 0..STDIN_BUFSIZE /\ len' \in [Proc -> Nat]
  <2> DEFINE left == len[current] - unread
  <2>1. unread \in 0..STDIN_BUFSIZE /\ len \in [Proc -> Nat] /\ len[current] \in Nat
    BY <1>2 DEF IInv, TypeOK
  <2>2. left \in Nat /\ 0 \in 0..STDIN_BUFSIZE
    BY <1>1, <2>1, StdinAssumption
  <2>3. len' = [len EXCEPT ![current] = left]
    BY <1>1
  <2> HIDE DEF left
  <2> QED BY <1>1, <2>1, <2>2, <2>3
<1>5. TypeOK'
  BY <1>1, <1>3, <1>4
     DEF IInv, TypeOK, ProcState, WaitState, Label, After, timer_vars, family_vars
<1>6. RunQueueExact' /\ SameLives
  BY <1>1, SleeperEffect
<1>7. Family'
  BY <1>1, <1>2, <1>6, FamilyFrame DEF IInv, family_vars
<1>8. Labels'
  <2>1. \A q \in Proc : pc'[q] = IF q = current THEN "read_sched" ELSE pc[q]
    BY <1>1 DEF IInv, TypeOK
  <2>2. UNCHANGED <<timer_list, current>>
    BY <1>1 DEF timer_vars
  <2>3. pc'[idleproc] = "idle" /\ pc'[initproc] \in InitLabel /\ pc'[current] # "free"
    BY <1>2, <2>1 DEF IInv, Labels
  <2>4. ASSUME NEW p \in Proc
        PROVE  /\ state'[p] = "PROC_FREE" <=> pc'[p] = "free"
               /\ state'[p] = "PROC_ZOMBIE" => pc'[p] \in {"reparent", "zombie"}
               /\ pc'[p] # "add_timer"
               /\ p \in Range(timer_list) => pc'[p] \in {"sleep_sched", "slept"}
               /\ p \in Range(wait_queue') => pc'[p] \in {"read_sched", "read_woken"}
    <3>1. CASE p = current
      BY <3>1, <1>1, <1>6, <2>1 DEF IInv, Labels, SameLives
    <3>2. CASE p # current
      BY <3>2, <1>1, <1>3, <1>6, <2>1 DEF IInv, Labels, SameLives
    <3> QED BY <3>1, <3>2
  <2> QED BY <1>3, <2>2, <2>3, <2>4 DEF IInv, Labels
<1> QED BY <1>5, <1>6, <1>7, <1>8 DEF IInv

\* A woken reader, wake-up or kill, takes its entry along.
LEMMA ReadWokenStep == ASSUME IInv, ReadWoken PROVE IInv'
<1> USE ProcAssumption
<1>1. /\ pc[current] = "read_woken"
      /\ wait_current_del
      /\ wakeup_flags' = [wakeup_flags EXCEPT ![current] = FALSE]
      /\ len' = len \/ len' = [len EXCEPT ![current] = 0]
      /\ UNCHANGED <<family_vars, run_vars, timer_vars, unread, le, irq, panic>>
  BY DEF ReadWoken, At
<1>2. PICK to \in {"read", "trapret"} : pc' = [pc EXCEPT ![current] = to]
  BY DEF ReadWoken, Goto
<1>3. current \in Proc /\ current # idleproc /\ current # initproc
  BY <1>1, LiveSlots DEF InitLabel
<1>4. /\ wait_queue' \in Seq(Proc)
      /\ IsInjective(wait_queue')
      /\ Range(wait_queue') = Range(wait_queue) \ {current}
  BY <1>1, WaitCurrentDelEffect DEF IInv, TypeOK, Labels
<1>5. TypeOK'
  <2>1. pc' \in [Proc -> Label]
    BY <1>2, PlainValues DEF IInv, TypeOK
  <2>2. len \in [Proc -> Nat] /\ wakeup_flags \in [Proc -> BOOLEAN] /\ 0 \in Nat
    BY DEF IInv, TypeOK
  <2>3. len' \in [Proc -> Nat]
    BY <1>1, <2>2
  <2>4. wakeup_flags' \in [Proc -> BOOLEAN]
    BY <1>1, <2>2
  <2> QED BY <1>1, <1>4, <2>1, <2>3, <2>4 DEF IInv, TypeOK, run_vars, timer_vars, family_vars
<1>6. RunQueueExact'
  BY <1>1, RunQueueFrame DEF IInv, run_vars
<1>7. SameLives
  BY <1>1, StateFrame DEF run_vars
<1>8. Family'
  BY <1>1, <1>3, <1>7, FamilyFrame DEF IInv, run_vars, family_vars
<1>9. Labels'
  <2>1. \A q \in Proc : pc'[q] = IF q = current THEN to ELSE pc[q]
    BY <1>2 DEF IInv, TypeOK
  <2>2. UNCHANGED <<timer_list, state, current>>
    BY <1>1 DEF timer_vars, run_vars
  <2>3. pc'[idleproc] = "idle" /\ pc'[initproc] \in InitLabel /\ pc'[current] # "free"
    BY <1>3, <2>1 DEF IInv, Labels
  <2>4. ASSUME NEW p \in Proc
        PROVE  /\ state[p] = "PROC_FREE" <=> pc'[p] = "free"
               /\ state[p] = "PROC_ZOMBIE" => pc'[p] \in {"reparent", "zombie"}
               /\ pc'[p] # "add_timer"
               /\ p \in Range(timer_list) => pc'[p] \in {"sleep_sched", "slept"}
               /\ p \in Range(wait_queue') => pc'[p] \in {"read_sched", "read_woken"}
    <3>1. CASE p = current
      BY <3>1, <1>1, <1>4, <2>1 DEF IInv, Labels
    <3>2. CASE p # current
      BY <3>2, <1>1, <1>4, <2>1 DEF IInv, Labels
    <3> QED BY <3>1, <3>2
  <2> QED BY <1>4, <2>2, <2>3, <2>4 DEF IInv, Labels
<1> QED BY <1>5, <1>6, <1>8, <1>9 DEF IInv

\* do_wait frees a zombie: it has left the CPU, all its children are gone (its
\* own do_exit has seen to it), and it is on the current process's list.
LEMMA ReapStep == ASSUME IInv, NEW p \in Proc, WaitReap(p) PROVE IInv'
<1> USE ProcAssumption
<1>1. /\ pc[current] = "wait"
      /\ FirstZombie(p)
      /\ remove_links(p)
      /\ state' = [state EXCEPT ![p] = "PROC_FREE"]
      /\ exiting' = [exiting EXCEPT ![p] = FALSE]
      /\ time_slice' = [time_slice EXCEPT ![p] = 0]
      /\ wait_pid' = [wait_pid EXCEPT ![p] = idleproc, ![current] = idleproc]
      /\ UNCHANGED <<wait_state, need_resched, run_list, current, timer_vars,
                     stdin_vars, le, irq>>
  BY DEF WaitReap, At
<1>2. PICK to \in {"init_sched", "trapret"} :
         /\ pc' = [pc EXCEPT ![p] = "free", ![current] = to]
         /\ current = initproc => to \in InitLabel
  BY DEF WaitReap, InitLabel
<1>3. /\ current \in Proc /\ current # idleproc
      /\ state[p] = "PROC_ZOMBIE"
      /\ p # current /\ p # idleproc /\ p # initproc
      /\ p \notin Range(timer_list) \union Range(wait_queue)
  BY <1>1, LiveSlots DEF FirstZombie, IInv, Labels
<1>4. p \in Range(children[current]) /\ parent[p] = current /\ children[p] = << >>
  <2>1. p \in Kids
    BY <1>1 DEF FirstZombie
  <2>2. CASE wait_pid[current] = AnyChild
    BY <1>3, <2>1, <2>2 DEF Kids, IInv, Family, Kinship
  <2>3. CASE wait_pid[current] # AnyChild
    <3>1. Live(p) /\ parent[p] = current /\ p # idleproc
      BY <1>3, <2>1, <2>3 DEF Kids
    <3> QED BY <1>3, <3>1 DEF IInv, Family, Kinship
  <2> QED BY <2>2, <2>3, <1>3 DEF IInv, Family, Kinship
<1>5. /\ parent' = [parent EXCEPT ![p] = idleproc]
      /\ children' \in [Proc -> Seq(Proc)]
      /\ \A q \in Proc : q # current => children'[q] = children[q]
      /\ IsInjective(children'[current])
      /\ Range(children'[current]) = Range(children[current]) \ {p}
  <2> DEFINE s == children[current]
             k == CHOOSE i \in DOMAIN s : s[i] = p
             t == RemoveAt(s, k)
  <2>1. s \in Seq(Proc) /\ IsInjective(s) /\ children \in [Proc -> Seq(Proc)]
    BY <1>3 DEF IInv, TypeOK, Family, Kinship
  <2>2. k \in DOMAIN s /\ s[k] = p
    BY <1>4 DEF Range
  <2>3. children' = [children EXCEPT ![current] = t] /\ parent' = [parent EXCEPT ![p] = idleproc]
    BY <1>1, <1>4 DEF remove_links, NoParent
  <2> HIDE DEF s, k
  <2>4. t \in Seq(Proc) /\ IsInjective(t) /\ Range(t) = Range(s) \ {p}
    BY <2>1, <2>2, RemoveAtElements
  <2> HIDE DEF t
  <2>5. children'[current] = t
    BY <1>3, <2>1, <2>3
  <2> QED BY <1>3, <2>1, <2>3, <2>4, <2>5 DEF s
<1>6. \A q \in Proc : /\ state'[q] = IF q = p THEN "PROC_FREE" ELSE state[q]
                      /\ parent'[q] = IF q = p THEN idleproc ELSE parent[q]
                      /\ pc'[q] = IF q = current THEN to
                                  ELSE IF q = p THEN "free" ELSE pc[q]
  BY <1>1, <1>2, <1>3, <1>5 DEF IInv, TypeOK
<1>7. TypeOK'
  <2>1. panic' \in {"none", "assertion", "memory assertion", "initproc exit"}
    BY DEF WaitReap, kassert, IInv, TypeOK
  <2>2. state' \in [Proc -> ProcState]
    BY <1>1 DEF IInv, TypeOK, ProcState
  <2>3. time_slice' \in [Proc -> 0..MaxTimeSlice]
    <3>1. 0 \in 0..MaxTimeSlice
      BY MaxTimeSliceAssumption
    <3> QED BY <1>1, <3>1 DEF IInv, TypeOK
  <2>4. pc' \in [Proc -> Label]
    BY <1>2, PlainValues DEF IInv, TypeOK, Label
  <2>5. wait_pid' \in [Proc -> Proc] /\ exiting' \in [Proc -> BOOLEAN] /\ parent' \in [Proc -> Proc]
    BY <1>1, <1>5 DEF IInv, TypeOK
  <2> QED BY <1>1, <1>5, <2>1, <2>2, <2>3, <2>4, <2>5 DEF IInv, TypeOK, timer_vars, stdin_vars
<1>8. RunQueueExact'
  <2>1. { q \in Proc \ {idleproc, current} : state'[q] = "PROC_RUNNABLE" } =
          { q \in Proc \ {idleproc, current} : state[q] = "PROC_RUNNABLE" }
    BY <1>3, <1>6
  <2> QED BY <1>1, <2>1 DEF IInv, RunQueueExact
<1>9. Family'
  <2>1. \A q \in Proc : IsInjective(children'[q])
    BY <1>5 DEF IInv, Family, Kinship
  <2>2. ASSUME NEW c \in Proc, NEW q \in Proc
        PROVE  c \in Range(children'[q]) <=>
                  c # idleproc /\ state'[c] # "PROC_FREE" /\ parent'[c] = q
    <3>0. c \in Range(children[q]) <=>
             c # idleproc /\ state[c] # "PROC_FREE" /\ parent[c] = q
      BY DEF IInv, Family, Kinship, Live
    <3>1. CASE c = p
      <4>1. c \notin Range(children'[q])
        <5>1. CASE q = current
          BY <3>1, <5>1, <1>5
        <5>2. CASE q # current
          BY <3>0, <3>1, <5>2, <1>4, <1>5
        <5> QED BY <5>1, <5>2
      <4>2. state'[c] = "PROC_FREE"
        BY <3>1, <1>6
      <4> QED BY <4>1, <4>2
    <3>2. CASE c # p
      <4>1. c \in Range(children'[q]) <=> c \in Range(children[q])
        <5>1. CASE q = current
          BY <3>2, <5>1, <1>5
        <5>2. CASE q # current
          BY <5>2, <1>5
        <5> QED BY <5>1, <5>2
      <4>2. state'[c] = state[c] /\ parent'[c] = parent[c]
        BY <3>2, <1>6
      <4> QED BY <3>0, <4>1, <4>2
    <3> QED BY <3>1, <3>2
  <2>3. ASSUME NEW q \in Proc, children'[q] # << >>
        PROVE  state'[q] # "PROC_FREE" /\ state'[q] # "PROC_ZOMBIE"
    <3>1. CASE q = current
      BY <3>1, <1>1, <1>3, <1>6 DEF IInv, Labels
    <3>2. CASE q # current
      <4>1. children[q] # << >>
        BY <3>2, <2>3, <1>5
      <4>2. q # p
        BY <4>1, <1>4
      <4> QED BY <3>2, <4>1, <4>2, <1>6 DEF IInv, Family, Kinship, Live
    <3> QED BY <3>1, <3>2
  <2>4. parent'[idleproc] = idleproc
    BY <1>3, <1>6 DEF IInv, Family
  <2> QED BY <2>1, <2>2, <2>3, <2>4 DEF Family, Kinship, Live
<1>10. Labels'
  <2>1. UNCHANGED <<timer_list, wait_queue, current>>
    BY <1>1 DEF timer_vars, stdin_vars
  <2>2. pc'[idleproc] = "idle" /\ pc'[initproc] \in InitLabel /\ pc'[current] # "free"
    <3>1. pc[idleproc] = "idle" /\ pc[initproc] \in InitLabel
      BY DEF IInv, Labels
    <3>2. pc'[idleproc] = pc[idleproc]
      BY <1>3, <1>6
    <3>3. pc'[current] = to /\ to # "free"
      BY <1>2, <1>3, <1>6
    <3>4. current # initproc => pc'[initproc] = pc[initproc]
      BY <1>3, <1>6
    <3> QED BY <1>2, <3>1, <3>2, <3>3, <3>4
  <2>3. ASSUME NEW q \in Proc
        PROVE  /\ state'[q] = "PROC_FREE" <=> pc'[q] = "free"
               /\ state'[q] = "PROC_ZOMBIE" => pc'[q] \in {"reparent", "zombie"}
               /\ pc'[q] # "add_timer"
               /\ q \in Range(timer_list) => pc'[q] \in {"sleep_sched", "slept"}
               /\ q \in Range(wait_queue) => pc'[q] \in {"read_sched", "read_woken"}
    <3>1. CASE q = current
      BY <3>1, <1>1, <1>3, <1>6 DEF IInv, Labels
    <3>2. CASE q = p
      BY <3>2, <1>3, <1>6
    <3>3. CASE q # current /\ q # p
      BY <3>3, <1>1, <1>6 DEF IInv, Labels
    <3> QED BY <3>1, <3>2, <3>3
  <2> QED BY <2>1, <2>2, <2>3 DEF IInv, Labels
<1> QED BY <1>7, <1>8, <1>9, <1>10 DEF IInv

\* do_exit tells the parent: the parent is woken, or nobody is.
LEMMA NotifyEffect ==
    ASSUME RunType, NEW st \in [Proc -> ProcState], NEW p \in Proc,
           IsInjective(run_list),
           Range(run_list) = { q \in Proc \ {idleproc, current} : st[q] = "PROC_RUNNABLE" },
           NotifyParent(st, p), UNCHANGED <<need_resched, current>>
    PROVE  /\ RunType'
           /\ RunQueueExact'
           /\ state' = st \/ state' = [st EXCEPT ![p] = "PROC_RUNNABLE"]
<1>1. CASE wakeup_proc(st, p)
  BY <1>1, WakeupEffect
<1>2. CASE state' = st /\ UNCHANGED <<wait_state, run_list, time_slice, panic>>
  BY <1>2 DEF RunType, RunQueueExact
<1> QED BY <1>1, <1>2 DEF NotifyParent

\* A process with a child, or that is one's parent, is not free.
LEMMA ParentLive ==
    ASSUME IInv, NEW p \in Proc, Live(p)
    PROVE  parent[p] \in Proc /\ Live(parent[p])
<1>1. parent[p] \in Proc
  BY DEF IInv, TypeOK
<1>2. CASE p = idleproc
  BY <1>2 DEF IInv, Family
<1>3. CASE p # idleproc
  <2>1. p \in Range(children[parent[p]])
    BY <1>1, <1>3 DEF IInv, Family, Kinship
  <2>2. children[parent[p]] # << >>
    BY <2>1 DEF Range
  <2> QED BY <1>1, <2>2 DEF IInv, Family
<1> QED BY <1>2, <1>3

\* do_exit: the process is dead, but keeps the CPU until its children are gone.
LEMMA ExitStep == ASSUME IInv, Exit PROVE IInv'
<1> USE ProcAssumption
<1> DEFINE zombie == [state EXCEPT ![current] = "PROC_ZOMBIE"]
           q0 == parent[current]
<1>1. /\ pc[current] = "exit" /\ current # initproc
      /\ NotifyParent(zombie, q0)
      /\ pc' = [pc EXCEPT ![current] = "reparent"]
      /\ UNCHANGED <<family_vars, need_resched, current, timer_vars, stdin_vars, le, irq>>
  BY DEF Exit, At, Goto
<1>2. /\ current \in Proc /\ current # idleproc /\ Live(current)
      /\ q0 \in Proc /\ Live(q0)
      /\ zombie \in [Proc -> ProcState]
  BY <1>1, LiveSlots, ParentLive DEF IInv, TypeOK, ProcState
<1>3. \A q \in Proc : zombie[q] = IF q = current THEN "PROC_ZOMBIE" ELSE state[q]
  BY DEF IInv, TypeOK
<1> HIDE DEF zombie, q0
<1>4. /\ RunType' /\ RunQueueExact'
      /\ state' = zombie \/ state' = [zombie EXCEPT ![q0] = "PROC_RUNNABLE"]
  <2>1. { q \in Proc \ {idleproc, current} : zombie[q] = "PROC_RUNNABLE" } =
          { q \in Proc \ {idleproc, current} : state[q] = "PROC_RUNNABLE" }
    BY <1>3
  <2>2. RunType /\ IsInjective(run_list)
        /\ Range(run_list) = { q \in Proc \ {idleproc, current} : zombie[q] = "PROC_RUNNABLE" }
    BY <2>1 DEF IInv, TypeOK, RunType, RunQueueExact
  <2> QED BY <1>1, <1>2, <2>2, NotifyEffect
<1>5. \A q \in Proc :
         /\ state'[q] = "PROC_FREE" <=> state[q] = "PROC_FREE"
         /\ state'[q] = "PROC_ZOMBIE" => q = current \/ state[q] = "PROC_ZOMBIE"
  BY <1>2, <1>3, <1>4 DEF Live
<1>6. \A q \in Proc : pc'[q] = IF q = current THEN "reparent" ELSE pc[q]
  BY <1>1 DEF IInv, TypeOK
<1>7. TypeOK'
  BY <1>1, <1>4 DEF IInv, TypeOK, RunType, Label, timer_vars, stdin_vars, family_vars
<1>8. Family'
  BY <1>1, <1>5, <1>6 DEF IInv, Family, Kinship, Live, family_vars
<1>9. Labels'
  <2>1. UNCHANGED <<timer_list, wait_queue, current>>
    BY <1>1 DEF timer_vars, stdin_vars
  <2>2. pc'[idleproc] = "idle" /\ pc'[initproc] \in InitLabel /\ pc'[current] # "free"
    BY <1>1, <1>2, <1>6 DEF IInv, Labels
  <2>3. ASSUME NEW q \in Proc
        PROVE  /\ state'[q] = "PROC_FREE" <=> pc'[q] = "free"
               /\ state'[q] = "PROC_ZOMBIE" => pc'[q] \in {"reparent", "zombie"}
               /\ pc'[q] # "add_timer"
               /\ q \in Range(timer_list) => pc'[q] \in {"sleep_sched", "slept"}
               /\ q \in Range(wait_queue) => pc'[q] \in {"read_sched", "read_woken"}
    <3>1. CASE q = current
      BY <3>1, <1>1, <1>2, <1>5, <1>6 DEF IInv, Labels, Live
    <3>2. CASE q # current
      BY <3>2, <1>1, <1>5, <1>6 DEF IInv, Labels
    <3> QED BY <3>1, <3>2
  <2> QED BY <2>1, <2>2, <2>3 DEF IInv, Labels
<1> QED BY <1>4, <1>7, <1>8, <1>9 DEF IInv

\* The first child of the dead process becomes initproc's youngest.
LEMMA ReparentStep == ASSUME IInv, Reparent PROVE IInv'
<1> USE ProcAssumption
<1> DEFINE p == Head(children[current])
<1>1. /\ pc[current] = "reparent" /\ children[current] # << >>
      /\ children' = [children EXCEPT ![current] = Tail(@),
                                      ![initproc] = <<p>> \o @]
      /\ parent' = [parent EXCEPT ![p] = initproc]
      /\ \/ NotifyParent(state, initproc)
         \/ UNCHANGED <<state, wait_state, run_list, time_slice, panic>>
      /\ UNCHANGED <<need_resched, current, timer_vars, stdin_vars, exiting, pc,
                     wait_pid, le, irq>>
  BY DEF Reparent, At
<1>2. current \in Proc /\ current # idleproc /\ current # initproc
  BY <1>1, LiveSlots DEF InitLabel
<1>3. /\ children \in [Proc -> Seq(Proc)]
      /\ IsInjective(children[current]) /\ IsInjective(children[initproc])
  BY <1>2 DEF IInv, TypeOK, Family, Kinship
<1>4. /\ p \in Proc /\ p \in Range(children[current])
      /\ Tail(children[current]) \in Seq(Proc)
      /\ IsInjective(Tail(children[current]))
      /\ Range(Tail(children[current])) = Range(children[current]) \ {p}
  BY <1>1, <1>2, <1>3, TailElements
<1> HIDE DEF p
<1>5. /\ parent[p] = current /\ p # idleproc /\ state[p] # "PROC_FREE"
      /\ p \notin Range(children[initproc])
  BY <1>2, <1>4 DEF IInv, Family, Kinship, Live
<1>6. /\ <<p>> \o children[initproc] \in Seq(Proc)
      /\ IsInjective(<<p>> \o children[initproc])
      /\ Range(<<p>> \o children[initproc]) = Range(children[initproc]) \union {p}
  BY <1>3, <1>4, <1>5, ConsElements
<1>7. /\ children' \in [Proc -> Seq(Proc)]
      /\ \A q \in Proc : children'[q] = IF q = current THEN Tail(children[current])
                                        ELSE IF q = initproc THEN <<p>> \o children[initproc]
                                        ELSE children[q]
      /\ \A q \in Proc : parent'[q] = IF q = p THEN initproc ELSE parent[q]
      /\ parent' \in [Proc -> Proc]
  BY <1>1, <1>2, <1>3, <1>4, <1>6 DEF IInv, TypeOK
<1>8. RunType' /\ RunQueueExact' /\ SameLives
  <2>1. RunType /\ RunQueueExact /\ state \in [Proc -> ProcState] /\ Live(initproc)
    BY LiveSlots DEF IInv, TypeOK, RunType, Live
  <2>2. CASE NotifyParent(state, initproc)
    <3>1. /\ RunType' /\ RunQueueExact'
          /\ state' = state \/ state' = [state EXCEPT ![initproc] = "PROC_RUNNABLE"]
      BY <1>1, <2>1, <2>2, NotifyEffect DEF RunQueueExact
    <3> QED BY <2>1, <3>1, StateFrame, WakeupSameLives
  <2>3. CASE UNCHANGED <<state, wait_state, run_list, time_slice, panic>>
    <3>1. RunType'
      BY <1>1, <2>1, <2>3 DEF RunType
    <3> QED BY <1>1, <2>1, <2>3, <3>1, StateFrame, RunQueueFrame
  <2> QED BY <1>1, <2>2, <2>3
<1>9. TypeOK'
  BY <1>1, <1>7, <1>8 DEF IInv, TypeOK, RunType, timer_vars, stdin_vars
<1>10. Family'
  <2>1. ASSUME NEW q \in Proc PROVE IsInjective(children'[q])
    <3>1. IsInjective(children[q])
      BY DEF IInv, Family, Kinship
    <3>2. children'[q] \in {Tail(children[current]), <<p>> \o children[initproc], children[q]}
      BY <1>7
    <3> QED BY <1>4, <1>6, <3>1, <3>2
  <2>2. ASSUME NEW c \in Proc, NEW q \in Proc
        PROVE  c \in Range(children'[q]) <=>
                  c # idleproc /\ state'[c] # "PROC_FREE" /\ parent'[c] = q
    <3>0. /\ c \in Range(children[q]) <=>
                c # idleproc /\ state[c] # "PROC_FREE" /\ parent[c] = q
          /\ state'[c] = "PROC_FREE" <=> state[c] = "PROC_FREE"
      BY <1>8 DEF IInv, Family, Kinship, Live, SameLives
    <3>1. CASE c = p
      <4>1. c # idleproc /\ state'[c] # "PROC_FREE" /\ parent'[c] = initproc
        BY <3>0, <3>1, <1>4, <1>5, <1>7
      <4>2. c \in Range(children'[q]) <=> q = initproc
        BY <3>0, <3>1, <1>2, <1>4, <1>5, <1>6, <1>7
      <4> QED BY <4>1, <4>2
    <3>2. CASE c # p
      <4>1. c \in Range(children'[q]) <=> c \in Range(children[q])
        BY <3>2, <1>2, <1>4, <1>6, <1>7
      <4> QED BY <3>0, <3>2, <4>1, <1>7
    <3> QED BY <3>1, <3>2
  <2>3. ASSUME NEW q \in Proc, children'[q] # << >>
        PROVE  /\ state'[q] # "PROC_FREE"
               /\ state'[q] # "PROC_ZOMBIE" \/ (q = current' /\ pc'[q] = "reparent")
    <3>1. CASE q = current
      BY <3>1, <1>1, <1>8, LiveSlots DEF SameLives, Live
    <3>2. CASE q = initproc
      BY <3>2, <1>8, LiveSlots DEF SameLives
    <3>3. CASE q # current /\ q # initproc
      <4>1. children[q] # << >>
        BY <3>3, <2>3, <1>7
      <4> QED BY <3>3, <4>1, <1>8 DEF IInv, Family, Kinship, Live, SameLives
    <3> QED BY <3>1, <3>2, <3>3
  <2>4. parent'[idleproc] = idleproc
    BY <1>5, <1>7 DEF IInv, Family
  <2> QED BY <2>1, <2>2, <2>3, <2>4 DEF Family, Kinship, Live
<1>11. Labels'
  BY <1>1, <1>8, LabelsFrame DEF IInv, Labels, timer_vars, stdin_vars
<1> QED BY <1>8, <1>9, <1>10, <1>11 DEF IInv

\* Every step of the current process inside the kernel keeps the invariant.
LEMMA KernelStepStep == ASSUME IInv, KernelStep PROVE IInv'
<1>1. current = initproc => pc[current] \in InitLabel
  BY LiveSlots
<1>2. CASE Schedule
  BY <1>2, ScheduleStep
<1>3. CASE TrapReturn
  <2> DEFINE to == IF exiting[current] THEN "exit"
                   ELSE IF need_resched[current] THEN "preempt" ELSE "user"
  <2>1. Jump("trapret", to) /\ pc[current] = "trapret"
    BY <1>3 DEF TrapReturn, Jump, At
  <2>2. to \in PlainLabel /\ "trapret" \in PlainLabel /\ current # initproc
    BY <1>1, <2>1, PlainValues DEF InitLabel
  <2> HIDE DEF to
  <2> QED BY <2>1, <2>2, JumpStep
<1>4. CASE AddTimerPass \/ AddTimerLink \/ SleepDone
  BY <1>4, AddTimerPassStep, AddTimerLinkStep, SleepDoneStep
<1>5. CASE ReadWait \/ ReadWoken
  BY <1>5, ReadWaitStep, ReadWokenStep
<1>6. CASE ReadDone \/ WaitNone \/ InitEnd \/ InitExit
  BY <1>6, QuietKernelStep
<1>7. CASE \E p \in Proc : WaitReap(p) \/ InitMain(p)
  <2>1. ASSUME NEW p \in Proc, InitMain(p) PROVE IInv'
    <3>1. pc[current] = "init_start" /\ do_fork(p, "user_main", "wait")
      BY <2>1 DEF InitMain, At
    <3>2. "wait" \in InitLabel
      BY DEF InitLabel
    <3> QED BY <3>1, <3>2, ForkStep, PlainValues
  <2> QED BY <1>7, <2>1, ReapStep
<1>8. CASE WaitSleep
  BY <1>8, WaitSleepStep
<1>9. CASE Waited
  <2> DEFINE to == IF exiting[current] THEN "exit" ELSE "wait"
  <2>1. Jump("waited", to)
    BY <1>9 DEF Waited
  <2>2. to \in PlainLabel /\ "waited" \in PlainLabel /\ to \in InitLabel
    BY PlainValues DEF InitLabel
  <2> HIDE DEF to
  <2> QED BY <2>1, <2>2, JumpStep
<1>10. CASE Exit \/ Reparent
  BY <1>10, ExitStep, ReparentStep
<1>11. CASE UserMain
  <2>1. PICK to \in {"user", "exit"} : Jump("user_main", to)
    BY <1>11 DEF UserMain
  <2>2. pc[current] = "user_main"
    BY <2>1 DEF Jump, At
  <2>3. "user_main" \in PlainLabel /\ to \in PlainLabel /\ current # initproc
    BY <1>1, <2>2, PlainValues DEF InitLabel
  <2> QED BY <2>1, <2>3, JumpStep
<1> QED BY <1>2, <1>3, <1>4, <1>5, <1>6, <1>7, <1>8, <1>9, <1>10, <1>11 DEF KernelStep

-----------------------------------------------------------------------------
(* The invariant.                                                          *)

\* The invariant holds when proc_init has run and idleproc enters cpu_idle.
LEMMA InitIInv == Init => IInv
<1> USE ProcAssumption
<1> SUFFICES ASSUME Init PROVE IInv
  OBVIOUS
<1>1. TypeOK
  <2>1. << >> \in Seq(Proc) /\ <<initproc>> \in Seq(Proc) /\ << >> \in Seq(IrqStep)
    OBVIOUS
  <2>2. time_slice \in [Proc -> 0..MaxTimeSlice] /\ unread \in 0..STDIN_BUFSIZE
    BY MaxTimeSliceAssumption, StdinAssumption DEF Init
  <2>3. children \in [Proc -> Seq(Proc)]
    BY <2>1 DEF Init
  <2>4. pc \in [Proc -> Label]
    BY DEF Init, Label
  <2>5. state \in [Proc -> ProcState] /\ wait_state \in [Proc -> WaitState]
    BY DEF Init, ProcState, WaitState
  <2> QED BY <2>1, <2>2, <2>3, <2>4, <2>5 DEF Init, TypeOK, NoParent
<1>2. /\ Range(<<initproc>>) = {initproc} /\ IsInjective(<<initproc>>)
      /\ Range(<< >>) = {} /\ IsInjective(<< >>)
  BY DEF Range, IsInjective
<1>3. RunQueueExact
  BY <1>2 DEF Init, RunQueueExact
<1>4. Family
  <2>1. \A q \in Proc : children[q] = IF q = idleproc THEN <<initproc>> ELSE << >>
    BY DEF Init
  <2>2. \A p \in Proc : /\ Live(p) <=> p \in {idleproc, initproc}
                        /\ parent[p] = idleproc
                        /\ state[p] # "PROC_ZOMBIE"
    BY DEF Init, Live, NoParent
  <2>3. \A q \in Proc : IsInjective(children[q])
    BY <1>2, <2>1
  <2>4. \A p, q \in Proc :
           p \in Range(children[q]) <=> p # idleproc /\ Live(p) /\ parent[p] = q
    BY <1>2, <2>1, <2>2
  <2> QED BY <2>1, <2>2, <2>3, <2>4 DEF Family, Kinship
<1>5. Labels
  BY <1>2 DEF Init, Labels, InitLabel
<1> QED BY <1>1, <1>3, <1>4, <1>5 DEF IInv

\* The invariant is inductive: every step of the system keeps it.
LEMMA NextIInv == IInv /\ [Next]_vars => IInv'
<1> SUFFICES ASSUME IInv, [Next]_vars PROVE IInv'
  OBVIOUS
<1>1. CASE Syscall
  BY <1>1, SyscallStep
<1>2. CASE Handler
  BY <1>2, HandlerStep
<1>3. CASE KernelStep
  BY <1>3, KernelStepStep
<1>4. CASE \E serial, keyboard, clock \in BOOLEAN : Interrupt(serial, keyboard, clock)
  BY <1>4, InterruptStep
<1>5. CASE UNCHANGED vars
  <2>1. UNCHANGED <<state, wait_state, need_resched, time_slice, run_list, current,
                    timer_list, expires, wait_queue, wakeup_flags, unread, len,
                    exiting, parent, children, pc, wait_pid, le, irq, panic>>
    BY <1>5 DEF vars, run_vars, timer_vars, stdin_vars, proc_vars
  <2>2. TypeOK' /\ RunQueueExact'
    BY <2>1 DEF IInv, TypeOK, RunQueueExact
  <2>3. Family' /\ Labels'
    BY <2>1 DEF IInv, Family, Kinship, Live, Labels
  <2> QED BY <2>2, <2>3 DEF IInv
<1> QED BY <1>1, <1>2, <1>3, <1>4, <1>5 DEF Next, Monitor

\* The inductive invariant holds in every state the kernel can reach, for any number
\* of processes, any slice, any ring of stdin and any length of a sleep or a read.
THEOREM Invariance == Spec => []IInv
BY InitIInv, NextIInv, PTL DEF Spec

\* Every variable keeps its type: no list of the kernel ever holds anything but
\* processes, no counter of ticks, of characters or of the slice leaves its range.
THEOREM TypeCorrect == Spec => []TypeOK
<1>1. IInv => TypeOK
  BY DEF IInv
<1> QED BY <1>1, Invariance, PTL

\* schedule() and wakeup_proc lose nobody and run nobody twice: the run queue
\* holds exactly the runnable processes that do not have the CPU.
THEOREM RunQueueIsExact == Spec => []RunQueueExact
<1>1. IInv => RunQueueExact
  BY DEF IInv
<1> QED BY <1>1, Invariance, PTL

\* The pointers do_fork, do_exit and do_wait maintain describe one forest, in
\* which only a process inside do_exit's loop is dead and has children.
THEOREM KinshipHolds == Spec => []Kinship
<1>1. IInv => Kinship
  BY DEF IInv, Family
<1> QED BY <1>1, Invariance, PTL

\* Whatever do_exit and do_wait free is on no list and in nobody's family.
THEOREM NothingDangles == Spec => []NoDanglingProc
<1>1. IInv => NoDanglingProc
  <2> SUFFICES ASSUME IInv, NEW p \in Proc
               PROVE  /\ state[p] \in {"PROC_ZOMBIE", "PROC_FREE"} =>
                            p \notin Range(run_list) \union Range(timer_list)
                                                     \union Range(wait_queue)
                      /\ state[p] = "PROC_FREE" =>
                            /\ p # current
                            /\ \A q \in Proc : /\ p \notin Range(children[q])
                                               /\ Live(q) => parent[q] # p
    BY DEF NoDanglingProc
  <2>1. ASSUME state[p] \in {"PROC_ZOMBIE", "PROC_FREE"}
        PROVE  p \notin Range(run_list) \union Range(timer_list) \union Range(wait_queue)
    BY <2>1 DEF IInv, RunQueueExact, Labels
  <2>2. ASSUME state[p] = "PROC_FREE" PROVE p # current
    BY <2>2, LiveSlots DEF Live
  <2>3. ASSUME state[p] = "PROC_FREE", NEW q \in Proc
        PROVE  p \notin Range(children[q]) /\ (Live(q) => parent[q] # p)
    BY <2>3, ParentLive DEF IInv, Family, Kinship, Live
  <2> QED BY <2>1, <2>2, <2>3
<1> QED BY <1>1, Invariance, PTL

-----------------------------------------------------------------------------
(* Sleeping and waking.                                                     *)

\* Where the process at the CPU is when it has given it up, or is about to.
Blocked == {"add_timer", "wait_sched", "sleep_sched", "read_sched", "reparent"}

\* A wait state says that the process sleeps, and where in its code; only the
\* process at the CPU can be in do_exit's loop, and it is runnable until it blocks.
Sleeping ==
    /\ state[idleproc] = "PROC_RUNNABLE"
    /\ state[current] = "PROC_RUNNABLE" \/ pc[current] \in Blocked
    /\ \A p \in Proc :
          /\ wait_state[p] # "NONE" <=> state[p] = "PROC_SLEEPING"
          /\ wait_state[p] = "WT_CHILD" => pc[p] \in {"wait_sched", "waited"}
          /\ wait_state[p] = "WT_TIMER" => pc[p] \in {"add_timer", "sleep_sched", "slept"}
          /\ wait_state[p] = "WT_KBD" => pc[p] \in {"read_sched", "read_woken"}
          /\ pc[p] = "reparent" => p = current

\* The head of the timer list has ticks left, unless run_timer_list is at it, and
\* so has the timer that add_timer may still put before it.
Ticks ==
    /\ HeadExpired => irq # << >> /\ Head(irq) = "timers"
    /\ \A p \in Proc : pc[p] = "add_timer" /\ le = 1 => expires[p] > 0

\* Only the handler in progress is past its first step.
IrqShape == \A i \in 2..Len(irq) : irq[i] \in {"char", "clock"}

\* The conjuncts of NoLostWakeup.
ChildAlarm ==
    \A p \in Proc : wait_state[p] = "WT_CHILD" =>
        /\ KidsOf(p) # {}
        /\ \A c \in KidsOf(p) : state[c] # "PROC_ZOMBIE"

TimerAlarm ==
    \A p \in Proc : wait_state[p] = "WT_TIMER" =>
        p \in Range(timer_list) \/ (p = current /\ pc[p] = "add_timer")

KbdAlarm ==
    \A p \in Proc : wait_state[p] = "WT_KBD" =>
        /\ p \in Range(wait_queue)
        /\ unread > 0 => irq # << >> /\ Head(irq) = "wakeup"

\* The loop that wakes the readers has a character for them.
RingWoken == irq # << >> /\ Head(irq) = "wakeup" => unread > 0

\* idleproc has one child, initproc waits for anybody, and every set of user
\* processes has a member whose parent is outside: no circle of parents.
UserProcs == { p \in Proc \ {idleproc, initproc} : Live(p) }
Rooted ==
    /\ children[idleproc] = <<initproc>>
    /\ wait_pid[initproc] = AnyChild
    /\ \A S \in SUBSET UserProcs : S # {} => \E p \in S : parent[p] \notin S

\* The inductive invariant.
WInv ==
    /\ IInv /\ NoAssertionFails
    /\ Sleeping /\ Ticks /\ IrqShape
    /\ ChildAlarm /\ TimerAlarm /\ KbdAlarm /\ RingWoken
    /\ Rooted

-----------------------------------------------------------------------------
(* What keeps each part.                                                   *)

\* Nobody changes state but by being woken.
OnlyWakes ==
    \A p \in Proc :
        \/ state'[p] = state[p] /\ wait_state'[p] = wait_state[p]
        \/ state'[p] = "PROC_RUNNABLE" /\ wait_state'[p] = "NONE"

\* Nobody leaves its place in the code but a process that does not sleep.
AwakeMoves ==
    \A p \in Proc :
        \/ pc'[p] = pc[p]
        \/ wait_state'[p] = "NONE" /\ pc'[p] \notin {"reparent", "add_timer"}

\* Sleeping lasts while nobody is put to sleep and only who is awake moves.
LEMMA SleepingFrame ==
    ASSUME Sleeping, OnlyWakes, AwakeMoves, UNCHANGED current,
           state'[current] = "PROC_RUNNABLE" \/ pc'[current] \in Blocked
    PROVE  Sleeping'
BY ProcAssumption DEF Sleeping, OnlyWakes, AwakeMoves

\* The timers are left alone, and nobody comes to add_timer.
LEMMA TicksFrame ==
    ASSUME Ticks, UNCHANGED <<timer_list, expires, le>>, AwakeMoves,
           irq' = irq \/ ~HeadExpired
    PROVE  Ticks'
<1>1. \A p \in Proc : pc'[p] = "add_timer" => pc[p] = "add_timer"
  BY DEF AwakeMoves
<1>2. HeadExpired' <=> HeadExpired
  BY DEF HeadExpired
<1> QED BY <1>1, <1>2 DEF Ticks

\* Nobody falls asleep in do_wait or becomes a zombie, and the children of who
\* sleeps there stay.
LEMMA ChildFrame ==
    ASSUME ChildAlarm, wait_state \in [Proc -> WaitState],
           \A p \in Proc : state'[p] = "PROC_ZOMBIE" => state[p] = "PROC_ZOMBIE",
           \A p \in Proc : wait_state'[p] = "WT_CHILD" =>
               /\ wait_state[p] = "WT_CHILD"
               /\ children'[p] = children[p] /\ wait_pid'[p] = wait_pid[p],
           children \in [Proc -> Seq(Proc)]
    PROVE  ChildAlarm'
<1> SUFFICES ASSUME NEW p \in Proc, wait_state'[p] = "WT_CHILD"
             PROVE  /\ KidsOf(p)' # {}
                    /\ \A c \in KidsOf(p)' : state'[c] # "PROC_ZOMBIE"
  BY DEF ChildAlarm
<1>1. KidsOf(p)' = KidsOf(p)
  BY DEF KidsOf, AnyChild
<1>2. KidsOf(p) \subseteq Proc
  BY DEF KidsOf, Range
<1>3. KidsOf(p) # {} /\ \A c \in KidsOf(p) : state[c] # "PROC_ZOMBIE"
  BY DEF ChildAlarm
<1> QED BY <1>1, <1>2, <1>3

\* TimerAlarm lasts while nobody starts a sleep and no sleeper's timer is unlinked.
LEMMA TimerFrame ==
    ASSUME TimerAlarm, UNCHANGED current,
           \A p \in Proc : wait_state'[p] = "WT_TIMER" =>
               /\ wait_state[p] = "WT_TIMER" /\ pc'[p] = pc[p]
               /\ p \in Range(timer_list) => p \in Range(timer_list')
    PROVE  TimerAlarm'
BY DEF TimerAlarm

\* The readers' handler is in progress as before, or the ring is no fuller.
LEMMA KbdFrame ==
    ASSUME KbdAlarm,
           \A p \in Proc : wait_state'[p] = "WT_KBD" =>
               /\ wait_state[p] = "WT_KBD"
               /\ p \in Range(wait_queue) => p \in Range(wait_queue'),
           unread' > 0 => unread > 0,
           irq' = irq \/ irq = << >> \/ Head(irq) # "wakeup"
    PROVE  KbdAlarm'
BY DEF KbdAlarm

\* The family is the same, and nobody is born.
LEMMA RootedFrame ==
    ASSUME Rooted, UNCHANGED <<children, parent>>, wait_pid'[initproc] = wait_pid[initproc],
           \A p \in Proc : state[p] = "PROC_FREE" => state'[p] = "PROC_FREE"
    PROVE  Rooted'
<1>1. UserProcs' \subseteq UserProcs
  BY DEF UserProcs, Live
<1> QED BY <1>1 DEF Rooted, AnyChild

-----------------------------------------------------------------------------
(* Steps that leave the scheduler's state alone.                           *)

\* The current process moves, and takes from the ring or sets what it waits for;
\* or an interrupt begins.
Steady ==
    /\ irq = << >>
    /\ UNCHANGED <<state, wait_state, current, timer_list, expires, wait_queue,
                   children, parent, le>>
    /\ panic' # "assertion"
    /\ \A p \in Proc : \/ pc'[p] = pc[p]
                       \/ /\ p = current /\ state[p] = "PROC_RUNNABLE"
                          /\ pc'[p] \notin {"reparent", "add_timer"}
    /\ \A p \in Proc : \/ wait_pid'[p] = wait_pid[p]
                       \/ p = current /\ p # initproc /\ state[p] = "PROC_RUNNABLE"
    /\ unread' > 0 => unread > 0
    /\ \A i \in DOMAIN irq' : irq'[i] \in {"char", "clock"}

\* The head of a sequence that is not empty is its first element.
LEMMA HeadIsFirst ==
    ASSUME NEW S, NEW s \in Seq(S), s # << >>
    PROVE  1 \in DOMAIN s /\ Head(s) = s[1]
OBVIOUS

\* A step of this kind keeps the invariant.
LEMMA SteadyKeeps == ASSUME WInv, IInv', Steady PROVE WInv'
<1> USE ProcAssumption
<1>1. /\ IInv /\ TypeOK /\ Sleeping /\ irq \in Seq(IrqStep) /\ irq' \in Seq(IrqStep)
      /\ state \in [Proc -> ProcState] /\ wait_state \in [Proc -> WaitState]
      /\ children \in [Proc -> Seq(Proc)] /\ current \in Proc
  BY DEF WInv, IInv, TypeOK
<1>2. /\ irq = << >>
      /\ UNCHANGED <<state, wait_state, current, timer_list, expires, wait_queue,
                     children, parent, le>>
  BY DEF Steady
<1>3. irq' # << >> => Head(irq') \in {"char", "clock"}
  BY <1>1, HeadIsFirst DEF Steady
<1>4. OnlyWakes
  BY <1>2 DEF OnlyWakes
<1>5. AwakeMoves
  BY <1>1, <1>2 DEF AwakeMoves, Steady, Sleeping
<1>6. NoAssertionFails'
  BY DEF Steady, NoAssertionFails
<1>7. Sleeping'
  <2>1. state'[current] = "PROC_RUNNABLE" \/ pc'[current] \in Blocked
    BY <1>1, <1>2 DEF Steady, Sleeping
  <2> QED BY <1>1, <1>2, <1>4, <1>5, <2>1, SleepingFrame
<1>8. Ticks'
  BY <1>2, <1>5, TicksFrame DEF WInv, Ticks
<1>9. IrqShape'
  BY <1>1 DEF Steady, IrqShape
<1>10. ASSUME NEW p \in Proc, wait_state'[p] # "NONE"
       PROVE  wait_state[p] = wait_state'[p] /\ pc'[p] = pc[p] /\ wait_pid'[p] = wait_pid[p]
  BY <1>1, <1>2, <1>10 DEF Steady, Sleeping
<1>11. ChildAlarm'
  BY <1>1, <1>2, <1>10, ChildFrame DEF WInv
<1>12. TimerAlarm'
  BY <1>2, <1>10, TimerFrame DEF WInv
<1>13. KbdAlarm'
  BY <1>2, KbdFrame DEF WInv, Steady
<1>14. RingWoken'
  BY <1>3 DEF RingWoken
<1>15. Rooted'
  BY <1>2, RootedFrame DEF WInv, Steady
<1> QED BY <1>6, <1>7, <1>8, <1>9, <1>11, <1>12, <1>13, <1>14, <1>15 DEF WInv

\* Before it blocks, the process at the CPU is awake.
LEMMA AwakeHere ==
    ASSUME WInv, pc[current] \notin Blocked
    PROVE  /\ current \in Proc
           /\ state[current] = "PROC_RUNNABLE" /\ wait_state[current] = "NONE"
<1>1. current \in Proc
  BY DEF WInv, IInv, TypeOK
<1> QED BY <1>1 DEF WInv, Sleeping

\* A jump from one label to another, neither of which has to do with a sleep.
LEMMA JumpSteady ==
    ASSUME WInv, NEW from, NEW to, Jump(from, to),
           from \notin Blocked, to \notin {"reparent", "add_timer"}
    PROVE  Steady
<1>1. /\ pc[current] = from /\ irq = << >> /\ panic = "none"
      /\ pc' = [pc EXCEPT ![current] = to]
      /\ UNCHANGED <<run_vars, timer_vars, stdin_vars, family_vars, le, irq, panic>>
  BY DEF Jump, At, Goto
<1>2. pc \in [Proc -> Label]
  BY DEF WInv, IInv, TypeOK
<1> QED BY <1>1, <1>2, AwakeHere DEF Steady, run_vars, timer_vars, stdin_vars, family_vars

\* The calls that only move the process or set what it waits or asks for.
LEMMA SyscallSteady ==
    ASSUME WInv,
           \/ SysExit \/ SysOther \/ SysYield
           \/ \E p \in Proc : SysWait(p)
           \/ \E n \in 1..MaxRead : SysRead(n) \/ SysWriteStdin(n)
    PROVE  Steady
<1>1. "user" \notin Blocked /\ pc \in [Proc -> Label]
  BY DEF Blocked, WInv, IInv, TypeOK
<1>2. pc[current] = "user" /\ irq = << >> /\ panic = "none"
  BY DEF SysExit, SysOther, SysYield, SysWait, SysRead, SysWriteStdin, Jump, At
<1>3. /\ current \in Proc /\ current # initproc
      /\ state[current] = "PROC_RUNNABLE" /\ wait_state[current] = "NONE"
  BY <1>1, <1>2, AwakeHere, LiveSlots DEF WInv, InitLabel
<1>4. CASE SysExit \/ SysOther
  BY <1>1, <1>4, JumpSteady DEF SysExit, SysOther
<1>5. CASE SysYield
  BY <1>1, <1>2, <1>3, <1>5
     DEF SysYield, Goto, Steady, run_vars, timer_vars, stdin_vars, family_vars
<1>6. CASE \E p \in Proc : SysWait(p)
  BY <1>1, <1>2, <1>3, <1>6
     DEF SysWait, Goto, Steady, run_vars, timer_vars, stdin_vars, family_vars
<1>7. CASE \E n \in 1..MaxRead : SysRead(n)
  BY <1>1, <1>2, <1>3, <1>7
     DEF SysRead, Goto, Steady, run_vars, timer_vars, stdin_vars, family_vars
<1>8. CASE \E n \in 1..MaxRead : SysWriteStdin(n)
  BY <1>1, <1>2, <1>3, <1>8
     DEF SysWriteStdin, Goto, Steady, run_vars, timer_vars, stdin_vars, family_vars
<1> QED BY <1>4, <1>5, <1>6, <1>7, <1>8

\* Nothing is left for handlers to do: nothing wrong either.
LEMMA EmptyIrq == ASSUME irq' = << >> PROVE \A i \in DOMAIN irq' : irq'[i] \in {"char", "clock"}
OBVIOUS

\* initproc finds no child: then nobody is left but itself and idleproc.
LEMMA NobodyLeft ==
    ASSUME WInv, children[initproc] = << >>
    PROVE  UserProcs = {}
<1> USE ProcAssumption
<1> SUFFICES ASSUME UserProcs # {} PROVE FALSE
  OBVIOUS
<1>1. PICK p \in UserProcs : parent[p] \notin UserProcs
  BY DEF WInv, Rooted
<1>2. p \in Proc /\ p # idleproc /\ p # initproc /\ Live(p)
  BY DEF UserProcs
<1>3. parent[p] = idleproc \/ parent[p] = initproc
  BY <1>1, <1>2, ParentLive DEF WInv, UserProcs
<1>4. p \in Range(children[parent[p]])
  BY <1>2, <1>3 DEF WInv, IInv, Family, Kinship
<1>5. Range(<< >>) = {} /\ Range(<<initproc>>) = {initproc}
  BY DEF Range
<1> QED BY <1>2, <1>3, <1>4, <1>5 DEF WInv, Rooted

\* init_main ends with the panic it is meant to end with, or with one on memory.
LEMMA InitEndSteady == ASSUME WInv, InitEnd PROVE Steady
<1> USE ProcAssumption
<1>1. /\ irq = << >> /\ Kids = {} /\ current = initproc
      /\ UNCHANGED <<run_vars, timer_vars, stdin_vars, family_vars, pc, le, irq>>
  BY DEF InitEnd, At
<1>2. children[initproc] = << >>
  <2>1. Range(children[initproc]) = {}
    BY <1>1 DEF Kids, WInv, Rooted, AnyChild
  <2>2. children[initproc] \in Seq(Proc)
    BY DEF WInv, IInv, TypeOK
  <2> QED BY <2>1, <2>2, TailElements
<1>3. panic' \in {"initproc exit", "memory assertion"}
  BY <1>2, NobodyLeft DEF InitEnd, WInv, Rooted, UserProcs
<1>4. \A i \in DOMAIN irq' : irq'[i] \in {"char", "clock"}
  BY <1>1, EmptyIrq
<1> QED BY <1>1, <1>3, <1>4 DEF Steady, run_vars, timer_vars, stdin_vars, family_vars

\* The steps of the kernel that change nothing the lists or the sleepers depend on.
LEMMA KernelSteady ==
    ASSUME WInv, TrapReturn \/ Waited \/ UserMain \/ ReadDone \/ WaitNone \/ InitExit
    PROVE  Steady
<1>0. TypeOK
  BY DEF WInv, IInv
<1>1. /\ "trapret" \notin Blocked /\ "waited" \notin Blocked /\ "user_main" \notin Blocked
      /\ "read" \notin Blocked /\ "wait" \notin Blocked
      /\ pc \in [Proc -> Label]
      /\ unread \in Nat /\ len \in [Proc -> Nat]
  <2>1. unread \in 0..STDIN_BUFSIZE
    BY <1>0 DEF TypeOK
  <2>2. unread \in Nat
    BY <2>1, StdinAssumption
  <2> QED BY <1>0, <2>2 DEF Blocked, TypeOK
<1>2. CASE TrapReturn \/ Waited \/ UserMain
  <2>1. PICK to \in {"exit", "preempt", "user", "wait"} :
           \/ Jump("trapret", to) \/ Jump("waited", to) \/ Jump("user_main", to)
    BY <1>2 DEF TrapReturn, Waited, UserMain
  <2>2. to \notin {"reparent", "add_timer"}
    BY <2>1
  <2> QED BY <1>1, <2>1, <2>2, JumpSteady
<1>3. CASE ReadDone
  <2>1. /\ pc[current] = "read" /\ irq = << >> /\ panic = "none"
        /\ unread >= len[current] /\ unread' = unread - len[current]
        /\ UNCHANGED wait_queue
        /\ pc' = [pc EXCEPT ![current] = "trapret"]
        /\ UNCHANGED <<family_vars, run_vars, timer_vars, le, irq, panic>>
    BY <1>3 DEF ReadDone, At, Goto, dev_stdin_read_done
  <2>2. current \in Proc /\ state[current] = "PROC_RUNNABLE"
    BY <1>1, <2>1, AwakeHere
  <2>3. unread' > 0 => unread > 0
    BY <1>1, <2>1, <2>2
  <2> QED BY <1>1, <2>1, <2>2, <2>3 DEF Steady, run_vars, timer_vars, family_vars
<1>4. CASE WaitNone
  <2>1. /\ pc[current] = "wait" /\ irq = << >> /\ panic = "none" /\ current # initproc
        /\ wait_pid' = [wait_pid EXCEPT ![current] = idleproc]
        /\ pc' = [pc EXCEPT ![current] = "trapret"]
        /\ UNCHANGED <<run_vars, timer_vars, stdin_vars, parent, children, le, irq, panic>>
    BY <1>4 DEF WaitNone, At, Goto
  <2>2. current \in Proc /\ state[current] = "PROC_RUNNABLE" /\ wait_pid \in [Proc -> Proc]
    BY <1>1, <2>1, AwakeHere DEF WInv, IInv, TypeOK
  <2> QED BY <1>1, <2>1, <2>2 DEF Steady, run_vars, timer_vars, stdin_vars
<1>5. CASE InitExit
  <2>1. /\ irq = << >> /\ panic' = "initproc exit"
        /\ UNCHANGED <<run_vars, timer_vars, stdin_vars, family_vars, pc, le, irq>>
    BY <1>5 DEF InitExit, At
  <2>2. \A i \in DOMAIN irq' : irq'[i] \in {"char", "clock"}
    BY <2>1, EmptyIrq
  <2> QED BY <2>1, <2>2 DEF Steady, run_vars, timer_vars, stdin_vars, family_vars
<1> QED BY <1>2, <1>3, <1>4, <1>5

\* An interrupt begins: its handlers have not done anything yet.
LEMMA InterruptSteady ==
    ASSUME WInv, IInv', NEW serial \in BOOLEAN, NEW keyboard \in BOOLEAN, NEW clock \in BOOLEAN,
           Interrupt(serial, keyboard, clock)
    PROVE  Steady
<1>1. /\ irq = << >> /\ panic = "none"
      /\ irq' = Pending(serial, "char") \o Pending(keyboard, "char") \o Pending(clock, "clock")
      /\ \/ pc[current] = "user" /\ pc' = [pc EXCEPT ![current] = "trapret"]
         \/ UNCHANGED pc
      /\ UNCHANGED <<run_vars, timer_vars, stdin_vars, family_vars, le, panic>>
  BY DEF Interrupt, Interruptible, Goto
<1>2. \A i \in DOMAIN irq' : irq'[i] \in {"char", "clock"}
  BY <1>1 DEF Pending
<1>3. /\ pc \in [Proc -> Label] /\ "user" \notin Blocked
      /\ pc[current] = "user" => state[current] = "PROC_RUNNABLE"
  BY AwakeHere DEF Blocked, WInv, IInv, TypeOK
<1> QED BY <1>1, <1>2, <1>3 DEF Steady, run_vars, timer_vars, stdin_vars, family_vars

-----------------------------------------------------------------------------
(* Steps that wake somebody.                                               *)

\* wakeup_proc of a process that is not a zombie fails no assertion, changes nobody
\* else, and leaves the process runnable and waiting for nothing.
LEMMA WakeEffect ==
    ASSUME NEW st \in [Proc -> ProcState], wait_state \in [Proc -> WaitState], NEW p \in Proc,
           wakeup_proc(st, p), panic # "assertion", st[p] # "PROC_ZOMBIE",
           st[p] # "PROC_RUNNABLE" /\ p # current => p \notin Range(run_list),
           st[p] = "PROC_RUNNABLE" => wait_state[p] = "NONE"
    PROVE  /\ panic' # "assertion"
           /\ \A q \in Proc : /\ state'[q] = IF q = p THEN "PROC_RUNNABLE" ELSE st[q]
                              /\ wait_state'[q] = IF q = p THEN "NONE" ELSE wait_state[q]
<1>1. panic' # "assertion"
  BY DEF wakeup_proc, kassert
<1>2. CASE st[p] = "PROC_RUNNABLE"
  BY <1>1, <1>2 DEF wakeup_proc
<1>3. CASE st[p] # "PROC_RUNNABLE"
  <2>1. /\ state' = [st EXCEPT ![p] = "PROC_RUNNABLE"]
        /\ wait_state' = [wait_state EXCEPT ![p] = "NONE"]
    BY <1>3 DEF wakeup_proc
  <2> QED BY <1>1, <2>1
<1> QED BY <1>2, <1>3

\* The same, when the caller has changed no state.
LEMMA WakeOne ==
    ASSUME WInv, NEW p \in Proc, wakeup_proc(state, p), state[p] # "PROC_ZOMBIE"
    PROVE  /\ OnlyWakes /\ panic' # "assertion"
           /\ \A q \in Proc : /\ state'[q] = IF q = p THEN "PROC_RUNNABLE" ELSE state[q]
                              /\ wait_state'[q] = IF q = p THEN "NONE" ELSE wait_state[q]
<1>1. /\ state \in [Proc -> ProcState] /\ wait_state \in [Proc -> WaitState]
      /\ panic # "assertion"
      /\ state[p] # "PROC_RUNNABLE" => p \notin Range(run_list)
      /\ state[p] = "PROC_RUNNABLE" => wait_state[p] = "NONE"
  BY DEF WInv, IInv, TypeOK, RunQueueExact, NoAssertionFails, Sleeping
<1>2. /\ panic' # "assertion"
      /\ \A q \in Proc : /\ state'[q] = IF q = p THEN "PROC_RUNNABLE" ELSE state[q]
                         /\ wait_state'[q] = IF q = p THEN "NONE" ELSE wait_state[q]
  BY <1>1, WakeEffect
<1> QED BY <1>2 DEF OnlyWakes

\* A step that leaves the family alone and wakes at most: what it does to the
\* lists, the ring and the handlers is left to show.
LEMMA WakingKeeps ==
    ASSUME WInv, IInv', OnlyWakes, AwakeMoves, panic' # "assertion",
           state[current] = "PROC_RUNNABLE" \/ UNCHANGED pc,
           UNCHANGED <<current, children, parent, wait_pid>>,
           \A p \in Proc : state[p] = "PROC_FREE" => state'[p] = "PROC_FREE",
           \A p \in Proc : wait_state'[p] = "WT_TIMER" /\ p \in Range(timer_list) =>
               p \in Range(timer_list'),
           Ticks', IrqShape', KbdAlarm', RingWoken'
    PROVE  WInv'
<1>1. /\ Sleeping /\ current \in Proc
      /\ wait_state \in [Proc -> WaitState] /\ children \in [Proc -> Seq(Proc)]
  BY DEF WInv, IInv, TypeOK
<1>2. Sleeping'
  <2>1. state'[current] = "PROC_RUNNABLE" \/ pc'[current] \in Blocked
    BY <1>1 DEF OnlyWakes, Sleeping
  <2> QED BY <1>1, <2>1, SleepingFrame
<1>3. ASSUME NEW p \in Proc, wait_state'[p] # "NONE"
      PROVE  wait_state[p] = wait_state'[p] /\ pc'[p] = pc[p]
  BY <1>3 DEF OnlyWakes, AwakeMoves
<1>4. ChildAlarm'
  <2>1. \A p \in Proc : state'[p] = "PROC_ZOMBIE" => state[p] = "PROC_ZOMBIE"
    BY DEF OnlyWakes
  <2> QED BY <1>1, <1>3, <2>1, ChildFrame DEF WInv
<1>5. TimerAlarm'
  BY <1>3, TimerFrame DEF WInv
<1>6. Rooted'
  BY RootedFrame DEF WInv
<1> QED BY <1>2, <1>4, <1>5, <1>6 DEF WInv, NoAssertionFails

\* do_kill wakes who sleeps, whatever for.
LEMMA KillKeeps == ASSUME WInv, IInv', NEW p \in Proc, SysKill(p) PROVE WInv'
<1>1. /\ pc[current] = "user" /\ irq = << >> /\ panic = "none"
      /\ pc' = [pc EXCEPT ![current] = "trapret"]
      /\ IF wait_state[p] # "NONE" THEN wakeup_proc(state, p)
         ELSE UNCHANGED <<state, wait_state, run_list, time_slice, panic>>
      /\ UNCHANGED <<need_resched, current, timer_vars, stdin_vars,
                     parent, children, wait_pid, le, irq>>
  BY DEF SysKill, At, Goto
<1>2. /\ current \in Proc /\ "user" \notin Blocked
      /\ state[current] = "PROC_RUNNABLE" /\ wait_state[current] = "NONE"
  BY <1>1, AwakeHere DEF Blocked
<1>3. /\ OnlyWakes /\ panic' # "assertion"
      /\ \A q \in Proc : state[q] = "PROC_FREE" => state'[q] = "PROC_FREE"
  <2>1. CASE wait_state[p] # "NONE"
    <3>1. state[p] = "PROC_SLEEPING"
      BY <2>1 DEF WInv, Sleeping
    <3> QED BY <1>1, <2>1, <3>1, WakeOne
  <2>2. CASE wait_state[p] = "NONE"
    BY <1>1, <2>2 DEF OnlyWakes
  <2> QED BY <2>1, <2>2
<1>4. AwakeMoves
  <2>1. pc \in [Proc -> Label]
    BY DEF WInv, IInv, TypeOK
  <2> QED BY <1>1, <1>2, <1>3, <2>1 DEF AwakeMoves, OnlyWakes
<1>5. Ticks'
  BY <1>1, <1>4, TicksFrame DEF WInv, timer_vars
<1>6. KbdAlarm'
  BY <1>1, <1>3, KbdFrame DEF WInv, OnlyWakes, stdin_vars
<1>7. IrqShape' /\ RingWoken'
  BY <1>1 DEF WInv, IrqShape, RingWoken
<1> QED BY <1>1, <1>2, <1>3, <1>4, <1>5, <1>6, <1>7, WakingKeeps DEF timer_vars

\* What the handlers have left, when one goes on with the step x.
LEMMA IrqAfter ==
    ASSUME WInv, irq # << >>, NEW x \in IrqStep, irq' = <<x>> \o Tail(irq)
    PROVE  irq' # << >> /\ Head(irq') = x /\ IrqShape'
<1>1. irq \in Seq(IrqStep) /\ IrqShape
  BY DEF WInv, IInv, TypeOK
<1>2. /\ Tail(irq) \in Seq(IrqStep) /\ Len(Tail(irq)) = Len(irq) - 1 /\ Len(irq) \in Nat \ {0}
      /\ \A i \in 1..Len(Tail(irq)) : Tail(irq)[i] = irq[i+1]
  BY <1>1
<1> DEFINE t == Tail(irq)
<1>3. t \in Seq(IrqStep) /\ \A i \in 1..Len(t) : t[i] = irq[i+1] /\ Len(t) = Len(irq) - 1
  BY <1>2
<1>4. t \in Seq(IrqStep) /\ irq' = <<x>> \o t
  BY <1>2
<1> HIDE DEF t
<1>5. /\ Len(irq') = Len(t) + 1 /\ irq' # << >> /\ Head(irq') = x
      /\ \A i \in 2..Len(irq') : irq'[i] = t[i-1]
  BY <1>4
<1>6. Len(t) \in Nat
  BY <1>3
<1>7. ASSUME NEW i \in 2..Len(irq') PROVE irq'[i] \in {"char", "clock"}
  <2>1. /\ i - 1 \in 1..Len(t) /\ irq'[i] = t[i-1]
    BY <1>5, <1>6
  <2>2. t[i-1] = irq[i] /\ Len(t) = Len(irq) - 1
    BY <1>3, <2>1
  <2>3. i \in 2..Len(irq)
    BY <1>1, <1>5, <1>6, <2>2
  <2> QED BY <1>1, <2>1, <2>2, <2>3 DEF IrqShape
<1> QED BY <1>5, <1>7 DEF IrqShape

\* And when it is through.
LEMMA IrqDone ==
    ASSUME WInv, irq # << >>, irq' = << >> \o Tail(irq)
    PROVE  IrqShape' /\ (irq' # << >> => Head(irq') \in {"char", "clock"})
<1>1. irq \in Seq(IrqStep) /\ IrqShape
  BY DEF WInv, IInv, TypeOK
<1>2. /\ irq' \in Seq(IrqStep) /\ Len(irq') = Len(irq) - 1 /\ Len(irq') \in Nat
      /\ \A i \in 1..Len(irq') : irq'[i] = irq[i+1]
  BY <1>1
<1>3. \A i \in 1..Len(irq') : irq'[i] \in {"char", "clock"}
  BY <1>1, <1>2 DEF IrqShape
<1>4. ASSUME irq' # << >> PROVE Head(irq') \in {"char", "clock"}
  <2>1. 1 \in DOMAIN irq' /\ Head(irq') = irq'[1]
    BY <1>2, <1>4, HeadIsFirst
  <2>2. DOMAIN irq' = 1..Len(irq')
    BY <1>2
  <2> QED BY <1>3, <2>1, <2>2
<1> QED BY <1>3, <1>4 DEF IrqShape

\* What every step of a handler leaves alone.
LEMMA HandleLeaves ==
    ASSUME WInv, NEW step \in IrqStep, NEW rest \in Seq(IrqStep), Handle(step, rest)
    PROVE  /\ irq # << >> /\ Head(irq) = step /\ irq' = rest \o Tail(irq) /\ panic = "none"
           /\ UNCHANGED <<exiting, children, parent, wait_pid, pc, le>>
           /\ AwakeMoves
           /\ step # "timers" => ~HeadExpired
           /\ \A p \in Proc : pc[p] # "add_timer"
<1>1. /\ irq # << >> /\ Head(irq) = step /\ irq' = rest \o Tail(irq) /\ panic = "none"
      /\ UNCHANGED <<exiting, children, parent, wait_pid, pc, le>>
  BY DEF Handle, family_vars
<1>2. AwakeMoves
  BY <1>1 DEF AwakeMoves
<1>3. step # "timers" => ~HeadExpired
  BY <1>1 DEF WInv, Ticks
<1>4. \A p \in Proc : pc[p] # "add_timer"
  BY <1>1 DEF WInv, IInv, Labels
<1> QED BY <1>1, <1>2, <1>3, <1>4

\* The steps of the handlers that wake nobody.
LEMMA QuietHandlerKeeps ==
    ASSUME WInv, IInv', StdinWrite \/ WakeReaderDone \/ ClockTick \/ ProcTick
    PROVE  WInv'
<1>1. CASE StdinWrite
  <2>1. /\ Handle("char", <<"wakeup">>) /\ dev_stdin_store
        /\ UNCHANGED <<state, wait_state, current, timer_list, expires, panic, wait_queue>>
    BY <1>1 DEF StdinWrite, run_vars, timer_vars
  <2>2. /\ irq # << >> /\ irq' = <<"wakeup">> \o Tail(irq)
        /\ UNCHANGED <<exiting, children, parent, wait_pid, pc, le>>
        /\ AwakeMoves /\ ~HeadExpired /\ panic = "none"
    BY <2>1, IrqRests, HandleLeaves
  <2>3. irq' # << >> /\ Head(irq') = "wakeup" /\ IrqShape'
    BY <2>2, IrqRests, IrqAfter
  <2>4. Ticks'
    BY <2>1, <2>2, TicksFrame DEF WInv
  <2>5. KbdAlarm'
    BY <2>1, <2>3 DEF WInv, KbdAlarm
  <2>6. RingWoken'
    <3>1. unread \in 0..STDIN_BUFSIZE
      BY DEF WInv, IInv, TypeOK
    <3>2. unread' > 0
      BY <2>1, <3>1, StdinAssumption DEF dev_stdin_store
    <3> QED BY <3>2 DEF RingWoken
  <2> QED BY <2>1, <2>2, <2>3, <2>4, <2>5, <2>6, WakingKeeps DEF OnlyWakes
<1>2. CASE WakeReaderDone
  <2>1. /\ Handle("wakeup", << >>) /\ wait_queue = << >>
        /\ UNCHANGED <<state, wait_state, current, timer_list, expires, panic, wait_queue, unread>>
    BY <1>2 DEF WakeReaderDone, run_vars, timer_vars, stdin_vars
  <2>2. /\ irq # << >> /\ irq' = << >> \o Tail(irq)
        /\ UNCHANGED <<exiting, children, parent, wait_pid, pc, le>>
        /\ AwakeMoves /\ ~HeadExpired /\ panic = "none"
    BY <2>1, IrqRests, HandleLeaves
  <2>3. IrqShape' /\ (irq' # << >> => Head(irq') \in {"char", "clock"})
    BY <2>2, IrqDone
  <2>4. Ticks'
    BY <2>1, <2>2, TicksFrame DEF WInv
  <2>5. KbdAlarm'
    BY <2>1 DEF WInv, KbdAlarm, Range
  <2>6. RingWoken'
    BY <2>3 DEF RingWoken
  <2> QED BY <2>1, <2>2, <2>3, <2>4, <2>5, <2>6, WakingKeeps DEF OnlyWakes
<1>3. CASE ClockTick
  <2>1. /\ Handle("clock", <<"timers">>) /\ run_timer_list
        /\ UNCHANGED <<state, wait_state, current, wait_queue, unread>>
    BY <1>3 DEF ClockTick, run_vars, stdin_vars
  <2>2. /\ irq # << >> /\ Head(irq) = "clock" /\ irq' = <<"timers">> \o Tail(irq)
        /\ UNCHANGED <<exiting, children, parent, wait_pid, pc, le>>
        /\ AwakeMoves /\ ~HeadExpired /\ panic = "none"
        /\ \A p \in Proc : pc[p] # "add_timer"
    BY <2>1, IrqRests, HandleLeaves
  <2>3. irq' # << >> /\ Head(irq') = "timers" /\ IrqShape'
    BY <2>2, IrqRests, IrqAfter
  <2>4. panic' # "assertion" /\ UNCHANGED timer_list
    BY <2>1, <2>2 DEF run_timer_list, kassert, HeadExpired
  <2>5. Ticks'
    BY <2>2, <2>3 DEF Ticks
  <2>6. KbdAlarm'
    BY <2>1, <2>2, KbdFrame DEF WInv
  <2>7. RingWoken'
    BY <2>3 DEF RingWoken
  <2> QED BY <2>1, <2>2, <2>3, <2>4, <2>5, <2>6, <2>7, WakingKeeps DEF OnlyWakes
<1>4. CASE ProcTick
  <2>1. /\ Handle("timers", << >>) /\ ~HeadExpired
        /\ UNCHANGED <<state, wait_state, current, timer_list, expires, panic, wait_queue, unread>>
    BY <1>4 DEF ProcTick, timer_vars, stdin_vars
  <2>2. /\ irq # << >> /\ Head(irq) = "timers" /\ irq' = << >> \o Tail(irq)
        /\ UNCHANGED <<exiting, children, parent, wait_pid, pc, le>>
        /\ AwakeMoves /\ panic = "none"
    BY <2>1, IrqRests, HandleLeaves
  <2>3. IrqShape' /\ (irq' # << >> => Head(irq') \in {"char", "clock"})
    BY <2>2, IrqDone
  <2>4. Ticks'
    BY <2>1, <2>2, TicksFrame DEF WInv
  <2>5. KbdAlarm'
    BY <2>1, <2>2, KbdFrame DEF WInv
  <2>6. RingWoken'
    BY <2>3 DEF RingWoken
  <2> QED BY <2>1, <2>2, <2>3, <2>4, <2>5, <2>6, WakingKeeps DEF OnlyWakes
<1> QED BY <1>1, <1>2, <1>3, <1>4

\* A process on a list of sleepers is neither free nor a zombie.
LEMMA Listed ==
    ASSUME WInv, NEW p \in Range(timer_list) \union Range(wait_queue)
    PROVE  p \in Proc /\ state[p] # "PROC_ZOMBIE" /\ state[p] # "PROC_FREE"
<1>1. p \in Proc
  <2>1. timer_list \in Seq(Proc) /\ wait_queue \in Seq(Proc)
    BY DEF WInv, IInv, TypeOK
  <2> QED BY <2>1 DEF Range
<1> QED BY <1>1 DEF WInv, IInv, Labels

\* The first reader, and the process of the first timer, are woken and leave the list.
LEMMA WakingHandlerKeeps ==
    ASSUME WInv, IInv', WakeReader \/ ExpireTimer
    PROVE  WInv'
<1>0. /\ timer_list \in Seq(Proc) /\ wait_queue \in Seq(Proc)
      /\ IsInjective(timer_list) /\ IsInjective(wait_queue)
      /\ expires \in [Proc -> Nat]
  BY DEF WInv, IInv, TypeOK, Labels
<1>1. CASE WakeReader
  <2> DEFINE h == Head(wait_queue)
  <2>1. /\ Handle("wakeup", <<"wakeup">>) /\ wait_queue # << >>
        /\ wait_queue' = Tail(wait_queue) /\ wakeup_proc(state, h)
        /\ UNCHANGED <<current, timer_list, expires, unread>>
    BY <1>1 DEF WakeReader, wakeup_wait, timer_vars
  <2>2. /\ irq # << >> /\ Head(irq) = "wakeup" /\ irq' = <<"wakeup">> \o Tail(irq)
        /\ UNCHANGED <<exiting, children, parent, wait_pid, pc, le>>
        /\ AwakeMoves /\ ~HeadExpired
    BY <2>1, IrqRests, HandleLeaves
  <2>3. irq' # << >> /\ Head(irq') = "wakeup" /\ IrqShape'
    BY <2>2, IrqRests, IrqAfter
  <2>4. /\ h \in Range(wait_queue)
        /\ Range(wait_queue') = Range(wait_queue) \ {h}
    BY <1>0, <2>1, TailElements
  <2>5. h \in Proc /\ state[h] # "PROC_ZOMBIE" /\ state[h] # "PROC_FREE"
    BY <2>4, Listed
  <2> HIDE DEF h
  <2>6. /\ OnlyWakes /\ panic' # "assertion"
        /\ \A q \in Proc : /\ state'[q] = IF q = h THEN "PROC_RUNNABLE" ELSE state[q]
                           /\ wait_state'[q] = IF q = h THEN "NONE" ELSE wait_state[q]
    BY <2>1, <2>5, WakeOne
  <2>7. Ticks'
    BY <2>1, <2>2, TicksFrame DEF WInv
  <2>8. KbdAlarm'
    BY <2>3, <2>4, <2>6 DEF WInv, KbdAlarm
  <2>9. RingWoken'
    BY <2>1, <2>2 DEF WInv, RingWoken
  <2> QED BY <2>1, <2>2, <2>3, <2>5, <2>6, <2>7, <2>8, <2>9, WakingKeeps
<1>2. CASE ExpireTimer
  <2> DEFINE h == Head(timer_list)
  <2>1. /\ Handle("timers", <<"timers">>) /\ timer_list # << >>
        /\ wakeup_proc(state, h) /\ del_timer(h)
        /\ UNCHANGED <<current, wait_queue, unread>>
    BY <1>2 DEF ExpireTimer, expire_timer, HeadExpired, stdin_vars
  <2>2. /\ irq # << >> /\ Head(irq) = "timers" /\ irq' = <<"timers">> \o Tail(irq)
        /\ UNCHANGED <<exiting, children, parent, wait_pid, pc, le>>
        /\ AwakeMoves /\ \A p \in Proc : pc[p] # "add_timer"
    BY <2>1, IrqRests, HandleLeaves
  <2>3. irq' # << >> /\ Head(irq') = "timers" /\ IrqShape'
    BY <2>2, IrqRests, IrqAfter
  <2>4. h \in Range(timer_list) /\ h \in Proc
    BY <1>0, <2>1, TailElements
  <2>5. state[h] # "PROC_ZOMBIE" /\ state[h] # "PROC_FREE"
    BY <2>4, Listed
  <2> HIDE DEF h
  <2>6. Range(timer_list') = Range(timer_list) \ {h}
    BY <1>0, <2>1, <2>4, DelTimerEffect
  <2>7. /\ OnlyWakes /\ panic' # "assertion"
        /\ \A q \in Proc : /\ state'[q] = IF q = h THEN "PROC_RUNNABLE" ELSE state[q]
                           /\ wait_state'[q] = IF q = h THEN "NONE" ELSE wait_state[q]
    BY <2>1, <2>4, <2>5, WakeOne
  <2>8. Ticks'
    BY <2>2, <2>3 DEF Ticks
  <2>9. KbdAlarm'
    <3>1. \A q \in Proc : wait_state'[q] = "WT_KBD" => wait_state[q] = "WT_KBD"
      BY <2>7
    <3> QED BY <2>1, <2>2, <3>1, KbdFrame DEF WInv
  <2>10. RingWoken'
    BY <2>3 DEF RingWoken
  <2>11. \A q \in Proc : wait_state'[q] = "WT_TIMER" /\ q \in Range(timer_list) =>
            q \in Range(timer_list')
    BY <2>6, <2>7
  <2> QED BY <2>1, <2>2, <2>3, <2>5, <2>7, <2>8, <2>9, <2>10, <2>11, WakingKeeps
<1> QED BY <1>1, <1>2

-----------------------------------------------------------------------------
(* The timer list.                                                         *)

\* Taking a timer out brings no other nearer: the head after it has no fewer
\* ticks left than before it had, or than the entry before it had.
LEMMA DelTimerHead ==
    ASSUME timer_list \in Seq(Proc), IsInjective(timer_list),
           expires \in [Proc -> Nat], NEW p \in Proc, del_timer(p),
           timer_list # << >>, ~HeadExpired
    PROVE  ~HeadExpired'
<1> SUFFICES ASSUME timer_list' # << >> PROVE expires'[Head(timer_list')] # 0
  BY DEF HeadExpired
<1>0. /\ DOMAIN timer_list = 1..Len(timer_list) /\ Len(timer_list) \in Nat
      /\ 1 \in DOMAIN timer_list /\ Head(timer_list) = timer_list[1]
      /\ timer_list[1] \in Proc /\ expires[timer_list[1]] > 0
  <2>1. 1 \in DOMAIN timer_list /\ Head(timer_list) = timer_list[1]
    BY HeadIsFirst
  <2>2. expires[timer_list[1]] # 0
    BY <2>1 DEF HeadExpired
  <2>3. timer_list[1] \in Proc
    BY <2>1, ElementOfSeq, LenProperties
  <2> QED BY <2>1, <2>2, <2>3, LenProperties
<1>1. CASE \E i \in DOMAIN timer_list : timer_list[i] = p
  <2> DEFINE k == CHOOSE i \in DOMAIN timer_list : timer_list[i] = p
  <2>1. k \in DOMAIN timer_list /\ timer_list[k] = p
    BY <1>1
  <2>2. /\ timer_list' = RemoveAt(timer_list, k)
        /\ expires' = [q \in Proc |->
               IF q = p THEN 0
               ELSE IF k < Len(timer_list) /\ q = timer_list[k+1]
                    THEN expires[q] + expires[p] ELSE expires[q]]
    BY <1>1 DEF del_timer
  <2> HIDE DEF k
  <2>3. CASE k = 1
    <3>1. 2 \in DOMAIN timer_list /\ Head(timer_list') = timer_list[2]
      BY <2>1, <2>2, <2>3, RemoveAtHead
    <3>2. timer_list[2] \in Proc /\ timer_list[2] # p
      BY <1>0, <2>1, <2>3, <3>1, ElementOfSeq DEF IsInjective
    <3>3. expires'[timer_list[2]] = expires[timer_list[2]] + expires[p]
      BY <1>0, <2>2, <2>3, <3>1, <3>2
    <3>4. expires[p] > 0 /\ expires[p] \in Nat /\ expires[timer_list[2]] \in Nat
      BY <1>0, <2>1, <2>3, <3>2
    <3> QED BY <3>1, <3>3, <3>4
  <2>4. CASE k # 1
    <3>1. Head(timer_list') = timer_list[1]
      BY <2>1, <2>2, <2>4, RemoveAtHead
    <3>2. timer_list[1] # p
      BY <1>0, <2>1, <2>4 DEF IsInjective
    <3>3. timer_list[1] # timer_list[k+1] \/ ~(k < Len(timer_list))
      BY <1>0, <2>1, <2>4 DEF IsInjective
    <3>4. expires'[timer_list[1]] = expires[timer_list[1]]
      BY <1>0, <2>2, <3>2, <3>3
    <3> QED BY <1>0, <3>1, <3>4
  <2> QED BY <2>3, <2>4
<1>2. CASE ~ \E i \in DOMAIN timer_list : timer_list[i] = p
  <2>1. timer_list' = timer_list /\ expires' = [expires EXCEPT ![p] = 0]
    BY <1>2 DEF del_timer
  <2>2. timer_list[1] # p
    BY <1>0, <1>2
  <2> QED BY <1>0, <2>1, <2>2
<1> QED BY <1>1, <1>2

\* do_sleep returns: nobody else's timer leaves the list.
LEMMA SleepDoneKeeps == ASSUME WInv, IInv', SleepDone PROVE WInv'
<1>1. /\ pc[current] = "slept" /\ irq = << >> /\ panic = "none"
      /\ del_timer(current)
      /\ pc' = [pc EXCEPT ![current] = "trapret"]
      /\ UNCHANGED <<state, wait_state, current, children, parent, wait_pid,
                     wait_queue, unread, le, irq, panic>>
  BY DEF SleepDone, At, Goto, family_vars, run_vars, stdin_vars
<1>2. /\ "slept" \notin Blocked /\ pc \in [Proc -> Label]
      /\ timer_list \in Seq(Proc) /\ IsInjective(timer_list) /\ expires \in [Proc -> Nat]
      /\ ~HeadExpired
  BY <1>1 DEF Blocked, WInv, IInv, TypeOK, Labels, Ticks
<1>3. /\ current \in Proc /\ state[current] = "PROC_RUNNABLE" /\ wait_state[current] = "NONE"
  BY <1>1, <1>2, AwakeHere
<1>4. OnlyWakes /\ AwakeMoves
  BY <1>1, <1>2, <1>3 DEF OnlyWakes, AwakeMoves
<1>5. Range(timer_list') = Range(timer_list) \ {current}
  BY <1>1, <1>2, <1>3, DelTimerEffect
<1>6. \A p \in Proc : wait_state'[p] = "WT_TIMER" /\ p \in Range(timer_list) =>
         p \in Range(timer_list')
  BY <1>1, <1>3, <1>5
<1>7. ~HeadExpired'
  <2>1. CASE timer_list = << >>
    <3>1. DOMAIN timer_list = {}
      BY <2>1
    <3> QED BY <1>1, <2>1, <3>1 DEF del_timer, HeadExpired
  <2>2. CASE timer_list # << >>
    BY <1>1, <1>2, <1>3, <2>2, DelTimerHead
  <2> QED BY <2>1, <2>2
<1>8. Ticks'
  <2>1. \A p \in Proc : pc'[p] = "add_timer" => p = current
    BY <1>1, <1>2 DEF WInv, IInv, Labels
  <2>2. pc'[current] # "add_timer"
    BY <1>1, <1>2, <1>3
  <2> QED BY <1>7, <2>1, <2>2 DEF Ticks
<1>9. KbdAlarm' /\ RingWoken' /\ IrqShape'
  BY <1>1 DEF WInv, KbdAlarm, RingWoken, IrqShape
<1> QED BY <1>1, <1>3, <1>4, <1>6, <1>8, <1>9, WakingKeeps

\* The reader leaves the queue, and it is awake.
LEMMA ReadWokenKeeps == ASSUME WInv, IInv', ReadWoken PROVE WInv'
<1>1. /\ pc[current] = "read_woken" /\ irq = << >> /\ panic = "none"
      /\ wait_current_del
      /\ \E to \in {"read", "trapret"} : pc' = [pc EXCEPT ![current] = to]
      /\ UNCHANGED <<state, wait_state, current, timer_list, expires,
                     children, parent, wait_pid, unread, le, irq, panic>>
  BY DEF ReadWoken, At, Goto, family_vars, run_vars, timer_vars
<1>2. /\ "read_woken" \notin Blocked /\ pc \in [Proc -> Label]
      /\ wait_queue \in Seq(Proc) /\ IsInjective(wait_queue)
  BY <1>1 DEF Blocked, WInv, IInv, TypeOK, Labels
<1>3. /\ current \in Proc /\ state[current] = "PROC_RUNNABLE" /\ wait_state[current] = "NONE"
  BY <1>1, <1>2, AwakeHere
<1>4. OnlyWakes /\ AwakeMoves
  BY <1>1, <1>2, <1>3 DEF OnlyWakes, AwakeMoves
<1>5. Range(wait_queue') = Range(wait_queue) \ {current}
  BY <1>1, <1>2, WaitCurrentDelEffect
<1>6. Ticks'
  BY <1>1, <1>4, TicksFrame DEF WInv
<1>7. KbdAlarm'
  BY <1>1, <1>3, <1>5 DEF WInv, KbdAlarm
<1>8. RingWoken' /\ IrqShape'
  BY <1>1 DEF WInv, RingWoken, IrqShape
<1> QED BY <1>1, <1>3, <1>4, <1>6, <1>7, <1>8, WakingKeeps

\* add_timer's loop passes an entry.
LEMMA AddTimerPassKeeps == ASSUME WInv, IInv', AddTimerPass PROVE WInv'
<1>1. /\ pc[current] = "add_timer" /\ irq = << >>
      /\ expires' = [expires EXCEPT ![current] = @ - expires[timer_list[le]]]
      /\ le' = le + 1 /\ panic' = "none"
      /\ UNCHANGED <<state, wait_state, current, timer_list, children, parent, wait_pid,
                     wait_queue, unread, pc, irq>>
  BY DEF AddTimerPass, add_timer_pass, At, family_vars, run_vars, stdin_vars
<1>2. /\ current \in Proc /\ timer_list \in Seq(Proc) /\ expires \in [Proc -> Nat]
      /\ le \in 1..(Len(timer_list) + 1) /\ Len(timer_list) \in Nat
      /\ current \notin Range(timer_list) /\ ~HeadExpired
  BY <1>1, LenProperties DEF WInv, IInv, TypeOK, Labels, Ticks
<1>3. OnlyWakes /\ AwakeMoves
  BY <1>1 DEF OnlyWakes, AwakeMoves
<1>4. Ticks'
  <2>1. le' # 1
    BY <1>1, <1>2
  <2>2. ASSUME timer_list # << >> PROVE expires'[Head(timer_list)] = expires[Head(timer_list)]
    <3>1. Head(timer_list) \in Range(timer_list) /\ Head(timer_list) \in Proc
      BY <1>2, <2>2, TailElements
    <3> QED BY <1>1, <1>2, <3>1
  <2>3. ~HeadExpired'
    BY <1>1, <1>2, <2>2 DEF HeadExpired
  <2> QED BY <2>1, <2>3 DEF Ticks
<1>5. KbdAlarm' /\ RingWoken' /\ IrqShape'
  BY <1>1 DEF WInv, KbdAlarm, RingWoken, IrqShape
<1> QED BY <1>1, <1>3, <1>4, <1>5, WakingKeeps

\* A step in which the process at the CPU, and nobody else, comes to a label
\* where it sleeps, and nobody is born, dies or changes parents.
LEMMA BlockingKeeps ==
    ASSUME WInv, IInv', panic' # "assertion", current # idleproc,
           UNCHANGED <<current, children, parent, wait_pid>>,
           pc'[current] \in Blocked \ {"reparent"},
           state'[current] = "PROC_SLEEPING" <=> wait_state'[current] # "NONE",
           wait_state'[current] = "WT_CHILD" => pc'[current] = "wait_sched",
           wait_state'[current] = "WT_TIMER" => pc'[current] \in {"add_timer", "sleep_sched"},
           wait_state'[current] = "WT_KBD" => pc'[current] = "read_sched",
           state'[current] # "PROC_FREE" /\ state'[current] # "PROC_ZOMBIE",
           \A p \in Proc \ {current} :
               state'[p] = state[p] /\ wait_state'[p] = wait_state[p] /\ pc'[p] = pc[p],
           Ticks', IrqShape', ChildAlarm', TimerAlarm', KbdAlarm', RingWoken'
    PROVE  WInv'
<1>1. Sleeping /\ current \in Proc /\ idleproc \in Proc
  BY ProcAssumption DEF WInv, IInv, TypeOK
<1>2. Sleeping'
  <2>1. state'[idleproc] = "PROC_RUNNABLE"
    BY <1>1 DEF Sleeping
  <2>2. ASSUME NEW p \in Proc
        PROVE  /\ wait_state'[p] # "NONE" <=> state'[p] = "PROC_SLEEPING"
               /\ wait_state'[p] = "WT_CHILD" => pc'[p] \in {"wait_sched", "waited"}
               /\ wait_state'[p] = "WT_TIMER" => pc'[p] \in {"add_timer", "sleep_sched", "slept"}
               /\ wait_state'[p] = "WT_KBD" => pc'[p] \in {"read_sched", "read_woken"}
               /\ pc'[p] = "reparent" => p = current
    <3>1. CASE p = current
      BY <3>1
    <3>2. CASE p # current
      BY <1>1, <3>2 DEF Sleeping
    <3> QED BY <3>1, <3>2
  <2> QED BY <1>1, <2>1, <2>2 DEF Sleeping
<1>3. Rooted'
  <2>1. \A p \in Proc : state[p] = "PROC_FREE" => state'[p] = "PROC_FREE"
    <3>1. state[current] # "PROC_FREE"
      BY LiveSlots DEF WInv, Live
    <3> QED BY <3>1
  <2> QED BY <2>1, RootedFrame DEF WInv
<1> QED BY <1>2, <1>3 DEF WInv, NoAssertionFails

\* The new timer is the head only if it has ticks left; otherwise the head keeps its.
LEMMA AddTimerLinkKeeps == ASSUME WInv, IInv', AddTimerLink PROVE WInv'
<1>1. /\ pc[current] = "add_timer" /\ irq = << >>
      /\ add_timer_link(le) /\ panic' = "none"
      /\ pc' = [pc EXCEPT ![current] = "sleep_sched"]
      /\ UNCHANGED <<state, wait_state, current, children, parent, wait_pid,
                     wait_queue, unread, irq>>
  BY DEF AddTimerLink, At, Goto, family_vars, run_vars, stdin_vars
<1>2. /\ current \in Proc /\ timer_list \in Seq(Proc) /\ expires \in [Proc -> Nat]
      /\ IsInjective(timer_list) /\ pc \in [Proc -> Label]
      /\ wait_state \in [Proc -> WaitState] /\ children \in [Proc -> Seq(Proc)]
      /\ le \in 1..(Len(timer_list) + 1)
      /\ current \notin Range(timer_list) /\ ~HeadExpired
      /\ le = 1 => expires[current] > 0
      /\ Sleeping /\ current # idleproc
  BY <1>1, LiveSlots DEF WInv, IInv, TypeOK, Labels, Ticks
<1>3. /\ timer_list' = InsertAt(timer_list, le, current)
      /\ Len(timer_list) \in Nat /\ DOMAIN timer_list = 1..Len(timer_list)
      /\ expires' = IF le <= Len(timer_list)
                    THEN [expires EXCEPT ![timer_list[le]] = @ - expires[current]]
                    ELSE expires
  BY <1>1, <1>2, LenProperties DEF add_timer_link
<1>4. /\ timer_list' # << >>
      /\ Head(timer_list') = IF le = 1 THEN current ELSE timer_list[1]
      /\ Range(timer_list') = Range(timer_list) \union {current}
  <2>1. /\ InsertAt(timer_list, le, current) # << >>
        /\ Head(InsertAt(timer_list, le, current)) = IF le = 1 THEN current ELSE timer_list[1]
    BY ONLY <1>2, InsertAtHead
  <2>2. Range(InsertAt(timer_list, le, current)) = Range(timer_list) \union {current}
    BY ONLY <1>2, InsertAtElements
  <2> QED BY <1>3, <2>1, <2>2
<1>5. expires'[Head(timer_list')] # 0
  <2>1. CASE le = 1
    <3>1. ASSUME le <= Len(timer_list) PROVE timer_list[le] # current
      BY ONLY <1>2, <3>1, LenProperties DEF Range
    <3>2. expires'[current] = expires[current]
      BY <1>2, <1>3, <3>1
    <3> QED BY <1>2, <1>4, <2>1, <3>2
  <2>2. CASE le # 1
    <3>1. 1 \in DOMAIN timer_list /\ le \in Nat
      BY <1>2, <1>3, <2>2
    <3>2. timer_list # << >> /\ Head(timer_list) = timer_list[1] /\ timer_list[1] \in Proc
      BY <1>2, <3>1, HeadIsFirst, ElementOfSeq, LenProperties
    <3>3. ASSUME le <= Len(timer_list) PROVE timer_list[le] # timer_list[1]
      BY ONLY <1>2, <2>2, <3>1, <3>3, LenProperties DEF IsInjective
    <3>4. expires'[timer_list[1]] = expires[timer_list[1]]
      BY <1>2, <1>3, <3>2, <3>3
    <3>5. expires[timer_list[1]] # 0
      BY <1>2, <3>2 DEF HeadExpired
    <3> QED BY <1>4, <2>2, <3>4, <3>5
  <2> QED BY <2>1, <2>2
<1>6. \A p \in Proc : pc'[p] = IF p = current THEN "sleep_sched" ELSE pc[p]
  BY <1>1, <1>2
<1>7. Ticks'
  <2>1. ~HeadExpired'
    BY <1>5 DEF HeadExpired
  <2>2. \A p \in Proc : pc'[p] # "add_timer"
    BY <1>6 DEF WInv, IInv, Labels
  <2> QED BY <2>1, <2>2 DEF Ticks
<1>8. ChildAlarm'
  BY <1>1, <1>2, ChildFrame DEF WInv
<1>9. TimerAlarm'
  BY <1>1, <1>4 DEF WInv, TimerAlarm
<1>10. KbdAlarm' /\ RingWoken' /\ IrqShape'
  BY <1>1 DEF WInv, KbdAlarm, RingWoken, IrqShape
<1>11. /\ wait_state[current] # "WT_CHILD" /\ wait_state[current] # "WT_KBD"
       /\ wait_state[current] # "NONE" <=> state[current] = "PROC_SLEEPING"
  BY <1>1, <1>2 DEF Sleeping
<1>12. state[current] # "PROC_FREE" /\ state[current] # "PROC_ZOMBIE"
  BY <1>1, <1>2 DEF WInv, IInv, Labels
<1>13. pc'[current] \in Blocked \ {"reparent"} /\ pc'[current] = "sleep_sched"
  BY <1>2, <1>6 DEF Blocked
<1> QED BY <1>1, <1>2, <1>6, <1>7, <1>8, <1>9, <1>10, <1>11, <1>12, <1>13, BlockingKeeps

-----------------------------------------------------------------------------
(* Who goes to sleep.                                                      *)

\* What the process at the CPU, at a label where it is awake, changes when it sets
\* itself to sleep.
LEMMA SleeperFacts ==
    ASSUME WInv, pc[current] \notin Blocked, pc[current] # "idle", NEW ws \in WaitState, NEW to,
           state' = [state EXCEPT ![current] = "PROC_SLEEPING"],
           wait_state' = [wait_state EXCEPT ![current] = ws],
           pc' = [pc EXCEPT ![current] = to]
    PROVE  /\ current \in Proc /\ current # idleproc
           /\ state'[current] = "PROC_SLEEPING" /\ wait_state'[current] = ws /\ pc'[current] = to
           /\ \A p \in Proc \ {current} :
                 state'[p] = state[p] /\ wait_state'[p] = wait_state[p] /\ pc'[p] = pc[p]
           /\ \A p \in Proc : state'[p] = "PROC_ZOMBIE" => state[p] = "PROC_ZOMBIE"
           /\ wait_state \in [Proc -> WaitState] /\ children \in [Proc -> Seq(Proc)]
<1>1. /\ state \in [Proc -> ProcState] /\ wait_state \in [Proc -> WaitState]
      /\ pc \in [Proc -> Label] /\ current \in Proc /\ children \in [Proc -> Seq(Proc)]
  BY DEF WInv, IInv, TypeOK
<1>2. current # idleproc
  BY LiveSlots DEF WInv
<1> QED BY <1>1, <1>2

\* do_sleep: its timer is not on the list, and has ticks left.
LEMMA SysSleepKeeps ==
    ASSUME WInv, IInv', NEW time \in 1..MaxSleep, SysSleep(time)
    PROVE  WInv'
<1>1. /\ pc[current] = "user" /\ irq = << >> /\ panic = "none"
      /\ kassert(\A i \in DOMAIN timer_list : timer_list[i] # current)
      /\ expires' = [expires EXCEPT ![current] = time]
      /\ state' = [state EXCEPT ![current] = "PROC_SLEEPING"]
      /\ wait_state' = [wait_state EXCEPT ![current] = "WT_TIMER"]
      /\ pc' = [pc EXCEPT ![current] = "add_timer"]
      /\ UNCHANGED <<current, children, parent, wait_pid, timer_list,
                     wait_queue, unread, irq>>
  BY DEF SysSleep, At, Goto, family_vars, stdin_vars
<1>2. "user" \notin Blocked /\ "add_timer" \in Blocked /\ "WT_TIMER" \in WaitState
  BY DEF Blocked, WaitState
<1>3. /\ current \in Proc /\ current # idleproc
      /\ state'[current] = "PROC_SLEEPING" /\ wait_state'[current] = "WT_TIMER"
      /\ pc'[current] = "add_timer"
      /\ \A p \in Proc \ {current} :
            state'[p] = state[p] /\ wait_state'[p] = wait_state[p] /\ pc'[p] = pc[p]
      /\ \A p \in Proc : state'[p] = "PROC_ZOMBIE" => state[p] = "PROC_ZOMBIE"
      /\ wait_state \in [Proc -> WaitState] /\ children \in [Proc -> Seq(Proc)]
  BY <1>1, <1>2, SleeperFacts
<1>4. /\ timer_list \in Seq(Proc) /\ expires \in [Proc -> Nat]
      /\ current \notin Range(timer_list) /\ ~HeadExpired
  BY <1>1, <1>3 DEF WInv, IInv, TypeOK, Labels, Ticks
<1>5. panic' # "assertion"
  BY <1>1, <1>4 DEF kassert, Range
<1>6. Ticks'
  <2>1. ASSUME timer_list # << >> PROVE expires'[Head(timer_list)] = expires[Head(timer_list)]
    <3>1. Head(timer_list) \in Range(timer_list) /\ Head(timer_list) \in Proc
      BY <1>4, <2>1, TailElements
    <3> QED BY <1>1, <1>4, <3>1
  <2>2. ~HeadExpired'
    BY <1>1, <1>4, <2>1 DEF HeadExpired
  <2>3. ASSUME NEW p \in Proc, pc'[p] = "add_timer" PROVE expires'[p] > 0
    <3>1. p = current
      BY <1>1, <1>3, <2>3 DEF WInv, IInv, Labels
    <3>2. time > 0
      BY BoundAssumption
    <3> QED BY <1>1, <1>3, <1>4, <3>1, <3>2
  <2> QED BY <2>2, <2>3 DEF Ticks
<1>7. ChildAlarm'
  BY <1>1, <1>3, ChildFrame DEF WInv
<1>8. TimerAlarm' /\ KbdAlarm' /\ RingWoken' /\ IrqShape'
  BY <1>1, <1>3 DEF WInv, TimerAlarm, KbdAlarm, RingWoken, IrqShape
<1> QED BY <1>1, <1>2, <1>3, <1>5, <1>6, <1>7, <1>8, BlockingKeeps

\* do_wait looked at the children, and none was a zombie.
LEMMA WaitSleepKeeps == ASSUME WInv, IInv', WaitSleep PROVE WInv'
<1>1. /\ pc[current] = "wait" /\ irq = << >> /\ panic' # "assertion"
      /\ Kids # {} /\ \A p \in Kids : state[p] # "PROC_ZOMBIE"
      /\ state' = [state EXCEPT ![current] = "PROC_SLEEPING"]
      /\ wait_state' = [wait_state EXCEPT ![current] = "WT_CHILD"]
      /\ pc' = [pc EXCEPT ![current] = "wait_sched"]
      /\ UNCHANGED <<current, children, parent, wait_pid, timer_list, expires, le,
                     wait_queue, unread, irq>>
  BY DEF WaitSleep, At, Goto, family_vars, timer_vars, stdin_vars
<1>2. "wait" \notin Blocked /\ "wait_sched" \in Blocked /\ "WT_CHILD" \in WaitState
  BY DEF Blocked, WaitState
<1>3. /\ current \in Proc /\ current # idleproc
      /\ state'[current] = "PROC_SLEEPING" /\ wait_state'[current] = "WT_CHILD"
      /\ pc'[current] = "wait_sched"
      /\ \A p \in Proc \ {current} :
            state'[p] = state[p] /\ wait_state'[p] = wait_state[p] /\ pc'[p] = pc[p]
      /\ \A p \in Proc : state'[p] = "PROC_ZOMBIE" => state[p] = "PROC_ZOMBIE"
      /\ wait_state \in [Proc -> WaitState] /\ children \in [Proc -> Seq(Proc)]
  BY <1>1, <1>2, SleeperFacts
<1>4. Ticks'
  <2>1. \A p \in Proc : pc'[p] = "add_timer" => pc[p] = "add_timer"
    BY <1>3
  <2>2. HeadExpired' <=> HeadExpired
    BY <1>1 DEF HeadExpired
  <2> QED BY <1>1, <2>1, <2>2 DEF WInv, Ticks
<1>5. KidsOf(current) = Kids
  <2>1. wait_pid[current] \in Proc
    BY <1>3 DEF WInv, IInv, TypeOK
  <2>2. CASE wait_pid[current] = AnyChild
    BY <2>2 DEF Kids, KidsOf
  <2>3. CASE wait_pid[current] # AnyChild
    <3>1. wait_pid[current] \in Range(children[current]) <=>
             Live(wait_pid[current]) /\ parent[wait_pid[current]] = current
      BY <1>3, <2>1, <2>3 DEF WInv, IInv, Family, Kinship, AnyChild
    <3> QED BY <2>3, <3>1 DEF Kids, KidsOf
  <2> QED BY <2>2, <2>3
<1>6. ChildAlarm'
  <2>1. ASSUME NEW p \in Proc, wait_state'[p] = "WT_CHILD"
        PROVE  /\ KidsOf(p) # {}
               /\ \A c \in KidsOf(p) : state'[c] # "PROC_ZOMBIE"
    <3>1. KidsOf(p) # {} /\ \A c \in KidsOf(p) : state[c] # "PROC_ZOMBIE"
      BY <1>1, <1>3, <1>5, <2>1 DEF WInv, ChildAlarm
    <3>2. KidsOf(p) \subseteq Proc
      BY <1>3 DEF KidsOf, Range
    <3> QED BY <1>3, <3>1, <3>2
  <2>2. \A p \in Proc : KidsOf(p)' = KidsOf(p)
    BY <1>1 DEF KidsOf
  <2> QED BY <2>1, <2>2 DEF ChildAlarm
<1>7. TimerAlarm' /\ KbdAlarm' /\ RingWoken' /\ IrqShape'
  BY <1>1, <1>3 DEF WInv, TimerAlarm, KbdAlarm, RingWoken, IrqShape
<1> QED BY <1>1, <1>2, <1>3, <1>4, <1>6, <1>7, BlockingKeeps

\* A reader has emptied the ring before it sleeps, and no handler is in progress.
LEMMA ReadWaitKeeps == ASSUME WInv, IInv', ReadWait PROVE WInv'
<1>1. /\ pc[current] = "read" /\ irq = << >> /\ panic' # "assertion"
      /\ unread' = 0
      /\ wait_queue' = Append(wait_queue, current)
      /\ state' = [state EXCEPT ![current] = "PROC_SLEEPING"]
      /\ wait_state' = [wait_state EXCEPT ![current] = "WT_KBD"]
      /\ pc' = [pc EXCEPT ![current] = "read_sched"]
      /\ UNCHANGED <<current, children, parent, wait_pid, timer_list, expires, le, irq>>
  BY DEF ReadWait, At, Goto, dev_stdin_read_wait, wait_current_set, family_vars, timer_vars
<1>2. "read" \notin Blocked /\ "read_sched" \in Blocked /\ "WT_KBD" \in WaitState
  BY DEF Blocked, WaitState
<1>3. /\ current \in Proc /\ current # idleproc
      /\ state'[current] = "PROC_SLEEPING" /\ wait_state'[current] = "WT_KBD"
      /\ pc'[current] = "read_sched"
      /\ \A p \in Proc \ {current} :
            state'[p] = state[p] /\ wait_state'[p] = wait_state[p] /\ pc'[p] = pc[p]
      /\ \A p \in Proc : state'[p] = "PROC_ZOMBIE" => state[p] = "PROC_ZOMBIE"
      /\ wait_state \in [Proc -> WaitState] /\ children \in [Proc -> Seq(Proc)]
  BY <1>1, <1>2, SleeperFacts
<1>4. Ticks'
  <2>1. \A p \in Proc : pc'[p] = "add_timer" => pc[p] = "add_timer"
    BY <1>3
  <2>2. HeadExpired' <=> HeadExpired
    BY <1>1 DEF HeadExpired
  <2> QED BY <1>1, <2>1, <2>2 DEF WInv, Ticks
<1>5. ChildAlarm'
  BY <1>1, <1>3, ChildFrame DEF WInv
<1>6. KbdAlarm'
  <2>1. wait_queue \in Seq(Proc)
    BY DEF WInv, IInv, TypeOK
  <2>2. Range(wait_queue') = Range(wait_queue) \union {current}
    BY <1>1, <1>3, <2>1, AppendElements
  <2> QED BY <1>1, <1>3, <2>2 DEF WInv, KbdAlarm
<1>7. TimerAlarm' /\ RingWoken' /\ IrqShape'
  BY <1>1, <1>3 DEF WInv, TimerAlarm, RingWoken, IrqShape
<1> QED BY <1>1, <1>2, <1>3, <1>4, <1>5, <1>6, <1>7, BlockingKeeps

-----------------------------------------------------------------------------
(* Birth and death.                                                        *)

\* A child is born runnable, and its parent is awake: no circle of parents can go
\* through a process that nobody has as its parent yet.
LEMMA ForkKeeps ==
    ASSUME WInv, IInv', NEW child \in Proc, NEW entry, NEW next,
           At(pc[current]), pc[current] \notin Blocked, pc[current] # "idle",
           {entry, next} \intersect {"reparent", "add_timer"} = {},
           do_fork(child, entry, next)
    PROVE  WInv'
<1> USE ProcAssumption
<1>1. /\ state[child] = "PROC_FREE" /\ wakeup_proc(state, child)
      /\ parent' = [parent EXCEPT ![child] = current]
      /\ children' = [children EXCEPT ![current] = <<child>> \o @]
      /\ pc' = [pc EXCEPT ![current] = next, ![child] = entry]
      /\ irq = << >> /\ panic = "none"
      /\ UNCHANGED <<current, timer_list, expires, wait_queue, unread, wait_pid, le, irq>>
  BY DEF do_fork, set_links, At, timer_vars, stdin_vars
<1>2. /\ current \in Proc /\ state[current] = "PROC_RUNNABLE" /\ wait_state[current] = "NONE"
      /\ current # idleproc /\ current # child /\ child # idleproc /\ child # initproc
  BY <1>1, AwakeHere, LiveSlots DEF WInv
<1>3. /\ pc \in [Proc -> Label] /\ children \in [Proc -> Seq(Proc)] /\ parent \in [Proc -> Proc]
      /\ wait_state \in [Proc -> WaitState] /\ Sleeping
  BY DEF WInv, IInv, TypeOK
<1>4. /\ OnlyWakes /\ panic' # "assertion"
      /\ \A q \in Proc : /\ state'[q] = IF q = child THEN "PROC_RUNNABLE" ELSE state[q]
                         /\ wait_state'[q] = IF q = child THEN "NONE" ELSE wait_state[q]
  BY <1>1, WakeOne
<1>5. AwakeMoves
  <2>1. \A q \in Proc : pc'[q] = IF q = child THEN entry ELSE IF q = current THEN next ELSE pc[q]
    BY <1>1, <1>2, <1>3
  <2> QED BY <1>2, <1>4, <2>1 DEF AwakeMoves
<1>6. Sleeping'
  <2>1. state'[current] = "PROC_RUNNABLE"
    BY <1>2, <1>4
  <2> QED BY <1>1, <1>3, <1>4, <1>5, <2>1, SleepingFrame
<1>7. Ticks'
  BY <1>1, <1>5, TicksFrame DEF WInv
<1>8. \A q \in Proc : wait_state'[q] # "NONE" =>
         /\ q # child /\ q # current
         /\ wait_state[q] = wait_state'[q] /\ pc'[q] = pc[q]
  BY <1>2, <1>4, <1>5 DEF AwakeMoves
<1>9. ChildAlarm'
  <2>1. \A q \in Proc : wait_state'[q] = "WT_CHILD" =>
           /\ wait_state[q] = "WT_CHILD"
           /\ children'[q] = children[q] /\ wait_pid'[q] = wait_pid[q]
    BY <1>1, <1>3, <1>8
  <2>2. \A q \in Proc : state'[q] = "PROC_ZOMBIE" => state[q] = "PROC_ZOMBIE"
    BY <1>4
  <2> QED BY <1>3, <2>1, <2>2, ChildFrame DEF WInv
<1>10. TimerAlarm'
  BY <1>1, <1>8, TimerFrame DEF WInv
<1>11. KbdAlarm' /\ RingWoken' /\ IrqShape'
  BY <1>1, <1>8 DEF WInv, KbdAlarm, RingWoken, IrqShape
<1>12. Rooted'
  <2>1. children'[idleproc] = <<initproc>> /\ wait_pid'[initproc] = AnyChild
    BY <1>1, <1>2, <1>3 DEF WInv, Rooted
  <2>2. ASSUME NEW S \in SUBSET UserProcs', S # {} PROVE \E p \in S : parent'[p] \notin S
    <3>1. UserProcs' \subseteq UserProcs \union {child}
      BY <1>4 DEF UserProcs, Live
    <3>2. CASE S \subseteq {child}
      BY <1>1, <1>2, <1>3, <2>2, <3>2
    <3>3. CASE ~(S \subseteq {child})
      <4> DEFINE U == S \ {child}
      <4>1. U \in SUBSET UserProcs /\ U # {}
        BY <2>2, <3>1, <3>3
      <4>2. PICK p \in U : parent[p] \notin U
        BY <4>1 DEF WInv, Rooted
      <4>3. p \in Proc /\ Live(p) /\ p \in S /\ p # child
        BY <4>1, <4>2 DEF UserProcs
      <4>4. parent[p] # child
        BY <1>1, <4>3, ParentLive DEF WInv, Live
      <4>5. parent'[p] = parent[p]
        BY <1>1, <1>3, <4>3
      <4> QED BY <4>2, <4>3, <4>4, <4>5
    <3> QED BY <3>2, <3>3
  <2> QED BY <2>1, <2>2 DEF Rooted, AnyChild
<1> QED BY <1>4, <1>6, <1>7, <1>9, <1>10, <1>11, <1>12 DEF WInv, NoAssertionFails

\* What NotifyParent does: p is woken exactly if it waits for a child.
LEMMA NotifyResult ==
    ASSUME WInv, NEW st \in [Proc -> ProcState], NEW p \in Proc, NotifyParent(st, p),
           wait_state[p] = "WT_CHILD" => st[p] = state[p]
    PROVE  /\ panic' # "assertion"
           /\ wait_state'[p] # "WT_CHILD"
           /\ \A q \in Proc :
                 \/ state'[q] = st[q] /\ wait_state'[q] = wait_state[q]
                 \/ /\ q = p /\ wait_state[p] = "WT_CHILD"
                    /\ st[p] = "PROC_SLEEPING"
                    /\ state'[p] = "PROC_RUNNABLE" /\ wait_state'[p] = "NONE"
<1>1. CASE wait_state[p] = "WT_CHILD"
  <2>1. /\ wakeup_proc(st, p) /\ st[p] = "PROC_SLEEPING" /\ state[p] = "PROC_SLEEPING"
        /\ wait_state \in [Proc -> WaitState] /\ panic # "assertion"
        /\ p \notin Range(run_list)
    BY <1>1 DEF NotifyParent, WInv, IInv, TypeOK, Sleeping, NoAssertionFails, RunQueueExact
  <2>2. /\ panic' # "assertion"
        /\ \A q \in Proc : /\ state'[q] = IF q = p THEN "PROC_RUNNABLE" ELSE st[q]
                           /\ wait_state'[q] = IF q = p THEN "NONE" ELSE wait_state[q]
    BY <2>1, WakeEffect
  <2> QED BY <1>1, <2>1, <2>2
<1>2. CASE wait_state[p] # "WT_CHILD"
  BY <1>2 DEF NotifyParent, WInv, NoAssertionFails
<1> QED BY <1>1, <1>2

\* do_exit: the only one who may wait for the new zombie is its parent, and the
\* parent is woken.
LEMMA ExitKeeps == ASSUME WInv, IInv', Exit PROVE WInv'
<1> USE ProcAssumption
<1> DEFINE st == [state EXCEPT ![current] = "PROC_ZOMBIE"]
           up == parent[current]
<1>1. /\ pc[current] = "exit" /\ irq = << >> /\ panic = "none" /\ current # initproc
      /\ NotifyParent(st, up)
      /\ pc' = [pc EXCEPT ![current] = "reparent"]
      /\ UNCHANGED <<current, children, parent, wait_pid, timer_list, expires, le,
                     wait_queue, unread, irq>>
  BY DEF Exit, At, Goto, family_vars, timer_vars, stdin_vars
<1>2. /\ current \in Proc /\ state[current] = "PROC_RUNNABLE" /\ wait_state[current] = "NONE"
      /\ current # idleproc /\ Live(current)
  <2>1. "exit" \notin Blocked
    BY DEF Blocked
  <2> QED BY <1>1, <2>1, AwakeHere, LiveSlots DEF WInv
<1>3. /\ pc \in [Proc -> Label] /\ children \in [Proc -> Seq(Proc)] /\ parent \in [Proc -> Proc]
      /\ wait_state \in [Proc -> WaitState] /\ state \in [Proc -> ProcState] /\ Sleeping
  BY DEF WInv, IInv, TypeOK
<1>4. /\ up \in Proc /\ st \in [Proc -> ProcState]
      /\ st[current] = "PROC_ZOMBIE" /\ \A q \in Proc \ {current} : st[q] = state[q]
      /\ wait_state[up] = "WT_CHILD" => st[up] = state[up]
  BY <1>2, <1>3 DEF ProcState
<1> HIDE DEF st
<1>5. /\ panic' # "assertion" /\ wait_state'[up] # "WT_CHILD"
      /\ \A q \in Proc :
            \/ state'[q] = st[q] /\ wait_state'[q] = wait_state[q]
            \/ /\ q = up /\ st[up] = "PROC_SLEEPING" /\ wait_state[up] = "WT_CHILD"
               /\ state'[up] = "PROC_RUNNABLE" /\ wait_state'[up] = "NONE"
  BY <1>1, <1>4, NotifyResult
<1>6. /\ state'[current] = "PROC_ZOMBIE" /\ wait_state'[current] = "NONE"
      /\ pc'[current] = "reparent"
      /\ \A q \in Proc \ {current} :
            /\ pc'[q] = pc[q]
            /\ \/ state'[q] = state[q] /\ wait_state'[q] = wait_state[q]
               \/ /\ q = up /\ state[q] = "PROC_SLEEPING"
                  /\ state'[q] = "PROC_RUNNABLE" /\ wait_state'[q] = "NONE"
  <2>1. /\ state'[current] = "PROC_ZOMBIE" /\ wait_state'[current] = "NONE"
    BY <1>2, <1>4, <1>5
  <2>2. \A q \in Proc \ {current} :
            \/ state'[q] = state[q] /\ wait_state'[q] = wait_state[q]
            \/ /\ q = up /\ state[q] = "PROC_SLEEPING"
               /\ state'[q] = "PROC_RUNNABLE" /\ wait_state'[q] = "NONE"
    BY <1>4, <1>5
  <2> QED BY <1>1, <1>2, <1>3, <2>1, <2>2
<1>7. Sleeping'
  <2>1. state'[idleproc] = "PROC_RUNNABLE"
    BY <1>2, <1>3, <1>6 DEF Sleeping
  <2>2. pc'[current] \in Blocked
    BY <1>6 DEF Blocked
  <2>3. ASSUME NEW p \in Proc
        PROVE  /\ wait_state'[p] # "NONE" <=> state'[p] = "PROC_SLEEPING"
               /\ wait_state'[p] = "WT_CHILD" => pc'[p] \in {"wait_sched", "waited"}
               /\ wait_state'[p] = "WT_TIMER" => pc'[p] \in {"add_timer", "sleep_sched", "slept"}
               /\ wait_state'[p] = "WT_KBD" => pc'[p] \in {"read_sched", "read_woken"}
               /\ pc'[p] = "reparent" => p = current
    <3>1. CASE p = current
      BY <1>6, <3>1
    <3>2. CASE p # current
      BY <1>3, <1>6, <3>2 DEF Sleeping
    <3> QED BY <3>1, <3>2
  <2> QED BY <1>1, <2>1, <2>2, <2>3 DEF Sleeping
<1>8. Ticks'
  <2>1. \A p \in Proc : pc'[p] = "add_timer" => pc[p] = "add_timer"
    BY <1>6
  <2>2. HeadExpired' <=> HeadExpired
    BY <1>1 DEF HeadExpired
  <2> QED BY <1>1, <2>1, <2>2 DEF WInv, Ticks
<1>9. ChildAlarm'
  <2>1. ASSUME NEW p \in Proc, wait_state'[p] = "WT_CHILD"
        PROVE  /\ KidsOf(p) # {}
               /\ \A c \in KidsOf(p) : state'[c] # "PROC_ZOMBIE"
    <3>1. wait_state[p] = "WT_CHILD" /\ p # up
      BY <1>5, <1>6, <2>1
    <3>2. KidsOf(p) # {} /\ \A c \in KidsOf(p) : state[c] # "PROC_ZOMBIE"
      BY <3>1 DEF WInv, ChildAlarm
    <3>3. ASSUME NEW c \in KidsOf(p) PROVE c \in Proc /\ c # current
      <4>1. c \in Range(children[p]) /\ c \in Proc
        BY <1>3 DEF KidsOf, Range
      <4>2. parent[c] = p
        BY <4>1 DEF WInv, IInv, Family, Kinship
      <4> QED BY <3>1, <4>1, <4>2
    <3> QED BY <1>6, <3>2, <3>3
  <2>2. \A p \in Proc : KidsOf(p)' = KidsOf(p)
    BY <1>1 DEF KidsOf
  <2> QED BY <2>1, <2>2 DEF ChildAlarm
<1>10. TimerAlarm' /\ KbdAlarm' /\ RingWoken' /\ IrqShape'
  BY <1>1, <1>6 DEF WInv, TimerAlarm, KbdAlarm, RingWoken, IrqShape
<1>11. Rooted'
  <2>1. \A q \in Proc : state[q] = "PROC_FREE" => state'[q] = "PROC_FREE"
    BY <1>2, <1>6
  <2> QED BY <1>1, <2>1, RootedFrame DEF WInv
<1> QED BY <1>5, <1>7, <1>8, <1>9, <1>10, <1>11 DEF WInv, NoAssertionFails

\* The loop of do_exit: initproc gets the child, and is woken if that is a zombie.
LEMMA ReparentKeeps == ASSUME WInv, IInv', Reparent PROVE WInv'
<1> USE ProcAssumption
<1> DEFINE p == Head(children[current])
<1>1. /\ pc[current] = "reparent" /\ irq = << >> /\ panic = "none"
      /\ children[current] # << >>
      /\ children' = [children EXCEPT ![current] = Tail(@), ![initproc] = <<p>> \o @]
      /\ parent' = [parent EXCEPT ![p] = initproc]
      /\ IF state[p] = "PROC_ZOMBIE" THEN NotifyParent(state, initproc)
         ELSE UNCHANGED <<state, wait_state, run_list, time_slice, panic>>
      /\ UNCHANGED <<current, pc, wait_pid, timer_list, expires, le, wait_queue, unread, irq>>
  BY DEF Reparent, At, timer_vars, stdin_vars
<1>2. /\ current \in Proc /\ current # idleproc /\ current # initproc
  BY <1>1, LiveSlots DEF WInv, InitLabel
<1>3. /\ children \in [Proc -> Seq(Proc)] /\ parent \in [Proc -> Proc]
      /\ wait_state \in [Proc -> WaitState] /\ state \in [Proc -> ProcState] /\ Sleeping
  BY DEF WInv, IInv, TypeOK
<1>4. p \in Proc /\ p \in Range(children[current]) /\ Tail(children[current]) \in Seq(Proc)
  BY <1>1, <1>2, <1>3, TailElements
<1> HIDE DEF p
<1>5. /\ panic' # "assertion"
      /\ \A q \in Proc :
            \/ state'[q] = state[q] /\ wait_state'[q] = wait_state[q]
            \/ state[q] = "PROC_SLEEPING" /\ state'[q] = "PROC_RUNNABLE" /\ wait_state'[q] = "NONE"
      /\ state[p] = "PROC_ZOMBIE" => wait_state'[initproc] # "WT_CHILD"
  <2>1. CASE state[p] = "PROC_ZOMBIE"
    <3>1. NotifyParent(state, initproc)
      BY <1>1, <2>1
    <3>2. state \in [Proc -> ProcState] /\ initproc \in Proc
      BY <1>3, ProcAssumption
    <3>3. /\ panic' # "assertion"
          /\ wait_state'[initproc] # "WT_CHILD"
          /\ \A q \in Proc :
                \/ state'[q] = state[q] /\ wait_state'[q] = wait_state[q]
                \/ /\ q = initproc /\ wait_state[initproc] = "WT_CHILD"
                   /\ state[initproc] = "PROC_SLEEPING"
                   /\ state'[initproc] = "PROC_RUNNABLE" /\ wait_state'[initproc] = "NONE"
      BY ONLY WInv, <3>1, <3>2, NotifyResult
    <3> QED BY <3>3
  <2>2. CASE state[p] # "PROC_ZOMBIE"
    BY <1>1, <2>2
  <2> QED BY <2>1, <2>2
<1>6. /\ OnlyWakes /\ AwakeMoves
      /\ \A q \in Proc : state'[q] = "PROC_ZOMBIE" => state[q] = "PROC_ZOMBIE"
      /\ \A q \in Proc : state[q] = "PROC_FREE" => state'[q] = "PROC_FREE"
      /\ \A q \in Proc : wait_state'[q] # "NONE" => wait_state'[q] = wait_state[q]
  BY <1>1, <1>5 DEF OnlyWakes, AwakeMoves
<1>7. Sleeping'
  <2>1. pc'[current] \in Blocked
    BY <1>1 DEF Blocked
  <2> QED BY <1>1, <1>3, <1>6, <2>1, SleepingFrame
<1>8. Ticks'
  BY <1>1, <1>6, TicksFrame DEF WInv
<1>9. /\ Range(children'[initproc]) = Range(children[initproc]) \union {p}
      /\ \A q \in Proc \ {current, initproc} : children'[q] = children[q]
  <2>1. children'[initproc] = <<p>> \o children[initproc]
    BY <1>1, <1>2, <1>3
  <2>2. Range(<<p>> \o children[initproc]) = Range(children[initproc]) \union {p}
    BY <1>3, <1>4, ConsElements
  <2> QED BY <1>1, <1>2, <1>3, <2>1, <2>2
<1>10. ChildAlarm'
  <2>1. ASSUME NEW q \in Proc, wait_state'[q] = "WT_CHILD"
        PROVE  /\ KidsOf(q)' # {}
               /\ \A c \in KidsOf(q)' : state'[c] # "PROC_ZOMBIE"
    <3>1. /\ wait_state[q] = "WT_CHILD" /\ q # current
      BY <1>1, <1>3, <1>6, <2>1 DEF Sleeping
    <3>2. KidsOf(q) # {} /\ \A c \in KidsOf(q) : state[c] # "PROC_ZOMBIE"
      BY <3>1 DEF WInv, ChildAlarm
    <3>3. KidsOf(q) \subseteq Proc
      BY <1>3 DEF KidsOf, Range
    <3>4. CASE q # initproc
      <4>1. KidsOf(q)' = KidsOf(q)
        BY <1>1, <1>9, <3>1, <3>4 DEF KidsOf, AnyChild
      <4> QED BY <1>6, <3>2, <3>3, <4>1
    <3>5. CASE q = initproc
      <4>1. wait_pid[initproc] = AnyChild
        BY DEF WInv, Rooted
      <4>2. /\ KidsOf(q) = Range(children[initproc])
            /\ KidsOf(q)' = Range(children'[initproc])
        BY <1>1, <3>5, <4>1 DEF KidsOf, AnyChild
      <4>3. state[p] # "PROC_ZOMBIE"
        BY <1>5, <2>1, <3>5
      <4> QED BY <1>4, <1>6, <1>9, <3>2, <3>3, <4>2, <4>3
    <3> QED BY <3>4, <3>5
  <2> QED BY <2>1 DEF ChildAlarm
<1>11. TimerAlarm' /\ KbdAlarm' /\ RingWoken' /\ IrqShape'
  BY <1>1, <1>6 DEF WInv, TimerAlarm, KbdAlarm, RingWoken, IrqShape
<1>12. Rooted'
  <2>1. children'[idleproc] = <<initproc>> /\ wait_pid'[initproc] = AnyChild
    BY <1>1, <1>2, <1>9 DEF WInv, Rooted, AnyChild
  <2>2. UserProcs' \subseteq UserProcs /\ initproc \notin UserProcs /\ UserProcs \subseteq Proc
    BY <1>6 DEF UserProcs, Live
  <2>3. ASSUME NEW S \in SUBSET UserProcs', S # {} PROVE \E q \in S : parent'[q] \notin S
    <3>1. PICK q \in S : parent[q] \notin S
      BY <2>2, <2>3 DEF WInv, Rooted
    <3>2. parent'[q] = IF q = p THEN initproc ELSE parent[q]
      BY <1>1, <1>3, <2>2
    <3> QED BY <2>2, <3>1, <3>2
  <2> QED BY <2>1, <2>3 DEF Rooted, AnyChild
<1> QED BY <1>5, <1>7, <1>8, <1>10, <1>11, <1>12 DEF WInv, NoAssertionFails

\* do_wait takes a child of its own, which is neither initproc nor idleproc.
LEMMA ReapFacts ==
    ASSUME WInv, NEW p \in Proc, WaitReap(p)
    PROVE  /\ state[p] = "PROC_ZOMBIE" /\ parent[p] = current /\ p \in Range(children[current])
           /\ p # idleproc /\ p # initproc /\ p # current
           /\ current \in Proc /\ current # idleproc
           /\ state[current] = "PROC_RUNNABLE" /\ wait_state[current] = "NONE"
<1>1. pc[current] = "wait" /\ p \in Kids /\ state[p] = "PROC_ZOMBIE"
  BY DEF WaitReap, At, FirstZombie
<1>2. "wait" \notin Blocked
  BY DEF Blocked
<1>3. /\ current \in Proc /\ state[current] = "PROC_RUNNABLE" /\ wait_state[current] = "NONE"
      /\ current # idleproc /\ p # idleproc /\ p # initproc /\ p # current
  BY <1>1, <1>2, AwakeHere, LiveSlots DEF WInv
<1>4. parent[p] = current /\ p \in Range(children[current])
  <2>1. CASE wait_pid[current] = AnyChild
    BY <1>1, <1>3, <2>1 DEF Kids, WInv, IInv, Family, Kinship
  <2>2. CASE wait_pid[current] # AnyChild
    <3>1. Live(p) /\ parent[p] = current
      BY <1>1, <2>2 DEF Kids
    <3> QED BY <1>3, <3>1 DEF WInv, IInv, Family, Kinship
  <2> QED BY <2>1, <2>2
<1> QED BY <1>1, <1>3, <1>4

\* do_wait frees the zombie: nobody but the parent had it as a child.
LEMMA ReapKeeps == ASSUME WInv, IInv', NEW p \in Proc, WaitReap(p) PROVE WInv'
<1> USE ProcAssumption
<1>1. /\ irq = << >> /\ panic = "none" /\ kassert(p \notin {idleproc, initproc})
      /\ state' = [state EXCEPT ![p] = "PROC_FREE"]
      /\ remove_links(p)
      /\ wait_pid' = [wait_pid EXCEPT ![p] = idleproc, ![current] = idleproc]
      /\ \E to \in {"init_sched", "trapret"} :
            pc' = [pc EXCEPT ![p] = "free", ![current] = to]
      /\ UNCHANGED <<wait_state, current, timer_list, expires, le, wait_queue, unread, irq>>
  BY DEF WaitReap, At, timer_vars, stdin_vars
<1>2. /\ state[p] = "PROC_ZOMBIE" /\ parent[p] = current /\ p \in Range(children[current])
      /\ p # idleproc /\ p # initproc /\ p # current
      /\ current \in Proc /\ current # idleproc
      /\ state[current] = "PROC_RUNNABLE" /\ wait_state[current] = "NONE"
  BY ReapFacts
<1>3. /\ children \in [Proc -> Seq(Proc)] /\ parent \in [Proc -> Proc]
      /\ wait_state \in [Proc -> WaitState] /\ state \in [Proc -> ProcState] /\ Sleeping
      /\ pc \in [Proc -> Label] /\ wait_pid \in [Proc -> Proc]
  BY DEF WInv, IInv, TypeOK
<1>4. /\ wait_state[p] = "NONE" /\ panic' # "assertion"
  BY <1>1, <1>2, <1>3 DEF Sleeping, kassert
<1>5. /\ \A q \in Proc : state'[q] = IF q = p THEN "PROC_FREE" ELSE state[q]
      /\ \A q \in Proc : q = p \/ q = current \/ (pc'[q] = pc[q] /\ wait_pid'[q] = wait_pid[q])
      /\ pc'[p] = "free" /\ pc'[current] \in {"init_sched", "trapret"}
      /\ wait_pid'[current] = AnyChild
      /\ \A q \in Proc \ {current} : children'[q] = children[q]
      /\ \A q \in Proc \ {p} : parent'[q] = parent[q]
  BY <1>1, <1>2, <1>3 DEF remove_links, AnyChild
<1>6. AwakeMoves
  BY <1>1, <1>2, <1>4, <1>5 DEF AwakeMoves
<1>7. Sleeping'
  <2>1. state'[current] = "PROC_RUNNABLE" /\ state'[idleproc] = "PROC_RUNNABLE"
    BY <1>2, <1>3, <1>5 DEF Sleeping
  <2>2. ASSUME NEW q \in Proc
        PROVE  /\ wait_state[q] # "NONE" <=> state'[q] = "PROC_SLEEPING"
               /\ wait_state[q] = "WT_CHILD" => pc'[q] \in {"wait_sched", "waited"}
               /\ wait_state[q] = "WT_TIMER" => pc'[q] \in {"add_timer", "sleep_sched", "slept"}
               /\ wait_state[q] = "WT_KBD" => pc'[q] \in {"read_sched", "read_woken"}
               /\ pc'[q] = "reparent" => q = current
    <3>1. CASE q \in {p, current}
      BY <1>2, <1>4, <1>5, <3>1
    <3>2. CASE q \notin {p, current}
      BY <1>3, <1>5, <3>2 DEF Sleeping
    <3> QED BY <3>1, <3>2
  <2> QED BY <1>1, <2>1, <2>2 DEF Sleeping
<1>8. Ticks'
  BY <1>1, <1>6, TicksFrame DEF WInv
<1>9. ChildAlarm'
  <2>1. \A q \in Proc : state'[q] = "PROC_ZOMBIE" => state[q] = "PROC_ZOMBIE"
    BY <1>5
  <2>2. \A q \in Proc : wait_state'[q] = "WT_CHILD" =>
           /\ wait_state[q] = "WT_CHILD"
           /\ children'[q] = children[q] /\ wait_pid'[q] = wait_pid[q]
    BY <1>1, <1>2, <1>4, <1>5
  <2> QED BY <1>3, <2>1, <2>2, ChildFrame DEF WInv
<1>10. TimerAlarm'
  BY <1>1, <1>2, <1>4, <1>5, TimerFrame DEF WInv
<1>11. KbdAlarm' /\ RingWoken' /\ IrqShape'
  BY <1>1 DEF WInv, KbdAlarm, RingWoken, IrqShape
<1>12. Rooted'
  <2>1. children'[idleproc] = <<initproc>> /\ wait_pid'[initproc] = AnyChild
    BY <1>2, <1>5 DEF WInv, Rooted, AnyChild
  <2>2. UserProcs' \subseteq UserProcs \ {p}
    BY <1>5 DEF UserProcs, Live
  <2>3. ASSUME NEW S \in SUBSET UserProcs', S # {} PROVE \E q \in S : parent'[q] \notin S
    <3>1. S \in SUBSET UserProcs /\ p \notin S /\ S \subseteq Proc
      BY <2>2 DEF UserProcs
    <3>2. PICK q \in S : parent[q] \notin S
      BY <2>3, <3>1 DEF WInv, Rooted
    <3> QED BY <1>5, <3>1, <3>2
  <2> QED BY <2>1, <2>3 DEF Rooted, AnyChild
<1> QED BY <1>4, <1>7, <1>8, <1>9, <1>10, <1>11, <1>12 DEF WInv, NoAssertionFails

\* schedule(): who sleeps has done all there is to do before it, and idleproc or
\* a runnable process gets the CPU.
LEMMA ScheduleKeeps == ASSUME WInv, IInv', Schedule PROVE WInv'
<1> USE ProcAssumption
<1>1. /\ irq = << >> /\ panic = "none" /\ schedule
      /\ \/ pc[current] \in DOMAIN After /\ pc' = [pc EXCEPT ![current] = After[pc[current]]]
         \/ pc[current] = "reparent" /\ pc' = [pc EXCEPT ![current] = "zombie"]
         \/ pc[current] = "idle" /\ UNCHANGED pc
      /\ UNCHANGED <<state, wait_state, children, parent, wait_pid, timer_list, expires, le,
                     wait_queue, unread, irq>>
  BY DEF Schedule, Goto, schedule, family_vars, timer_vars, stdin_vars
<1>2. /\ current \in Proc /\ pc \in [Proc -> Label] /\ Sleeping
      /\ RunQueueExact /\ RunType
  BY DEF WInv, IInv, TypeOK, RunType
<1>3. panic' # "assertion"
  BY <1>1, <1>2 DEF schedule, kassert, RunQueueExact
<1>4. /\ state[current'] = "PROC_RUNNABLE"
      /\ current' = idleproc \/ state[current'] = "PROC_RUNNABLE"
  BY <1>1, <1>2, ScheduleEffect DEF Sleeping
<1>5. /\ \A q \in Proc \ {current} : pc'[q] = pc[q]
      /\ pc[current] # "add_timer" /\ pc'[current] \notin {"add_timer", "reparent"}
      /\ pc[current] \in {"wait_sched", "waited"} => pc'[current] = "waited"
      /\ pc[current] \in {"add_timer", "sleep_sched", "slept"} => pc'[current] = "slept"
      /\ pc[current] \in {"read_sched", "read_woken"} => pc'[current] = "read_woken"
  BY <1>1, <1>2, AfterValues
<1>6. Sleeping'
  <2>1. ASSUME NEW q \in Proc
        PROVE  /\ wait_state[q] # "NONE" <=> state[q] = "PROC_SLEEPING"
               /\ wait_state[q] = "WT_CHILD" => pc'[q] \in {"wait_sched", "waited"}
               /\ wait_state[q] = "WT_TIMER" => pc'[q] \in {"add_timer", "sleep_sched", "slept"}
               /\ wait_state[q] = "WT_KBD" => pc'[q] \in {"read_sched", "read_woken"}
               /\ pc'[q] # "reparent"
    <3>1. CASE q = current
      BY <1>2, <1>5, <3>1 DEF Sleeping
    <3>2. CASE q # current
      BY <1>2, <1>5, <3>2 DEF Sleeping
    <3> QED BY <3>1, <3>2
  <2> QED BY <1>1, <1>2, <1>4, <2>1 DEF Sleeping
<1>7. Ticks'
  <2>1. \A q \in Proc : pc'[q] = "add_timer" => pc[q] = "add_timer"
    BY <1>2, <1>5
  <2>2. HeadExpired' <=> HeadExpired
    BY <1>1 DEF HeadExpired
  <2> QED BY <1>1, <2>1, <2>2 DEF WInv, Ticks
<1>8. ChildAlarm'
  <2>1. \A q \in Proc : KidsOf(q)' = KidsOf(q)
    BY <1>1 DEF KidsOf
  <2> QED BY <1>1, <2>1 DEF WInv, ChildAlarm
<1>9. TimerAlarm'
  BY <1>1, <1>5 DEF WInv, TimerAlarm
<1>10. KbdAlarm' /\ RingWoken' /\ IrqShape'
  BY <1>1 DEF WInv, KbdAlarm, RingWoken, IrqShape
<1>11. Rooted'
  BY <1>1, RootedFrame DEF WInv
<1> QED BY <1>3, <1>6, <1>7, <1>8, <1>9, <1>10, <1>11 DEF WInv, NoAssertionFails

-----------------------------------------------------------------------------
(* The invariant.                                                          *)

\* What proc_init leaves behind satisfies the invariant.
LEMMA InitWInv == Init => WInv
<1> USE ProcAssumption
<1> SUFFICES ASSUME Init PROVE WInv
  OBVIOUS
<1>1. IInv /\ NoAssertionFails
  BY InitIInv DEF Init, NoAssertionFails
<1>2. Sleeping
  BY DEF Init, Sleeping
<1>3. Ticks /\ TimerAlarm /\ ChildAlarm /\ KbdAlarm
  BY DEF Init, Ticks, HeadExpired, TimerAlarm, ChildAlarm, KbdAlarm
<1>4. IrqShape /\ RingWoken
  BY DEF Init, IrqShape, RingWoken
<1>5. Rooted
  <2>1. UserProcs = {}
    BY DEF Init, UserProcs, Live
  <2> QED BY <2>1 DEF Init, Rooted, AnyChild
<1> QED BY <1>1, <1>2, <1>3, <1>4, <1>5 DEF WInv

\* The monitor, and every step outside the kernel, changes nothing.
LEMMA StutterKeeps == ASSUME WInv, IInv', UNCHANGED vars PROVE WInv'
<1>1. UNCHANGED <<state, wait_state, current, timer_list, expires, wait_queue, unread,
                  children, parent, wait_pid, pc, le, irq, panic>>
  BY DEF vars, run_vars, timer_vars, stdin_vars, proc_vars
<1>2. NoAssertionFails' /\ Sleeping' /\ IrqShape'
  BY <1>1 DEF WInv, NoAssertionFails, Sleeping, IrqShape
<1>3. Ticks' /\ TimerAlarm' /\ KbdAlarm' /\ RingWoken'
  BY <1>1 DEF WInv, Ticks, HeadExpired, TimerAlarm, KbdAlarm, RingWoken
<1>4. ChildAlarm'
  BY <1>1 DEF WInv, ChildAlarm, KidsOf
<1>5. Rooted'
  BY <1>1, RootedFrame DEF WInv
<1> QED BY <1>2, <1>3, <1>4, <1>5 DEF WInv

\* The system calls.
LEMMA SyscallKeeps == ASSUME WInv, IInv', Syscall PROVE WInv'
<1>1. CASE \/ SysExit \/ SysOther \/ SysYield
           \/ \E p \in Proc : SysWait(p)
           \/ \E n \in 1..MaxRead : SysRead(n) \/ SysWriteStdin(n)
  BY <1>1, SyscallSteady, SteadyKeeps
<1>2. ASSUME NEW p \in Proc, SysFork(p) PROVE WInv'
  <2>1. /\ At(pc[current]) /\ pc[current] = "user" /\ do_fork(p, "user", "trapret")
        /\ "user" \notin Blocked
    BY <1>2 DEF SysFork, At, Blocked
  <2> QED BY <2>1, ForkKeeps
<1>3. ASSUME NEW p \in KillTargets, SysKill(p) PROVE WInv'
  BY <1>3, KillKeeps, BoundAssumption
<1>4. ASSUME NEW time \in 1..MaxSleep, SysSleep(time) PROVE WInv'
  BY <1>4, SysSleepKeeps
<1> QED BY <1>1, <1>2, <1>3, <1>4 DEF Syscall

\* What the process at the CPU does inside the kernel.
LEMMA KernelKeeps == ASSUME WInv, IInv', KernelStep PROVE WInv'
<1>1. CASE Schedule
  BY <1>1, ScheduleKeeps
<1>2. CASE TrapReturn \/ Waited \/ UserMain \/ ReadDone \/ WaitNone \/ InitExit \/ InitEnd
  BY <1>2, KernelSteady, InitEndSteady, SteadyKeeps
<1>3. CASE AddTimerPass \/ AddTimerLink \/ SleepDone
  BY <1>3, AddTimerPassKeeps, AddTimerLinkKeeps, SleepDoneKeeps
<1>4. CASE ReadWait \/ ReadWoken \/ WaitSleep
  BY <1>4, ReadWaitKeeps, ReadWokenKeeps, WaitSleepKeeps
<1>5. ASSUME NEW p \in Proc, WaitReap(p) PROVE WInv'
  BY <1>5, ReapKeeps
<1>6. ASSUME NEW p \in Proc, InitMain(p) PROVE WInv'
  <2>1. /\ At(pc[current]) /\ pc[current] = "init_start" /\ do_fork(p, "user_main", "wait")
        /\ "init_start" \notin Blocked
    BY <1>6 DEF InitMain, At, Blocked
  <2> QED BY <2>1, ForkKeeps
<1>7. CASE Exit \/ Reparent
  BY <1>7, ExitKeeps, ReparentKeeps
<1> QED BY <1>1, <1>2, <1>3, <1>4, <1>5, <1>6, <1>7 DEF KernelStep

\* The invariant is inductive: every step of the system keeps it.
LEMMA NextWInv == WInv /\ [Next]_vars => WInv'
<1> SUFFICES ASSUME WInv, [Next]_vars PROVE WInv'
  OBVIOUS
<1>0. IInv'
  BY NextIInv DEF WInv
<1>1. CASE Syscall
  BY <1>0, <1>1, SyscallKeeps
<1>2. CASE Handler
  BY <1>0, <1>2, QuietHandlerKeeps, WakingHandlerKeeps DEF Handler
<1>3. CASE KernelStep
  BY <1>0, <1>3, KernelKeeps
<1>4. ASSUME NEW serial \in BOOLEAN, NEW keyboard \in BOOLEAN, NEW clock \in BOOLEAN,
             Interrupt(serial, keyboard, clock)
      PROVE  WInv'
  BY <1>0, <1>4, InterruptSteady, SteadyKeeps
<1>5. CASE UNCHANGED vars \/ Monitor
  BY <1>0, <1>5, StutterKeeps DEF Monitor
<1> QED BY <1>1, <1>2, <1>3, <1>4, <1>5 DEF Next

\* In every state the kernel can reach, a process that sleeps is where its code
\* sleeps and on the list that will wake it, the timer list and the handlers in
\* progress fit each other, and every line of parents leads to initproc.
THEOREM SleepersInvariance == Spec => []WInv
<1>1. Init => WInv
  BY InitWInv
<1>2. WInv /\ [Next]_vars => WInv'
  BY NextWInv
<1> QED BY <1>1, <1>2, PTL DEF Spec

\* No assertion of the scheduler, of the timer list, of do_wait or of the end of
\* init_main fails, whatever processes, system calls and interrupts there are.
THEOREM AssertionsHold == Spec => []NoAssertionFails
<1>1. WInv => NoAssertionFails
  BY DEF WInv
<1> QED BY <1>1, SleepersInvariance, PTL

\* Whoever sleeps has somebody left to end the sleep.
THEOREM NobodySleepsOn == Spec => []NoLostWakeup
<1>1. WInv => NoLostWakeup
  BY DEF WInv, NoLostWakeup, ChildAlarm, TimerAlarm, KbdAlarm
<1> QED BY <1>1, SleepersInvariance, PTL

-----------------------------------------------------------------------------
(* What a step does to the states of the processes.                        *)

\* Every step leaves the states and the CPU alone but these.
LEMMA StepKinds ==
    ASSUME [Next]_vars
    PROVE  \/ UNCHANGED <<state, current>>
           \/ Schedule \/ Exit \/ Reparent \/ WakeReader \/ ExpireTimer
           \/ \E p \in Proc : SysFork(p) \/ InitMain(p) \/ WaitReap(p)
           \/ \E p \in Proc : SysKill(p)
           \/ (\E time \in 1..MaxSleep : SysSleep(time)) \/ WaitSleep \/ ReadWait
<1>1. CASE Syscall
  <2>1. CASE \/ SysExit \/ SysOther \/ SysYield
             \/ \E p \in Proc : SysWait(p)
             \/ \E n \in 1..MaxRead : SysRead(n) \/ SysWriteStdin(n)
    BY <2>1 DEF SysExit, SysOther, SysYield, SysWait, SysRead, SysWriteStdin, Jump, run_vars
  <2>2. CASE \/ \E p \in Proc : SysFork(p)
             \/ \E p \in KillTargets : SysKill(p)
             \/ \E time \in 1..MaxSleep : SysSleep(time)
    BY <2>2, BoundAssumption
  <2> QED BY <1>1, <2>1, <2>2 DEF Syscall
<1>2. CASE Handler
  <2>1. CASE StdinWrite \/ WakeReaderDone \/ ClockTick \/ ProcTick
    BY <2>1 DEF StdinWrite, WakeReaderDone, ClockTick, ProcTick, run_vars
  <2> QED BY <1>2, <2>1 DEF Handler
<1>3. CASE KernelStep
  <2>1. CASE TrapReturn \/ Waited \/ UserMain \/ WaitNone \/ InitExit \/ InitEnd
    BY <2>1 DEF TrapReturn, Waited, UserMain, WaitNone, InitExit, InitEnd, Jump, run_vars
  <2>2. CASE AddTimerPass \/ AddTimerLink \/ SleepDone \/ ReadDone \/ ReadWoken
    BY <2>2 DEF AddTimerPass, AddTimerLink, SleepDone, ReadDone, ReadWoken, run_vars
  <2> QED BY <1>3, <2>1, <2>2 DEF KernelStep
<1>4. CASE \E serial, keyboard, clock \in BOOLEAN : Interrupt(serial, keyboard, clock)
  BY <1>4 DEF Interrupt, run_vars
<1>5. CASE UNCHANGED vars \/ Monitor
  BY <1>5 DEF Monitor, vars, run_vars
<1> QED BY <1>1, <1>2, <1>3, <1>4, <1>5 DEF Next

\* wakeup_proc, as far as the states go.
LEMMA WakeStates ==
    ASSUME NEW st, NEW p \in Proc, wakeup_proc(st, p)
    PROVE  \/ st[p] = "PROC_RUNNABLE" /\ state' = st
           \/ st[p] # "PROC_RUNNABLE" /\ state' = [st EXCEPT ![p] = "PROC_RUNNABLE"]
BY DEF wakeup_proc

\* Where the entries of the two lists of sleepers are, and what they wait for.
LEMMA ListedSleepers ==
    ASSUME WInv, NEW p \in Proc, state[p] = "PROC_SLEEPING"
    PROVE  /\ p \in Range(timer_list) => wait_state[p] = "WT_TIMER"
           /\ p \in Range(wait_queue) => wait_state[p] = "WT_KBD"
<1>1. wait_state[p] \in {"WT_CHILD", "WT_TIMER", "WT_KBD"}
  BY DEF WInv, IInv, TypeOK, Sleeping, WaitState
<1> QED BY <1>1 DEF WInv, IInv, Labels, Sleeping

\* A fork makes a free slot runnable, on behalf of a process that runs.
LEMMA ForkStates ==
    ASSUME WInv, NEW p \in Proc, SysFork(p) \/ InitMain(p)
    PROVE  /\ state[p] = "PROC_FREE" /\ state[current] = "PROC_RUNNABLE"
           /\ state' = [state EXCEPT ![p] = "PROC_RUNNABLE"]
           /\ UNCHANGED current
<1>1. /\ state[p] = "PROC_FREE" /\ wakeup_proc(state, p) /\ UNCHANGED current
      /\ pc[current] \in {"user", "init_start"}
  BY DEF SysFork, InitMain, At, do_fork
<1>2. state[current] = "PROC_RUNNABLE"
  BY <1>1, AwakeHere DEF Blocked
<1> QED BY <1>1, <1>2, WakeStates

\* A reader or a timer is on its list: the handlers wake sleepers, or nobody.
LEMMA HandlerStates ==
    ASSUME WInv, WakeReader \/ ExpireTimer
    PROVE  /\ UNCHANGED current
           /\ \/ UNCHANGED state
              \/ \E p \in Proc :
                    /\ state[p] = "PROC_SLEEPING"
                    /\ state' = [state EXCEPT ![p] = "PROC_RUNNABLE"]
                    /\ \/ wait_state[p] = "WT_TIMER" /\ expires[p] = 0 /\ Head(timer_list) = p
                       \/ wait_state[p] = "WT_KBD" /\ unread > 0
<1> DEFINE r == Head(wait_queue)
           h == Head(timer_list)
<1>1. timer_list \in Seq(Proc) /\ wait_queue \in Seq(Proc) /\ state \in [Proc -> ProcState]
  BY DEF WInv, IInv, TypeOK
<1>2. CASE WakeReader
  <2>1. /\ wait_queue # << >> /\ wakeup_proc(state, r) /\ UNCHANGED current
        /\ irq # << >> /\ Head(irq) = "wakeup"
    BY <1>2 DEF WakeReader, Handle, wakeup_wait
  <2>2. r \in Range(wait_queue)
    BY <1>1, <2>1, TailElements
  <2> HIDE DEF r
  <2>3. r \in Proc /\ state[r] \in {"PROC_RUNNABLE", "PROC_SLEEPING"}
    BY <1>1, <2>2, Listed DEF ProcState
  <2>4. unread > 0
    BY <2>1 DEF WInv, RingWoken
  <2>5. state[r] = "PROC_SLEEPING" => wait_state[r] = "WT_KBD"
    BY <2>2, <2>3, ListedSleepers
  <2> QED BY <2>1, <2>3, <2>4, <2>5, WakeStates
<1>3. CASE ExpireTimer
  <2>1. /\ timer_list # << >> /\ wakeup_proc(state, h) /\ UNCHANGED current
        /\ expires[h] = 0
    BY <1>3 DEF ExpireTimer, expire_timer, HeadExpired
  <2>2. h \in Range(timer_list) /\ h = Head(timer_list)
    BY <1>1, <2>1, TailElements
  <2> HIDE DEF h
  <2>3. h \in Proc /\ state[h] \in {"PROC_RUNNABLE", "PROC_SLEEPING"}
    BY <1>1, <2>2, Listed DEF ProcState
  <2>4. state[h] = "PROC_SLEEPING" => wait_state[h] = "WT_TIMER"
    BY <2>2, <2>3, ListedSleepers
  <2> QED BY <2>1, <2>2, <2>3, <2>4, WakeStates
<1> QED BY <1>2, <1>3

\* do_kill wakes at most the process it flags.
LEMMA KillStates ==
    ASSUME WInv, NEW p \in Proc, SysKill(p)
    PROVE  /\ UNCHANGED current /\ ~exiting[p] /\ exiting'[p]
           /\ \/ UNCHANGED state
              \/ /\ state[p] = "PROC_SLEEPING"
                 /\ state' = [state EXCEPT ![p] = "PROC_RUNNABLE"]
<1>1. /\ ~exiting[p] /\ exiting' = [exiting EXCEPT ![p] = TRUE] /\ UNCHANGED current
      /\ IF wait_state[p] # "NONE" THEN wakeup_proc(state, p) ELSE UNCHANGED state
  BY DEF SysKill
<1>2. exiting'[p]
  BY <1>1, Zenon DEF WInv, IInv, TypeOK
<1>3. wait_state[p] # "NONE" => state[p] = "PROC_SLEEPING"
  BY DEF WInv, Sleeping
<1> QED BY <1>1, <1>2, <1>3, WakeStates

\* do_sleep, do_wait and the read of stdin put the process at the CPU to sleep.
LEMMA SleepStates ==
    ASSUME WInv, (\E time \in 1..MaxSleep : SysSleep(time)) \/ WaitSleep \/ ReadWait
    PROVE  /\ current # idleproc /\ state[current] = "PROC_RUNNABLE"
           /\ state' = [state EXCEPT ![current] = "PROC_SLEEPING"]
           /\ UNCHANGED current
<1>1. /\ state' = [state EXCEPT ![current] = "PROC_SLEEPING"] /\ UNCHANGED current
      /\ pc[current] \in {"user", "wait", "read"}
  BY DEF SysSleep, WaitSleep, ReadWait, dev_stdin_read_wait, wait_current_set, At
<1> QED BY <1>1, AwakeHere, LiveSlots DEF WInv, Blocked

\* do_exit: the process becomes a zombie, and its parent is woken if it waits for
\* a child.
LEMMA ExitStates ==
    ASSUME WInv, Exit
    PROVE  LET zombie == [state EXCEPT ![current] = "PROC_ZOMBIE"]
               up == parent[current]
           IN  /\ current \notin {idleproc, initproc} /\ state[current] = "PROC_RUNNABLE"
               /\ UNCHANGED <<current, children>>
               /\ up \in Proc /\ current \in Range(children[up])
               /\ \/ state' = zombie
                  \/ /\ wait_state[up] = "WT_CHILD" /\ state[up] = "PROC_SLEEPING"
                     /\ up # current
                     /\ state' = [zombie EXCEPT ![up] = "PROC_RUNNABLE"]
<1> DEFINE zombie == [state EXCEPT ![current] = "PROC_ZOMBIE"]
           up == parent[current]
<1>1. /\ pc[current] = "exit" /\ current # initproc
      /\ NotifyParent(zombie, up) /\ UNCHANGED <<current, children>>
  BY DEF Exit, At, family_vars
<1>2. /\ current \in Proc /\ current # idleproc /\ Live(current)
      /\ state[current] = "PROC_RUNNABLE" /\ wait_state[current] = "NONE"
  <2>1. "exit" \notin Blocked
    BY DEF Blocked
  <2> QED BY <1>1, <2>1, AwakeHere, LiveSlots DEF WInv
<1>3. /\ up \in Proc /\ current \in Range(children[up]) /\ state \in [Proc -> ProcState]
  BY <1>2 DEF WInv, IInv, TypeOK, Family, Kinship
<1>4. CASE wait_state[up] = "WT_CHILD"
  <2>1. state[up] = "PROC_SLEEPING" /\ up # current
    BY <1>2, <1>3, <1>4 DEF WInv, Sleeping
  <2>2. zombie[up] # "PROC_RUNNABLE"
    BY <1>2, <1>3, <2>1
  <2>3. wakeup_proc(zombie, up)
    BY <1>1, <1>4 DEF NotifyParent
  <2>4. state' = [zombie EXCEPT ![up] = "PROC_RUNNABLE"]
    BY <1>3, <2>2, <2>3, WakeStates
  <2> QED BY <1>1, <1>2, <1>3, <1>4, <2>1, <2>4
<1>5. CASE wait_state[up] # "WT_CHILD"
  BY <1>1, <1>2, <1>3, <1>5 DEF NotifyParent
<1> QED BY <1>4, <1>5

\* The loop of do_exit wakes initproc at most, and for a zombie.
LEMMA ReparentStates ==
    ASSUME WInv, Reparent
    PROVE  /\ UNCHANGED current
           /\ \/ UNCHANGED state
              \/ /\ wait_state[initproc] = "WT_CHILD" /\ state[initproc] = "PROC_SLEEPING"
                 /\ state' = [state EXCEPT ![initproc] = "PROC_RUNNABLE"]
                 /\ \E c \in Range(children'[initproc]) : state'[c] = "PROC_ZOMBIE"
<1> USE ProcAssumption
<1> DEFINE c == Head(children[current])
<1>1. /\ children[current] # << >> /\ UNCHANGED current
      /\ children' = [children EXCEPT ![current] = Tail(@), ![initproc] = <<c>> \o @]
      /\ IF state[c] = "PROC_ZOMBIE" THEN NotifyParent(state, initproc) ELSE UNCHANGED state
      /\ pc[current] = "reparent"
  BY DEF Reparent, At
<1>2. /\ current \in Proc /\ current # initproc
      /\ children \in [Proc -> Seq(Proc)] /\ state \in [Proc -> ProcState]
  BY <1>1, LiveSlots DEF WInv, IInv, TypeOK, InitLabel
<1>3. c \in Proc
  BY <1>1, <1>2, TailElements
<1> HIDE DEF c
<1>4. CASE state[c] = "PROC_ZOMBIE" /\ wait_state[initproc] = "WT_CHILD"
  <2>1. wakeup_proc(state, initproc) /\ state[initproc] = "PROC_SLEEPING"
    BY <1>1, <1>4 DEF NotifyParent, WInv, Sleeping
  <2>2. state' = [state EXCEPT ![initproc] = "PROC_RUNNABLE"]
    BY <2>1, WakeStates
  <2>3. children'[initproc] = <<c>> \o children[initproc]
    BY <1>1, <1>2
  <2>4. c \in Range(children'[initproc])
    BY <1>2, <1>3, <2>3, ConsElements
  <2>5. state'[c] = "PROC_ZOMBIE"
    BY <1>2, <1>3, <1>4, <2>1, <2>2
  <2> QED BY <1>1, <1>4, <2>1, <2>2, <2>4, <2>5
<1>5. CASE ~(state[c] = "PROC_ZOMBIE" /\ wait_state[initproc] = "WT_CHILD")
  BY <1>1, <1>5 DEF NotifyParent
<1> QED BY <1>4, <1>5

\* do_wait frees a zombie and changes nobody else.
LEMMA ReapStates ==
    ASSUME WInv, NEW p \in Proc, WaitReap(p)
    PROVE  /\ state[current] = "PROC_RUNNABLE" /\ state[p] = "PROC_ZOMBIE"
           /\ state' = [state EXCEPT ![p] = "PROC_FREE"]
           /\ UNCHANGED current
BY ReapFacts DEF WaitReap

-----------------------------------------------------------------------------
(* What no step ever does.                                                 *)

\* Only do_wait frees a process, and the zombie it takes is off the CPU for ever.
LEMMA FreedByReap ==
    ASSUME WInv, [Next]_vars, NEW p \in Proc, Live(p), state'[p] = "PROC_FREE"
    PROVE  WaitReap(p)
<1>1. state \in [Proc -> ProcState] /\ state[p] # "PROC_FREE" /\ current \in Proc
  BY DEF WInv, IInv, TypeOK, Live
<1>2. ~UNCHANGED state
  BY <1>1
<1>3. ~Schedule
  BY <1>2 DEF Schedule, schedule
<1>4. ~Exit /\ ~Reparent
  BY <1>1, <1>2, ExitStates, ReparentStates
<1>5. ~WakeReader /\ ~ExpireTimer
  BY <1>1, <1>2, HandlerStates
<1>6. \A q \in Proc : ~SysFork(q) /\ ~InitMain(q) /\ ~SysKill(q)
  BY <1>1, <1>2, ForkStates, KillStates
<1>7. ~(\E time \in 1..MaxSleep : SysSleep(time)) /\ ~WaitSleep /\ ~ReadWait
  BY <1>1, SleepStates
<1>8. PICK q \in Proc : WaitReap(q)
  BY <1>2, <1>3, <1>4, <1>5, <1>6, <1>7, StepKinds
<1>9. q = p
  BY <1>1, <1>8, ReapStates
<1> QED BY <1>8, <1>9

\* A process is freed once it is a zombie that has left the CPU, by its parent,
\* and with no child of its own: do_wait never takes a half-dead process.
THEOREM FreedByItsParent == Spec => ReapedByParent
<1>1. ASSUME WInv, [Next]_vars, NEW p \in Proc, Live(p), state'[p] = "PROC_FREE"
      PROVE  /\ state[p] = "PROC_ZOMBIE" /\ pc[p] = "zombie"
             /\ parent[p] = current /\ children[p] = << >>
  <2>1. /\ state[p] = "PROC_ZOMBIE" /\ parent[p] = current /\ p # current
    BY <1>1, FreedByReap, ReapFacts
  <2>2. pc[p] = "zombie"
    BY <1>1, <2>1 DEF WInv, IInv, Labels, Sleeping
  <2>3. children[p] = << >>
    BY <1>1, <2>1 DEF WInv, IInv, Family, Kinship
  <2> QED BY <2>1, <2>2, <2>3
<1> DEFINE Reaped == \A p \in Proc :
                        Live(p) /\ state'[p] = "PROC_FREE" =>
                           /\ state[p] = "PROC_ZOMBIE"
                           /\ pc[p] = "zombie"
                           /\ parent[p] = current
                           /\ children[p] = << >>
<1>2. WInv /\ [Next]_vars => [Reaped]_vars
  BY <1>1
<1> HIDE DEF Reaped
<1>3. Spec => [][Reaped]_vars
  BY <1>2, SleepersInvariance, PTL DEF Spec
<1> QED BY <1>3 DEF Reaped, ReapedByParent

\* A sleeper is woken for what it sleeps for, or because it is killed.
THEOREM WokenForCause == Spec => NoSpuriousWakeup
<1> DEFINE Cause(p) ==
              \/ ~exiting[p] /\ exiting'[p]
              \/ wait_state[p] = "WT_CHILD" /\
                    \E c \in Range(children'[p]) : state'[c] = "PROC_ZOMBIE"
              \/ wait_state[p] = "WT_TIMER" /\ expires[p] = 0 /\ Head(timer_list) = p
              \/ wait_state[p] = "WT_KBD" /\ unread > 0
<1>1. ASSUME WInv, [Next]_vars, NEW p \in Proc,
             state[p] = "PROC_SLEEPING", state'[p] = "PROC_RUNNABLE"
      PROVE  Cause(p)
  <2>1. state \in [Proc -> ProcState] /\ current \in Proc
    BY <1>1 DEF WInv, IInv, TypeOK
  <2>2. ~UNCHANGED state
    BY <1>1
  <2>3. ~Schedule
    BY <2>2 DEF Schedule, schedule
  <2>4. \A q \in Proc : ~SysFork(q) /\ ~InitMain(q)
    BY <1>1, <2>1, ForkStates
  <2>5. \A q \in Proc : ~WaitReap(q)
    BY <1>1, <2>1, ReapStates
  <2>6. ~(\E time \in 1..MaxSleep : SysSleep(time)) /\ ~WaitSleep /\ ~ReadWait
    BY <1>1, <2>1, SleepStates
  <2>7. CASE \E q \in Proc : SysKill(q)
    BY <1>1, <2>1, <2>2, <2>7, KillStates
  <2>8. CASE WakeReader \/ ExpireTimer
    <3>1. PICK q \in Proc :
             /\ state' = [state EXCEPT ![q] = "PROC_RUNNABLE"]
             /\ \/ wait_state[q] = "WT_TIMER" /\ expires[q] = 0 /\ Head(timer_list) = q
                \/ wait_state[q] = "WT_KBD" /\ unread > 0
      BY <1>1, <2>2, <2>8, HandlerStates
    <3>2. q = p
      BY <1>1, <2>1, <3>1
    <3> QED BY <3>1, <3>2
  <2>9. CASE Exit
    <3> DEFINE zombie == [state EXCEPT ![current] = "PROC_ZOMBIE"]
    <3>1. p # current
      BY <1>1, <2>9, ExitStates
    <3>2. /\ current \in Range(children'[parent[current]])
          /\ wait_state[parent[current]] = "WT_CHILD" /\ parent[current] # current
          /\ parent[current] \in Proc
          /\ state' = [zombie EXCEPT ![parent[current]] = "PROC_RUNNABLE"]
      BY <1>1, <2>1, <2>9, <3>1, ExitStates
    <3>3. parent[current] = p /\ state'[current] = "PROC_ZOMBIE"
      BY <1>1, <2>1, <3>1, <3>2
    <3> QED BY <3>2, <3>3
  <2>10. CASE Reparent
    BY <1>1, <2>1, <2>2, <2>10, ReparentStates
  <2> QED BY <1>1, <2>2, <2>3, <2>4, <2>5, <2>6, <2>7, <2>8, <2>9, <2>10, StepKinds
<1> DEFINE Woken == \A p \in Proc :
                       state[p] = "PROC_SLEEPING" /\ state'[p] = "PROC_RUNNABLE" => Cause(p)
<1>2. WInv /\ [Next]_vars => [Woken]_vars
  BY <1>1
<1> HIDE DEF Woken
<1>3. Spec => [][Woken]_vars
  BY <1>2, SleepersInvariance, PTL DEF Spec
<1> QED BY <1>3 DEF Woken, NoSpuriousWakeup

\* Every step of the kernel is one of those the diagram of proc.c draws, or changes
\* neither the states nor the process at the CPU.
LEMMA LifecycleStep ==
    ASSUME WInv, [Next]_vars
    PROVE  [LC!Next]_<<state, current>>
<1>1. state \in [Proc -> ProcState] /\ current \in Proc
  BY DEF WInv, IInv, TypeOK
<1>2. CASE Schedule
  <2>1. UNCHANGED state /\ state[current'] = "PROC_RUNNABLE" /\ current' \in Proc
    <3>1. RunType /\ RunQueueExact /\ schedule
      BY <1>2 DEF WInv, IInv, TypeOK, RunType, Schedule
    <3>2. /\ UNCHANGED state /\ RunType'
          /\ current' = idleproc \/ state[current'] = "PROC_RUNNABLE"
      BY <3>1, ScheduleEffect
    <3> QED BY <3>2, ProcAssumption DEF WInv, Sleeping, RunType
  <2>2. LC!Dispatch(current')
    BY <2>1 DEF LC!Dispatch, LC!Is
  <2> QED BY <2>1, <2>2 DEF LC!Next
<1>3. CASE Exit
  <2>1. LC!Exit
    BY <1>3, ExitStates DEF LC!Exit, LC!Is
  <2> QED BY <2>1 DEF LC!Next
<1>4. CASE Reparent
  <2>1. UNCHANGED <<state, current>> \/ LC!Wakeup(initproc)
    BY <1>4, ReparentStates DEF LC!Wakeup, LC!Is
  <2> QED BY <2>1, ProcAssumption DEF LC!Next
<1>5. CASE WakeReader \/ ExpireTimer
  <2>1. UNCHANGED <<state, current>> \/ \E p \in Proc : LC!Wakeup(p)
    BY <1>5, HandlerStates DEF LC!Wakeup, LC!Is
  <2> QED BY <2>1 DEF LC!Next
<1>6. ASSUME NEW p \in Proc, SysFork(p) \/ InitMain(p) \/ WaitReap(p)
      PROVE  [LC!Next]_<<state, current>>
  <2>1. LC!Create(p) \/ LC!Reap(p)
    BY <1>6, ForkStates, ReapStates DEF LC!Create, LC!Reap, LC!Is
  <2> QED BY <2>1 DEF LC!Next
<1>7. ASSUME NEW p \in Proc, SysKill(p) PROVE [LC!Next]_<<state, current>>
  <2>1. UNCHANGED <<state, current>> \/ LC!Wakeup(p)
    BY <1>7, KillStates DEF LC!Wakeup, LC!Is
  <2> QED BY <2>1 DEF LC!Next
<1>8. CASE (\E time \in 1..MaxSleep : SysSleep(time)) \/ WaitSleep \/ ReadWait
  <2>1. LC!Sleep
    BY <1>8, SleepStates DEF LC!Sleep, LC!Is
  <2> QED BY <2>1 DEF LC!Next
<1> QED BY <1>2, <1>3, <1>4, <1>5, <1>6, <1>7, <1>8, StepKinds

\* The kernel takes processes through their lives as the diagram of proc.c says:
\* with the same states and the same process at the CPU, Process implements
\* Lifecycle.
THEOREM KernelImplementsLifecycle == Spec => ImplementsLifecycle
<1>1. Init => LC!Init
  BY DEF Init, LC!Init
<1>2. WInv /\ [Next]_vars => [LC!Next]_<<state, current>>
  BY LifecycleStep
<1>3. Spec => LC!Init /\ [][LC!Next]_<<state, current>>
  BY <1>1, <1>2, SleepersInvariance, PTL DEF Spec
<1> QED BY <1>3 DEF ImplementsLifecycle, LC!Spec, LC!lifecycle_vars

-----------------------------------------------------------------------------
(* Sums over a list of timers: what SumTo of Process adds up.              *)

\* What the recursive function of SumTo adds at entry i.
Added(sum, more, i) == IF i = 0 THEN 0 ELSE sum[i-1] + more[i]

\* The sums exist up to any entry: shown for the least for which they would not,
\* from the sums up to the one before it.
LEMMA SumExists ==
    ASSUME NEW more, NEW N \in Nat
    PROVE  \E f : f = [i \in 0..N |-> Added(f, more, i)]
<1> DEFINE Exists(m) == \E f : f = [i \in 0..m |-> Added(f, more, i)]
           Failing == {m \in Nat : ~Exists(m)}
<1>1. Exists(0)
  <2> DEFINE f == [i \in 0..0 |-> 0]
  <2>1. f = [i \in 0..0 |-> Added(f, more, i)]
    <3> HIDE DEF f
    <3>1. \A i \in 0..0 : Added(f, more, i) = 0
      BY DEF Added
    <3> QED BY <3>1 DEF f
  <2> QED BY <2>1
<1>2. ASSUME NEW m \in Nat, Exists(m) PROVE Exists(m + 1)
  <2>1. PICK g : g = [i \in 0..m |-> Added(g, more, i)]
    BY <1>2
  <2> DEFINE f == [i \in 0..m+1 |-> Added(g, more, i)]
  <2>2. \A i \in 0..m : f[i] = g[i]
    BY <2>1
  <2>3. f = [i \in 0..m+1 |-> Added(g, more, i)]
    OBVIOUS
  <2> HIDE DEF f
  <2>4. ASSUME NEW i \in 0..m+1 PROVE Added(g, more, i) = Added(f, more, i)
    <3>1. CASE i = 0
      BY <3>1 DEF Added
    <3>2. CASE i # 0
      <4>1. i - 1 \in 0..m
        BY <3>2
      <4> QED BY <4>1, <2>2 DEF Added
    <3> QED BY <3>1, <3>2
  <2>5. f = [i \in 0..m+1 |-> Added(f, more, i)]
    BY <2>3, <2>4
  <2> QED BY <2>5
<1>3. Failing = {}
  <2> SUFFICES ASSUME Failing # {} PROVE FALSE
    OBVIOUS
  <2>1. PICK n \in Failing : \A m \in Failing : n <= m
    <3>1. Failing \in SUBSET Nat
      OBVIOUS
    <3> HIDE DEF Failing
    <3> QED BY <3>1, LeastNatural
  <2>2. n \in Nat /\ ~Exists(n)
    BY <2>1
  <2>3. n # 0
    BY <1>1, <2>2
  <2>4. n - 1 \in Nat /\ n - 1 \notin Failing /\ (n - 1) + 1 = n
    <3> HIDE DEF Failing
    <3> QED BY <2>1, <2>2, <2>3
  <2>5. Exists(n - 1)
    BY <2>4
  <2> HIDE DEF Exists
  <2>6. Exists((n - 1) + 1)
    BY <1>2, <2>4, <2>5
  <2> QED BY <2>2, <2>4, <2>6
<1>4. N \notin Failing
  BY <1>3
<1> QED BY <1>4

\* The first n entries have the ticks of the first n - 1 and those of entry n.
LEMMA SumSteps ==
    ASSUME NEW s \in Seq(Proc), NEW ticks \in [Proc -> Nat]
    PROVE  /\ SumTo(s, ticks, 0) = 0
           /\ \A i \in 1..Len(s) : SumTo(s, ticks, i) = SumTo(s, ticks, i - 1) + ticks[s[i]]
<1> DEFINE Sums(f) == f = [i \in 0..Len(s) |-> IF i = 0 THEN 0 ELSE f[i-1] + ticks[s[i]]]
           more == [i \in 1..Len(s) |-> ticks[s[i]]]
           sum == CHOOSE f : Sums(f)
<1>1. Len(s) \in Nat
  BY LenProperties
<1>2. \E f : Sums(f)
  <2>1. \A i \in 1..Len(s) : more[i] = ticks[s[i]]
    OBVIOUS
  <2> HIDE DEF more
  <2>2. PICK f : f = [i \in 0..Len(s) |-> Added(f, more, i)]
    BY <1>1, SumExists
  <2>3. ASSUME NEW i \in 0..Len(s)
        PROVE  Added(f, more, i) = IF i = 0 THEN 0 ELSE f[i-1] + ticks[s[i]]
    BY <1>1, <2>1 DEF Added
  <2>4. Sums(f)
    BY <2>2, <2>3
  <2> QED BY <2>4
<1>3. Sums(sum)
  BY <1>2
<1>4. \A n : SumTo(s, ticks, n) = sum[n]
  BY DEF SumTo
<1> HIDE DEF sum
<1>5. \A i \in 0..Len(s) : sum[i] = IF i = 0 THEN 0 ELSE sum[i-1] + ticks[s[i]]
  BY <1>3
<1>6. sum[0] = 0
  BY <1>1, <1>5
<1>7. ASSUME NEW i \in 1..Len(s) PROVE sum[i] = sum[i - 1] + ticks[s[i]]
  BY <1>1, <1>5
<1> QED BY <1>4, <1>6, <1>7

\* Whatever adds up in this way is the sum: the least entry at which it differed would
\* differ at the one before it.
LEMMA SumIs ==
    ASSUME NEW s \in Seq(Proc), NEW ticks \in [Proc -> Nat], NEW f,
           f[0] = 0, \A i \in 1..Len(s) : f[i] = f[i - 1] + ticks[s[i]]
    PROVE  \A i \in 0..Len(s) : SumTo(s, ticks, i) = f[i]
<1> DEFINE Failing == {i \in 0..Len(s) : SumTo(s, ticks, i) # f[i]}
<1>1. Len(s) \in Nat
  BY LenProperties
<1>2. Failing = {}
  <2> SUFFICES ASSUME Failing # {} PROVE FALSE
    OBVIOUS
  <2>1. PICK n \in Failing : \A m \in Failing : n <= m
    <3>1. Failing \in SUBSET Nat
      BY <1>1
    <3> HIDE DEF Failing
    <3> QED BY <3>1, LeastNatural
  <2>2. n \in 0..Len(s) /\ SumTo(s, ticks, n) # f[n]
    BY <2>1
  <2>3. n # 0
    BY <2>2, SumSteps
  <2>4. n \in 1..Len(s) /\ n - 1 \in 0..Len(s) /\ ~(n <= n - 1)
    BY <1>1, <2>2, <2>3
  <2>5. n - 1 \notin Failing
    <3> HIDE DEF Failing
    <3> QED BY <2>1, <2>4
  <2>6. SumTo(s, ticks, n - 1) = f[n - 1]
    BY <2>4, <2>5
  <2> QED BY <2>2, <2>4, <2>6, SumSteps
<1> QED BY <1>2

\* The same of whatever adds up.
LEMMA SumIsAll ==
    ASSUME NEW s \in Seq(Proc), NEW ticks \in [Proc -> Nat]
    PROVE  \A g : g[0] = 0 /\ (\A i \in 1..Len(s) : g[i] = g[i - 1] + ticks[s[i]])
                    => \A i \in 0..Len(s) : SumTo(s, ticks, i) = g[i]
BY SumIs

\* The sums are numbers.
LEMMA SumNat ==
    ASSUME NEW s \in Seq(Proc), NEW ticks \in [Proc -> Nat]
    PROVE  \A i \in 0..Len(s) : SumTo(s, ticks, i) \in Nat
<1> DEFINE Failing == {i \in 0..Len(s) : SumTo(s, ticks, i) \notin Nat}
<1>1. Len(s) \in Nat /\ \A i \in 1..Len(s) : ticks[s[i]] \in Nat
  BY LenProperties, ElementOfSeq
<1>2. Failing = {}
  <2> SUFFICES ASSUME Failing # {} PROVE FALSE
    OBVIOUS
  <2>1. PICK n \in Failing : \A m \in Failing : n <= m
    <3>1. Failing \in SUBSET Nat
      BY <1>1
    <3> HIDE DEF Failing
    <3> QED BY <3>1, LeastNatural
  <2>2. n \in 0..Len(s) /\ SumTo(s, ticks, n) \notin Nat
    BY <2>1
  <2>3. n # 0
    BY <2>2, SumSteps
  <2>4. n \in 1..Len(s) /\ n - 1 \in 0..Len(s) /\ ~(n <= n - 1)
    BY <1>1, <2>2, <2>3
  <2>5. n - 1 \notin Failing
    <3> HIDE DEF Failing
    <3> QED BY <2>1, <2>4
  <2>6. SumTo(s, ticks, n - 1) \in Nat
    BY <2>4, <2>5
  <2>7. SumTo(s, ticks, n) = SumTo(s, ticks, n - 1) + ticks[s[n]]
    BY <2>4, SumSteps
  <2> QED BY <1>1, <2>2, <2>4, <2>6, <2>7
<1> QED BY <1>2

\* Entries whose ticks stay have the sums they had.
LEMMA SumKept ==
    ASSUME NEW s \in Seq(Proc), NEW ticks \in [Proc -> Nat], NEW later \in [Proc -> Nat],
           \A i \in 1..Len(s) : later[s[i]] = ticks[s[i]]
    PROVE  \A i \in 0..Len(s) : SumTo(s, later, i) = SumTo(s, ticks, i)
<1> DEFINE f == [i \in 0..Len(s) |-> SumTo(s, ticks, i)]
<1>1. Len(s) \in Nat
  BY LenProperties
<1>2. \A i \in 0..Len(s) : f[i] = SumTo(s, ticks, i)
  OBVIOUS
<1> HIDE DEF f
<1>3. f[0] = 0
  BY <1>1, <1>2, SumSteps
<1>4. ASSUME NEW i \in 1..Len(s) PROVE f[i] = f[i - 1] + later[s[i]]
  <2>1. i \in 0..Len(s) /\ i - 1 \in 0..Len(s)
    BY <1>1
  <2>2. f[i] = SumTo(s, ticks, i) /\ f[i - 1] = SumTo(s, ticks, i - 1)
    BY <2>1, <1>2, Zenon
  <2>3. SumTo(s, ticks, i) = SumTo(s, ticks, i - 1) + ticks[s[i]]
    BY SumSteps
  <2> QED BY <2>2, <2>3
<1>5. \A i \in 0..Len(s) : SumTo(s, later, i) = f[i]
  <2>1. \A g : g[0] = 0 /\ (\A i \in 1..Len(s) : g[i] = g[i - 1] + later[s[i]])
                  => \A i \in 0..Len(s) : SumTo(s, later, i) = g[i]
    BY SumIsAll, Zenon
  <2> QED BY <1>3, <1>4, <2>1, Zenon
<1> QED BY <1>2, <1>5

\* run_timer_list: a tick less at the head is a tick less in every sum.
LEMMA SumTicks ==
    ASSUME NEW s \in Seq(Proc), NEW ticks \in [Proc -> Nat], NEW later \in [Proc -> Nat],
           s # << >>, ticks[s[1]] > 0, later[s[1]] = ticks[s[1]] - 1,
           \A i \in 2..Len(s) : later[s[i]] = ticks[s[i]]
    PROVE  \A i \in 1..Len(s) : SumTo(s, later, i) = SumTo(s, ticks, i) - 1
<1> DEFINE f == [i \in 0..Len(s) |-> IF i = 0 THEN 0 ELSE SumTo(s, ticks, i) - 1]
<1>1. Len(s) \in Nat /\ Len(s) >= 1 /\ \A i \in 1..Len(s) : ticks[s[i]] \in Nat
  BY LenProperties, ElementOfSeq, EmptySeq
<1>0. f[0] = 0
  BY <1>1
<1>2. \A i \in 1..Len(s) : f[i] = SumTo(s, ticks, i) - 1
  BY <1>1
<1> HIDE DEF f
<1>3. ASSUME NEW i \in 1..Len(s) PROVE f[i] = f[i - 1] + later[s[i]]
  <2>1. SumTo(s, ticks, i) = SumTo(s, ticks, i - 1) + ticks[s[i]] /\ SumTo(s, ticks, 0) = 0
    BY SumSteps
  <2>2. SumTo(s, ticks, i - 1) \in Nat /\ ticks[s[i]] \in Nat
    <3>1. i - 1 \in 0..Len(s)
      BY <1>1
    <3> QED BY <1>1, <3>1, SumNat
  <2>3. CASE i = 1
    BY <2>1, <2>2, <2>3, <1>0, <1>2
  <2>4. CASE i # 1
    <3>1. i - 1 \in 1..Len(s) /\ i \in 2..Len(s)
      BY <2>4, <1>1
    <3>2. f[i - 1] = SumTo(s, ticks, i - 1) - 1 /\ f[i] = SumTo(s, ticks, i) - 1
      BY <3>1, <1>2
    <3>3. later[s[i]] = ticks[s[i]]
      BY <3>1
    <3> QED BY <2>1, <2>2, <3>2, <3>3
  <2> QED BY <2>3, <2>4
<1>4. \A i \in 0..Len(s) : SumTo(s, later, i) = f[i]
  <2>1. s \in Seq(Proc) /\ later \in [Proc -> Nat] /\ f[0] = 0
        /\ \A i \in 1..Len(s) : f[i] = f[i - 1] + later[s[i]]
    BY <1>0, <1>3
  <2>2. \A g : g[0] = 0 /\ (\A i \in 1..Len(s) : g[i] = g[i - 1] + later[s[i]])
              => \A i \in 0..Len(s) : SumTo(s, later, i) = g[i]
    BY <2>1, SumIsAll, Zenon
  <2> QED BY <2>1, <2>2, Zenon
<1>5. \A i \in 1..Len(s) : i \in 0..Len(s)
  BY <1>1
<1> QED BY <1>2, <1>4, <1>5

\* del_timer: the entry behind gets the ticks, so the sums of the others stay.
LEMMA SumWithout ==
    ASSUME NEW s \in Seq(Proc), NEW ticks \in [Proc -> Nat], NEW later \in [Proc -> Nat],
           NEW k \in 1..Len(s),
           \A i \in 1..Len(s) : i # k /\ i # k + 1 => later[s[i]] = ticks[s[i]],
           k < Len(s) => later[s[k + 1]] = ticks[s[k + 1]] + ticks[s[k]]
    PROVE  /\ \A i \in 1..(k - 1) : SumTo(RemoveAt(s, k), later, i) = SumTo(s, ticks, i)
           /\ \A i \in (k + 1)..Len(s) : SumTo(RemoveAt(s, k), later, i - 1) = SumTo(s, ticks, i)
<1> DEFINE t == RemoveAt(s, k)
           n == Len(s)
           f == [i \in 0..(n - 1) |-> IF i < k THEN SumTo(s, ticks, i) ELSE SumTo(s, ticks, i + 1)]
<1>1. /\ n \in Nat /\ DOMAIN s = 1..n /\ k \in Nat /\ k >= 1 /\ k <= n
      /\ \A i \in 1..n : ticks[s[i]] \in Nat
  BY LenProperties, ElementOfSeq
<1>2. /\ t \in Seq(Proc) /\ Len(t) = n - 1
      /\ \A i \in 1..(n - 1) : t[i] = IF i < k THEN s[i] ELSE s[i + 1]
  <2>1. k \in DOMAIN s
    BY <1>1
  <2> QED BY <2>1, RemoveAtIndices
<1>3. \A i \in 0..(n - 1) : f[i] = IF i < k THEN SumTo(s, ticks, i) ELSE SumTo(s, ticks, i + 1)
  OBVIOUS
<1>4. /\ SumTo(s, ticks, 0) = 0
      /\ \A i \in 1..n : SumTo(s, ticks, i) = SumTo(s, ticks, i - 1) + ticks[s[i]]
      /\ \A i \in 0..n : SumTo(s, ticks, i) \in Nat
  BY SumSteps, SumNat
<1> HIDE DEF t, f, n
<1>5. f[0] = 0
  <2>1. 0 \in 0..(n - 1) /\ 0 < k
    BY <1>1
  <2> QED BY <2>1, <1>3, <1>4
<1>6. ASSUME NEW i \in 1..(n - 1) PROVE f[i] = f[i - 1] + later[t[i]]
  <2>1. CASE i < k
    <3>1. i \in 0..(n - 1) /\ i - 1 \in 0..(n - 1) /\ i \in 1..n /\ i # k /\ i # k + 1 /\ i - 1 < k
      BY <1>1, <2>1
    <3>2. f[i] = SumTo(s, ticks, i) /\ f[i - 1] = SumTo(s, ticks, i - 1) /\ t[i] = s[i]
      BY <1>2, <1>3, <2>1, <3>1
    <3>3. later[s[i]] = ticks[s[i]]
      BY <3>1 DEF n
    <3> QED BY <1>4, <3>1, <3>2, <3>3
  <2>2. CASE i = k
    <3>1. i \in 0..(n - 1) /\ i - 1 \in 0..(n - 1) /\ i \in 1..n /\ i + 1 \in 1..n /\ i - 1 < k /\ k < n
          /\ i - 1 \in 0..n /\ (i + 1) - 1 = i
      BY <1>1, <2>2
    <3>2. f[i] = SumTo(s, ticks, i + 1) /\ f[i - 1] = SumTo(s, ticks, i - 1) /\ t[i] = s[i + 1]
      BY <1>2, <1>3, <2>2, <3>1
    <3>3. later[s[i + 1]] = ticks[s[i + 1]] + ticks[s[i]]
      BY <2>2, <3>1 DEF n
    <3>4. /\ SumTo(s, ticks, i + 1) = SumTo(s, ticks, i) + ticks[s[i + 1]]
          /\ SumTo(s, ticks, i) = SumTo(s, ticks, i - 1) + ticks[s[i]]
          /\ SumTo(s, ticks, i - 1) \in Nat /\ ticks[s[i]] \in Nat /\ ticks[s[i + 1]] \in Nat
      BY <1>1, <1>4, <3>1
    <3>5. later[t[i]] = ticks[s[i + 1]] + ticks[s[i]]
      BY <3>2, <3>3
    <3>6. SumTo(s, ticks, i + 1) = SumTo(s, ticks, i - 1) + (ticks[s[i + 1]] + ticks[s[i]])
      <4> DEFINE a == SumTo(s, ticks, i - 1)
                 b == SumTo(s, ticks, i)
                 c == SumTo(s, ticks, i + 1)
                 x == ticks[s[i]]
                 y == ticks[s[i + 1]]
      <4>1. c = b + y /\ b = a + x /\ a \in Nat /\ x \in Nat /\ y \in Nat
        BY <3>4
      <4> HIDE DEF a, b, c, x, y
      <4>2. c = a + (y + x)
        BY <4>1
      <4> QED BY <4>2 DEF a, c, x, y
    <3> QED BY <3>2, <3>5, <3>6
  <2>3. CASE i > k
    <3>1. i \in 0..(n - 1) /\ i - 1 \in 0..(n - 1) /\ i + 1 \in 1..n /\ i + 1 # k /\ i + 1 # k + 1
          /\ ~(i < k) /\ ~(i - 1 < k) /\ (i + 1) - 1 = i /\ (i - 1) + 1 = i
      BY <1>1, <2>3
    <3>2. f[i] = SumTo(s, ticks, i + 1) /\ f[i - 1] = SumTo(s, ticks, i) /\ t[i] = s[i + 1]
      BY <1>2, <1>3, <3>1
    <3>3. later[s[i + 1]] = ticks[s[i + 1]]
      BY <3>1 DEF n
    <3>4. SumTo(s, ticks, i + 1) = SumTo(s, ticks, i) + ticks[s[i + 1]]
      BY <1>4, <3>1
    <3> QED BY <3>2, <3>3, <3>4
  <2> QED BY <2>1, <2>2, <2>3, <1>1
<1>7. \A i \in 0..(n - 1) : SumTo(t, later, i) = f[i]
  <2>1. t \in Seq(Proc) /\ Len(t) = n - 1
    BY <1>2
  <2>2. \A i \in 1..Len(t) : f[i] = f[i - 1] + later[t[i]]
    BY <1>6, <2>1
  <2>3. \A i \in 0..Len(t) : SumTo(t, later, i) = f[i]
    <3>1. \A g : g[0] = 0 /\ (\A i \in 1..Len(t) : g[i] = g[i - 1] + later[t[i]])
                => \A i \in 0..Len(t) : SumTo(t, later, i) = g[i]
      BY <2>1, SumIsAll, Zenon
    <3> QED BY <2>2, <1>5, <3>1, Zenon
  <2> QED BY <2>1, <2>3
<1>8. ASSUME NEW i \in 1..(k - 1) PROVE SumTo(t, later, i) = SumTo(s, ticks, i)
  <2>1. i \in 0..(n - 1) /\ i < k
    BY <1>1
  <2> QED BY <2>1, <1>3, <1>7
<1>9. ASSUME NEW i \in (k + 1)..n PROVE SumTo(t, later, i - 1) = SumTo(s, ticks, i)
  <2>1. i - 1 \in 0..(n - 1) /\ ~(i - 1 < k) /\ (i - 1) + 1 = i
    BY <1>1
  <2> QED BY <2>1, <1>3, <1>7
<1> QED BY <1>8, <1>9 DEF t, n

\* add_timer: the entry behind gives up the ticks of the new one, so the sums of
\* the others stay, and the new one has its own and those before it.
LEMMA SumWith ==
    ASSUME NEW s \in Seq(Proc), NEW ticks \in [Proc -> Nat], NEW later \in [Proc -> Nat],
           NEW k \in 1..(Len(s) + 1), NEW x \in Proc, later[x] = ticks[x],
           \A i \in 1..Len(s) : i # k => later[s[i]] = ticks[s[i]],
           k <= Len(s) => later[s[k]] = ticks[s[k]] - ticks[x]
    PROVE  /\ \A i \in 1..(k - 1) : SumTo(InsertAt(s, k, x), later, i) = SumTo(s, ticks, i)
           /\ SumTo(InsertAt(s, k, x), later, k) = SumTo(s, ticks, k - 1) + ticks[x]
           /\ \A i \in k..Len(s) : SumTo(InsertAt(s, k, x), later, i + 1) = SumTo(s, ticks, i)
<1> DEFINE t == InsertAt(s, k, x)
           n == Len(s)
           f == [i \in 0..(n + 1) |-> IF i < k THEN SumTo(s, ticks, i)
                                      ELSE IF i = k THEN SumTo(s, ticks, k - 1) + ticks[x]
                                      ELSE SumTo(s, ticks, i - 1)]
<1>1. /\ n \in Nat /\ k \in Nat /\ k >= 1 /\ k <= n + 1
      /\ \A i \in 1..n : ticks[s[i]] \in Nat
      /\ ticks[x] \in Nat
  BY LenProperties, ElementOfSeq
<1>2. /\ t \in Seq(Proc) /\ Len(t) = n + 1
      /\ \A i \in 1..(k - 1) : t[i] = s[i]
      /\ t[k] = x
      /\ \A i \in (k + 1)..(n + 1) : t[i] = s[i - 1]
  <2>1. t \in Seq(Proc) /\ Len(t) = n + 1 /\ t[k] = x
    BY InsertAtIndices
  <2>2. \A i \in 1..(k - 1) : t[i] = s[i]
    BY InsertAtIndices
  <2>3. \A i \in (k + 1)..(n + 1) : t[i] = s[i - 1]
    BY InsertAtIndices
  <2> QED BY <2>1, <2>2, <2>3
<1>3. \A i \in 0..(n + 1) : /\ i < k => f[i] = SumTo(s, ticks, i)
                            /\ i = k => f[i] = SumTo(s, ticks, k - 1) + ticks[x]
                            /\ i > k => f[i] = SumTo(s, ticks, i - 1)
  BY <1>1
<1>4. /\ SumTo(s, ticks, 0) = 0
      /\ \A i \in 1..n : SumTo(s, ticks, i) = SumTo(s, ticks, i - 1) + ticks[s[i]]
      /\ \A i \in 0..n : SumTo(s, ticks, i) \in Nat
  BY SumSteps, SumNat
<1> HIDE DEF t, f, n
<1>5. f[0] = 0
  BY <1>1, <1>3, <1>4
<1>6. ASSUME NEW i \in 1..(n + 1) PROVE f[i] = f[i - 1] + later[t[i]]
  <2>1. CASE i < k
    <3>1. i \in 0..(n + 1) /\ i - 1 \in 0..(n + 1) /\ i \in 1..n /\ i # k /\ i \in 1..(k - 1) /\ i - 1 < k
      BY <1>1, <2>1
    <3>2. f[i] = SumTo(s, ticks, i) /\ f[i - 1] = SumTo(s, ticks, i - 1) /\ t[i] = s[i]
      BY <1>2, <1>3, <2>1, <3>1
    <3>3. later[s[i]] = ticks[s[i]]
      BY <3>1 DEF n
    <3> QED BY <1>4, <3>1, <3>2, <3>3
  <2>2. CASE i = k
    <3>1. i \in 0..(n + 1) /\ i - 1 \in 0..(n + 1) /\ i - 1 < k
      BY <1>1, <2>2
    <3>2. f[i] = SumTo(s, ticks, k - 1) + ticks[x] /\ f[i - 1] = SumTo(s, ticks, k - 1) /\ t[i] = x
      BY <1>2, <1>3, <2>2, <3>1
    <3> QED BY <3>2
  <2>3. CASE i = k + 1
    <3>1. /\ i \in 0..(n + 1) /\ i - 1 \in 0..(n + 1) /\ i > k /\ i - 1 = k /\ k \in 1..n /\ k <= n
          /\ i \in (k + 1)..(n + 1) /\ k - 1 \in 0..n
      BY <1>1, <2>3
    <3>2. f[i] = SumTo(s, ticks, k) /\ f[i - 1] = SumTo(s, ticks, k - 1) + ticks[x] /\ t[i] = s[k]
      BY <1>2, <1>3, <3>1
    <3>3. later[s[k]] = ticks[s[k]] - ticks[x]
      BY <3>1 DEF n
    <3>4. /\ SumTo(s, ticks, k) = SumTo(s, ticks, k - 1) + ticks[s[k]]
          /\ SumTo(s, ticks, k - 1) \in Nat /\ ticks[s[k]] \in Nat
      BY <1>1, <1>4, <3>1
    <3> QED BY <1>1, <3>2, <3>3, <3>4
  <2>4. CASE i > k + 1
    <3>1. /\ i \in 0..(n + 1) /\ i - 1 \in 0..(n + 1) /\ i > k /\ i - 1 > k /\ i - 1 \in 1..n /\ i - 1 # k
          /\ i \in (k + 1)..(n + 1)
      BY <1>1, <2>4
    <3>2. f[i] = SumTo(s, ticks, i - 1) /\ f[i - 1] = SumTo(s, ticks, (i - 1) - 1) /\ t[i] = s[i - 1]
      BY <1>2, <1>3, <3>1
    <3>3. later[s[i - 1]] = ticks[s[i - 1]]
      BY <3>1 DEF n
    <3>4. SumTo(s, ticks, i - 1) = SumTo(s, ticks, (i - 1) - 1) + ticks[s[i - 1]]
      BY <1>4, <3>1
    <3> QED BY <3>2, <3>3, <3>4
  <2> QED BY <2>1, <2>2, <2>3, <2>4, <1>1
<1>7. \A i \in 0..(n + 1) : SumTo(t, later, i) = f[i]
  <2>1. t \in Seq(Proc) /\ Len(t) = n + 1
    BY <1>2
  <2>2. \A i \in 1..Len(t) : f[i] = f[i - 1] + later[t[i]]
    BY <1>6, <2>1
  <2>3. \A i \in 0..Len(t) : SumTo(t, later, i) = f[i]
    <3>1. \A g : g[0] = 0 /\ (\A i \in 1..Len(t) : g[i] = g[i - 1] + later[t[i]])
                => \A i \in 0..Len(t) : SumTo(t, later, i) = g[i]
      BY <2>1, SumIsAll, Zenon
    <3> QED BY <2>2, <1>5, <3>1, Zenon
  <2> QED BY <2>1, <2>3
<1>8. ASSUME NEW i \in 1..(k - 1) PROVE SumTo(t, later, i) = SumTo(s, ticks, i)
  <2>1. i \in 0..(n + 1) /\ i < k
    BY <1>1
  <2> QED BY <2>1, <1>3, <1>7
<1>9. SumTo(t, later, k) = SumTo(s, ticks, k - 1) + ticks[x]
  <2>1. k \in 0..(n + 1)
    BY <1>1
  <2> QED BY <2>1, <1>3, <1>7
<1>10. ASSUME NEW i \in k..n PROVE SumTo(t, later, i + 1) = SumTo(s, ticks, i)
  <2>1. i + 1 \in 0..(n + 1) /\ i + 1 > k /\ (i + 1) - 1 = i
    BY <1>1
  <2> QED BY <2>1, <1>3, <1>7
<1> QED BY <1>8, <1>9, <1>10 DEF t, n

\* The same of one entry before the new one.
LEMMA SumWithBefore ==
    ASSUME NEW s \in Seq(Proc), NEW ticks \in [Proc -> Nat], NEW later \in [Proc -> Nat],
           NEW k \in 1..(Len(s) + 1), NEW x \in Proc, later[x] = ticks[x],
           \A i \in 1..Len(s) : i # k => later[s[i]] = ticks[s[i]],
           k <= Len(s) => later[s[k]] = ticks[s[k]] - ticks[x],
           NEW i \in 1..(k - 1)
    PROVE  SumTo(InsertAt(s, k, x), later, i) = SumTo(s, ticks, i)
BY SumWith, ZenonT(60)

\* The same of one behind it.
LEMMA SumWithAfter ==
    ASSUME NEW s \in Seq(Proc), NEW ticks \in [Proc -> Nat], NEW later \in [Proc -> Nat],
           NEW k \in 1..(Len(s) + 1), NEW x \in Proc, later[x] = ticks[x],
           \A i \in 1..Len(s) : i # k => later[s[i]] = ticks[s[i]],
           k <= Len(s) => later[s[k]] = ticks[s[k]] - ticks[x],
           NEW i \in k..Len(s)
    PROVE  SumTo(InsertAt(s, k, x), later, i + 1) = SumTo(s, ticks, i)
BY SumWith, ZenonT(60)

-----------------------------------------------------------------------------
(* The timers keep time.                                                   *)

\* What a step has to do for the timer of p (TimersExact).
KeepsTime(p) ==
    IF Armed(p)'
    THEN Due(p)' = Due(p) - (IF irq # << >> /\ Head(irq) = "clock" THEN 1 ELSE 0)
    ELSE Due(p) = 0 \/ exiting[p]

\* A process with a timer sleeps, or was killed in its sleep.
Alarmed == \A p \in Proc : Armed(p) => exiting[p] \/ state[p] = "PROC_SLEEPING"

\* What the invariant says of the timers.
LEMMA TimerFacts ==
    ASSUME WInv
    PROVE  /\ timer_list \in Seq(Proc) /\ IsInjective(timer_list) /\ expires \in [Proc -> Nat]
           /\ Len(timer_list) \in Nat /\ DOMAIN timer_list = 1..Len(timer_list)
           /\ \A i \in DOMAIN timer_list :
                 timer_list[i] \in Proc /\ pc[timer_list[i]] \in {"sleep_sched", "slept"}
           /\ \A p \in Proc : /\ p \in Range(timer_list) => pc[p] \in {"sleep_sched", "slept"}
                              /\ pc[p] = "add_timer" =>
                                   p = current /\ irq = << >> /\ le \in 1..(Len(timer_list) + 1)
           /\ pc \in [Proc -> Label] /\ current \in Proc
<1>1. timer_list \in Seq(Proc)
  BY DEF WInv, IInv, TypeOK
<1>2. Len(timer_list) \in Nat /\ DOMAIN timer_list = 1..Len(timer_list)
  BY <1>1, LenProperties
<1>3. \A i \in DOMAIN timer_list : timer_list[i] \in Proc /\ timer_list[i] \in Range(timer_list)
  BY <1>1, <1>2, ElementOfSeq DEF Range
<1> QED BY <1>1, <1>2, <1>3 DEF WInv, IInv, TypeOK, Labels

\* On the list, a timer is due when those up to its entry have run down.
LEMMA DueAt ==
    ASSUME IsInjective(timer_list), NEW p, pc[p] # "add_timer",
           NEW i \in DOMAIN timer_list, timer_list[i] = p
    PROVE  Due(p) = SumTo(timer_list, expires, i)
<1>1. (CHOOSE j \in DOMAIN timer_list : timer_list[j] = p) = i
  BY DEF IsInjective
<1> QED BY <1>1 DEF Due, ExpirySum

\* The same after the step.
LEMMA DueAtNext ==
    ASSUME IsInjective(timer_list'), NEW p, pc'[p] # "add_timer",
           NEW i \in DOMAIN timer_list', timer_list'[i] = p
    PROVE  Armed(p)' /\ Due(p)' = SumTo(timer_list', expires', i)
<1>1. (CHOOSE j \in DOMAIN timer_list' : timer_list'[j] = p) = i
  BY DEF IsInjective
<1>2. Armed(p)'
  BY DEF Armed, Range
<1> QED BY <1>1, <1>2 DEF Due, ExpirySum

\* A step has nothing to do with the timers.
Untimed ==
    /\ UNCHANGED <<timer_list, expires, le>>
    /\ \A p \in Proc : pc'[p] = "add_timer" <=> pc[p] = "add_timer"
    /\ ~(irq # << >> /\ Head(irq) = "clock")

\* Such a step leaves every timer as it is.
LEMMA UntimedKeepsTime ==
    ASSUME WInv, Untimed, NEW p \in Proc, Armed(p)
    PROVE  KeepsTime(p)
<1>1. Armed(p)'
  BY DEF Armed, Untimed
<1>2. Due(p)' = Due(p)
  <2>1. ExpirySum(le - 1)' = ExpirySum(le - 1) /\ \A n : ExpirySum(n)' = ExpirySum(n)
    BY DEF ExpirySum, Untimed
  <2>2. UNCHANGED <<timer_list, expires, le>> /\ (pc'[p] = "add_timer" <=> pc[p] = "add_timer")
    BY DEF Untimed
  <2> QED BY <2>1, <2>2 DEF Due
<1>3. Due(p) \in Nat
  <2>1. CASE pc[p] = "add_timer"
    <3>1. le - 1 \in 0..Len(timer_list) /\ timer_list \in Seq(Proc) /\ expires \in [Proc -> Nat]
      BY <2>1, TimerFacts
    <3>2. SumTo(timer_list, expires, le - 1) \in Nat
      BY <3>1, SumNat
    <3> QED BY <2>1, <3>1, <3>2 DEF Due, ExpirySum
  <2>2. CASE pc[p] # "add_timer"
    <3>1. PICK i \in DOMAIN timer_list : timer_list[i] = p
      BY <2>2 DEF Armed, Range
    <3>2. i \in 0..Len(timer_list) /\ timer_list \in Seq(Proc) /\ expires \in [Proc -> Nat]
          /\ IsInjective(timer_list)
      BY <3>1, TimerFacts
    <3>3. Due(p) = SumTo(timer_list, expires, i)
      BY <2>2, <3>1, <3>2, DueAt
    <3> QED BY <3>2, <3>3, SumNat
  <2> QED BY <2>1, <2>2
<1> QED BY <1>1, <1>2, <1>3 DEF KeepsTime, Untimed

\* run_timer_list takes a tick from the head, and so from everybody.
LEMMA TickKeepsTime ==
    ASSUME WInv, IInv', ClockTick, NEW p \in Proc, Armed(p)
    PROVE  KeepsTime(p)
<1>1. /\ irq # << >> /\ Head(irq) = "clock" /\ run_timer_list /\ UNCHANGED pc
  BY DEF ClockTick, Handle
<1>2. /\ timer_list \in Seq(Proc) /\ IsInjective(timer_list) /\ expires \in [Proc -> Nat]
      /\ Len(timer_list) \in Nat /\ DOMAIN timer_list = 1..Len(timer_list)
      /\ pc[p] # "add_timer"
  BY <1>1, TimerFacts
<1>3. PICK i \in DOMAIN timer_list : timer_list[i] = p
  BY <1>2 DEF Armed, Range
<1>4. timer_list # << >> /\ 1 \in DOMAIN timer_list /\ Head(timer_list) = timer_list[1]
  <2>1. timer_list # << >>
    BY <1>2, <1>3, EmptySeq
  <2> QED BY <1>2, <2>1, HeadIsFirst
<1>5. timer_list[1] \in Proc /\ expires[timer_list[1]] > 0
  <2>1. timer_list[1] \in Proc
    BY <1>4, TimerFacts
  <2>2. expires[timer_list[1]] # 0
    BY <1>1, <1>4 DEF WInv, Ticks, HeadExpired
  <2> QED BY <1>2, <2>1, <2>2
<1>6. /\ timer_list' = timer_list
      /\ expires' = [expires EXCEPT ![timer_list[1]] = IF @ = 0 THEN 0 ELSE @ - 1]
  BY <1>1, <1>4 DEF run_timer_list
<1>7. /\ expires' \in [Proc -> Nat] /\ expires'[timer_list[1]] = expires[timer_list[1]] - 1
      /\ \A j \in 2..Len(timer_list) : expires'[timer_list[j]] = expires[timer_list[j]]
  <2>1. expires' \in [Proc -> Nat]
    BY DEF IInv, TypeOK
  <2>2. expires'[timer_list[1]] = expires[timer_list[1]] - 1
    BY <1>2, <1>5, <1>6
  <2>3. ASSUME NEW j \in 2..Len(timer_list) PROVE expires'[timer_list[j]] = expires[timer_list[j]]
    <3>1. j \in DOMAIN timer_list /\ j # 1 /\ timer_list[j] \in Proc
      BY <1>2, TimerFacts
    <3>2. timer_list[j] # timer_list[1]
      BY <1>2, <1>4, <3>1 DEF IsInjective
    <3> QED BY <1>2, <1>6, <3>1, <3>2
  <2> QED BY <2>1, <2>2, <2>3
<1>8. SumTo(timer_list, expires', i) = SumTo(timer_list, expires, i) - 1
  <2>1. \A j \in 1..Len(timer_list) : SumTo(timer_list, expires', j) = SumTo(timer_list, expires, j) - 1
    BY <1>2, <1>4, <1>5, <1>7, SumTicks
  <2> QED BY <1>2, <1>3, <2>1
<1>9. Due(p) = SumTo(timer_list, expires, i)
  BY <1>2, <1>3, DueAt
<1>10. Armed(p)' /\ Due(p)' = SumTo(timer_list', expires', i)
  <2>1. IsInjective(timer_list') /\ pc'[p] # "add_timer" /\ i \in DOMAIN timer_list' /\ timer_list'[i] = p
    BY <1>1, <1>2, <1>3, <1>6
  <2> QED BY <2>1, DueAtNext
<1> QED BY <1>1, <1>6, <1>8, <1>9, <1>10 DEF KeepsTime

\* del_timer of one process leaves the timers of the others as they are.
LEMMA DelTimerKeepsTime ==
    ASSUME WInv, IInv', NEW q \in Proc, del_timer(q), NEW p \in Range(timer_list), p # q,
           pc'[p] # "add_timer"
    PROVE  Armed(p)' /\ Due(p)' = Due(p)
<1>1. /\ timer_list \in Seq(Proc) /\ IsInjective(timer_list) /\ expires \in [Proc -> Nat]
      /\ Len(timer_list) \in Nat /\ DOMAIN timer_list = 1..Len(timer_list)
      /\ \A i \in DOMAIN timer_list :
            timer_list[i] \in Proc /\ pc[timer_list[i]] \in {"sleep_sched", "slept"}
  BY TimerFacts
<1>2. expires' \in [Proc -> Nat] /\ IsInjective(timer_list')
  BY DEF IInv, TypeOK, Labels
<1>3. PICK j \in DOMAIN timer_list : timer_list[j] = p
  BY DEF Range
<1>4. Due(p) = SumTo(timer_list, expires, j)
  <2>1. pc[p] # "add_timer"
    BY <1>1, <1>3
  <2> QED BY <1>1, <1>3, <2>1, DueAt
<1>5. CASE \E i \in DOMAIN timer_list : timer_list[i] = q
  <2> DEFINE k == CHOOSE i \in DOMAIN timer_list : timer_list[i] = q
  <2>1. k \in DOMAIN timer_list /\ timer_list[k] = q
    BY <1>5
  <2>2. /\ timer_list' = RemoveAt(timer_list, k)
        /\ expires' = [x \in Proc |->
               IF x = q THEN 0
               ELSE IF k < Len(timer_list) /\ x = timer_list[k+1]
                    THEN expires[x] + expires[q] ELSE expires[x]]
    BY <1>5 DEF del_timer
  <2> HIDE DEF k
  <2>3. k \in 1..Len(timer_list) /\ k \in Nat /\ j \in Nat /\ j \in 1..Len(timer_list) /\ j # k
    BY <1>1, <1>3, <2>1
  <2>4. ASSUME NEW i \in 1..Len(timer_list), i # k, i # k + 1
        PROVE  expires'[timer_list[i]] = expires[timer_list[i]]
    <3>1. timer_list[i] # q /\ timer_list[i] \in Proc
      BY <1>1, <2>1, <2>4 DEF IsInjective
    <3>2. k < Len(timer_list) => timer_list[i] # timer_list[k + 1]
      <4>1. k < Len(timer_list) => k + 1 \in DOMAIN timer_list
        BY <1>1, <2>3
      <4> QED BY <1>1, <2>4, <4>1 DEF IsInjective
    <3> QED BY <2>2, <3>1, <3>2
  <2>5. ASSUME k < Len(timer_list)
        PROVE  expires'[timer_list[k + 1]] = expires[timer_list[k + 1]] + expires[timer_list[k]]
    <3>1. k + 1 \in DOMAIN timer_list /\ k + 1 # k
      BY <1>1, <2>3, <2>5
    <3>2. timer_list[k + 1] # q /\ timer_list[k + 1] \in Proc
      BY <1>1, <2>1, <3>1 DEF IsInjective
    <3> QED BY <2>1, <2>2, <2>5, <3>2
  <2>6. /\ \A i \in 1..(k - 1) : SumTo(RemoveAt(timer_list, k), expires', i) = SumTo(timer_list, expires, i)
        /\ \A i \in (k + 1)..Len(timer_list) :
              SumTo(RemoveAt(timer_list, k), expires', i - 1) = SumTo(timer_list, expires, i)
    BY <1>1, <1>2, <2>3, <2>4, <2>5, SumWithout
  <2>7. /\ timer_list' \in Seq(Proc) /\ DOMAIN timer_list' = 1..(Len(timer_list) - 1)
        /\ \A i \in 1..(Len(timer_list) - 1) :
              timer_list'[i] = IF i < k THEN timer_list[i] ELSE timer_list[i + 1]
    <3>1. /\ RemoveAt(timer_list, k) \in Seq(Proc) /\ Len(RemoveAt(timer_list, k)) = Len(timer_list) - 1
          /\ \A i \in 1..(Len(timer_list) - 1) :
                RemoveAt(timer_list, k)[i] = IF i < k THEN timer_list[i] ELSE timer_list[i + 1]
      BY <1>1, <2>1, RemoveAtIndices
    <3>2. timer_list' \in Seq(Proc) /\ Len(timer_list') = Len(timer_list) - 1
      BY <2>2, <3>1
    <3>3. DOMAIN timer_list' = 1..Len(timer_list')
      BY <3>2, LenProperties
    <3> QED BY <2>2, <3>1, <3>2, <3>3
  <2>8. CASE j < k
    <3>1. j \in 1..(Len(timer_list) - 1) /\ j \in 1..(k - 1)
      BY <1>1, <2>3, <2>8
    <3>2. j \in DOMAIN timer_list' /\ timer_list'[j] = p
      BY <1>3, <2>7, <2>8, <3>1
    <3>3. SumTo(timer_list', expires', j) = SumTo(timer_list, expires, j)
      BY <2>2, <2>6, <3>1
    <3>4. Armed(p)' /\ Due(p)' = SumTo(timer_list', expires', j)
      BY <1>2, <3>2, DueAtNext
    <3> QED BY <1>4, <3>3, <3>4
  <2>9. CASE j > k
    <3>1. j - 1 \in 1..(Len(timer_list) - 1) /\ ~(j - 1 < k) /\ (j - 1) + 1 = j
          /\ j \in (k + 1)..Len(timer_list)
      <4>1. k \in Nat /\ k >= 1 /\ j \in Nat /\ j <= Len(timer_list) /\ Len(timer_list) \in Nat
        BY <1>1, <2>3
      <4> QED BY <2>9, <4>1
    <3>2. j - 1 \in DOMAIN timer_list' /\ timer_list'[j - 1] = p
      BY <1>3, <2>7, <3>1
    <3>3. SumTo(timer_list', expires', j - 1) = SumTo(timer_list, expires, j)
      BY <2>2, <2>6, <3>1
    <3>4. Armed(p)' /\ Due(p)' = SumTo(timer_list', expires', j - 1)
      BY <1>2, <3>2, DueAtNext
    <3> QED BY <1>4, <3>3, <3>4
  <2> QED BY <2>3, <2>8, <2>9
<1>6. CASE ~ \E i \in DOMAIN timer_list : timer_list[i] = q
  <2>1. timer_list' = timer_list /\ expires' = [expires EXCEPT ![q] = 0]
    BY <1>6 DEF del_timer
  <2>2. \A i \in 1..Len(timer_list) : expires'[timer_list[i]] = expires[timer_list[i]]
    BY <1>1, <1>6, <2>1
  <2>3. \A i \in 0..Len(timer_list) : SumTo(timer_list, expires', i) = SumTo(timer_list, expires, i)
    BY <1>1, <1>2, <2>2, SumKept
  <2>4. SumTo(timer_list', expires', j) = SumTo(timer_list, expires, j)
    <3>1. j \in 0..Len(timer_list)
      BY <1>1, <1>3
    <3> QED BY <2>1, <2>3, <3>1, Zenon
  <2>5. Armed(p)' /\ Due(p)' = SumTo(timer_list', expires', j)
    BY <1>2, <1>3, <2>1, DueAtNext
  <2> QED BY <1>4, <2>4, <2>5
<1> QED BY <1>5, <1>6

\* Due is a number of ticks.
LEMMA DueNat == ASSUME WInv, NEW p \in Range(timer_list) PROVE Due(p) \in Nat
<1>1. /\ timer_list \in Seq(Proc) /\ IsInjective(timer_list) /\ expires \in [Proc -> Nat]
      /\ DOMAIN timer_list = 1..Len(timer_list) /\ Len(timer_list) \in Nat
      /\ \A i \in DOMAIN timer_list : pc[timer_list[i]] \in {"sleep_sched", "slept"}
  BY TimerFacts
<1>2. PICK i \in DOMAIN timer_list : timer_list[i] = p
  BY DEF Range
<1>3. pc[p] # "add_timer" /\ i \in 0..Len(timer_list)
  BY <1>1, <1>2
<1>4. Due(p) = SumTo(timer_list, expires, i)
  BY <1>1, <1>2, <1>3, DueAt
<1>5. SumTo(timer_list, expires, i) \in Nat
  BY <1>1, <1>3, SumNat
<1> QED BY <1>4, <1>5

\* run_timer_list unlinks the timer that is due.
LEMMA ExpireKeepsTime ==
    ASSUME WInv, IInv', ExpireTimer, NEW p \in Proc, Armed(p)
    PROVE  KeepsTime(p)
<1>1. /\ irq # << >> /\ Head(irq) = "timers" /\ UNCHANGED pc
      /\ timer_list # << >> /\ expires[Head(timer_list)] = 0 /\ del_timer(Head(timer_list))
  BY DEF ExpireTimer, Handle, expire_timer, HeadExpired
<1>2. /\ timer_list \in Seq(Proc) /\ IsInjective(timer_list) /\ expires \in [Proc -> Nat]
      /\ Len(timer_list) \in Nat /\ DOMAIN timer_list = 1..Len(timer_list)
      /\ pc[p] # "add_timer" /\ pc'[p] # "add_timer"
  BY <1>1, TimerFacts
<1>3. p \in Range(timer_list)
  BY <1>2 DEF Armed
<1>4. 1 \in DOMAIN timer_list /\ Head(timer_list) = timer_list[1] /\ timer_list[1] \in Proc
  BY <1>1, <1>2, HeadIsFirst, TimerFacts
<1>5. CASE p = timer_list[1]
  <2>1. Due(p) = SumTo(timer_list, expires, 1)
    BY <1>2, <1>4, <1>5, DueAt
  <2>2. SumTo(timer_list, expires, 1) = SumTo(timer_list, expires, 1 - 1) + expires[timer_list[1]]
        /\ SumTo(timer_list, expires, 0) = 0
    BY <1>2, <1>4, SumSteps
  <2>3. Due(p) = 0
    BY <1>1, <1>4, <2>1, <2>2
  <2>4. ~Armed(p)'
    <3>1. Range(timer_list') = Range(timer_list) \ {p}
      BY <1>1, <1>2, <1>4, <1>5, DelTimerEffect
    <3> QED BY <1>2, <3>1 DEF Armed
  <2> QED BY <2>3, <2>4 DEF KeepsTime
<1>6. CASE p # timer_list[1]
  <2>1. Armed(p)' /\ Due(p)' = Due(p)
    BY <1>1, <1>2, <1>3, <1>4, <1>6, DelTimerKeepsTime
  <2>2. Due(p) \in Nat
    BY <1>3, DueNat
  <2> QED BY <1>1, <2>1, <2>2 DEF KeepsTime
<1> QED BY <1>5, <1>6

\* do_sleep's del_timer finds the timer on the list only if the process was killed.
LEMMA SleepDoneKeepsTime ==
    ASSUME WInv, IInv', Alarmed, SleepDone, NEW p \in Proc, Armed(p)
    PROVE  KeepsTime(p)
<1>1. /\ irq = << >> /\ pc[current] = "slept" /\ del_timer(current)
      /\ pc' = [pc EXCEPT ![current] = "trapret"]
  BY DEF SleepDone, At, Goto
<1>2. /\ timer_list \in Seq(Proc) /\ IsInjective(timer_list) /\ expires \in [Proc -> Nat]
      /\ pc \in [Proc -> Label] /\ current \in Proc
      /\ pc[p] = "add_timer" => p = current
  BY TimerFacts
<1>3. p \in Range(timer_list) /\ pc'[p] # "add_timer"
  BY <1>1, <1>2 DEF Armed
<1>4. CASE p = current
  <2>1. state[p] = "PROC_RUNNABLE"
    <3>1. "slept" \notin Blocked
      BY DEF Blocked
    <3> QED BY <1>1, <1>4, <3>1, AwakeHere
  <2>2. exiting[p]
    BY <2>1 DEF Alarmed
  <2>3. ~Armed(p)'
    <3>1. Range(timer_list') = Range(timer_list) \ {p}
      BY <1>1, <1>2, <1>4, DelTimerEffect
    <3> QED BY <1>3, <3>1 DEF Armed
  <2> QED BY <2>2, <2>3 DEF KeepsTime
<1>5. CASE p # current
  <2>1. Armed(p)' /\ Due(p)' = Due(p)
    BY <1>1, <1>2, <1>3, <1>5, DelTimerKeepsTime
  <2>2. Due(p) \in Nat
    BY <1>3, DueNat
  <2> QED BY <1>1, <2>1, <2>2 DEF KeepsTime
<1> QED BY <1>4, <1>5

\* do_sleep arms the timer of a process that has none, and no other changes.
LEMMA SysSleepKeepsTime ==
    ASSUME WInv, IInv', NEW time \in 1..MaxSleep, SysSleep(time), NEW p \in Proc, Armed(p)
    PROVE  KeepsTime(p)
<1>1. /\ pc[current] = "user" /\ irq = << >> /\ pc' = [pc EXCEPT ![current] = "add_timer"]
      /\ expires' = [expires EXCEPT ![current] = time] /\ timer_list' = timer_list
  BY DEF SysSleep, At, Goto
<1>2. /\ timer_list \in Seq(Proc) /\ IsInjective(timer_list) /\ expires \in [Proc -> Nat]
      /\ Len(timer_list) \in Nat /\ DOMAIN timer_list = 1..Len(timer_list)
      /\ \A i \in DOMAIN timer_list :
            timer_list[i] \in Proc /\ pc[timer_list[i]] \in {"sleep_sched", "slept"}
      /\ \A q \in Proc : /\ q \in Range(timer_list) => pc[q] \in {"sleep_sched", "slept"}
                         /\ pc[q] = "add_timer" => q = current
      /\ pc \in [Proc -> Label] /\ current \in Proc
  BY TimerFacts
<1>3. p # current /\ pc[p] # "add_timer" /\ p \in Range(timer_list) /\ pc'[p] # "add_timer"
  BY <1>1, <1>2 DEF Armed
<1>4. expires' \in [Proc -> Nat]
  BY DEF IInv, TypeOK
<1>5. PICK i \in DOMAIN timer_list : timer_list[i] = p
  BY <1>3 DEF Range
<1>6. \A j \in 1..Len(timer_list) : expires'[timer_list[j]] = expires[timer_list[j]]
  <2>1. \A j \in 1..Len(timer_list) : timer_list[j] # current /\ timer_list[j] \in Proc
    BY <1>1, <1>2
  <2> QED BY <1>1, <1>2, <2>1
<1>7. SumTo(timer_list', expires', i) = SumTo(timer_list, expires, i)
  <2>1. \A j \in 0..Len(timer_list) : SumTo(timer_list, expires', j) = SumTo(timer_list, expires, j)
    BY <1>2, <1>4, <1>6, SumKept
  <2>2. i \in 0..Len(timer_list)
    BY <1>2, <1>5
  <2> QED BY <1>1, <2>1, <2>2, Zenon
<1>8. Due(p) = SumTo(timer_list, expires, i) /\ Due(p) \in Nat
  BY <1>2, <1>3, <1>5, DueAt, DueNat
<1>9. Armed(p)' /\ Due(p)' = SumTo(timer_list', expires', i)
  BY <1>1, <1>2, <1>3, <1>5, DueAtNext
<1> QED BY <1>1, <1>7, <1>8, <1>9 DEF KeepsTime

\* add_timer takes the ticks of the entry it passes off those of the new timer.
LEMMA PassKeepsTime ==
    ASSUME WInv, IInv', AddTimerPass, NEW p \in Proc, Armed(p)
    PROVE  KeepsTime(p)
<1>1. /\ pc[current] = "add_timer" /\ irq = << >> /\ UNCHANGED pc
      /\ le <= Len(timer_list) /\ expires[current] >= expires[timer_list[le]]
      /\ expires' = [expires EXCEPT ![current] = @ - expires[timer_list[le]]]
      /\ timer_list' = timer_list /\ le' = le + 1
  BY DEF AddTimerPass, At, add_timer_pass
<1>2. /\ timer_list \in Seq(Proc) /\ IsInjective(timer_list) /\ expires \in [Proc -> Nat]
      /\ Len(timer_list) \in Nat /\ DOMAIN timer_list = 1..Len(timer_list)
      /\ \A i \in DOMAIN timer_list :
            timer_list[i] \in Proc /\ pc[timer_list[i]] \in {"sleep_sched", "slept"}
      /\ \A q \in Proc : pc[q] = "add_timer" => q = current
      /\ pc \in [Proc -> Label] /\ current \in Proc /\ le \in 1..(Len(timer_list) + 1)
  BY <1>1, TimerFacts
<1>3. expires' \in [Proc -> Nat]
  BY DEF IInv, TypeOK
<1>4. \A j \in 1..Len(timer_list) : expires'[timer_list[j]] = expires[timer_list[j]]
  <2>1. \A j \in 1..Len(timer_list) : timer_list[j] # current /\ timer_list[j] \in Proc
    BY <1>1, <1>2
  <2> QED BY <1>1, <1>2, <2>1
<1>5. \A j \in 0..Len(timer_list) : SumTo(timer_list, expires', j) = SumTo(timer_list, expires, j)
  <2>1. timer_list \in Seq(Proc) /\ expires \in [Proc -> Nat]
    BY <1>2
  <2> QED BY <2>1, <1>3, <1>4, SumKept, Zenon
<1>6. CASE p = current
  <2>1. le \in 1..Len(timer_list) /\ le \in 0..Len(timer_list) /\ le - 1 \in 0..Len(timer_list)
        /\ (le + 1) - 1 = le
    BY <1>1, <1>2
  <2>2. Due(p) = SumTo(timer_list, expires, le - 1) + expires[p]
    BY <1>1, <1>6 DEF Due, ExpirySum
  <2>3. Armed(p)' /\ Due(p)' = SumTo(timer_list, expires', le) + expires'[p]
    <3>1. Armed(p)' /\ Due(p)' = SumTo(timer_list', expires', le' - 1) + expires'[p]
      BY <1>1, <1>6 DEF Armed, Due, ExpirySum
    <3> QED BY <1>1, <2>1, <3>1
  <2>4. SumTo(timer_list, expires', le) = SumTo(timer_list, expires, le - 1) + expires[timer_list[le]]
    BY <1>2, <1>5, <2>1, SumSteps
  <2>5. expires'[p] = expires[p] - expires[timer_list[le]]
    BY <1>1, <1>2, <1>6
  <2>6. /\ SumTo(timer_list, expires, le - 1) \in Nat /\ expires[p] \in Nat
        /\ expires[timer_list[le]] \in Nat
    BY <1>2, <2>1, SumNat
  <2>7. Due(p)' = Due(p) - 0
    <3> DEFINE s == SumTo(timer_list, expires, le - 1)
               s2 == SumTo(timer_list, expires', le)
               x == expires[p]
               y == expires[timer_list[le]]
    <3>1. s \in Nat /\ x \in Nat /\ y \in Nat /\ s2 = s + y
      BY <2>4, <2>6
    <3>2. Due(p) = s + x /\ Due(p)' = s2 + (x - y)
      BY <2>2, <2>3, <2>5
    <3> HIDE DEF s, s2, x, y
    <3>3. s2 + (x - y) = (s + x) - 0
      BY <3>1
    <3> QED BY <3>2, <3>3
  <2> QED BY <1>1, <2>3, <2>7 DEF KeepsTime
<1>7. CASE p # current
  <2>1. pc[p] # "add_timer" /\ pc'[p] # "add_timer" /\ p \in Range(timer_list)
    BY <1>1, <1>2, <1>7 DEF Armed
  <2>2. PICK i \in DOMAIN timer_list : timer_list[i] = p
    BY <2>1 DEF Range
  <2>3. SumTo(timer_list', expires', i) = SumTo(timer_list, expires, i)
    <3>1. i \in 0..Len(timer_list)
      BY <1>2, <2>2
    <3> QED BY <1>1, <1>5, <3>1, Zenon
  <2>4. Due(p) = SumTo(timer_list, expires, i) /\ Due(p) \in Nat
    BY <1>2, <2>1, <2>2, DueAt, DueNat
  <2>5. Armed(p)' /\ Due(p)' = SumTo(timer_list', expires', i)
    BY <1>1, <1>2, <2>1, <2>2, DueAtNext
  <2> QED BY <1>1, <2>3, <2>4, <2>5 DEF KeepsTime
<1> QED BY <1>6, <1>7

\* add_timer links the timer where it is due, and takes its ticks off the one behind.
LEMMA LinkKeepsTime ==
    ASSUME WInv, IInv', AddTimerLink, NEW p \in Proc, Armed(p)
    PROVE  KeepsTime(p)
<1>1. /\ pc[current] = "add_timer" /\ irq = << >>
      /\ pc' = [pc EXCEPT ![current] = "sleep_sched"]
      /\ timer_list' = InsertAt(timer_list, le, current)
      /\ expires' = IF le <= Len(timer_list)
                    THEN [expires EXCEPT ![timer_list[le]] = @ - expires[current]]
                    ELSE expires
  BY DEF AddTimerLink, At, Goto, add_timer_link
<1>2. /\ timer_list \in Seq(Proc) /\ IsInjective(timer_list) /\ expires \in [Proc -> Nat]
      /\ Len(timer_list) \in Nat /\ DOMAIN timer_list = 1..Len(timer_list)
      /\ \A i \in DOMAIN timer_list :
            timer_list[i] \in Proc /\ pc[timer_list[i]] \in {"sleep_sched", "slept"}
      /\ \A q \in Proc : pc[q] = "add_timer" => q = current
      /\ pc \in [Proc -> Label] /\ current \in Proc /\ le \in 1..(Len(timer_list) + 1)
  BY <1>1, TimerFacts
<1>3. expires' \in [Proc -> Nat] /\ IsInjective(timer_list')
  BY DEF IInv, TypeOK, Labels
<1>4. le \in Nat /\ le >= 1
  BY <1>2
<1>5. \A i \in 1..Len(timer_list) : timer_list[i] # current /\ timer_list[i] \in Proc
  BY <1>1, <1>2
<1>6. expires'[current] = expires[current]
  BY <1>1, <1>2, <1>4, <1>5
<1>7. ASSUME NEW i \in 1..Len(timer_list), i # le
      PROVE  expires'[timer_list[i]] = expires[timer_list[i]]
  <2>1. CASE le <= Len(timer_list)
    <3>1. le \in DOMAIN timer_list
      BY <1>2, <1>4, <2>1
    <3>2. timer_list[i] # timer_list[le]
      BY <1>2, <1>7, <3>1 DEF IsInjective
    <3> QED BY <1>1, <1>2, <2>1, <3>2
  <2>2. CASE ~(le <= Len(timer_list))
    BY <1>1, <2>2
  <2> QED BY <2>1, <2>2
<1>8. ASSUME le <= Len(timer_list)
      PROVE  expires'[timer_list[le]] = expires[timer_list[le]] - expires[current]
  <2>1. timer_list[le] \in Proc
    BY <1>4, <1>5, <1>8, <1>2
  <2> QED BY <1>1, <1>2, <1>8, <2>1
<1>9. /\ \A i \in 1..(le - 1) :
            SumTo(InsertAt(timer_list, le, current), expires', i) = SumTo(timer_list, expires, i)
      /\ SumTo(InsertAt(timer_list, le, current), expires', le)
            = SumTo(timer_list, expires, le - 1) + expires[current]
      /\ \A i \in le..Len(timer_list) :
            SumTo(InsertAt(timer_list, le, current), expires', i + 1) = SumTo(timer_list, expires, i)
  <2>1. /\ timer_list \in Seq(Proc) /\ expires \in [Proc -> Nat] /\ expires' \in [Proc -> Nat]
        /\ le \in 1..(Len(timer_list) + 1) /\ current \in Proc
        /\ expires'[current] = expires[current]
    BY <1>2, <1>3, <1>6
  <2>2. \A i \in 1..Len(timer_list) : i # le => expires'[timer_list[i]] = expires[timer_list[i]]
    BY <1>7
  <2>3. le <= Len(timer_list) => expires'[timer_list[le]] = expires[timer_list[le]] - expires[current]
    BY <1>8
  <2>4. ASSUME NEW i \in 1..(le - 1)
        PROVE  SumTo(InsertAt(timer_list, le, current), expires', i) = SumTo(timer_list, expires, i)
    BY <2>1, <2>2, <2>3, SumWithBefore, ZenonT(60)
  <2>5. SumTo(InsertAt(timer_list, le, current), expires', le)
           = SumTo(timer_list, expires, le - 1) + expires[current]
    BY <2>1, <2>2, <2>3, SumWith, ZenonT(60)
  <2>6. ASSUME NEW i \in le..Len(timer_list)
        PROVE  SumTo(InsertAt(timer_list, le, current), expires', i + 1) = SumTo(timer_list, expires, i)
    BY <2>1, <2>2, <2>3, SumWithAfter, ZenonT(60)
  <2> QED BY <2>4, <2>5, <2>6
<1>10. /\ timer_list' \in Seq(Proc) /\ DOMAIN timer_list' = 1..(Len(timer_list) + 1)
       /\ \A i \in 1..(le - 1) : timer_list'[i] = timer_list[i]
       /\ timer_list'[le] = current
       /\ \A i \in (le + 1)..(Len(timer_list) + 1) : timer_list'[i] = timer_list[i - 1]
  <2>1. /\ timer_list' \in Seq(Proc) /\ Len(timer_list') = Len(timer_list) + 1
        /\ \A i \in 1..(le - 1) : timer_list'[i] = timer_list[i]
        /\ timer_list'[le] = current
        /\ \A i \in (le + 1)..(Len(timer_list) + 1) : timer_list'[i] = timer_list[i - 1]
    <3>1. timer_list \in Seq(Proc) /\ le \in 1..(Len(timer_list) + 1) /\ current \in Proc
      BY <1>2
    <3>2. timer_list' = InsertAt(timer_list, le, current)
      BY <1>1
    <3> DEFINE t == InsertAt(timer_list, le, current)
    <3>3. t \in Seq(Proc) /\ Len(t) = Len(timer_list) + 1 /\ t[le] = current
      BY <3>1, InsertAtIndices
    <3>4. \A i \in 1..(le - 1) : t[i] = timer_list[i]
      BY <3>1, InsertAtIndices
    <3>5. \A i \in (le + 1)..(Len(timer_list) + 1) : t[i] = timer_list[i - 1]
      BY <3>1, InsertAtIndices
    <3> HIDE DEF t
    <3>6. timer_list' = t
      BY <3>2 DEF t
    <3> QED BY <3>3, <3>4, <3>5, <3>6, Zenon
  <2>2. DOMAIN timer_list' = 1..Len(timer_list')
    BY <2>1, LenProperties
  <2> QED BY <2>1, <2>2
<1>11. pc'[p] # "add_timer"
  BY <1>1, <1>2
<1>12. CASE p = current
  <2>1. Due(p) = SumTo(timer_list, expires, le - 1) + expires[p]
    BY <1>1, <1>12 DEF Due, ExpirySum
  <2>2. Armed(p)' /\ Due(p)' = SumTo(timer_list', expires', le)
    BY <1>2, <1>3, <1>10, <1>11, <1>12, DueAtNext
  <2>3. Due(p)' = Due(p)
    BY <1>1, <1>9, <1>12, <2>1, <2>2
  <2>4. Due(p) \in Nat
    <3>1. le - 1 \in 0..Len(timer_list)
      BY <1>2
    <3>2. SumTo(timer_list, expires, le - 1) \in Nat /\ expires[p] \in Nat
      BY <1>2, <3>1, SumNat
    <3> QED BY <2>1, <3>2
  <2> QED BY <1>1, <2>2, <2>3, <2>4 DEF KeepsTime
<1>13. CASE p # current
  <2>1. pc[p] # "add_timer" /\ p \in Range(timer_list)
    BY <1>2, <1>13 DEF Armed
  <2>2. PICK j \in DOMAIN timer_list : timer_list[j] = p
    BY <2>1 DEF Range
  <2>3. j \in 1..Len(timer_list) /\ j \in Nat
    BY <1>2, <2>2
  <2>4. Due(p) = SumTo(timer_list, expires, j) /\ Due(p) \in Nat
    BY <1>2, <2>1, <2>2, DueAt, DueNat
  <2>5. CASE j < le
    <3>1. j \in 1..(le - 1) /\ j \in 1..(Len(timer_list) + 1)
      BY <1>2, <1>4, <2>3, <2>5
    <3>2. j \in DOMAIN timer_list' /\ timer_list'[j] = p
      BY <1>10, <2>2, <3>1
    <3>3. Armed(p)' /\ Due(p)' = SumTo(timer_list', expires', j)
      BY <1>3, <1>11, <3>2, DueAtNext
    <3>4. SumTo(timer_list', expires', j) = SumTo(timer_list, expires, j)
      BY <1>1, <1>9, <3>1
    <3> QED BY <1>1, <2>4, <3>3, <3>4 DEF KeepsTime
  <2>6. CASE j >= le
    <3>1. j \in le..Len(timer_list) /\ j + 1 \in (le + 1)..(Len(timer_list) + 1)
          /\ j + 1 \in 1..(Len(timer_list) + 1) /\ (j + 1) - 1 = j
      BY <1>2, <1>4, <2>3, <2>6
    <3>2. j + 1 \in DOMAIN timer_list' /\ timer_list'[j + 1] = p
      BY <1>10, <2>2, <3>1
    <3>3. Armed(p)' /\ Due(p)' = SumTo(timer_list', expires', j + 1)
      BY <1>3, <1>11, <3>2, DueAtNext
    <3>4. SumTo(timer_list', expires', j + 1) = SumTo(timer_list, expires, j)
      BY <1>1, <1>9, <3>1
    <3> QED BY <1>1, <2>4, <3>3, <3>4 DEF KeepsTime
  <2> QED BY <1>4, <2>3, <2>5, <2>6
<1> QED BY <1>12, <1>13

\* The process at the CPU goes on elsewhere than in add_timer.
LEMMA MoveUntimed ==
    ASSUME WInv, irq = << >>, UNCHANGED <<timer_list, expires, le>>,
           NEW to, pc' = [pc EXCEPT ![current] = to],
           pc[current] # "add_timer", to # "add_timer"
    PROVE  Untimed
BY TimerFacts DEF Untimed

\* So does a process that another one is started or freed with.
LEMMA MoveTwoUntimed ==
    ASSUME WInv, irq = << >>, UNCHANGED <<timer_list, expires, le>>,
           NEW p \in Proc, NEW entry, NEW to, pc' = [pc EXCEPT ![current] = to, ![p] = entry]
                                           \/ pc' = [pc EXCEPT ![p] = entry, ![current] = to],
           pc[current] # "add_timer", pc[p] # "add_timer",
           to # "add_timer", entry # "add_timer"
    PROVE  Untimed
BY TimerFacts DEF Untimed

\* The calls but do_sleep.
LEMMA SyscallUntimed ==
    ASSUME WInv, Syscall
    PROVE  Untimed \/ \E time \in 1..MaxSleep : SysSleep(time)
<1>1. CASE SysExit \/ SysOther
  BY <1>1, MoveUntimed DEF SysExit, SysOther, Jump, At, Goto, timer_vars
<1>2. CASE SysYield
  BY <1>2, MoveUntimed DEF SysYield, At, Goto, timer_vars
<1>3. CASE \E p \in Proc : SysFork(p)
  <2>1. PICK p \in Proc : SysFork(p)
    BY <1>3
  <2>2. /\ irq = << >> /\ pc[current] = "user" /\ state[p] = "PROC_FREE"
        /\ pc' = [pc EXCEPT ![current] = "trapret", ![p] = "user"]
        /\ UNCHANGED <<timer_list, expires, le>>
    BY <2>1 DEF SysFork, At, do_fork, timer_vars
  <2>3. pc[p] = "free"
    BY <2>2 DEF WInv, IInv, Labels
  <2> QED BY <2>2, <2>3, MoveTwoUntimed
<1>4. CASE \E p \in Proc : SysWait(p)
  BY <1>4, MoveUntimed DEF SysWait, At, Goto, timer_vars
<1>5. CASE \E p \in KillTargets : SysKill(p)
  BY <1>5, MoveUntimed DEF SysKill, At, Goto, timer_vars
<1>6. CASE \E n \in 1..MaxRead : SysRead(n)
  BY <1>6, MoveUntimed DEF SysRead, At, Goto, timer_vars
<1>7. CASE \E n \in 1..MaxRead : SysWriteStdin(n)
  BY <1>7, MoveUntimed DEF SysWriteStdin, At, Goto, timer_vars
<1> QED BY <1>1, <1>2, <1>3, <1>4, <1>5, <1>6, <1>7 DEF Syscall

\* The handlers but the timer's.
LEMMA HandlerUntimed ==
    ASSUME WInv, Handler
    PROVE  Untimed \/ ClockTick \/ ExpireTimer
<1>1. CASE StdinWrite
  BY <1>1 DEF StdinWrite, Handle, Untimed, timer_vars
<1>2. CASE WakeReader
  BY <1>2 DEF WakeReader, Handle, Untimed, timer_vars
<1>3. CASE WakeReaderDone
  BY <1>3 DEF WakeReaderDone, Handle, Untimed, timer_vars
<1>4. CASE ProcTick
  BY <1>4 DEF ProcTick, Handle, Untimed, timer_vars
<1> QED BY <1>1, <1>2, <1>3, <1>4 DEF Handler

\* What the kernel does but in do_sleep.
LEMMA KernelUntimed ==
    ASSUME WInv, KernelStep
    PROVE  Untimed \/ AddTimerPass \/ AddTimerLink \/ SleepDone
<1>1. CASE TrapReturn \/ Waited \/ UserMain
  <2>1. PICK to \in {"exit", "preempt", "user", "wait"} :
           \/ Jump("trapret", to) \/ Jump("waited", to) \/ Jump("user_main", to)
    BY <1>1 DEF TrapReturn, Waited, UserMain
  <2> QED BY <2>1, MoveUntimed DEF Jump, At, Goto, timer_vars
<1>2. CASE Schedule
  <2>1. irq = << >> /\ UNCHANGED <<timer_list, expires, le>>
    BY <1>2 DEF Schedule, timer_vars
  <2>2. CASE pc[current] \in DOMAIN After /\ Goto(After[pc[current]])
    <3>1. pc[current] # "add_timer" /\ After[pc[current]] # "add_timer"
      BY <2>2, AfterValues
    <3> QED BY <2>1, <2>2, <3>1, MoveUntimed DEF Goto
  <2>3. CASE pc[current] = "reparent" /\ Goto("zombie")
    BY <2>1, <2>3, MoveUntimed DEF Goto
  <2>4. CASE UNCHANGED pc
    BY <2>1, <2>4 DEF Untimed
  <2> QED BY <1>2, <2>2, <2>3, <2>4 DEF Schedule
<1>3. CASE ReadDone
  BY <1>3, MoveUntimed DEF ReadDone, At, Goto, timer_vars
<1>4. CASE ReadWait
  BY <1>4, MoveUntimed DEF ReadWait, At, Goto, timer_vars
<1>5. CASE ReadWoken
  BY <1>5, MoveUntimed DEF ReadWoken, At, Goto, timer_vars
<1>6. CASE \E p \in Proc : WaitReap(p)
  <2>1. PICK p \in Proc : WaitReap(p)
    BY <1>6
  <2>2. PICK to \in {"init_sched", "trapret"} : pc' = [pc EXCEPT ![p] = "free", ![current] = to]
    BY <2>1 DEF WaitReap
  <2>3. /\ irq = << >> /\ pc[current] = "wait" /\ state[p] = "PROC_ZOMBIE"
        /\ UNCHANGED <<timer_list, expires, le>>
    BY <2>1 DEF WaitReap, At, FirstZombie, timer_vars
  <2>4. pc[p] \in {"reparent", "zombie"}
    BY <2>3 DEF WInv, IInv, Labels
  <2> QED BY <2>2, <2>3, <2>4, MoveTwoUntimed
<1>7. CASE \E p \in Proc : InitMain(p)
  <2>1. PICK p \in Proc : InitMain(p)
    BY <1>7
  <2>2. /\ irq = << >> /\ pc[current] = "init_start" /\ state[p] = "PROC_FREE"
        /\ pc' = [pc EXCEPT ![current] = "wait", ![p] = "user_main"]
        /\ UNCHANGED <<timer_list, expires, le>>
    BY <2>1 DEF InitMain, At, do_fork, timer_vars
  <2>3. pc[p] = "free"
    BY <2>2 DEF WInv, IInv, Labels
  <2> QED BY <2>2, <2>3, MoveTwoUntimed
<1>8. CASE WaitSleep \/ WaitNone
  BY <1>8, MoveUntimed DEF WaitSleep, WaitNone, At, Goto, timer_vars
<1>9. CASE InitEnd \/ InitExit
  BY <1>9 DEF InitEnd, InitExit, At, Untimed, timer_vars
<1>10. CASE Exit
  BY <1>10, MoveUntimed DEF Exit, At, Goto, timer_vars
<1>11. CASE Reparent
  BY <1>11 DEF Reparent, At, Untimed, timer_vars
<1> QED BY <1>1, <1>2, <1>3, <1>4, <1>5, <1>6, <1>7, <1>8, <1>9, <1>10, <1>11 DEF KernelStep

\* Every step leaves the timers alone but these.
LEMMA TimerKinds ==
    ASSUME WInv, [Next]_vars
    PROVE  \/ Untimed \/ UNCHANGED vars
           \/ ClockTick \/ ExpireTimer \/ SleepDone \/ AddTimerPass \/ AddTimerLink
           \/ \E time \in 1..MaxSleep : SysSleep(time)
<1>1. CASE Syscall \/ Handler \/ KernelStep
  BY <1>1, SyscallUntimed, HandlerUntimed, KernelUntimed
<1>2. CASE \E serial, keyboard, clock \in BOOLEAN : Interrupt(serial, keyboard, clock)
  <2>1. /\ irq = << >> /\ UNCHANGED <<timer_list, expires, le>>
        /\ (pc[current] = "user" /\ Goto("trapret")) \/ UNCHANGED pc
    BY <1>2 DEF Interrupt, Interruptible, timer_vars
  <2>2. CASE pc[current] = "user" /\ Goto("trapret")
    BY <2>1, <2>2, MoveUntimed DEF Goto
  <2>3. CASE UNCHANGED pc
    BY <2>1, <2>3 DEF Untimed
  <2> QED BY <2>1, <2>2, <2>3
<1>3. CASE UNCHANGED vars \/ Monitor
  BY <1>3 DEF Monitor
<1> QED BY <1>1, <1>2, <1>3 DEF Next

\* A timer that is linked after a step was there before, or do_sleep has just
\* armed it.
LEMMA ArmedBefore ==
    ASSUME WInv, IInv', [Next]_vars, NEW p \in Proc, Armed(p)'
    PROVE  \/ Armed(p)
           \/ p = current /\ \E time \in 1..MaxSleep : SysSleep(time)
<1>1. CASE Untimed
  BY <1>1 DEF Armed, Untimed
<1>2. CASE UNCHANGED vars
  BY <1>2 DEF Armed, vars, proc_vars, timer_vars
<1>3. CASE ClockTick
  BY <1>3 DEF Armed, ClockTick, Handle, run_timer_list
<1>4. CASE ExpireTimer
  <2>1. /\ timer_list \in Seq(Proc) /\ IsInjective(timer_list) /\ expires \in [Proc -> Nat]
        /\ timer_list # << >> /\ del_timer(Head(timer_list)) /\ UNCHANGED pc
    BY <1>4, TimerFacts DEF ExpireTimer, Handle, expire_timer, HeadExpired
  <2>2. Head(timer_list) \in Proc
    BY <2>1
  <2>3. Range(timer_list') \subseteq Range(timer_list)
    BY <2>1, <2>2, DelTimerEffect
  <2> QED BY <2>1, <2>3 DEF Armed
<1>5. CASE SleepDone
  <2>1. /\ timer_list \in Seq(Proc) /\ IsInjective(timer_list) /\ expires \in [Proc -> Nat]
        /\ current \in Proc /\ pc \in [Proc -> Label]
        /\ del_timer(current) /\ pc' = [pc EXCEPT ![current] = "trapret"]
    BY <1>5, TimerFacts DEF SleepDone, Goto
  <2>2. Range(timer_list') \subseteq Range(timer_list)
    BY <2>1, DelTimerEffect
  <2> QED BY <2>1, <2>2 DEF Armed
<1>6. CASE AddTimerPass
  BY <1>6 DEF Armed, AddTimerPass, add_timer_pass
<1>7. CASE AddTimerLink
  <2>1. /\ pc[current] = "add_timer" /\ timer_list \in Seq(Proc) /\ current \in Proc
        /\ le \in 1..(Len(timer_list) + 1) /\ pc \in [Proc -> Label]
        /\ timer_list' = InsertAt(timer_list, le, current)
        /\ pc' = [pc EXCEPT ![current] = "sleep_sched"]
    BY <1>7, TimerFacts DEF AddTimerLink, At, Goto, add_timer_link
  <2>2. Range(timer_list') = Range(timer_list) \union {current}
    BY <2>1, InsertAtElements
  <2> QED BY <2>1, <2>2 DEF Armed
<1>8. CASE \E time \in 1..MaxSleep : SysSleep(time)
  <2>1. /\ timer_list' = timer_list /\ pc' = [pc EXCEPT ![current] = "add_timer"]
        /\ pc \in [Proc -> Label]
    BY <1>8, TimerFacts DEF SysSleep, Goto
  <2> QED BY <1>8, <2>1 DEF Armed
<1> QED BY <1>1, <1>2, <1>3, <1>4, <1>5, <1>6, <1>7, <1>8, TimerKinds

\* Only do_kill and do_wait write PF_EXITING.
LEMMA ExitingKinds ==
    ASSUME [Next]_vars
    PROVE  UNCHANGED exiting \/ \E p \in Proc : SysKill(p) \/ WaitReap(p)
<1>1. CASE Syscall
  <2>1. CASE \/ SysExit \/ SysOther \/ SysYield
             \/ \E p \in Proc : SysFork(p) \/ SysWait(p)
             \/ \E time \in 1..MaxSleep : SysSleep(time)
             \/ \E n \in 1..MaxRead : SysRead(n) \/ SysWriteStdin(n)
    BY <2>1 DEF SysExit, SysOther, SysYield, SysFork, do_fork, SysWait, SysSleep, SysRead,
                SysWriteStdin, Jump, family_vars
  <2>2. CASE \E p \in KillTargets : SysKill(p)
    BY <2>2, BoundAssumption
  <2> QED BY <1>1, <2>1, <2>2 DEF Syscall
<1>2. CASE Handler
  <2>1. UNCHANGED family_vars
    BY <1>2 DEF Handler, StdinWrite, WakeReader, WakeReaderDone, ClockTick, ExpireTimer,
                ProcTick, Handle
  <2> QED BY <2>1 DEF family_vars
<1>3. CASE KernelStep
  <2>1. CASE \/ TrapReturn \/ Waited \/ UserMain \/ WaitNone \/ InitExit \/ InitEnd
             \/ Schedule \/ WaitSleep \/ ReadWait \/ Exit \/ Reparent
             \/ \E p \in Proc : InitMain(p)
    BY <2>1 DEF TrapReturn, Waited, UserMain, WaitNone, InitExit, InitEnd, Schedule, WaitSleep,
                ReadWait, Exit, Reparent, InitMain, do_fork, Jump, family_vars
  <2>2. CASE AddTimerPass \/ AddTimerLink \/ SleepDone \/ ReadDone \/ ReadWoken
    BY <2>2 DEF AddTimerPass, AddTimerLink, SleepDone, ReadDone, ReadWoken, family_vars
  <2>3. CASE \E p \in Proc : WaitReap(p)
    BY <2>3
  <2> QED BY <1>3, <2>1, <2>2, <2>3 DEF KernelStep
<1>4. CASE \E serial, keyboard, clock \in BOOLEAN : Interrupt(serial, keyboard, clock)
  BY <1>4 DEF Interrupt, family_vars
<1>5. CASE UNCHANGED vars \/ Monitor
  BY <1>5 DEF Monitor, vars, proc_vars
<1> QED BY <1>1, <1>2, <1>3, <1>4, <1>5 DEF Next

\* Who sleeps with a timer is woken by it, and loses it, or is killed.
LEMMA AlarmedWakes ==
    ASSUME WInv, [Next]_vars, NEW p \in Proc, Armed(p), state[p] = "PROC_SLEEPING",
           state'[p] # "PROC_SLEEPING"
    PROVE  (ExpireTimer /\ p = Head(timer_list)) \/ exiting'[p]
<1>1. state \in [Proc -> ProcState] /\ current \in Proc
  BY DEF WInv, IInv, TypeOK
<1>2. wait_state[p] = "WT_TIMER"
  <2>1. CASE p \in Range(timer_list)
    BY <2>1, ListedSleepers
  <2>2. CASE pc[p] = "add_timer"
    <3>1. wait_state[p] \in {"WT_CHILD", "WT_TIMER", "WT_KBD"}
      BY DEF WInv, IInv, TypeOK, Sleeping, WaitState
    <3> QED BY <2>2, <3>1 DEF WInv, Sleeping
  <2> QED BY <2>1, <2>2 DEF Armed
<1>3. ~UNCHANGED state /\ ~Schedule
  BY DEF Schedule, schedule
<1>4. \A q \in Proc : ~SysFork(q) /\ ~InitMain(q) /\ ~WaitReap(q)
  BY <1>1, ForkStates, ReapStates
<1>5. ~(\E time \in 1..MaxSleep : SysSleep(time)) /\ ~WaitSleep /\ ~ReadWait
  BY <1>1, SleepStates
<1>6. CASE \E q \in Proc : SysKill(q)
  BY <1>1, <1>3, <1>6, KillStates
<1>7. CASE WakeReader \/ ExpireTimer
  <2>1. PICK q \in Proc :
           /\ state' = [state EXCEPT ![q] = "PROC_RUNNABLE"]
           /\ \/ wait_state[q] = "WT_TIMER" /\ expires[q] = 0 /\ Head(timer_list) = q
              \/ wait_state[q] = "WT_KBD" /\ unread > 0
    BY <1>3, <1>7, HandlerStates
  <2>2. q = p
    BY <1>1, <2>1
  <2>3. expires[p] = 0 /\ Head(timer_list) = p
    BY <1>2, <2>1, <2>2
  <2>4. ~WakeReader
    <3>1. timer_list # << >> => HeadExpired
      BY <2>3 DEF HeadExpired
    <3>2. timer_list = << >> => ~WakeReader
      <4>1. pc[p] = "add_timer" => irq = << >>
        BY TimerFacts
      <4>2. timer_list = << >> => Range(timer_list) = {}
        BY DEF Range
      <4> QED BY <4>1, <4>2 DEF Armed, WakeReader, Handle
    <3> QED BY <3>1, <3>2 DEF WInv, Ticks, WakeReader, Handle
  <2> QED BY <1>7, <2>3, <2>4
<1>8. ~Exit
  <2> SUFFICES ASSUME Exit PROVE FALSE
    OBVIOUS
  <2> DEFINE zombie == [state EXCEPT ![current] = "PROC_ZOMBIE"]
             up == parent[current]
  <2>1. state[current] = "PROC_RUNNABLE" /\ up \in Proc
    BY ExitStates
  <2>2. \/ state' = zombie
        \/ /\ wait_state[up] = "WT_CHILD" /\ state[up] = "PROC_SLEEPING"
           /\ state' = [zombie EXCEPT ![up] = "PROC_RUNNABLE"]
    BY ExitStates
  <2>3. p # current /\ (wait_state[up] = "WT_CHILD" => p # up)
    BY <1>2, <2>1
  <2> QED BY <1>1, <2>1, <2>2, <2>3
<1>9. ~Reparent
  BY <1>1, <1>2, <1>3, ReparentStates
<1> QED BY <1>3, <1>4, <1>5, <1>6, <1>7, <1>8, <1>9, StepKinds

\* What a process with a timer does is sleep, until it is due or killed.
LEMMA AlarmedKeeps == ASSUME WInv, IInv', Alarmed, [Next]_vars PROVE Alarmed'
<1> SUFFICES ASSUME NEW p \in Proc, Armed(p)'
             PROVE  exiting'[p] \/ state'[p] = "PROC_SLEEPING"
  BY DEF Alarmed
<1>1. CASE Armed(p)
  <2>1. CASE exiting[p]
    <3>1. state[p] # "PROC_ZOMBIE"
      <4>1. state[p] = "PROC_ZOMBIE" => pc[p] \in {"reparent", "zombie"}
        BY DEF WInv, IInv, Labels
      <4> QED BY <1>1, <4>1, TimerFacts DEF Armed
    <3>2. CASE UNCHANGED exiting
      BY <2>1, <3>2
    <3>3. CASE \E q \in Proc : SysKill(q)
      BY <2>1, <3>3 DEF SysKill, WInv, IInv, TypeOK
    <3>4. CASE \E q \in Proc : WaitReap(q)
      <4>1. PICK q \in Proc : WaitReap(q)
        BY <3>4
      <4>2. q # p /\ exiting' = [exiting EXCEPT ![q] = FALSE]
        BY <3>1, <4>1, ReapStates DEF WaitReap
      <4> QED BY <2>1, <4>2 DEF WInv, IInv, TypeOK
    <3> QED BY <3>2, <3>3, <3>4, ExitingKinds
  <2>2. CASE state[p] = "PROC_SLEEPING" /\ state'[p] # "PROC_SLEEPING"
    <3>1. CASE ExpireTimer /\ p = Head(timer_list)
      <4>1. /\ timer_list \in Seq(Proc) /\ IsInjective(timer_list) /\ expires \in [Proc -> Nat]
            /\ del_timer(p) /\ UNCHANGED pc /\ irq # << >>
            /\ pc[p] = "add_timer" => irq = << >>
        BY <3>1, TimerFacts DEF ExpireTimer, Handle, expire_timer
      <4>2. Range(timer_list') = Range(timer_list) \ {p}
        BY <4>1, DelTimerEffect
      <4> QED BY <4>1, <4>2 DEF Armed
    <3>2. CASE exiting'[p]
      BY <3>2
    <3> QED BY <1>1, <2>2, <3>1, <3>2, AlarmedWakes
  <2> QED BY <1>1, <2>1, <2>2 DEF Alarmed
<1>2. CASE p = current /\ \E time \in 1..MaxSleep : SysSleep(time)
  <2>1. state' = [state EXCEPT ![current] = "PROC_SLEEPING"]
    BY <1>2 DEF SysSleep
  <2> QED BY <1>2, <2>1 DEF WInv, IInv, TypeOK
<1> QED BY <1>1, <1>2, ArmedBefore

\* In the beginning there is no timer.
LEMMA InitAlarmed == Init => Alarmed
BY DEF Init, Alarmed, Armed, Range

\* The delta list keeps time: a timer loses one tick in each clock interrupt and none
\* otherwise, whatever add_timer and del_timer do around it, and leaves the list
\* when it is due or because its process was killed.
THEOREM TimersKeepTime == Spec => TimersExact
<1>1. Spec => []Alarmed
  <2>1. WInv /\ WInv' /\ Alarmed /\ [Next]_vars => Alarmed'
    BY AlarmedKeeps DEF WInv
  <2> QED BY <2>1, InitAlarmed, SleepersInvariance, PTL DEF Spec
<1> DEFINE Timed == \A p \in Proc : Armed(p) => KeepsTime(p)
<1>2. WInv /\ WInv' /\ Alarmed /\ [Next]_vars => [Timed]_vars
  <2> SUFFICES ASSUME WInv, IInv', Alarmed, [Next]_vars, ~UNCHANGED vars,
                      NEW p \in Proc, Armed(p)
               PROVE  KeepsTime(p)
    BY DEF WInv
  <2> QED BY UntimedKeepsTime, TickKeepsTime, ExpireKeepsTime, SleepDoneKeepsTime,
             SysSleepKeepsTime, PassKeepsTime, LinkKeepsTime, TimerKinds
<1> HIDE DEF Timed
<1>3. Spec => [][Timed]_vars
  BY <1>1, <1>2, SleepersInvariance, PTL DEF Spec
<1> QED BY <1>3 DEF Timed, KeepsTime, TimersExact
=============================================================================
