-------------------------------- MODULE Sem --------------------------------
(***************************************************************************)
(* The kernel semaphores (kern/sync/sem.c) and processes that use them as  *)
(* the file system does (sfs_lock.c, dev_disk0.c): nested, each process    *)
(* taking the next semaphore of one Order and giving them back in reverse. *)
(* Between two calls a process may be descheduled, so every interleaving   *)
(* of the calls is explored.  The same processes also wait on the keyboard *)
(* queue, which an interrupt wakes and a kill interrupts.                  *)
(***************************************************************************)
EXTENDS WaitQueue, FiniteSets

CONSTANTS Order,   \* the semaphores in the order they nest, one wait queue each
          kbd      \* the wait queue of dev_stdin

ASSUME OrderAssumption ==
  /\ Order \in Seq(Queues) /\ IsInjective(Order)
  /\ kbd \in Queues \ Range(Order) /\ Queues = Range(Order) \cup {kbd}

Sems == Range(Order)
InitialValue == 1   \* sem_init(&sem, 1): every semaphore of the kernel is a mutex

VARIABLES k,      \* the wait queues and the processes' states
          value,  \* sem->value
          place,     \* where each process is
          held,   \* the semaphores it has, in the order it took them
          waking, \* the interrupt's wakeup_queue: whom it wakes next (or NULL), and del
          line    \* history: who waits on each queue, in order of arrival
semvars == <<k, value, place, held, waking, line>>

-----------------------------------------------------------------------------
__up_counted(kk, v, s) ==
  LET w == wait_queue_first(kk, s)
  IN IF w = NULL THEN [k |-> kk, value |-> v + 1]
     ELSE [k |-> wakeup_wait(Asserted(kk, kk.wait_state[w] = WT_KSEM), s, w, WT_KSEM, TRUE),
           value |-> v + 1]
__up(kk, v, s) ==
  LET w == wait_queue_first(kk, s)
  IN IF w = NULL THEN [k |-> kk, value |-> v + 1]
     ELSE [k |-> wakeup_wait(Asserted(kk, kk.wait_state[w] = WT_KSEM), s, w, WT_KSEM, TRUE),
           value |-> v]

SemInit ==
  /\ k = EmptyQueues
  /\ value = [s \in Sems |-> InitialValue]
  /\ place = [p \in Procs |-> "idle"]
  /\ held = [p \in Procs |-> << >>]
  /\ waking = [wait |-> NULL, del |-> TRUE]
  /\ line = [q \in Queues |-> << >>]

Awake(p) == k.state[p] = "RUNNABLE"
CanTake(p) == place[p] \in {"idle", "take"} /\ Len(held[p]) < Len(Order)
NextSem(p) == Order[Len(held[p]) + 1]

Taken(p, s) ==
  /\ value' = [value EXCEPT ![s] = @ - 1]
  /\ held' = [held EXCEPT ![p] = Append(@, s)]
  /\ place' = [place EXCEPT ![p] = "take"]
  /\ UNCHANGED <<k, line, waking>>

\* __down up to the call of schedule()
Down(p) ==
  /\ CanTake(p)
  /\ LET s == NextSem(p)
     IN \/ value[s] > 0 /\ Taken(p, s)
        \/ /\ value[s] <= 0
           /\ k' = wait_current_set(k, s, p, WT_KSEM)
           /\ line' = [line EXCEPT ![s] = Append(@, p)]
           /\ place' = [place EXCEPT ![p] = "down"]
           /\ UNCHANGED <<value, held, waking>>

\* __down after schedule(), and down's assertion that the flags are WT_KSEM
DownReturn(p) ==
  /\ place[p] = "down" /\ Awake(p)
  /\ LET s == NextSem(p)
     IN /\ k' = Asserted(wait_current_del(k, s, p), k.flags[p] = WT_KSEM)
        /\ held' = [held EXCEPT ![p] = Append(@, s)]
  /\ place' = [place EXCEPT ![p] = "take"]
  /\ UNCHANGED <<value, line, waking>>

\* try_down that succeeds; one that fails changes nothing
try_down(p) == CanTake(p) /\ value[NextSem(p)] > 0 /\ Taken(p, NextSem(p))

TurnBack(p) ==
  /\ place[p] = "take" /\ place' = [place EXCEPT ![p] = "give"] /\ UNCHANGED <<k, value, held, line, waking>>

Up(p) ==
  /\ place[p] = "give"
  /\ LET s == Last(held[p])
         after == __up(k, value[s], s)
     IN /\ k' = after.k
        /\ value' = [value EXCEPT ![s] = after.value]
        /\ line' = [line EXCEPT ![s] = RemoveFirst(@, wait_queue_first(k, s))]
  /\ held' = [held EXCEPT ![p] = Front(@)]
  /\ place' = [place EXCEPT ![p] = IF Len(held[p]) = 1 THEN "idle" ELSE "give"]
  /\ UNCHANGED waking

\* dev_stdin_read: sleep for a key; woken, leave the queue if still in it.
Read(p) ==
  /\ place[p] = "idle"
  /\ k' = wait_current_set(k, kbd, p, WT_KBD)
  /\ line' = [line EXCEPT ![kbd] = Append(@, p)]
  /\ place' = [place EXCEPT ![p] = "read"]
  /\ UNCHANGED <<value, held, waking>>

ReadReturn(p) ==
  /\ place[p] = "read" /\ Awake(p)
  /\ k' = wait_current_del(k, kbd, p)
  /\ line' = [line EXCEPT ![kbd] = RemoveFirst(@, p)]
  /\ place' = [place EXCEPT ![p] = "idle"]
  /\ UNCHANGED <<value, held, waking>>

\* The keyboard interrupt starts to wake the queue; the API also wakes the
\* first waiter only, and leaves the woken in the queue when del is 0.
Key(del) ==
  /\ ~wait_queue_empty(k, kbd)
  /\ \/ /\ waking' = [wait |-> wait_queue_first(k, kbd), del |-> del]
        /\ UNCHANGED <<k, line>>
     \/ /\ k' = wakeup_first(k, kbd, WT_KBD, del)
        /\ line' = [line EXCEPT ![kbd] = IF del THEN RemoveFirst(@, wait_queue_first(k, kbd)) ELSE @]
        /\ UNCHANGED waking
  /\ UNCHANGED <<value, place, held>>

\* Interrupts are off until the queue has been walked, a turn at a time.
wakeup_queue ==
  /\ waking.wait # NULL
  /\ k' = wakeup_turn(k, kbd, waking.wait, WT_KBD, waking.del)
  /\ waking' = [waking EXCEPT !.wait = next_woken(k', kbd, @, waking.del)]
  /\ line' = [line EXCEPT ![kbd] = IF waking.del THEN RemoveFirst(@, waking.wait) ELSE @]
  /\ UNCHANGED <<value, place, held>>

\* do_kill wakes a process only from an interruptible sleep.
Kill(p) ==
  /\ ~Awake(p) /\ Interruptible(k.wait_state[p])
  /\ k' = wakeup_proc(k, p)
  /\ UNCHANGED <<value, place, held, line, waking>>

InterruptsOn == waking.wait = NULL
SemNext == \/ /\ InterruptsOn
              /\ \/ \E p \in Procs : \/ Down(p) \/ DownReturn(p) \/ try_down(p) \/ TurnBack(p) \/ Up(p)
                                     \/ Read(p) \/ ReadReturn(p) \/ Kill(p)
                 \/ \E del \in BOOLEAN : Key(del)
           \/ wakeup_queue
SemSpec == SemInit /\ [][SemNext]_semvars

\* A process that runs or is woken goes on, and gives back what it holds: the
\* scheduler is round-robin and no critical section of the kernel loops.  One at a
\* time can be in that position, since the nesting begins with Order[1].  An
\* interrupt stops it for a while only: it goes on when the handler is done, so
\* its fairness is strong.
Proceeds(p) == /\ InterruptsOn
               /\ \/ DownReturn(p) \/ Up(p) \/ TurnBack(p)
                  \/ held[p] # << >> /\ Down(p)
SemFair == WF_semvars(wakeup_queue) /\ SF_semvars(\E p \in Procs : Proceeds(p))

-----------------------------------------------------------------------------
Holders(s) == {p \in Procs : s \in Range(held[p])}
\* woken by __up with the semaphore in hand, not yet back from schedule()
Handed(s) == {p \in Procs : place[p] = "down" /\ NextSem(p) = s /\ Awake(p)}

\* The wait queues and the semaphores agree: every queue is a well-formed
\* list, forwards and backwards, of exactly the processes that wait, first
\* come first; a semaphore with waiters has no units left, and its units are
\* conserved, one being handed straight to the process that __up wakes; a
\* sleeper on a semaphore is only woken by __up, so no assertion of sem.c,
\* wait.c fails.
SemExact ==
  /\ k.ok
  /\ \A q \in Queues : Ring(k.next, k.prev, q, line[q]) /\ IsInjective(line[q])
  /\ \A p \in Procs : wait_in_queue(k, p) => \E q \in Queues : p \in Range(line[q])
  /\ \A s \in Sems :
       /\ value[s] >= 0
       /\ line[s] # << >> => value[s] = 0
       /\ value[s] + Cardinality(Holders(s)) + Cardinality(Handed(s)) = InitialValue
  /\ \A p \in Procs : ~Awake(p) => place[p] \in {"down", "read"} /\ wait_in_queue(k, p)

\* down returns: whoever waits for a semaphore gets it, because __up serves
\* the queue in order and hands the unit over, so that no later down or
\* try_down can take it first.
DownReturns == \A p \in Procs : place[p] = "down" ~> place[p] = "take"
=============================================================================
