----------------------------- MODULE WaitQueue -----------------------------
(***************************************************************************)
(* The kernel's wait queues (kern/sync/wait.c) on its circular doubly      *)
(* linked lists (kern/include/list.h), pointer by pointer.  An element is  *)
(* the head of a queue or the wait_t on the stack of a process, which is   *)
(* named by the process.  k is the part of memory these functions write:   *)
(* next and prev, the fields of each wait_t, the state of each process and *)
(* ok, which an assertion that fails makes false.                          *)
(***************************************************************************)
EXTENDS Integers, Sequences, SequencesExt

CONSTANTS Procs, Queues, NoQueue

WT_INTERRUPTED == "WT_INTERRUPTED"
WT_KSEM == "WT_KSEM"
WT_KBD  == "WT_KBD"
Interruptible(wait_state) == wait_state = WT_KBD    \* WT_KBD has the bit WT_INTERRUPTED
NULL == "NULL"

Elements == Procs \cup Queues

ASSUME ElementsAssumption == Procs \cap Queues = {} /\ NULL \notin Elements

-----------------------------------------------------------------------------
(* list.h *)
list_init(k, e) == [k EXCEPT !.next[e] = e, !.prev[e] = e]
list_empty(k, e) == k.next[e] = e
list_next(k, e) == k.next[e]
list_prev(k, e) == k.prev[e]

__list_add(k, e, before, after) ==
  [k EXCEPT !.next = [[@ EXCEPT ![before] = e] EXCEPT ![e] = after],
            !.prev = [[@ EXCEPT ![after] = e] EXCEPT ![e] = before]]
list_add_before(k, at, e) == __list_add(k, e, list_prev(k, at), at)
list_add_after(k, at, e) == __list_add(k, e, at, list_next(k, at))

__list_del(k, before, after) == [k EXCEPT !.next[before] = after, !.prev[after] = before]
list_del(k, e) == __list_del(k, list_prev(k, e), list_next(k, e))
list_del_init(k, e) == list_init(list_del(k, e), e)

-----------------------------------------------------------------------------
(* wait.c *)
Asserted(k, condition) == [k EXCEPT !.ok = @ /\ condition]

wait_in_queue(k, w) == ~list_empty(k, w)
wait_queue_empty(k, q) == list_empty(k, q)

wait_init(k, w) == list_init([k EXCEPT !.flags[w] = WT_INTERRUPTED], w)

wait_queue_add_front(k, q, w) ==
  list_add_after([Asserted(k, list_empty(k, w)) EXCEPT !.queue[w] = q], q, w)
wait_queue_add(k, q, w) ==
  list_add_before([Asserted(k, list_empty(k, w)) EXCEPT !.queue[w] = q], q, w)

wait_queue_del(k, q, w) ==
  list_del_init(Asserted(k, ~list_empty(k, w) /\ k.queue[w] = q), w)

Member(q, e) == IF e = q THEN NULL ELSE e    \* le2wait, or NULL at the head
wait_queue_next(k, q, w) == Member(q, list_next(k, w))
wait_queue_prev(k, q, w) == Member(q, list_prev(k, w))
wait_queue_first(k, q) == Member(q, list_next(k, q))
wait_queue_last(k, q) == Member(q, list_prev(k, q))

\* sched.c: a runnable process is left as it is.
wakeup_proc(k, p) ==
  IF k.state[p] = "RUNNABLE" THEN k
  ELSE [k EXCEPT !.state[p] = "RUNNABLE", !.wait_state[p] = NULL]

wakeup_wait(k, q, w, flags, del) ==
  wakeup_proc([IF del THEN wait_queue_del(k, q, w) ELSE k EXCEPT !.flags[w] = flags], w)

wakeup_first(k, q, flags, del) ==
  LET w == wait_queue_first(k, q) IN IF w = NULL THEN k ELSE wakeup_wait(k, q, w, flags, del)

\* One turn of the loop of wakeup_queue, and who comes next: the first, if w is
\* gone, or the one after w.
wakeup_turn(k, q, w, flags, del) ==
  LET woken == wakeup_wait(k, q, w, flags, del)
  IN IF del THEN woken ELSE Asserted(woken, wait_in_queue(woken, w) /\ woken.queue[w] = q)
next_woken(k, q, w, del) == IF del THEN wait_queue_first(k, q) ELSE wait_queue_next(k, q, w)

wait_current_set(k, q, p, wait_state) ==
  wait_queue_add([wait_init(k, p) EXCEPT !.state[p] = "SLEEPING",
                                         !.wait_state[p] = wait_state], q, p)

wait_current_del(k, q, p) == IF wait_in_queue(k, p) THEN wait_queue_del(k, q, p) ELSE k

EmptyQueues ==
  [next |-> [e \in Elements |-> e], prev |-> [e \in Elements |-> e],
   flags |-> [p \in Procs |-> WT_INTERRUPTED], queue |-> [p \in Procs |-> NoQueue],
   state |-> [p \in Procs |-> "RUNNABLE"], wait_state |-> [p \in Procs |-> NULL], ok |-> TRUE]

-----------------------------------------------------------------------------
(* What a queue holds: its head and the members s make one ring, in this   *)
(* order along next and in the reverse order along prev.                   *)
Around(q, s, i) == IF i \in 1..Len(s) THEN s[i] ELSE q
Ring(next, prev, q, s) ==
  \A i \in 0..Len(s) : /\ next[Around(q, s, i)] = Around(q, s, i + 1)
                        /\ prev[Around(q, s, i + 1)] = Around(q, s, i)
=============================================================================
