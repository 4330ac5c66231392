------------------------------- MODULE Stdin -------------------------------
(***************************************************************************)
(* The stdin device, kern/fs/devs/dev_stdin.c, on the wait queues of       *)
(* kern/sync/wait.c: characters come from the serial and keyboard          *)
(* interrupt handlers (and from a write to descriptor 0), and readers      *)
(* sleep until there is one.                                               *)
(*                                                                         *)
(* Which characters they are makes no difference here, so the ring is the  *)
(* number of unread ones, p_wpos - p_rpos.  Like Sched, the module has     *)
(* the functions; module Process calls them.                               *)
(***************************************************************************)
EXTENDS Sched

CONSTANTS
    STDIN_BUFSIZE   \* slots of stdin_buffer

ASSUME StdinAssumption == STDIN_BUFSIZE \in Nat \ {0}

VARIABLES
    wait_queue,     \* the readers' wait queue
    wakeup_flags,   \* wait->wakeup_flags = WT_KBD: dev_stdin_write woke the reader
    unread,         \* p_wpos - p_rpos
    len             \* what the reader still wants: len - ret in dev_stdin_read

stdin_vars == <<wait_queue, wakeup_flags, unread, len>>

\* wait_current_set(queue, wait, WT_KBD)
wait_current_set ==
    /\ state' = [state EXCEPT ![current] = "PROC_SLEEPING"]
    /\ wait_state' = [wait_state EXCEPT ![current] = "WT_KBD"]
    /\ wait_queue' = Append(wait_queue, current)
    /\ wakeup_flags' = [wakeup_flags EXCEPT ![current] = FALSE]

\* Mutant: a reader that was killed stays on the queue.
wait_current_del_none == UNCHANGED wait_queue

\* wait_current_del(queue, wait): a reader that was killed is still queued.
wait_current_del ==
    IF \E i \in DOMAIN wait_queue : wait_queue[i] = current
    THEN wait_queue' = RemoveAt(wait_queue,
                          CHOOSE i \in DOMAIN wait_queue : wait_queue[i] = current)
    ELSE UNCHANGED wait_queue

\* Mutant: the ring is never full.
dev_stdin_store_full == unread' = unread + 1

\* dev_stdin_write(c): the character is stored, and counted unless the ring is
\* full (then it has replaced an unread one).
dev_stdin_store ==
    unread' = IF unread < STDIN_BUFSIZE THEN unread + 1 ELSE unread

\* One iteration of wakeup_queue(wait_queue, WT_KBD, 1).
wakeup_wait ==
    /\ wait_queue # << >>
    /\ wait_queue' = Tail(wait_queue)
    /\ wakeup_flags' = [wakeup_flags EXCEPT ![Head(wait_queue)] = TRUE]
    /\ wakeup_proc(state, Head(wait_queue))

\* dev_stdin_read's loop, from try_again to a full buffer or an empty ring.
dev_stdin_read_done ==
    /\ unread >= len[current]
    /\ unread' = unread - len[current]
    /\ len' = [len EXCEPT ![current] = 0]
    /\ UNCHANGED <<wait_queue, wakeup_flags>>

dev_stdin_read_wait ==
    /\ unread < len[current]
    /\ unread' = 0
    /\ len' = [len EXCEPT ![current] = @ - unread]
    /\ wait_current_set
=============================================================================
