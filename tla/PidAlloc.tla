------------------------------ MODULE PidAlloc ------------------------------
(***************************************************************************)
(* The allocation of pids: get_pid of kern/process/proc.c, and the list of *)
(* processes it looks through.                                             *)
(*                                                                         *)
(* get_pid keeps two static variables.  The pids strictly between last_pid *)
(* and next_safe are free, so most calls only count up; otherwise it scans *)
(* the list for a free pid and for the next one in use, and starts over    *)
(* when the candidate runs into next_safe.  One step is one iteration.     *)
(* do_fork and do_wait run with interrupts off or have the CPU to          *)
(* themselves, so the list does not change during a scan.                  *)
(***************************************************************************)
EXTENDS Naturals, SequencesExt

CONSTANTS
    MAX_PROCESS,    \* do_fork allows that many processes, idleproc included
    MAX_PID         \* pids are below

\* The static_assert of get_pid.
ASSUME PidAssumption ==
    /\ MAX_PROCESS \in Nat \ {0}
    /\ MAX_PID \in Nat
    /\ MAX_PID > MAX_PROCESS

VARIABLES
    proc_list,      \* the pids on proc_list, the newest first; idleproc, 0, is not on it
    last_pid,       \* the pid get_pid returned last, or is trying
    next_safe,      \* no process has a pid between last_pid and this one
    le,             \* the position of the scan in the list
    pc              \* where do_fork is

vars == <<proc_list, last_pid, next_safe, le, pc>>

TypeOK ==
    /\ proc_list \in Seq(1..(MAX_PID - 1))
    /\ last_pid \in 1..MAX_PID
    /\ next_safe \in 1..MAX_PID
    /\ le \in Nat
    /\ pc \in {"none", "get_pid", "scan", "link"}

Init ==
    /\ proc_list = << >>
    /\ last_pid = MAX_PID
    /\ next_safe = MAX_PID
    /\ le = 0
    /\ pc = "none"

\* do_fork, if there are not too many processes yet.
Fork ==
    /\ pc = "none"
    /\ Len(proc_list) + 1 < MAX_PROCESS
    /\ pc' = "get_pid"
    /\ UNCHANGED <<proc_list, last_pid, next_safe, le>>

\* The labels inside and repeat: scan from the head.
Rescan(pid) ==
    /\ last_pid' = pid
    /\ next_safe' = MAX_PID
    /\ le' = 1
    /\ pc' = "scan"
    /\ UNCHANGED proc_list

\* Mutant: last_pid may reach next_safe.
GetPid_late ==
    /\ pc = "get_pid"
    /\ IF last_pid + 1 >= MAX_PID THEN Rescan(1)
       ELSE IF last_pid + 1 > next_safe THEN Rescan(last_pid + 1)
       ELSE /\ last_pid' = last_pid + 1
            /\ pc' = "link"
            /\ UNCHANGED <<proc_list, next_safe, le>>

\* The entry of get_pid: count up while that is safe.
GetPid ==
    /\ pc = "get_pid"
    /\ IF last_pid + 1 >= MAX_PID THEN Rescan(1)
       ELSE IF last_pid + 1 >= next_safe THEN Rescan(last_pid + 1)
       ELSE /\ last_pid' = last_pid + 1
            /\ pc' = "link"
            /\ UNCHANGED <<proc_list, next_safe, le>>

\* The process the scan looks at.
Here == proc_list[le]
AtProcess == pc = "scan" /\ le <= Len(proc_list)

Pass(pid, safe) ==
    /\ last_pid' = pid
    /\ next_safe' = safe
    /\ le' = le + 1
    /\ UNCHANGED <<proc_list, pc>>

\* Mutant: the candidate is not counted up before the scan starts over.
ScanTaken_stuck ==
    /\ AtProcess
    /\ Here = last_pid
    /\ IF last_pid + 1 < next_safe
       THEN Pass(last_pid + 1, next_safe)
       ELSE Rescan(last_pid)

\* Its pid is the candidate: try the next one, and start over (from 1 at the end)
\* if that may be taken.
ScanTaken ==
    /\ AtProcess
    /\ Here = last_pid
    /\ IF last_pid + 1 < next_safe
       THEN Pass(last_pid + 1, next_safe)
       ELSE Rescan(IF last_pid + 1 >= MAX_PID THEN 1 ELSE last_pid + 1)

\* Mutant: next_safe becomes the last greater pid on the list, not the least.
ScanOther_last ==
    /\ AtProcess
    /\ Here # last_pid
    /\ Pass(last_pid, IF Here > last_pid THEN Here ELSE next_safe)

\* It is another's: the least greater pid is where the safe ones end.
ScanOther ==
    /\ AtProcess
    /\ Here # last_pid
    /\ Pass(last_pid, IF Here > last_pid /\ next_safe > Here THEN Here ELSE next_safe)

ScanEnd ==
    /\ pc = "scan"
    /\ le > Len(proc_list)
    /\ pc' = "link"
    /\ UNCHANGED <<proc_list, last_pid, next_safe, le>>

\* set_links: the new process goes to the head of the list.
Link ==
    /\ pc = "link"
    /\ proc_list' = <<last_pid>> \o proc_list
    /\ le' = 0
    /\ pc' = "none"
    /\ UNCHANGED <<last_pid, next_safe>>

\* remove_links, when do_wait frees a process.
Unlink(i) ==
    /\ pc = "none"
    /\ proc_list' = RemoveAt(proc_list, i)
    /\ UNCHANGED <<last_pid, next_safe, le, pc>>

Scan == ScanTaken \/ ScanOther \/ ScanEnd

Next ==
    \/ Fork \/ GetPid \/ Scan \/ Link
    \/ \E i \in DOMAIN proc_list : Unlink(i)

Spec == Init /\ [][Next]_vars

\* do_fork runs on to its end; nobody has to fork or to exit.
PidFair == WF_vars(GetPid \/ Scan \/ Link)

-----------------------------------------------------------------------------
(* Properties.                                                             *)

\* No two processes have the same pid, whatever was forked and freed since the
\* scan that filled the cache, and across the wrap at MAX_PID.
UniquePids == IsInjective(proc_list)

\* The cache is never stale: between two calls, and when get_pid returns, no
\* process has a pid in the range it will hand out without a look at the list.
CacheSafe ==
    pc # "scan" =>
        \A p \in Range(proc_list) : ~(last_pid < p /\ p < next_safe)

\* get_pid returns, however full the list is: starting over does not go on for
\* ever, for MAX_PID is greater than MAX_PROCESS.
GetPidReturns == (pc = "get_pid") ~> (pc = "none")
=============================================================================
