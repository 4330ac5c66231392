--------------------------- MODULE PidAllocProofs ---------------------------
(***************************************************************************)
(* Proofs about module PidAlloc, for every MAX_PROCESS and MAX_PID: no two *)
(* processes get the same pid, and what get_pid remembers from its last    *)
(* scan is never out of date.                                              *)
(***************************************************************************)
EXTENDS PidAlloc, SeqLemmas

\* Is pid p one that get_pid would hand out, from pid on, without a scan?
Offered(p, pid, safe) == pid <= p /\ p < safe

\* What a scan knows: no process it has passed has the candidate's pid, or one
\* that is still said to be safe.
Scanning ==
    pc = "scan" =>
        /\ last_pid < next_safe
        /\ le \in 1..(Len(proc_list) + 1)
        /\ \A i \in 1..(le - 1) : ~Offered(proc_list[i], last_pid, next_safe)

\* The pid that do_fork is about to give away is nobody's.
Fresh ==
    pc = "link" => last_pid < MAX_PID /\ last_pid \notin Range(proc_list)

IInv == TypeOK /\ UniquePids /\ CacheSafe /\ Scanning /\ Fresh

-----------------------------------------------------------------------------

\* An element of the list is at a position, and a pid.
LEMMA Elements ==
    ASSUME TypeOK
    PROVE  /\ Len(proc_list) \in Nat /\ DOMAIN proc_list = 1..Len(proc_list)
           /\ \A i \in 1..Len(proc_list) : proc_list[i] \in 1..(MAX_PID - 1)
           /\ Range(proc_list) = {proc_list[i] : i \in 1..Len(proc_list)}
           /\ Range(proc_list) \subseteq 1..(MAX_PID - 1)
<1>1. proc_list \in Seq(1..(MAX_PID - 1))
  BY DEF TypeOK
<1>2. /\ Len(proc_list) \in Nat /\ DOMAIN proc_list = 1..Len(proc_list)
      /\ \A i \in 1..Len(proc_list) : proc_list[i] \in 1..(MAX_PID - 1)
  BY <1>1, LenProperties, ElementOfSeq
<1>3. Range(proc_list) = {proc_list[i] : i \in 1..Len(proc_list)}
  BY <1>2 DEF Range
<1> QED BY <1>2, <1>3

\* The invariant holds at boot.
LEMMA InitIInv == Init => IInv
<1> SUFFICES ASSUME Init PROVE IInv
  OBVIOUS
<1>1. MAX_PID \in 1..MAX_PID /\ << >> \in Seq(1..(MAX_PID - 1))
  BY PidAssumption
<1>2. TypeOK
  BY <1>1 DEF Init, TypeOK
<1>3. Range(proc_list) = {} /\ IsInjective(proc_list)
  BY DEF Init, Range, IsInjective
<1> QED BY <1>2, <1>3 DEF IInv, UniquePids, CacheSafe, Scanning, Fresh, Init

\* A scan that starts from a pid below MAX_PID knows nothing yet.
LEMMA RescanStep ==
    ASSUME IInv, NEW pid \in 1..(MAX_PID - 1), Rescan(pid)
    PROVE  IInv'
<1>1. /\ last_pid' = pid /\ next_safe' = MAX_PID /\ le' = 1
      /\ pc' = "scan" /\ proc_list' = proc_list
  BY DEF Rescan
<1>2. TypeOK'
  BY <1>1, PidAssumption DEF IInv, TypeOK
<1>3. Scanning'
  BY <1>1, PidAssumption, Elements DEF IInv, Scanning
<1> QED BY <1>1, <1>2, <1>3 DEF IInv, UniquePids, CacheSafe, Fresh

\* A step of the scan past one process.
LEMMA PassStep ==
    ASSUME IInv, AtProcess, NEW pid \in 1..MAX_PID, NEW safe \in 1..MAX_PID, Pass(pid, safe),
           pid < safe, last_pid <= pid, safe <= next_safe, ~Offered(Here, pid, safe)
    PROVE  IInv'
<1>1. /\ last_pid' = pid /\ next_safe' = safe /\ le' = le + 1
      /\ proc_list' = proc_list /\ pc' = "scan" /\ pc = "scan"
  BY DEF Pass, AtProcess
<1>2. le \in 1..Len(proc_list) /\ Len(proc_list) \in Nat
  BY Elements DEF IInv, Scanning, AtProcess
<1>3. TypeOK'
  BY <1>1, <1>2 DEF IInv, TypeOK
<1>4. ASSUME NEW i \in 1..le PROVE ~Offered(proc_list[i], pid, safe)
  <2>1. CASE i = le
    BY <2>1 DEF Here
  <2>2. CASE i \in 1..(le - 1)
    <3>1. ~Offered(proc_list[i], last_pid, next_safe)
      BY <1>1, <2>2 DEF IInv, Scanning
    <3>2. proc_list[i] \in Nat
      BY <1>2, <2>2, Elements, PidAssumption DEF IInv
    <3> QED BY <3>1, <3>2, PidAssumption DEF Offered, IInv, TypeOK
  <2> QED BY <1>2, <2>1, <2>2
<1>5. Scanning'
  BY <1>1, <1>2, <1>4 DEF Scanning
<1> QED BY <1>1, <1>3, <1>5 DEF IInv, UniquePids, CacheSafe, Fresh

\* The entry of get_pid: a pid inside the safe range is free.
LEMMA GetPidStep == ASSUME IInv, GetPid PROVE IInv'
<1> USE PidAssumption
<1>1. last_pid \in 1..MAX_PID /\ next_safe \in 1..MAX_PID /\ pc = "get_pid"
  BY DEF IInv, TypeOK, GetPid
<1>2. CASE last_pid + 1 >= MAX_PID
  <2>1. Rescan(1) /\ 1 \in 1..(MAX_PID - 1)
    BY <1>2 DEF GetPid
  <2> QED BY <2>1, RescanStep
<1>3. CASE last_pid + 1 < MAX_PID /\ last_pid + 1 >= next_safe
  <2>1. Rescan(last_pid + 1) /\ last_pid + 1 \in 1..(MAX_PID - 1)
    BY <1>1, <1>3 DEF GetPid
  <2> QED BY <2>1, RescanStep
<1>4. CASE last_pid + 1 < MAX_PID /\ last_pid + 1 < next_safe
  <2>1. /\ last_pid' = last_pid + 1 /\ pc' = "link"
        /\ UNCHANGED <<proc_list, next_safe, le>>
    BY <1>1, <1>4 DEF GetPid
  <2>2. TypeOK'
    BY <1>1, <1>4, <2>1 DEF IInv, TypeOK
  <2>3. \A p \in Range(proc_list) : p \in Nat /\ ~(last_pid < p /\ p < next_safe)
    BY <1>1, Elements DEF IInv, CacheSafe
  <2>4. CacheSafe' /\ Fresh'
    BY <1>1, <1>4, <2>1, <2>3 DEF CacheSafe, Fresh
  <2> QED BY <2>1, <2>2, <2>4 DEF IInv, UniquePids, Scanning
<1> QED BY <1>1, <1>2, <1>3, <1>4

\* The scan keeps what it knows, and knows all at its end.
LEMMA ScanStep == ASSUME IInv, Scan PROVE IInv'
<1> USE PidAssumption
<1>1. /\ pc = "scan" /\ last_pid < next_safe
      /\ last_pid \in 1..MAX_PID /\ next_safe \in 1..MAX_PID
      /\ le \in 1..(Len(proc_list) + 1) /\ Len(proc_list) \in Nat
  BY Elements DEF IInv, TypeOK, Scanning, Scan, ScanTaken, ScanOther, ScanEnd, AtProcess
<1>2. CASE ScanTaken
  <2>1. AtProcess /\ Here = last_pid
    BY <1>2 DEF ScanTaken
  <2>2. CASE last_pid + 1 < next_safe
    <3>1. Pass(last_pid + 1, next_safe) /\ last_pid + 1 \in 1..MAX_PID
      BY <1>1, <1>2, <2>2 DEF ScanTaken
    <3>2. ~Offered(Here, last_pid + 1, next_safe)
      BY <1>1, <2>1 DEF Offered
    <3> QED BY <1>1, <2>1, <2>2, <3>1, <3>2, PassStep
  <2>3. CASE ~(last_pid + 1 < next_safe)
    <3> DEFINE pid == IF last_pid + 1 >= MAX_PID THEN 1 ELSE last_pid + 1
    <3>1. Rescan(pid)
      BY <1>2, <2>3 DEF ScanTaken
    <3>2. pid \in 1..(MAX_PID - 1)
      BY <1>1
    <3> HIDE DEF pid
    <3> QED BY <3>1, <3>2, RescanStep
  <2> QED BY <2>2, <2>3
<1>3. CASE ScanOther
  <2> DEFINE safe == IF Here > last_pid /\ next_safe > Here THEN Here ELSE next_safe
  <2>1. AtProcess /\ Here # last_pid /\ Pass(last_pid, safe)
    BY <1>3 DEF ScanOther
  <2>2. Here \in 1..(MAX_PID - 1)
    BY <1>1, <2>1, Elements DEF AtProcess, Here, IInv
  <2>3. /\ safe \in 1..MAX_PID /\ last_pid < safe /\ safe <= next_safe
        /\ ~Offered(Here, last_pid, safe)
    BY <1>1, <2>1, <2>2 DEF Offered
  <2> HIDE DEF safe
  <2> QED BY <1>1, <2>1, <2>3, PassStep
<1>4. CASE ScanEnd
  <2>1. /\ le = Len(proc_list) + 1 /\ pc' = "link"
        /\ UNCHANGED <<proc_list, last_pid, next_safe, le>>
    BY <1>1, <1>4 DEF ScanEnd
  <2>2. \A p \in Range(proc_list) : p \in Nat /\ ~Offered(p, last_pid, next_safe)
    <3>1. \A i \in 1..Len(proc_list) : ~Offered(proc_list[i], last_pid, next_safe)
      BY <1>1, <2>1 DEF IInv, Scanning
    <3>2. Range(proc_list) \subseteq 1..(MAX_PID - 1)
      BY Elements DEF IInv
    <3>3. Range(proc_list) = {proc_list[i] : i \in 1..Len(proc_list)}
      BY Elements DEF IInv
    <3> QED BY <3>1, <3>2, <3>3
  <2>3. CacheSafe' /\ Fresh'
    BY <1>1, <2>1, <2>2 DEF CacheSafe, Fresh, Offered
  <2>4. TypeOK'
    BY <2>1 DEF IInv, TypeOK
  <2> QED BY <2>1, <2>3, <2>4 DEF IInv, UniquePids, Scanning
<1> QED BY <1>2, <1>3, <1>4 DEF Scan

\* A process appears with the pid that was found, which is outside the safe range.
LEMMA LinkStep == ASSUME IInv, Link PROVE IInv'
<1>1. /\ pc = "link" /\ pc' = "none" /\ le' = 0
      /\ proc_list' = <<last_pid>> \o proc_list
      /\ UNCHANGED <<last_pid, next_safe>>
  BY DEF Link
<1>2. /\ last_pid \in 1..(MAX_PID - 1) /\ last_pid \notin Range(proc_list)
      /\ proc_list \in Seq(1..(MAX_PID - 1)) /\ IsInjective(proc_list)
  BY <1>1, PidAssumption DEF IInv, TypeOK, UniquePids, Fresh
<1>3. /\ proc_list' \in Seq(1..(MAX_PID - 1))
      /\ Range(proc_list') = Range(proc_list) \union {last_pid}
      /\ IsInjective(proc_list')
  <2> DEFINE t == <<last_pid>> \o proc_list
             Pid == 1..(MAX_PID - 1)
  <2>1. last_pid \in Pid /\ proc_list \in Seq(Pid)
    BY <1>2
  <2> HIDE DEF Pid
  <2>2. /\ t \in Seq(Pid)
        /\ Range(t) = Range(proc_list) \union {last_pid}
        /\ IsInjective(t)
    BY <1>2, <2>1, ConsElements
  <2>3. proc_list' = t
    BY <1>1
  <2> HIDE DEF t
  <2> QED BY <2>2, <2>3 DEF Pid
<1>4. TypeOK'
  BY <1>1, <1>3 DEF IInv, TypeOK
<1>5. CacheSafe'
  BY <1>1, <1>2, <1>3 DEF IInv, CacheSafe
<1> QED BY <1>1, <1>3, <1>4, <1>5 DEF IInv, UniquePids, Scanning, Fresh

\* A process disappears, and nobody else's pid changes.
LEMMA UnlinkStep == ASSUME IInv, NEW i \in DOMAIN proc_list, Unlink(i) PROVE IInv'
<1>1. /\ pc = "none" /\ proc_list' = RemoveAt(proc_list, i)
      /\ UNCHANGED <<last_pid, next_safe, le, pc>>
  BY DEF Unlink
<1>2. proc_list \in Seq(1..(MAX_PID - 1)) /\ IsInjective(proc_list)
  BY DEF IInv, TypeOK, UniquePids
<1>3. /\ proc_list' \in Seq(1..(MAX_PID - 1))
      /\ Range(proc_list') \subseteq Range(proc_list)
      /\ IsInjective(proc_list')
  <2> DEFINE t == RemoveAt(proc_list, i)
             Pid == 1..(MAX_PID - 1)
  <2>1. proc_list \in Seq(Pid)
    BY <1>2
  <2> HIDE DEF Pid
  <2>2. t \in Seq(Pid) /\ Range(t) \subseteq Range(proc_list) /\ IsInjective(t)
    BY <1>2, <2>1, RemoveAtElements
  <2>3. proc_list' = t
    BY <1>1
  <2> HIDE DEF t
  <2> QED BY <2>2, <2>3 DEF Pid
<1>4. TypeOK'
  BY <1>1, <1>3 DEF IInv, TypeOK
<1>5. CacheSafe'
  BY <1>1, <1>3 DEF IInv, CacheSafe
<1> QED BY <1>1, <1>3, <1>4, <1>5 DEF IInv, UniquePids, Scanning, Fresh

\* Every step keeps the invariant.
LEMMA NextIInv == IInv /\ [Next]_vars => IInv'
<1> SUFFICES ASSUME IInv, [Next]_vars PROVE IInv'
  OBVIOUS
<1>1. CASE Fork
  <2>1. pc = "none" /\ pc' = "get_pid" /\ UNCHANGED <<proc_list, last_pid, next_safe, le>>
    BY <1>1 DEF Fork
  <2>2. TypeOK'
    BY <2>1 DEF IInv, TypeOK
  <2> QED BY <2>1, <2>2 DEF IInv, UniquePids, CacheSafe, Scanning, Fresh
<1>2. CASE UNCHANGED vars
  BY <1>2 DEF vars, IInv, TypeOK, UniquePids, CacheSafe, Scanning, Fresh
<1> QED BY <1>1, <1>2, GetPidStep, ScanStep, LinkStep, UnlinkStep DEF Next

\* The inductive invariant holds in every reachable state.
THEOREM PidInvariance == Spec => []IInv
BY InitIInv, NextIInv, PTL DEF Spec

\* get_pid never gives two processes the same pid, for any limits with MAX_PID
\* greater than MAX_PROCESS.
THEOREM PidsAreUnique == Spec => []UniquePids
<1>1. IInv => UniquePids
  BY DEF IInv
<1> QED BY <1>1, PidInvariance, PTL

\* The range between last_pid and next_safe stays free between two scans, whatever
\* is forked and freed.
THEOREM CacheIsSafe == Spec => []CacheSafe
<1>1. IInv => CacheSafe
  BY DEF IInv
<1> QED BY <1>1, PidInvariance, PTL
=============================================================================
