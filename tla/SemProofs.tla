----------------------------- MODULE SemProofs -----------------------------
(***************************************************************************)
(* Proofs about module Sem, for every set of processes and every order of  *)
(* semaphores: the circular lists that wait.c builds pointer by pointer    *)
(* are the waiting lines, and a semaphore's unit is with one process, on   *)
(* its way to one, or free.                                                *)
(***************************************************************************)
EXTENDS Sem, SeqLemmas, FiniteSetTheorems

-----------------------------------------------------------------------------
(* Rings.                                                                  *)

\* The positions of a ring: the head at both ends, a member between, no two
\* of the positions 0..Len(s) alike.
LEMMA AroundElements ==
    ASSUME NEW q \in Queues, NEW s \in Seq(Procs)
    PROVE  /\ Len(s) \in Nat /\ DOMAIN s = 1..Len(s)
           /\ Around(q, s, 0) = q /\ Around(q, s, Len(s) + 1) = q
           /\ \A i \in 1..Len(s) : Around(q, s, i) = s[i] /\ s[i] \in Procs /\ s[i] \in Range(s)
           /\ \A i \in 0..(Len(s) + 1) : Around(q, s, i) \in Range(s) \cup {q}
           /\ Range(s) \subseteq Procs /\ q \notin Procs
           /\ \A x \in Range(s) : \E i \in 1..Len(s) : x = s[i]
           /\ IsInjective(s) =>
                \A i, j \in 0..Len(s) : Around(q, s, i) = Around(q, s, j) => i = j
  <1>1. Len(s) \in Nat /\ DOMAIN s = 1..Len(s)
    BY LenProperties
  <1>2. q \notin Procs
    BY ElementsAssumption
  <1>3. \A i \in 1..Len(s) : s[i] \in Procs /\ s[i] \in Range(s)
    BY <1>1, ElementOfSeq DEF Range
  <1>4. Range(s) \subseteq Procs /\ \A x \in Range(s) : \E i \in 1..Len(s) : x = s[i]
    BY <1>1, <1>3 DEF Range
  <1>5. \A i \in 1..Len(s) : Around(q, s, i) = s[i]
    BY DEF Around
  <1>6. Around(q, s, 0) = q /\ Around(q, s, Len(s) + 1) = q
    BY <1>1 DEF Around
  <1>7. \A i \in 0..(Len(s) + 1) : Around(q, s, i) \in Range(s) \cup {q}
    BY <1>1, <1>3, <1>5, <1>6
  <1>8. ASSUME IsInjective(s), NEW i \in 0..Len(s), NEW j \in 0..Len(s), Around(q, s, i) = Around(q, s, j)
        PROVE  i = j
    <2>1. CASE i = 0 \/ j = 0
      BY <2>1, <1>1, <1>2, <1>3, <1>5, <1>6, <1>8
    <2>2. CASE i \in 1..Len(s) /\ j \in 1..Len(s)
      BY <2>2, <1>1, <1>5, <1>8 DEF IsInjective
    <2> QED
      BY <2>1, <2>2, <1>1
  <1> QED
    BY <1>1, <1>2, <1>3, <1>4, <1>5, <1>6, <1>7, <1>8

\* The two neighbours of the head, and of the member at j.
LEMMA RingEnds ==
    ASSUME NEW q \in Queues, NEW s \in Seq(Procs), NEW next, NEW prev, Ring(next, prev, q, s)
    PROVE  /\ next[q] = Around(q, s, 1)
           /\ prev[q] = Around(q, s, Len(s))
           /\ \A j \in 1..Len(s) : next[s[j]] = Around(q, s, j + 1) /\ prev[s[j]] = Around(q, s, j - 1)
  <1>1. \A i \in 0..Len(s) : /\ next[Around(q, s, i)] = Around(q, s, i + 1)
                              /\ prev[Around(q, s, i + 1)] = Around(q, s, i)
    BY DEF Ring
  <1>2. next[q] = Around(q, s, 1)
    <2>1. next[Around(q, s, 0)] = Around(q, s, 0 + 1)
      BY <1>1, AroundElements
    <2> QED
      BY <2>1, AroundElements
  <1>3. prev[q] = Around(q, s, Len(s))
    BY <1>1, AroundElements
  <1>4. ASSUME NEW j \in 1..Len(s)
        PROVE  next[s[j]] = Around(q, s, j + 1) /\ prev[s[j]] = Around(q, s, j - 1)
    <2>1. Len(s) \in Nat /\ Around(q, s, j) = s[j]
      BY AroundElements
    <2>2. j \in 0..Len(s) /\ j - 1 \in 0..Len(s) /\ (j - 1) + 1 = j
      BY <2>1
    <2>3. next[Around(q, s, j)] = Around(q, s, j + 1)
      BY <1>1, <2>2
    <2>4. prev[Around(q, s, (j - 1) + 1)] = Around(q, s, j - 1)
      BY <1>1, <2>2
    <2> QED
      BY <2>1, <2>2, <2>3, <2>4
  <1> QED
    BY <1>2, <1>3, <1>4

\* What list_add_before(q, w) does to the links.
LinkedLast(next, prev, q, w, next2, prev2) ==
  /\ next2[w] = q /\ next2[prev[q]] = w /\ \A x \in Elements \ {w, prev[q]} : next2[x] = next[x]
  /\ prev2[w] = prev[q] /\ prev2[q] = w /\ \A x \in Elements \ {w, q} : prev2[x] = prev[x]

\* list_add_before(head, w): w is the last of its line.
LEMMA RingAppend ==
    ASSUME NEW q \in Queues, NEW s \in Seq(Procs), IsInjective(s), NEW w \in Procs \ Range(s),
           NEW next, NEW prev, NEW next2, NEW prev2, Ring(next, prev, q, s),
           LinkedLast(next, prev, q, w, next2, prev2)
    PROVE  Ring(next2, prev2, q, Append(s, w))
  <1> USE DEF LinkedLast
  <1> DEFINE t == Append(s, w)
             n == Len(s)
  <1>1. n \in Nat /\ Len(t) = n + 1 /\ t \in Seq(Procs)
    BY AppendProperties, LenProperties
  <1>2. (\A i \in 1..n : t[i] = s[i]) /\ t[n + 1] = w
    BY AppendProperties
  <1>3. \A i \in 0..n : Around(q, t, i) = Around(q, s, i)
    BY <1>1, <1>2 DEF Around
  <1>4. Around(q, t, n + 1) = w /\ Around(q, t, n + 2) = q
    BY <1>1, <1>2 DEF Around
  <1>5. \A i \in 0..n : Around(q, s, i) \in Elements /\ Around(q, s, i) # w
    BY AroundElements DEF Elements
  <1>6. prev[q] = Around(q, s, n) /\ q # w /\ q \in Elements /\ w \in Elements
    BY RingEnds, AroundElements DEF Elements
  <1>7. ASSUME NEW i \in 0..(n + 1)
        PROVE  /\ next2[Around(q, t, i)] = Around(q, t, i + 1)
               /\ prev2[Around(q, t, i + 1)] = Around(q, t, i)
    <2>1. CASE i \in 0..(n - 1)
      <3>1. i \in 0..n /\ i + 1 \in 0..n /\ n \in 0..n /\ i # n /\ i + 1 # 0 /\ 0 \in 0..n
        BY <1>1, <2>1
      <3>2. Around(q, s, i) # prev[q] /\ Around(q, s, i + 1) # q
        BY <3>1, <1>6, AroundElements
      <3>3. next[Around(q, s, i)] = Around(q, s, i + 1) /\ prev[Around(q, s, i + 1)] = Around(q, s, i)
        BY <3>1 DEF Ring
      <3> QED
        BY <3>1, <3>2, <3>3, <1>3, <1>5
    <2>2. CASE i = n
      BY <2>2, <1>1, <1>3, <1>4, <1>5, <1>6
    <2>3. CASE i = n + 1
      BY <2>3, <1>1, <1>3, <1>4, <1>5, <1>6
    <2> QED
      BY <2>1, <2>2, <2>3, <1>1
  <1> QED
    BY <1>1, <1>7 DEF Ring

\* A write that leaves the ring's own elements alone leaves the ring.
LEMMA RingOther ==
    ASSUME NEW q \in Queues, NEW s \in Seq(Procs),
           NEW next, NEW prev, NEW next2, NEW prev2, Ring(next, prev, q, s),
           \A x \in Range(s) \cup {q} : next2[x] = next[x] /\ prev2[x] = prev[x]
    PROVE  Ring(next2, prev2, q, s)
  <1>1. ASSUME NEW i \in 0..Len(s)
        PROVE  /\ next2[Around(q, s, i)] = Around(q, s, i + 1)
               /\ prev2[Around(q, s, i + 1)] = Around(q, s, i)
    <2>1. i \in 0..(Len(s) + 1) /\ i + 1 \in 0..(Len(s) + 1)
      BY LenProperties
    <2>2. Around(q, s, i) \in Range(s) \cup {q} /\ Around(q, s, i + 1) \in Range(s) \cup {q}
      BY <2>1, AroundElements
    <2> QED
      BY <2>2 DEF Ring
  <1> QED
    BY <1>1 DEF Ring

\* list_del_init of the member at j closes the ring behind it.
LEMMA RingRemove ==
    ASSUME NEW q \in Queues, NEW s \in Seq(Procs), IsInjective(s), NEW j \in 1..Len(s),
           NEW next, NEW prev, NEW next2, NEW prev2, Ring(next, prev, q, s),
           prev[s[j]] # s[j] => next2[prev[s[j]]] = next[s[j]],
           next[s[j]] # s[j] => prev2[next[s[j]]] = prev[s[j]],
           \A x \in Elements \ {s[j], prev[s[j]]} : next2[x] = next[x],
           \A x \in Elements \ {s[j], next[s[j]]} : prev2[x] = prev[x]
    PROVE  Ring(next2, prev2, q, RemoveAt(s, j))
  <1> DEFINE t == RemoveAt(s, j)
             n == Len(s)
  <1>1. n \in Nat /\ n >= 1 /\ j \in Nat /\ j >= 1 /\ j <= n /\ DOMAIN s = 1..n
    BY AroundElements
  <1>2. t \in Seq(Procs) /\ Len(t) = n - 1
    BY <1>1, RemoveAtElements
  <1>3. \A i \in 1..(n - 1) : t[i] = IF i < j THEN s[i] ELSE s[i + 1]
    BY <1>1, RemoveAtIndices
  <1>4. \A i \in 0..n : Around(q, t, i) = IF i < j THEN Around(q, s, i) ELSE Around(q, s, i + 1)
    <2>1. ASSUME NEW i \in 0..n, i < j
          PROVE  Around(q, t, i) = Around(q, s, i)
      <3>1. CASE i = 0
        BY <3>1, <1>1, <1>2 DEF Around
      <3>2. CASE i # 0
        <4>1. i \in 1..(n - 1) /\ i \in 1..n /\ i \in 1..Len(t)
          BY <3>2, <2>1, <1>1, <1>2
        <4> QED
          BY <4>1, <2>1, <1>3 DEF Around
      <3> QED
        BY <3>1, <3>2
    <2>2. ASSUME NEW i \in 0..n, i >= j
          PROVE  Around(q, t, i) = Around(q, s, i + 1)
      <3>1. CASE i = n
        BY <3>1, <1>1, <1>2 DEF Around
      <3>2. CASE i # n
        <4>0. i \in Nat /\ i >= 1 /\ i <= n - 1
          BY <1>1, <2>2, <3>2
        <4>1. i \in 1..(n - 1) /\ i + 1 \in 1..Len(s) /\ i \in 1..Len(t)
          BY <4>0, <1>1, <1>2
        <4>2. Around(q, t, i) = t[i] /\ Around(q, s, i + 1) = s[i + 1]
          BY <4>1 DEF Around
        <4> QED
          BY <4>1, <4>2, <2>2, <1>1, <1>3
      <3> QED
        BY <3>1, <3>2
    <2> QED
      BY <2>1, <2>2, <1>1
  <1>5. /\ next[s[j]] = Around(q, s, j + 1) /\ prev[s[j]] = Around(q, s, j - 1)
        /\ s[j] = Around(q, s, j)
    BY RingEnds, AroundElements
  <1>6. \A i \in 0..(n + 1) : Around(q, s, i) \in Elements
    BY AroundElements DEF Elements
  <1>7. \A i, l \in 0..n : Around(q, s, i) = Around(q, s, l) => i = l
    BY AroundElements
  <1>7a. \A i, l \in 1..(n + 1) : Around(q, s, i) = Around(q, s, l) => i = l
    <2>1. \A i \in 1..n : Around(q, s, i) # q
      BY AroundElements
    <2>2. Around(q, s, n + 1) = q
      BY AroundElements
    <2> QED
      BY <2>1, <2>2, <1>1, <1>7
  <1>8. ASSUME NEW i \in 0..(n - 1)
        PROVE  /\ next2[Around(q, t, i)] = Around(q, t, i + 1)
               /\ prev2[Around(q, t, i + 1)] = Around(q, t, i)
    <2>1. CASE i + 1 < j
      <3>1. i \in 0..n /\ i + 1 \in 0..n /\ i + 1 \in 1..(n + 1) /\ j \in 0..n /\ j - 1 \in 0..n /\ i < j
            /\ j \in 1..(n + 1) /\ j + 1 \in 1..(n + 1)
        BY <2>1, <1>1
      <3>2. Around(q, t, i) = Around(q, s, i) /\ Around(q, t, i + 1) = Around(q, s, i + 1)
        BY <3>1, <2>1, <1>4
      <3>3. Around(q, s, i) # s[j] /\ Around(q, s, i) # prev[s[j]]
        BY <3>1, <2>1, <1>1, <1>5, <1>7
      <3>4. Around(q, s, i + 1) # s[j] /\ Around(q, s, i + 1) # next[s[j]]
        BY <3>1, <2>1, <1>1, <1>5, <1>7a
      <3>5. next[Around(q, s, i)] = Around(q, s, i + 1) /\ prev[Around(q, s, i + 1)] = Around(q, s, i)
        BY <3>1 DEF Ring
      <3>6. Around(q, s, i) \in Elements /\ Around(q, s, i + 1) \in Elements
        BY <3>1, <1>1, <1>6
      <3> QED
        BY <3>2, <3>3, <3>4, <3>5, <3>6
    <2>2. CASE i + 1 = j
      <3>1. i \in 0..n /\ i + 1 \in 0..n /\ i < j /\ ~(i + 1 < j) /\ i = j - 1
            /\ i \in 0..(n + 1) /\ (i + 1) + 1 \in 0..(n + 1) /\ (i + 1) + 1 = j + 1
            /\ j \in 0..n /\ j - 1 \in 0..n /\ i # j /\ j \in 1..(n + 1) /\ j + 1 \in 1..(n + 1)
            /\ j # j + 1
        BY <2>2, <1>1
      <3>2. Around(q, t, i) = Around(q, s, i) /\ Around(q, t, i + 1) = Around(q, s, j + 1)
        BY <3>1, <1>4
      <3>3. Around(q, s, i) # s[j] /\ Around(q, s, i) = prev[s[j]]
        BY <3>1, <1>5, <1>7
      <3>4. Around(q, s, j + 1) # s[j] /\ Around(q, s, j + 1) = next[s[j]]
        BY <3>1, <1>5, <1>7a
      <3>6. Around(q, s, i) \in Elements /\ Around(q, s, j + 1) \in Elements
        BY <3>1, <1>6
      <3> QED
        BY <3>2, <3>3, <3>4, <3>6
    <2>3. CASE i + 1 > j
      <3>1. i \in 0..n /\ i + 1 \in 0..n /\ ~(i < j) /\ ~(i + 1 < j)
            /\ i + 1 \in 0..(n + 1) /\ (i + 1) + 1 \in 1..(n + 1) /\ (i + 1) + 1 \in 0..(n + 1)
            /\ j \in 0..n /\ j - 1 \in 0..n /\ i + 1 # j /\ i + 1 # j - 1
            /\ j \in 1..(n + 1) /\ j + 1 \in 1..(n + 1) /\ (i + 1) + 1 # j /\ (i + 1) + 1 # j + 1
        BY <2>3, <1>1
      <3>2. Around(q, t, i) = Around(q, s, i + 1) /\ Around(q, t, i + 1) = Around(q, s, (i + 1) + 1)
        BY <3>1, <1>4
      <3>3. Around(q, s, i + 1) # s[j] /\ Around(q, s, i + 1) # prev[s[j]]
        BY <3>1, <1>5, <1>7
      <3>4. Around(q, s, (i + 1) + 1) # s[j] /\ Around(q, s, (i + 1) + 1) # next[s[j]]
        BY <3>1, <1>5, <1>7a
      <3>5. next[Around(q, s, i + 1)] = Around(q, s, (i + 1) + 1)
            /\ prev[Around(q, s, (i + 1) + 1)] = Around(q, s, i + 1)
        BY <3>1 DEF Ring
      <3>6. Around(q, s, i + 1) \in Elements /\ Around(q, s, (i + 1) + 1) \in Elements
        BY <3>1, <1>6
      <3> QED
        BY <3>2, <3>3, <3>4, <3>5, <3>6
    <2> QED
      BY <2>1, <2>2, <2>3, <1>1
  <1> QED
    BY <1>1, <1>2, <1>8 DEF Ring

-----------------------------------------------------------------------------
(* What the functions of wait.c write.                                     *)

Reasons == {WT_KSEM, WT_KBD}
Memory == [next : [Elements -> Elements], prev : [Elements -> Elements],
           flags : [Procs -> {WT_INTERRUPTED, WT_KSEM, WT_KBD}],
           queue : [Procs -> Queues \cup {NoQueue}],
           state : [Procs -> {"RUNNABLE", "SLEEPING"}],
           wait_state : [Procs -> {NULL, WT_KSEM, WT_KBD}], ok : BOOLEAN]

\* wait_current_set puts the process to sleep at the end of the queue.
LEMMA WaitCurrentSet ==
    ASSUME NEW m \in Memory, NEW q \in Queues, NEW p \in Procs, NEW ws \in Reasons
    PROVE  /\ wait_current_set(m, q, p, ws) \in Memory /\ wait_current_set(m, q, p, ws).ok = m.ok
           /\ wait_current_set(m, q, p, ws).next[p] = q /\ (m.prev[q] # p => wait_current_set(m, q, p, ws).next[m.prev[q]] = p)
           /\ \A x \in Elements \ {p, m.prev[q]} : wait_current_set(m, q, p, ws).next[x] = m.next[x]
           /\ wait_current_set(m, q, p, ws).prev[p] = m.prev[q] /\ wait_current_set(m, q, p, ws).prev[q] = p
           /\ \A x \in Elements \ {p, q} : wait_current_set(m, q, p, ws).prev[x] = m.prev[x]
           /\ wait_current_set(m, q, p, ws).flags[p] = WT_INTERRUPTED /\ wait_current_set(m, q, p, ws).queue[p] = q
           /\ wait_current_set(m, q, p, ws).state[p] = "SLEEPING" /\ wait_current_set(m, q, p, ws).wait_state[p] = ws
           /\ \A x \in Procs \ {p} : /\ wait_current_set(m, q, p, ws).flags[x] = m.flags[x] /\ wait_current_set(m, q, p, ws).queue[x] = m.queue[x]
                                     /\ wait_current_set(m, q, p, ws).state[x] = m.state[x] /\ wait_current_set(m, q, p, ws).wait_state[x] = m.wait_state[x]
  <1> DEFINE a == wait_init(m, p)
             b == [a EXCEPT !.state[p] = "SLEEPING", !.wait_state[p] = ws]
             c == [Asserted(b, list_empty(b, p)) EXCEPT !.queue[p] = q]
             d == list_add_before(c, q, p)
  <1>0. p \in Elements /\ q \in Elements /\ p # q
    BY ElementsAssumption DEF Elements
  <1>1. /\ a \in Memory
        /\ a.next = [m.next EXCEPT ![p] = p] /\ a.prev = [m.prev EXCEPT ![p] = p]
        /\ a.flags = [m.flags EXCEPT ![p] = WT_INTERRUPTED]
        /\ a.queue = m.queue /\ a.state = m.state /\ a.wait_state = m.wait_state /\ a.ok = m.ok
    BY <1>0 DEF wait_init, list_init, Memory
  <1> HIDE DEF a
  <1>2. /\ b \in Memory
        /\ b.next = a.next /\ b.prev = a.prev /\ b.flags = a.flags /\ b.queue = a.queue /\ b.ok = a.ok
        /\ b.state = [a.state EXCEPT ![p] = "SLEEPING"]
        /\ b.wait_state = [a.wait_state EXCEPT ![p] = ws]
    BY <1>1 DEF Memory, Reasons
  <1> HIDE DEF b
  <1>3. list_empty(b, p)
    BY <1>0, <1>1, <1>2 DEF list_empty, Memory
  <1>4. /\ c \in Memory
        /\ c.next = b.next /\ c.prev = b.prev /\ c.flags = b.flags /\ c.state = b.state
        /\ c.wait_state = b.wait_state /\ c.ok = b.ok
        /\ c.queue = [b.queue EXCEPT ![p] = q]
    BY <1>2, <1>3 DEF Asserted, Memory
  <1> HIDE DEF c
  <1>5. c.prev[q] = m.prev[q] /\ m.prev[q] \in Elements
    BY <1>0, <1>1, <1>2, <1>4 DEF Memory
  <1>6. /\ d \in Memory
        /\ d.next = [[c.next EXCEPT ![m.prev[q]] = p] EXCEPT ![p] = q]
        /\ d.prev = [[c.prev EXCEPT ![q] = p] EXCEPT ![p] = m.prev[q]]
        /\ d.flags = c.flags /\ d.queue = c.queue /\ d.state = c.state
        /\ d.wait_state = c.wait_state /\ d.ok = c.ok
    BY <1>0, <1>4, <1>5 DEF list_add_before, __list_add, list_prev, Memory
  <1>7. d = wait_current_set(m, q, p, ws)
    BY DEF a, b, c, d, wait_current_set, wait_queue_add
  <1> HIDE DEF d
  <1>9. /\ d.next[p] = q /\ (m.prev[q] # p => d.next[m.prev[q]] = p)
        /\ \A x \in Elements \ {p, m.prev[q]} : d.next[x] = m.next[x]
        /\ d.prev[p] = m.prev[q] /\ d.prev[q] = p
        /\ \A x \in Elements \ {p, q} : d.prev[x] = m.prev[x]
    BY <1>0, <1>1, <1>2, <1>4, <1>5, <1>6 DEF Memory
  <1>10. /\ d.flags = [m.flags EXCEPT ![p] = WT_INTERRUPTED] /\ d.queue = [m.queue EXCEPT ![p] = q]
         /\ d.state = [m.state EXCEPT ![p] = "SLEEPING"] /\ d.wait_state = [m.wait_state EXCEPT ![p] = ws]
         /\ d.ok = m.ok
    BY <1>1, <1>2, <1>4, <1>6
  <1>11. /\ d.flags[p] = WT_INTERRUPTED /\ d.queue[p] = q
         /\ d.state[p] = "SLEEPING" /\ d.wait_state[p] = ws
    BY <1>10 DEF Memory
  <1>12. \A x \in Procs \ {p} : /\ d.flags[x] = m.flags[x] /\ d.queue[x] = m.queue[x]
                                 /\ d.state[x] = m.state[x] /\ d.wait_state[x] = m.wait_state[x]
    BY <1>10 DEF Memory
  <1> QED
    BY <1>6, <1>7, <1>9, <1>10, <1>11, <1>12, Zenon

\* wait_queue_del takes w out of its ring.
LEMMA WaitQueueDel ==
    ASSUME NEW m \in Memory, NEW q \in Queues, NEW w \in Procs
    PROVE  /\ wait_queue_del(m, q, w) \in Memory
           /\ wait_queue_del(m, q, w).next[w] = w /\ (m.prev[w] # w => wait_queue_del(m, q, w).next[m.prev[w]] = m.next[w])
           /\ \A x \in Elements \ {w, m.prev[w]} : wait_queue_del(m, q, w).next[x] = m.next[x]
           /\ wait_queue_del(m, q, w).prev[w] = w /\ (m.next[w] # w => wait_queue_del(m, q, w).prev[m.next[w]] = m.prev[w])
           /\ \A x \in Elements \ {w, m.next[w]} : wait_queue_del(m, q, w).prev[x] = m.prev[x]
           /\ wait_queue_del(m, q, w).flags = m.flags
           /\ wait_queue_del(m, q, w).queue = m.queue
           /\ wait_queue_del(m, q, w).state = m.state
           /\ wait_queue_del(m, q, w).wait_state = m.wait_state
           /\ m.next[w] # w /\ m.queue[w] = q => wait_queue_del(m, q, w).ok = m.ok
  <1> DEFINE a == Asserted(m, ~list_empty(m, w) /\ m.queue[w] = q)
             b == list_del(a, w)
             c == list_init(b, w)
  <1>0. w \in Elements /\ q \in Elements
    BY DEF Elements
  <1>1. /\ a \in Memory
        /\ a.next = m.next /\ a.prev = m.prev /\ a.flags = m.flags /\ a.queue = m.queue
        /\ a.state = m.state /\ a.wait_state = m.wait_state
        /\ m.next[w] # w /\ m.queue[w] = q => a.ok = m.ok
    BY DEF Asserted, list_empty, Memory
  <1> HIDE DEF a
  <1>2. m.next[w] \in Elements /\ m.prev[w] \in Elements
    BY <1>0 DEF Memory
  <1>3. /\ b \in Memory
        /\ b.next = [m.next EXCEPT ![m.prev[w]] = m.next[w]]
        /\ b.prev = [m.prev EXCEPT ![m.next[w]] = m.prev[w]]
        /\ b.flags = a.flags /\ b.queue = a.queue /\ b.state = a.state
        /\ b.wait_state = a.wait_state /\ b.ok = a.ok
    BY <1>1, <1>2 DEF list_del, __list_del, list_next, list_prev, Memory
  <1> HIDE DEF b
  <1>4. /\ c \in Memory
        /\ c.next = [b.next EXCEPT ![w] = w] /\ c.prev = [b.prev EXCEPT ![w] = w]
        /\ c.flags = b.flags /\ c.queue = b.queue /\ c.state = b.state
        /\ c.wait_state = b.wait_state /\ c.ok = b.ok
    BY <1>0, <1>3 DEF list_init, Memory
  <1>5. c = wait_queue_del(m, q, w)
    BY DEF a, b, c, wait_queue_del, list_del_init
  <1> HIDE DEF c
  <1>6. /\ c.next[w] = w /\ (m.prev[w] # w => c.next[m.prev[w]] = m.next[w])
        /\ \A x \in Elements \ {w, m.prev[w]} : c.next[x] = m.next[x]
        /\ c.prev[w] = w /\ (m.next[w] # w => c.prev[m.next[w]] = m.prev[w])
        /\ \A x \in Elements \ {w, m.next[w]} : c.prev[x] = m.prev[x]
    BY <1>0, <1>2, <1>3, <1>4 DEF Memory
  <1> QED
    BY <1>1, <1>3, <1>4, <1>5, <1>6

\* m2 is m with w awake.
Woken(m, m2, w) ==
  /\ m2.state[w] = "RUNNABLE"
  /\ \A x \in Procs \ {w} : /\ m2.state[x] = m.state[x] /\ m2.flags[x] = m.flags[x]
                            /\ m2.wait_state[x] = m.wait_state[x]

\* wakeup_proc alone, as do_kill calls it.
LEMMA WakeupProc ==
    ASSUME NEW m \in Memory, NEW w \in Procs
    PROVE  /\ wakeup_proc(m, w) \in Memory
           /\ wakeup_proc(m, w).next = m.next /\ wakeup_proc(m, w).prev = m.prev
           /\ wakeup_proc(m, w).queue = m.queue /\ wakeup_proc(m, w).ok = m.ok
           /\ wakeup_proc(m, w).flags = m.flags /\ Woken(m, wakeup_proc(m, w), w)
  BY DEF wakeup_proc, Memory, Woken

\* The flags, which wakeup_wait writes first, tell w why it was woken.
LEMMA WakeupFlags ==
    ASSUME NEW m \in Memory, NEW d \in Memory, NEW w \in Procs, NEW f \in Reasons,
           d.flags = m.flags, d.state = m.state, d.wait_state = m.wait_state
    PROVE  LET r == wakeup_proc([d EXCEPT !.flags[w] = f], w)
           IN  /\ r \in Memory /\ r.next = d.next /\ r.prev = d.prev /\ r.queue = d.queue
               /\ r.ok = d.ok /\ r.flags[w] = f /\ Woken(m, r, w)
  <1> DEFINE e == [d EXCEPT !.flags[w] = f]
             r == wakeup_proc(e, w)
  <1>1. /\ e \in Memory
        /\ e.next = d.next /\ e.prev = d.prev /\ e.queue = d.queue /\ e.state = d.state
        /\ e.wait_state = d.wait_state /\ e.ok = d.ok
        /\ e.flags = [d.flags EXCEPT ![w] = f]
    BY DEF Memory, Reasons
  <1>2. e.flags[w] = f /\ \A x \in Procs \ {w} : e.flags[x] = d.flags[x]
    BY <1>1 DEF Memory
  <1> HIDE DEF e
  <1>3. /\ r \in Memory /\ r.next = e.next /\ r.prev = e.prev /\ r.queue = e.queue /\ r.ok = e.ok
        /\ r.flags = e.flags /\ Woken(e, r, w)
    BY <1>1, WakeupProc
  <1> HIDE DEF r
  <1>4. Woken(m, r, w)
    BY <1>1, <1>2, <1>3 DEF Woken
  <1> QED
    BY <1>1, <1>2, <1>3, <1>4 DEF e, r

-----------------------------------------------------------------------------
(* The waiting lines l and the memory m that implements them.              *)

Lines(m, l) ==
  /\ \A q \in Queues : IsInjective(l[q]) /\ Ring(m.next, m.prev, q, l[q])
  /\ \A q \in Queues : \A p \in Range(l[q]) : m.queue[p] = q
  /\ \A p \in Procs : (\A q \in Queues : p \notin Range(l[q])) => m.next[p] = p /\ m.prev[p] = p

\* Only the links and the queue of each member matter to the lines.
LEMMA LinesSame ==
    ASSUME NEW m, NEW m2, NEW l, Lines(m, l),
           m2.next = m.next, m2.prev = m.prev, m2.queue = m.queue
    PROVE  Lines(m2, l)
  BY DEF Lines

\* wait_queue_first, wait_queue_empty, wait_in_queue and wait_queue_next say
\* of the lists what is so of the lines.
LEMMA LinesRead ==
    ASSUME NEW m \in Memory, NEW l \in [Queues -> Seq(Procs)], Lines(m, l), NEW q \in Queues
    PROVE  /\ wait_queue_first(m, q) = IF l[q] = << >> THEN NULL ELSE l[q][1]
           /\ wait_queue_first(m, q) \in Range(l[q]) \cup {NULL}
           /\ wait_queue_empty(m, q) <=> l[q] = << >>
           /\ l[q] # << >> => l[q][1] \in Range(l[q]) /\ 1 \in 1..Len(l[q])
           /\ Range(l[q]) \subseteq Procs
           /\ \A p \in Range(l[q]) : /\ wait_in_queue(m, p) /\ m.next[p] # p
                                     /\ wait_queue_next(m, q, p) \in Range(l[q]) \cup {NULL}
           /\ \A p \in Procs : wait_in_queue(m, p) => \E r \in Queues : p \in Range(l[r])
  <1> DEFINE s == l[q]
  <1>1. s \in Seq(Procs) /\ IsInjective(s) /\ Ring(m.next, m.prev, q, s)
    BY DEF Lines
  <1> HIDE DEF s
  <1>2. Len(s) \in Nat /\ DOMAIN s = 1..Len(s) /\ (s = << >> <=> Len(s) = 0)
    BY <1>1, LenProperties, EmptySeq
  <1>3. m.next[q] = Around(q, s, 1)
    BY <1>1, RingEnds
  <1>4. s = << >> => m.next[q] = q
    <2>1. ASSUME s = << >> PROVE Len(s) + 1 = 1
      BY <2>1, <1>2
    <2>2. Around(q, s, Len(s) + 1) = q
      BY <1>1, AroundElements
    <2> QED
      BY <2>1, <2>2, <1>3
  <1>5. s # << >> => /\ m.next[q] = s[1] /\ s[1] # q /\ s[1] \in Range(s) /\ 1 \in 1..Len(s)
    <2>1. ASSUME s # << >> PROVE 1 \in 1..Len(s)
      BY <2>1, <1>2
    <2> QED
      BY <2>1, <1>1, <1>3, AroundElements
  <1>6. Range(s) \subseteq Procs /\ q \notin Procs
    BY <1>1, AroundElements
  <1>7. ASSUME NEW p \in Range(s)
        PROVE  m.next[p] # p /\ (m.next[p] = q \/ m.next[p] \in Range(s))
    <2>1. PICK j \in 1..Len(s) : p = s[j]
      BY <1>1, AroundElements
    <2>2. m.next[p] = Around(q, s, j + 1) /\ p = Around(q, s, j)
      BY <2>1, <1>1, RingEnds, AroundElements
    <2>3. j \in 0..Len(s) /\ j + 1 \in 0..(Len(s) + 1) /\ j # j + 1
      BY <2>1, <1>2
    <2>4. m.next[p] \in Range(s) \cup {q}
      BY <2>2, <2>3, <1>1, AroundElements
    <2>5. CASE j + 1 \in 0..Len(s)
      BY <2>2, <2>3, <2>4, <2>5, <1>1, AroundElements
    <2>6. CASE j + 1 = Len(s) + 1
      BY <2>2, <2>4, <2>6, <1>1, <1>6, AroundElements
    <2> QED
      BY <2>3, <2>5, <2>6, <1>2
  <1>8. ASSUME NEW p \in Procs, m.next[p] # p
        PROVE  \E r \in Queues : p \in Range(l[r])
    BY <1>8 DEF Lines
  <1>9. wait_queue_first(m, q) = IF s = << >> THEN NULL ELSE s[1]
    BY <1>4, <1>5 DEF wait_queue_first, Member, list_next
  <1>10. wait_queue_empty(m, q) <=> s = << >>
    BY <1>4, <1>5 DEF wait_queue_empty, list_empty
  <1>11. \A p \in Range(s) : /\ wait_in_queue(m, p) /\ m.next[p] # p
                              /\ wait_queue_next(m, q, p) \in Range(s) \cup {NULL}
    BY <1>6, <1>7 DEF wait_in_queue, list_empty, wait_queue_next, Member, list_next
  <1>12. \A p \in Procs : wait_in_queue(m, p) => \E r \in Queues : p \in Range(l[r])
    BY <1>8 DEF wait_in_queue, list_empty
  <1> QED
    BY <1>5, <1>6, <1>9, <1>10, <1>11, <1>12 DEF s

\* p behind the others in the line of q, and p gone from it.
Joined(l, q, p) == [l EXCEPT ![q] = Append(@, p)]
Left(l, q, p) == [l EXCEPT ![q] = RemoveFirst(@, p)]

\* Nobody stands in two lines.
LEMMA LinesDisjoint ==
    ASSUME NEW m, NEW l, Lines(m, l), NEW q \in Queues, NEW r \in Queues, q # r
    PROVE  Range(l[q]) \cap Range(l[r]) = {}
  BY DEF Lines

\* wait_current_set: one more at the end of one line.
LEMMA LinesEnter ==
    ASSUME NEW m \in Memory, NEW l \in [Queues -> Seq(Procs)], Lines(m, l),
           NEW q \in Queues, NEW p \in Procs, \A r \in Queues : p \notin Range(l[r]),
           NEW ws \in Reasons
    PROVE  /\ Lines(wait_current_set(m, q, p, ws), Joined(l, q, p))
           /\ Joined(l, q, p) \in [Queues -> Seq(Procs)]
           /\ Range(Joined(l, q, p)[q]) = Range(l[q]) \cup {p}
           /\ \A r \in Queues \ {q} : Joined(l, q, p)[r] = l[r]
  <1> DEFINE m2 == wait_current_set(m, q, p, ws)
             l2 == Joined(l, q, p)
  <1>1. /\ m2 \in Memory
        /\ m2.next[p] = q /\ (m.prev[q] # p => m2.next[m.prev[q]] = p)
        /\ \A x \in Elements \ {p, m.prev[q]} : m2.next[x] = m.next[x]
        /\ m2.prev[p] = m.prev[q] /\ m2.prev[q] = p
        /\ \A x \in Elements \ {p, q} : m2.prev[x] = m.prev[x]
        /\ m2.queue[p] = q /\ \A x \in Procs \ {p} : m2.queue[x] = m.queue[x]
    BY WaitCurrentSet
  <1> HIDE DEF m2
  <1>2. l[q] \in Seq(Procs) /\ IsInjective(l[q]) /\ Ring(m.next, m.prev, q, l[q]) /\ p \in Procs \ Range(l[q])
    BY DEF Lines
  <1>3. /\ Append(l[q], p) \in Seq(Procs) /\ IsInjective(Append(l[q], p))
        /\ Range(Append(l[q], p)) = Range(l[q]) \cup {p}
    BY <1>2, AppendElements
  <1>4. l2 \in [Queues -> Seq(Procs)] /\ l2[q] = Append(l[q], p) /\ \A r \in Queues \ {q} : l2[r] = l[r]
    BY <1>3 DEF Joined
  <1> HIDE DEF l2
  <1>5. m.prev[q] \in Range(l[q]) \cup {q} /\ m.prev[q] # p
    <2>1. m.prev[q] \in Range(l[q]) \cup {q}
      BY <1>2, RingEnds, AroundElements
    <2> QED
      BY <2>1, <1>2, ElementsAssumption
  <1>6. Ring(m2.next, m2.prev, q, Append(l[q], p))
    <2>1. LinkedLast(m.next, m.prev, q, p, m2.next, m2.prev)
      BY <1>1, <1>5 DEF LinkedLast
    <2> QED
      BY <1>2, <2>1, RingAppend, Zenon
  <1>7. ASSUME NEW r \in Queues \ {q}
        PROVE  Ring(m2.next, m2.prev, r, l[r])
    <2>1. l[r] \in Seq(Procs) /\ Ring(m.next, m.prev, r, l[r]) /\ p \notin Range(l[r])
      BY DEF Lines
    <2>2. Range(l[r]) \cap Range(l[q]) = {} /\ Range(l[r]) \subseteq Procs /\ Range(l[q]) \subseteq Procs
      BY <1>2, <2>1, LinesDisjoint, AroundElements
    <2>3. q \notin Procs /\ r \notin Procs
      BY ElementsAssumption
    <2>4. ASSUME NEW x \in Range(l[r]) \cup {r} PROVE m2.next[x] = m.next[x] /\ m2.prev[x] = m.prev[x]
      <3>1. x \in Elements /\ x # p /\ x # q /\ x # m.prev[q]
        BY <1>5, <2>1, <2>2, <2>3 DEF Elements
      <3> QED
        BY <3>1, <1>1
    <2> QED
      BY <2>1, <2>4, RingOther
  <1>8. \A r \in Queues : IsInjective(l2[r]) /\ Ring(m2.next, m2.prev, r, l2[r])
    BY <1>3, <1>4, <1>6, <1>7 DEF Lines
  <1>9. \A r \in Queues : \A x \in Range(l2[r]) : m2.queue[x] = r
    <2> SUFFICES ASSUME NEW r \in Queues, NEW x \in Range(l2[r]) PROVE m2.queue[x] = r
      OBVIOUS
    <2>1. CASE x = p
      <3>1. r = q
        BY <2>1, <1>4
      <3> QED
        BY <2>1, <3>1, <1>1 DEF Memory
    <2>2. CASE x # p
      <3>0. r = q => x \in Range(l[q])
        BY <2>2, <1>3, <1>4
      <3>1. x \in Range(l[r]) /\ l[r] \in Seq(Procs)
        BY <3>0, <1>4
      <3>2. x \in Procs /\ m.queue[x] = r
        BY <3>1, AroundElements DEF Lines
      <3> QED
        BY <2>2, <3>2, <1>1 DEF Memory
    <2> QED
      BY <2>1, <2>2
  <1>10. ASSUME NEW x \in Procs, \A r \in Queues : x \notin Range(l2[r])
         PROVE  m2.next[x] = x /\ m2.prev[x] = x
    <2>1. x # p /\ \A r \in Queues : x \notin Range(l[r])
      BY <1>3, <1>4, <1>10
    <2>2. m.next[x] = x /\ m.prev[x] = x
      BY <2>1 DEF Lines
    <2>3. x # q /\ x # m.prev[q] /\ x \in Elements
      BY <1>5, <2>1, ElementsAssumption DEF Elements
    <2> QED
      BY <2>1, <2>2, <2>3, <1>1
  <1>11. Lines(m2, l2)
    BY <1>8, <1>9, <1>10 DEF Lines
  <1> QED
    BY <1>3, <1>4, <1>11, Zenon DEF m2, l2

\* wait_queue_del: one less in one line, wherever it stood, and the assertion
\* of wait_queue_del holds.
LEMMA LinesLeave ==
    ASSUME NEW m \in Memory, NEW l \in [Queues -> Seq(Procs)], Lines(m, l),
           NEW q \in Queues, NEW p \in Range(l[q])
    PROVE  /\ Lines(wait_queue_del(m, q, p), Left(l, q, p))
           /\ Left(l, q, p) \in [Queues -> Seq(Procs)]
           /\ \A x : x \in Range(Left(l, q, p)[q]) <=> x \in Range(l[q]) /\ x # p
           /\ \A r \in Queues \ {q} : Left(l, q, p)[r] = l[r]
           /\ wait_queue_del(m, q, p).ok = m.ok
  <1> DEFINE m2 == wait_queue_del(m, q, p)
             l2 == Left(l, q, p)
  <1>1. l[q] \in Seq(Procs) /\ IsInjective(l[q]) /\ Ring(m.next, m.prev, q, l[q])
    BY DEF Lines
  <1>2. PICK j \in 1..Len(l[q]) : p = l[q][j]
    BY <1>1, AroundElements
  <1>3. DOMAIN l[q] = 1..Len(l[q]) /\ p \in Procs
    BY <1>1, <1>2, AroundElements
  <1>4. RemoveFirst(l[q], p) = RemoveAt(l[q], j)
    BY <1>1, <1>2, <1>3, RemoveFirstAt
  <1>5. /\ RemoveAt(l[q], j) \in Seq(Procs) /\ IsInjective(RemoveAt(l[q], j))
        /\ Range(RemoveAt(l[q], j)) = Range(l[q]) \ {p}
    BY <1>1, <1>2, <1>3, RemoveAtElements
  <1>6. /\ m2 \in Memory
        /\ m2.next[p] = p /\ (m.prev[p] # p => m2.next[m.prev[p]] = m.next[p])
        /\ \A x \in Elements \ {p, m.prev[p]} : m2.next[x] = m.next[x]
        /\ m2.prev[p] = p /\ (m.next[p] # p => m2.prev[m.next[p]] = m.prev[p])
        /\ \A x \in Elements \ {p, m.next[p]} : m2.prev[x] = m.prev[x]
        /\ m2.queue = m.queue
        /\ m.next[p] # p /\ m.queue[p] = q => m2.ok = m.ok
    BY <1>3, WaitQueueDel
  <1> HIDE DEF m2
  <1>7. l2 \in [Queues -> Seq(Procs)] /\ l2[q] = RemoveAt(l[q], j) /\ \A r \in Queues \ {q} : l2[r] = l[r]
    BY <1>4, <1>5 DEF Left
  <1> HIDE DEF l2
  <1>8. Ring(m2.next, m2.prev, q, RemoveAt(l[q], j))
    BY <1>1, <1>2, <1>6, RingRemove
  <1>9. m.next[p] \in Range(l[q]) \cup {q} /\ m.prev[p] \in Range(l[q]) \cup {q}
    <2>1. m.next[p] = Around(q, l[q], j + 1) /\ m.prev[p] = Around(q, l[q], j - 1)
      BY <1>1, <1>2, RingEnds
    <2>2. j + 1 \in 0..(Len(l[q]) + 1) /\ j - 1 \in 0..(Len(l[q]) + 1)
      BY <1>1, <1>2, LenProperties
    <2> QED
      BY <2>1, <2>2, <1>1, AroundElements
  <1>10. ASSUME NEW r \in Queues \ {q}
         PROVE  Ring(m2.next, m2.prev, r, l[r])
    <2>1. l[r] \in Seq(Procs) /\ Ring(m.next, m.prev, r, l[r])
      BY DEF Lines
    <2>2. Range(l[r]) \cap Range(l[q]) = {} /\ Range(l[r]) \subseteq Procs /\ Range(l[q]) \subseteq Procs
      BY <1>1, <2>1, LinesDisjoint, AroundElements
    <2>3. q \notin Procs /\ r \notin Procs
      BY ElementsAssumption
    <2>4. \A x \in Range(l[r]) \cup {r} : m2.next[x] = m.next[x] /\ m2.prev[x] = m.prev[x]
      BY <1>3, <1>6, <1>9, <2>2, <2>3 DEF Elements
    <2> QED
      BY <2>1, <2>4, RingOther
  <1>11. \A r \in Queues : IsInjective(l2[r]) /\ Ring(m2.next, m2.prev, r, l2[r])
    BY <1>5, <1>7, <1>8, <1>10 DEF Lines
  <1>12. \A r \in Queues : \A x \in Range(l2[r]) : m2.queue[x] = r
    <2> SUFFICES ASSUME NEW r \in Queues, NEW x \in Range(l2[r]) PROVE m2.queue[x] = r
      OBVIOUS
    <2>1. x \in Range(l[r])
      BY <1>5, <1>7
    <2> QED
      BY <2>1, <1>6 DEF Lines
  <1>13. ASSUME NEW x \in Procs, \A r \in Queues : x \notin Range(l2[r])
         PROVE  m2.next[x] = x /\ m2.prev[x] = x
    <2>1. CASE x = p
      BY <2>1, <1>6 DEF Elements
    <2>2. CASE x # p
      <3>1. \A r \in Queues : x \notin Range(l[r])
        BY <2>2, <1>5, <1>7, <1>13
      <3>2. m.next[x] = x /\ m.prev[x] = x
        BY <3>1 DEF Lines
      <3>3. x # m.prev[p] /\ x # m.next[p] /\ x \in Elements
        BY <3>1, <1>9, ElementsAssumption DEF Elements
      <3> QED
        BY <2>2, <3>2, <3>3, <1>6
    <2> QED
      BY <2>1, <2>2
  <1>14. m2.ok = m.ok
    <2>1. m.queue[p] = q /\ m.next[p] # p
      BY LinesRead DEF Lines
    <2> QED
      BY <2>1, <1>6
  <1>15. Lines(m2, l2)
    BY <1>11, <1>12, <1>13 DEF Lines
  <1> QED
    BY <1>5, <1>7, <1>14, <1>15, Zenon DEF m2, l2

\* wakeup_wait of one in line, with del: it is awake and told why, and out of
\* the line.
LEMMA LinesWakeOut ==
    ASSUME NEW m \in Memory, NEW l \in [Queues -> Seq(Procs)], Lines(m, l),
           NEW q \in Queues, NEW w \in Range(l[q]), NEW f \in Reasons
    PROVE  /\ wakeup_wait(m, q, w, f, TRUE) \in Memory /\ wakeup_wait(m, q, w, f, TRUE).ok = m.ok
           /\ wakeup_wait(m, q, w, f, TRUE).flags[w] = f /\ Woken(m, wakeup_wait(m, q, w, f, TRUE), w)
           /\ Lines(wakeup_wait(m, q, w, f, TRUE), Left(l, q, w))
  <1> DEFINE d == wait_queue_del(m, q, w)
             r == wakeup_wait(m, q, w, f, TRUE)
  <1>1. w \in Procs
    BY AroundElements
  <1>2. d \in Memory /\ d.flags = m.flags /\ d.queue = m.queue /\ d.state = m.state /\ d.wait_state = m.wait_state
    BY <1>1, WaitQueueDel
  <1>3. Lines(d, Left(l, q, w)) /\ d.ok = m.ok
    BY LinesLeave
  <1>4. r = wakeup_proc([d EXCEPT !.flags[w] = f], w)
    BY DEF wakeup_wait
  <1> HIDE DEF d, r
  <1>5. /\ r \in Memory /\ r.next = d.next /\ r.prev = d.prev /\ r.queue = d.queue
        /\ r.ok = d.ok /\ r.flags[w] = f /\ Woken(m, r, w)
    BY <1>1, <1>2, <1>4, WakeupFlags
  <1>6. Lines(r, Left(l, q, w))
    BY <1>3, <1>5, LinesSame
  <1> QED
    BY <1>3, <1>5, <1>6 DEF r

\* The same without del: it is awake and told why, and still in line.
LEMMA LinesWake ==
    ASSUME NEW m \in Memory, NEW l \in [Queues -> Seq(Procs)], Lines(m, l),
           NEW q \in Queues, NEW w \in Range(l[q]), NEW f \in Reasons
    PROVE  /\ wakeup_wait(m, q, w, f, FALSE) \in Memory /\ wakeup_wait(m, q, w, f, FALSE).ok = m.ok
           /\ wakeup_wait(m, q, w, f, FALSE).flags[w] = f /\ Woken(m, wakeup_wait(m, q, w, f, FALSE), w)
           /\ Lines(wakeup_wait(m, q, w, f, FALSE), l)
  <1> DEFINE r == wakeup_wait(m, q, w, f, FALSE)
  <1>1. w \in Procs
    BY AroundElements
  <1>2. r = wakeup_proc([m EXCEPT !.flags[w] = f], w)
    BY DEF wakeup_wait
  <1> HIDE DEF r
  <1>3. /\ r \in Memory /\ r.next = m.next /\ r.prev = m.prev /\ r.queue = m.queue
        /\ r.ok = m.ok /\ r.flags[w] = f /\ Woken(m, r, w)
    BY <1>1, <1>2, WakeupFlags
  <1>4. Lines(r, l)
    BY <1>3, LinesSame
  <1> QED
    BY <1>3, <1>4 DEF r

-----------------------------------------------------------------------------
(* The inductive invariant.                                                *)

SemType ==
  /\ k \in Memory
  /\ value \in [Sems -> Int]
  /\ place \in [Procs -> {"idle", "take", "down", "give", "read"}]
  /\ held \in [Procs -> Seq(Sems)]
  /\ line \in [Queues -> Seq(Procs)]
  /\ waking \in [wait : Procs \cup {NULL}, del : BOOLEAN]

\* A process holds the first semaphores of the order.
Nested ==
  \A p \in Procs : /\ Len(held[p]) <= Len(Order)
                   /\ \A i \in 1..Len(held[p]) : held[p][i] = Order[i]

\* Where a process is says whether it holds something and whether it may wait.
Places ==
  \A p \in Procs :
    /\ place[p] \in {"idle", "read"} => held[p] = << >>
    /\ place[p] \in {"take", "give"} => held[p] # << >>
    /\ place[p] = "down" => Len(held[p]) < Len(Order)
    /\ place[p] \in {"idle", "take", "give"} => Awake(p) /\ \A q \in Queues : p \notin Range(line[q])

\* Who stands in a semaphore's line sleeps for it, uninterruptibly; who stands
\* in the keyboard's is reading, and may have been woken.
InLine ==
  \A q \in Queues : \A p \in Range(line[q]) :
    /\ q = kbd => place[p] = "read"
    /\ q \in Sems => place[p] = "down" /\ NextSem(p) = q /\ ~Awake(p) /\ k.wait_state[p] = WT_KSEM

\* Nobody sleeps out of line, and who was woken in down was told by __up.
Sleepers ==
  \A p \in Procs :
    /\ ~Awake(p) /\ place[p] = "down" => p \in Range(line[NextSem(p)])
    /\ ~Awake(p) /\ place[p] = "read" => p \in Range(line[kbd])
    /\ Awake(p) /\ place[p] = "down" => k.flags[p] = WT_KSEM

\* A semaphore's unit is free or has one owner, who holds it or has been handed it.
Owns(p, s) == s \in Range(held[p]) \/ p \in Handed(s)
Units ==
  \A s \in Sems :
    /\ value[s] \in {0, 1}
    /\ value[s] = 0 <=> \E p \in Procs : Owns(p, s)
    /\ \A p1, p2 \in Procs : Owns(p1, s) /\ Owns(p2, s) => p1 = p2
    /\ line[s] # << >> => value[s] = 0

SemInv ==
  /\ SemType /\ k.ok /\ Lines(k, line)
  /\ waking.wait \in Range(line[kbd]) \cup {NULL}
  /\ Nested /\ Places /\ InLine /\ Sleepers /\ Units

\* The semaphores are the queues but the keyboard's, each once in the order.
LEMMA OrderFacts ==
  /\ Len(Order) \in Nat /\ DOMAIN Order = 1..Len(Order)
  /\ \A i \in 1..Len(Order) : Order[i] \in Sems
  /\ \A i, j \in 1..Len(Order) : Order[i] = Order[j] => i = j
  /\ Sems \subseteq Queues /\ kbd \in Queues /\ kbd \notin Sems /\ Queues = Sems \cup {kbd}
  <1>1. Len(Order) \in Nat /\ DOMAIN Order = 1..Len(Order)
    BY OrderAssumption, LenProperties
  <1> QED
    BY <1>1, OrderAssumption DEF Sems, Range, IsInjective

\* What a process holds: a prefix of the order, so that the next of the order
\* is not in it.
LEMMA HeldFacts ==
    ASSUME NEW h \in Seq(Sems), Len(h) <= Len(Order), \A i \in 1..Len(h) : h[i] = Order[i]
    PROVE  /\ Len(h) \in Nat /\ (h = << >> <=> Len(h) = 0)
           /\ \A s : s \in Range(h) <=> \E i \in 1..Len(h) : s = Order[i]
           /\ Len(h) < Len(Order) =>
                LET s == Order[Len(h) + 1]
                IN  /\ s \in Sems /\ s \notin Range(h)
                    /\ Append(h, s) \in Seq(Sems)
                    /\ Len(Append(h, s)) = Len(h) + 1 /\ Append(h, s) # << >>
                    /\ \A i \in 1..Len(Append(h, s)) : Append(h, s)[i] = Order[i]
                    /\ Range(Append(h, s)) = Range(h) \cup {s}
           /\ h # << >> =>
                /\ Last(h) \in Sems /\ Last(h) \in Range(h)
                /\ Front(h) \in Seq(Sems) /\ Len(Front(h)) = Len(h) - 1
                /\ \A i \in 1..Len(Front(h)) : Front(h)[i] = Order[i]
                /\ Range(Front(h)) = Range(h) \ {Last(h)}
                /\ Last(h) = Order[Len(Front(h)) + 1]
  <1>1. Len(h) \in Nat /\ DOMAIN h = 1..Len(h) /\ (h = << >> <=> Len(h) = 0)
    BY LenProperties, EmptySeq
  <1>2. \A s : s \in Range(h) <=> \E i \in 1..Len(h) : s = Order[i]
    BY <1>1 DEF Range
  <1>3. ASSUME Len(h) < Len(Order)
        PROVE  LET s == Order[Len(h) + 1]
               IN  /\ s \in Sems /\ s \notin Range(h)
                   /\ Append(h, s) \in Seq(Sems)
                   /\ Len(Append(h, s)) = Len(h) + 1 /\ Append(h, s) # << >>
                   /\ \A i \in 1..Len(Append(h, s)) : Append(h, s)[i] = Order[i]
                   /\ Range(Append(h, s)) = Range(h) \cup {s}
    <2> DEFINE s == Order[Len(h) + 1]
               t == Append(h, s)
    <2>1. Len(h) + 1 \in 1..Len(Order) /\ \A i \in 1..Len(h) : i \in 1..Len(Order) /\ i # Len(h) + 1
      BY <1>1, <1>3, OrderFacts
    <2>2. s \in Sems
      BY <2>1, OrderFacts
    <2>3. s \notin Range(h)
      BY <2>1, <1>2, OrderFacts
    <2> HIDE DEF s
    <2>4. t \in Seq(Sems) /\ Len(t) = Len(h) + 1 /\ (\A i \in 1..Len(h) : t[i] = h[i]) /\ t[Len(h) + 1] = s
      BY <2>2, AppendProperties
    <2>5. Range(t) = Range(h) \cup {s}
      BY <2>2, AppendElements
    <2> HIDE DEF t
    <2>6. t # << >>
      BY <1>1, <2>4, EmptySeq
    <2>7. \A i \in 1..Len(t) : t[i] = Order[i]
      BY <1>1, <2>4 DEF s
    <2> QED
      BY <2>2, <2>3, <2>4, <2>5, <2>6, <2>7 DEF s, t
  <1>4. ASSUME h # << >>
        PROVE  /\ Last(h) \in Sems /\ Last(h) \in Range(h)
               /\ Front(h) \in Seq(Sems) /\ Len(Front(h)) = Len(h) - 1
               /\ \A i \in 1..Len(Front(h)) : Front(h)[i] = Order[i]
               /\ Range(Front(h)) = Range(h) \ {Last(h)}
               /\ Last(h) = Order[Len(Front(h)) + 1]
    <2> DEFINE n == Len(h)
               f == Front(h)
    <2>1. n \in Nat /\ n >= 1 /\ n \in 1..n /\ n <= Len(Order)
      BY <1>1, <1>4
    <2>2. Last(h) = Order[n] /\ Last(h) \in Range(h) /\ Last(h) \in Sems
      BY <1>1, <1>2, <2>1, OrderFacts DEF Last
    <2>3. /\ f \in Seq(Sems)
          /\ Len(f) = IF 1 <= n - 1 THEN n - 1 - 1 + 1 ELSE 0
          /\ \A i \in 1..(n - 1 - 1 + 1) : f[i] = h[1 + i - 1]
      <3>1. \A i \in 1..(n - 1) : h[i] \in Sems
        BY <2>1, ElementOfSeq
      <3>2. 1 \in Int /\ n - 1 \in Int
        BY <2>1
      <3> QED
        BY <3>1, <3>2, SubSeqProperties DEF Front
    <2> HIDE DEF f
    <2>4. Len(f) = n - 1
      <3> HIDE DEF n
      <3>1. CASE n = 1
        BY <3>1, <2>3
      <3>2. CASE n > 1
        BY <3>2, <2>1, <2>3
      <3>3. n = 1 \/ n > 1
        BY <2>1
      <3> QED
        BY <3>1, <3>2, <3>3
    <2>5. \A i \in 1..(n - 1) : f[i] = Order[i]
      BY <2>1, <2>3
    <2>6. DOMAIN f = 1..(n - 1)
      BY <2>3, <2>4, LenProperties
    <2>7. \A s : s \in Range(f) <=> \E i \in 1..(n - 1) : s = Order[i]
      BY <2>5, <2>6 DEF Range
    <2>8. \A i \in 1..(n - 1) : i \in 1..n /\ i \in 1..Len(Order) /\ n \in 1..Len(Order) /\ i # n
      BY <2>1, OrderFacts
    <2>9. \A i \in 1..n : i = n \/ i \in 1..(n - 1)
      BY <2>1
    <2>10. Range(f) = Range(h) \ {Last(h)}
      <3> SUFFICES ASSUME NEW s PROVE s \in Range(f) <=> s \in Range(h) /\ s # Order[n]
        BY <2>2
      <3>1. \A i \in 1..(n - 1) : Order[i] # Order[n]
        BY <2>8, OrderFacts
      <3>2. ASSUME s \in Range(f) PROVE s \in Range(h) /\ s # Order[n]
        <4>1. PICK i \in 1..(n - 1) : s = Order[i]
          BY <3>2, <2>7, Zenon
        <4>2. i \in 1..n
          BY <4>1, <2>8, Zenon
        <4> QED
          BY <4>1, <4>2, <3>1, <1>2, Zenon DEF n
      <3>3. ASSUME s \in Range(h), s # Order[n] PROVE s \in Range(f)
        <4>1. PICK i \in 1..n : s = Order[i]
          BY <3>3, <1>2, Zenon DEF n
        <4> QED
          BY <4>1, <3>3, <2>7, <2>9, Zenon
      <3> QED
        BY <3>2, <3>3
    <2>11. Last(h) = Order[Len(f) + 1]
      BY <2>1, <2>2, <2>4
    <2> QED
      BY <2>2, <2>3, <2>4, <2>5, <2>10, <2>11 DEF f
  <1> QED
    BY <1>1, <1>2, <1>3, <1>4

\* The same of what process p holds.
LEMMA NextFacts ==
    ASSUME SemInv, NEW p \in Procs
    PROVE  /\ held[p] \in Seq(Sems) /\ Len(held[p]) <= Len(Order)
           /\ \A i \in 1..Len(held[p]) : held[p][i] = Order[i]
           /\ Len(held[p]) < Len(Order) => NextSem(p) \in Sems /\ NextSem(p) \notin Range(held[p])
           /\ place[p] = "down" => NextSem(p) \in Sems /\ NextSem(p) \notin Range(held[p])
  <1>1. /\ held[p] \in Seq(Sems) /\ Len(held[p]) <= Len(Order)
        /\ \A i \in 1..Len(held[p]) : held[p][i] = Order[i]
    BY DEF SemInv, SemType, Nested
  <1> QED
    BY <1>1, HeldFacts DEF NextSem, SemInv, Places

-----------------------------------------------------------------------------
(* Every step keeps it.                                                    *)

\* Every queue is empty and every unit free.
LEMMA SemInitInv == SemInit => SemInv
  <1> SUFFICES ASSUME SemInit PROVE SemInv
    OBVIOUS
  <1> USE DEF SemInit
  <1>1. \A e \in Elements : k.next[e] = e /\ k.prev[e] = e
    BY DEF EmptyQueues
  <1>2. k.state = [p \in Procs |-> "RUNNABLE"] /\ k.ok /\ \A p \in Procs : Awake(p)
    BY DEF EmptyQueues, Awake
  <1>3. k \in Memory
    BY DEF EmptyQueues, Memory
  <1>4. << >> \in Seq(Sems) /\ << >> \in Seq(Procs) /\ Len(<< >>) = 0
    BY EmptySeq
  <1>5. \A q \in Queues : line[q] = << >> /\ Range(line[q]) = {} /\ IsInjective(line[q])
    BY DEF Range, IsInjective
  <1>6. \A p \in Procs : held[p] = << >> /\ Range(held[p]) = {} /\ place[p] = "idle"
    BY DEF Range
  <1>7. \A q \in Queues : Ring(k.next, k.prev, q, line[q])
    BY <1>1, <1>4, <1>5 DEF Ring, Around, Elements
  <1>8. SemType
    BY <1>3, <1>4 DEF SemType, InitialValue
  <1>9. Lines(k, line)
    BY <1>1, <1>5, <1>7 DEF Lines, Elements
  <1>10. Nested
    BY <1>4, <1>6, OrderFacts DEF Nested
  <1>12. Places /\ InLine /\ Sleepers
    BY <1>2, <1>5, <1>6 DEF Places, InLine, Sleepers
  <1>11. Units
    BY <1>5, <1>6, OrderFacts DEF Units, Owns, Handed, InitialValue
  <1> QED
    BY <1>2, <1>8, <1>9, <1>10, <1>11, <1>12 DEF SemInv

\* A unit is taken without waiting, by __down or try_down.
LEMMA TakenInv ==
    ASSUME SemInv, NEW p \in Procs, CanTake(p), value[NextSem(p)] > 0,
           Taken(p, NextSem(p)) /\ UNCHANGED waking
    PROVE  SemInv'
  <1> DEFINE s == NextSem(p)
  <1>1. /\ SemType /\ k.ok /\ Lines(k, line) /\ waking.wait \in Range(line[kbd]) \cup {NULL}
        /\ Nested /\ Places /\ InLine /\ Sleepers /\ Units
    BY DEF SemInv
  <1>2. /\ held[p] \in Seq(Sems) /\ Len(held[p]) < Len(Order)
        /\ \A i \in 1..Len(held[p]) : held[p][i] = Order[i]
    BY NextFacts DEF CanTake
  <1>3. s \in Sems /\ s \notin Range(held[p]) /\ s = Order[Len(held[p]) + 1]
    BY <1>2, NextFacts DEF NextSem
  <1> HIDE DEF s
  <1>4. /\ Append(held[p], s) \in Seq(Sems) /\ Append(held[p], s) # << >>
        /\ Len(Append(held[p], s)) <= Len(Order)
        /\ \A i \in 1..Len(Append(held[p], s)) : Append(held[p], s)[i] = Order[i]
        /\ Range(Append(held[p], s)) = Range(held[p]) \cup {s}
    BY <1>2, <1>3, HeldFacts, OrderFacts
  <1>5. /\ held' = [held EXCEPT ![p] = Append(@, s)] /\ place' = [place EXCEPT ![p] = "take"]
        /\ value' = [value EXCEPT ![s] = @ - 1]
        /\ k' = k /\ line' = line /\ waking' = waking
    BY DEF Taken, s
  <1>6. place[p] \in {"idle", "take"} /\ value[s] = 1
    BY <1>1, <1>3 DEF CanTake, Units, s
  <1>7. /\ held'[p] = Append(held[p], s) /\ place'[p] = "take"
        /\ \A x \in Procs \ {p} : held'[x] = held[x] /\ place'[x] = place[x]
    BY <1>1, <1>5 DEF SemType
  <1>8. SemType'
    BY <1>1, <1>3, <1>4, <1>5 DEF SemType
  <1>9. Nested'
    <2> SUFFICES ASSUME NEW x \in Procs
                 PROVE  /\ Len(held'[x]) <= Len(Order)
                        /\ \A i \in 1..Len(held'[x]) : held'[x][i] = Order[i]
      BY DEF Nested
    <2>1. CASE x = p
      BY <2>1, <1>4, <1>7
    <2>2. CASE x # p
      <3>1. held'[x] = held[x]
        BY <2>2, <1>7
      <3> QED
        BY <3>1, <1>1, Zenon DEF Nested
    <2> QED
      BY <2>1, <2>2
  <1>10. \A x \in Procs : Awake(x)' = Awake(x)
    BY <1>5 DEF Awake
  <1>11. Awake(p) /\ \A q \in Queues : p \notin Range(line[q])
    BY <1>1, <1>6 DEF Places
  <1>12. Places'
    BY <1>1, <1>4, <1>5, <1>7, <1>10, <1>11 DEF Places
  <1>13. \A x \in Procs \ {p} : NextSem(x)' = NextSem(x)
    BY <1>7 DEF NextSem
  <1>14. InLine'
    <2> SUFFICES ASSUME NEW q \in Queues, NEW x \in Range(line[q])
                 PROVE  /\ q = kbd => place'[x] = "read"
                        /\ q \in Sems => place'[x] = "down" /\ NextSem(x)' = q /\ ~Awake(x)' /\ k'.wait_state[x] = WT_KSEM
      BY <1>5 DEF InLine
    <2>1. x \in Procs \ {p}
      <3>1. line[q] \in Seq(Procs)
        BY <1>1 DEF SemType
      <3> QED
        BY <3>1, <1>11, AroundElements
    <2> QED
      BY <2>1, <1>1, <1>5, <1>7, <1>10, <1>13 DEF InLine
  <1>15. Sleepers'
    BY <1>1, <1>5, <1>7, <1>10, <1>11, <1>13 DEF Sleepers
  <1>16. ASSUME NEW x \in Procs, NEW t \in Sems
         PROVE  Owns(x, t)' <=> Owns(x, t) \/ (x = p /\ t = s)
    <2>1. CASE x = p
      BY <2>1, <1>4, <1>6, <1>7 DEF Owns, Handed
    <2>2. CASE x # p
      BY <2>2, <1>7, <1>10, <1>13 DEF Owns, Handed
    <2> QED
      BY <2>1, <2>2
  <1>17. Units'
    <2> SUFFICES ASSUME NEW t \in Sems
                 PROVE  /\ value'[t] \in {0, 1}
                        /\ value'[t] = 0 <=> \E x \in Procs : Owns(x, t)'
                        /\ \A p1, p2 \in Procs : Owns(p1, t)' /\ Owns(p2, t)' => p1 = p2
                        /\ line'[t] # << >> => value'[t] = 0
      BY DEF Units
    <2>1. CASE t = s
      <3>1. value'[t] = 0
        BY <2>1, <1>1, <1>5, <1>6 DEF SemType
      <3>2. \A x \in Procs : ~Owns(x, t)
        BY <2>1, <1>1, <1>6 DEF Units
      <3> QED
        BY <2>1, <3>1, <3>2, <1>16
    <2>2. CASE t # s
      <3>1. value'[t] = value[t] /\ line'[t] = line[t]
        BY <2>2, <1>1, <1>5 DEF SemType
      <3> QED
        BY <2>2, <3>1, <1>1, <1>16 DEF Units
    <2> QED
      BY <2>1, <2>2
  <1> QED
    BY <1>1, <1>5, <1>8, <1>9, <1>12, <1>14, <1>15, <1>17 DEF SemInv

\* A process goes to sleep at the end of a line: for the next semaphore, which
\* is taken, or for a key.
LEMMA SleepInv ==
    ASSUME SemInv, NEW p \in Procs, NEW q \in Queues, NEW ws \in Reasons, NEW there,
           \/ q = kbd /\ ws = WT_KBD /\ there = "read" /\ place[p] = "idle"
           \/ /\ q = NextSem(p) /\ ws = WT_KSEM /\ there = "down" /\ CanTake(p) /\ value[q] <= 0,
           k' = wait_current_set(k, q, p, ws),
           line' = [line EXCEPT ![q] = Append(@, p)],
           place' = [place EXCEPT ![p] = there],
           UNCHANGED <<value, held, waking>>
    PROVE  SemInv'
  <1>1. /\ SemType /\ k.ok /\ Lines(k, line) /\ waking.wait \in Range(line[kbd]) \cup {NULL}
        /\ Nested /\ Places /\ InLine /\ Sleepers /\ Units
    BY DEF SemInv
  <1>2. place[p] \in {"idle", "take"} /\ there \in {"read", "down"}
    BY DEF CanTake
  <1>3. Awake(p) /\ \A r \in Queues : p \notin Range(line[r])
    BY <1>1, <1>2 DEF Places
  <1>4. \/ q = kbd /\ ws = WT_KBD /\ there = "read" /\ held[p] = << >>
        \/ q \in Sems /\ q = NextSem(p) /\ ws = WT_KSEM /\ there = "down" /\ Len(held[p]) < Len(Order) /\ value[q] = 0
    <2>1. CASE q = kbd /\ ws = WT_KBD /\ there = "read" /\ place[p] = "idle"
      BY <2>1, <1>1 DEF Places
    <2>2. CASE q = NextSem(p) /\ ws = WT_KSEM /\ there = "down" /\ CanTake(p) /\ value[q] <= 0
      <3>1. q \in Sems /\ Len(held[p]) < Len(Order)
        BY <2>2, NextFacts DEF CanTake
      <3>2. value[q] = 0
        BY <2>2, <3>1, <1>1 DEF Units
      <3> QED
        BY <2>2, <3>1, <3>2
    <2> QED
      BY <2>1, <2>2
  <1>5. /\ k' \in Memory /\ k'.ok /\ k'.state[p] = "SLEEPING" /\ k'.wait_state[p] = ws
        /\ \A x \in Procs \ {p} : /\ k'.flags[x] = k.flags[x]
                                 /\ k'.state[x] = k.state[x] /\ k'.wait_state[x] = k.wait_state[x]
    BY <1>1, WaitCurrentSet DEF SemType
  <1>6. Lines(k', line') /\ line' \in [Queues -> Seq(Procs)]
    <2>1. k \in Memory /\ line \in [Queues -> Seq(Procs)]
      BY <1>1 DEF SemType
    <2>2. Lines(k', Joined(line, q, p)) /\ Joined(line, q, p) \in [Queues -> Seq(Procs)]
      BY <2>1, <1>1, <1>3, LinesEnter, Zenon
    <2> QED
      BY <2>2 DEF Joined
  <1>7. /\ \A r \in Queues \ {q} : line'[r] = line[r]
        /\ Range(line'[q]) = Range(line[q]) \cup {p}
    <2>1. line[q] \in Seq(Procs) /\ line'[q] = Append(line[q], p)
      BY <1>1 DEF SemType
    <2>2. Range(line'[q]) = Range(line[q]) \cup {p}
      BY <2>1, AppendElements
    <2> QED
      BY <2>2, <1>1 DEF SemType
  <1>8. place'[p] = there /\ \A x \in Procs \ {p} : place'[x] = place[x]
    BY <1>1 DEF SemType
  <1>9. value' = value /\ held' = held /\ waking' = waking
    OBVIOUS
  <1>10. ~Awake(p)' /\ \A x \in Procs \ {p} : Awake(x)' = Awake(x)
    BY <1>5 DEF Awake
  <1>11. \A x \in Procs : NextSem(x)' = NextSem(x)
    BY <1>9 DEF NextSem
  <1>12. SemType'
    BY <1>1, <1>2, <1>5, <1>6, <1>9 DEF SemType
  <1>13. \A r \in Queues : Range(line'[r]) \subseteq Range(line[r]) \cup {p} /\ (p \in Range(line'[r]) => r = q)
    BY <1>3, <1>7
  <1>14. Places'
    <2> SUFFICES ASSUME NEW x \in Procs
                 PROVE  /\ place'[x] \in {"idle", "read"} => held[x] = << >>
                        /\ place'[x] \in {"take", "give"} => held[x] # << >>
                        /\ place'[x] = "down" => Len(held[x]) < Len(Order)
                        /\ place'[x] \in {"idle", "take", "give"} =>
                             Awake(x)' /\ \A r \in Queues : x \notin Range(line'[r])
      BY <1>9 DEF Places
    <2>1. CASE x = p
      BY <2>1, <1>2, <1>4, <1>8
    <2>2. CASE x # p
      BY <2>2, <1>1, <1>8, <1>10, <1>13 DEF Places
    <2> QED
      BY <2>1, <2>2
  <1>15. InLine'
    <2> SUFFICES ASSUME NEW r \in Queues, NEW x \in Range(line'[r])
                 PROVE  /\ r = kbd => place'[x] = "read"
                        /\ r \in Sems => place'[x] = "down" /\ NextSem(x)' = r /\ ~Awake(x)' /\ k'.wait_state[x] = WT_KSEM
      BY DEF InLine
    <2>1. CASE x = p
      BY <2>1, <1>4, <1>5, <1>8, <1>10, <1>11, <1>13, OrderFacts
    <2>2. CASE x # p
      <3>1. x \in Range(line[r]) /\ line[r] \in Seq(Procs)
        BY <2>2, <1>1, <1>13 DEF SemType
      <3>2. x \in Procs \ {p}
        BY <2>2, <3>1, AroundElements
      <3> QED
        BY <3>1, <3>2, <1>1, <1>5, <1>8, <1>10, <1>11 DEF InLine
    <2> QED
      BY <2>1, <2>2
  <1>16. Sleepers'
    <2> SUFFICES ASSUME NEW x \in Procs
                 PROVE  /\ ~Awake(x)' /\ place'[x] = "down" => x \in Range(line'[NextSem(x)'])
                        /\ ~Awake(x)' /\ place'[x] = "read" => x \in Range(line'[kbd])
                        /\ Awake(x)' /\ place'[x] = "down" => k'.flags[x] = WT_KSEM
      BY DEF Sleepers
    <2>1. CASE x = p
      BY <2>1, <1>4, <1>7, <1>8, <1>10, <1>11
    <2>2. CASE x # p
      <3>1. place[x] = "down" => NextSem(x) \in Queues
        BY NextFacts, OrderFacts
      <3>2. kbd \in Queues /\ \A r \in Queues : Range(line[r]) \subseteq Range(line'[r])
        BY <1>7, OrderFacts
      <3> QED
        <4>1. /\ place'[x] = place[x] /\ NextSem(x)' = NextSem(x) /\ Awake(x)' = Awake(x)
              /\ k'.flags[x] = k.flags[x]
          BY <2>2, <1>5, <1>8, <1>10, <1>11
        <4>2. /\ ~Awake(x) /\ place[x] = "down" => x \in Range(line[NextSem(x)])
              /\ ~Awake(x) /\ place[x] = "read" => x \in Range(line[kbd])
              /\ Awake(x) /\ place[x] = "down" => k.flags[x] = WT_KSEM
          BY <1>1, Zenon DEF Sleepers
        <4> QED
          BY <4>1, <4>2, <3>1, <3>2
    <2> QED
      BY <2>1, <2>2
  <1>17. \A x \in Procs, t \in Sems : Owns(x, t)' <=> Owns(x, t)
    <2> SUFFICES ASSUME NEW x \in Procs, NEW t \in Sems PROVE Owns(x, t)' <=> Owns(x, t)
      OBVIOUS
    <2>1. CASE x = p
      BY <2>1, <1>2, <1>9, <1>10 DEF Owns, Handed
    <2>2. CASE x # p
      BY <2>2, <1>8, <1>9, <1>10, <1>11 DEF Owns, Handed
    <2> QED
      BY <2>1, <2>2
  <1>18. Units'
    <2>1. \A t \in Sems : line'[t] # << >> => value[t] = 0
      <3> SUFFICES ASSUME NEW t \in Sems, line'[t] # << >> PROVE value[t] = 0
        OBVIOUS
      <3>1. CASE t = q
        BY <3>1, <1>4, OrderFacts
      <3>2. CASE t # q
        BY <3>2, <1>1, <1>7, OrderFacts DEF Units
      <3> QED
        BY <3>1, <3>2
    <2> QED
      BY <2>1, <1>1, <1>9, <1>17 DEF Units
  <1>19. Nested' /\ waking'.wait \in Range(line'[kbd]) \cup {NULL}
    BY <1>1, <1>7, <1>9, OrderFacts DEF Nested
  <1> QED
    BY <1>5, <1>6, <1>12, <1>14, <1>15, <1>16, <1>18, <1>19 DEF SemInv

\* A reader is woken, by the interrupt or by a kill, and may leave the line.
LEMMA WokenInv ==
    ASSUME SemInv, NEW w \in Procs, place[w] = "read",
           k' \in Memory, k'.ok, Lines(k', line'), line' \in [Queues -> Seq(Procs)],
           \A q \in Sems : line'[q] = line[q],
           Range(line'[kbd]) \subseteq Range(line[kbd]), Range(line[kbd]) \ {w} \subseteq Range(line'[kbd]),
           Woken(k, k', w),
           UNCHANGED <<value, place, held>>,
           waking' \in [wait : Procs \cup {NULL}, del : BOOLEAN],
           waking'.wait \in Range(line'[kbd]) \cup {NULL}
    PROVE  SemInv'
  <1>1. SemType /\ Nested /\ Places /\ InLine /\ Sleepers /\ Units /\ Lines(k, line)
    BY DEF SemInv
  <1>2. /\ Awake(w)' /\ \A x \in Procs \ {w} : Awake(x)' = Awake(x)
        /\ \A x \in Procs \ {w} : k'.flags[x] = k.flags[x] /\ k'.wait_state[x] = k.wait_state[x]
    BY DEF Awake, Woken
  <1>3. \A x \in Procs : NextSem(x)' = NextSem(x)
    BY DEF NextSem
  <1>4. \A q \in Queues : Range(line'[q]) \subseteq Range(line[q])
    BY OrderFacts
  <1>5. SemType' /\ Nested'
    BY <1>1 DEF SemType, Nested
  <1>6. Places'
    BY <1>1, <1>2, <1>4 DEF Places
  <1>7. \A q \in Sems : w \notin Range(line[q])
    BY <1>1, OrderFacts DEF InLine
  <1>8. InLine'
    <2> SUFFICES ASSUME NEW q \in Queues, NEW x \in Range(line'[q])
                 PROVE  /\ q = kbd => place[x] = "read"
                        /\ q \in Sems => place[x] = "down" /\ NextSem(x)' = q /\ ~Awake(x)' /\ k'.wait_state[x] = WT_KSEM
      BY DEF InLine
    <2>1. x \in Range(line[q]) /\ x \in Procs /\ (q \in Sems => x # w)
      <3>1. line[q] \in Seq(Procs)
        BY <1>1 DEF SemType
      <3> QED
        BY <3>1, <1>4, <1>7, AroundElements
    <2> QED
      BY <2>1, <1>1, <1>2, <1>3 DEF InLine
  <1>9. Sleepers'
    <2> SUFFICES ASSUME NEW x \in Procs
                 PROVE  /\ ~Awake(x)' /\ place[x] = "down" => x \in Range(line'[NextSem(x)'])
                        /\ ~Awake(x)' /\ place[x] = "read" => x \in Range(line'[kbd])
                        /\ Awake(x)' /\ place[x] = "down" => k'.flags[x] = WT_KSEM
      BY DEF Sleepers
    <2>1. CASE x = w
      BY <2>1, <1>2
    <2>2. CASE x # w
      <3>1. place[x] = "down" => NextSem(x) \in Sems
        BY NextFacts
      <3> QED
        BY <2>2, <3>1, <1>1, <1>2, <1>3 DEF Sleepers
    <2> QED
      BY <2>1, <2>2
  <1>10. \A x \in Procs, t \in Sems : Owns(x, t)' <=> Owns(x, t)
    <2> SUFFICES ASSUME NEW x \in Procs, NEW t \in Sems PROVE Owns(x, t)' <=> Owns(x, t)
      OBVIOUS
    <2>1. CASE x = w
      BY <2>1 DEF Owns, Handed
    <2>2. CASE x # w
      BY <2>2, <1>2, <1>3 DEF Owns, Handed
    <2> QED
      BY <2>1, <2>2
  <1>11. Units'
    BY <1>1, <1>10 DEF Units
  <1> QED
    BY <1>5, <1>6, <1>8, <1>9, <1>11 DEF SemInv

\* __down returns: the semaphore it was handed is now held, and the wait_t is
\* out of the queue already.
LEMMA DownReturnInv == ASSUME SemInv, NEW p \in Procs, DownReturn(p) PROVE SemInv'
  <1> DEFINE s == NextSem(p)
  <1>1. /\ SemType /\ k.ok /\ Lines(k, line) /\ waking.wait \in Range(line[kbd]) \cup {NULL}
        /\ Nested /\ Places /\ InLine /\ Sleepers /\ Units
    BY DEF SemInv
  <1>2. /\ held[p] \in Seq(Sems) /\ Len(held[p]) < Len(Order)
        /\ \A i \in 1..Len(held[p]) : held[p][i] = Order[i]
    BY <1>1, NextFacts DEF DownReturn, Places
  <1>3. s \in Sems /\ s \notin Range(held[p]) /\ s = Order[Len(held[p]) + 1]
    BY <1>2, NextFacts DEF NextSem
  <1>4. /\ Append(held[p], s) \in Seq(Sems) /\ Append(held[p], s) # << >>
        /\ Len(Append(held[p], s)) <= Len(Order)
        /\ \A i \in 1..Len(Append(held[p], s)) : Append(held[p], s)[i] = Order[i]
        /\ Range(Append(held[p], s)) = Range(held[p]) \cup {s}
    <2> HIDE DEF s
    <2> QED
      BY <1>2, <1>3, HeldFacts, OrderFacts
  <1>5. /\ place[p] = "down" /\ Awake(p)
        /\ k' = Asserted(wait_current_del(k, s, p), k.flags[p] = WT_KSEM)
        /\ held' = [held EXCEPT ![p] = Append(@, s)] /\ place' = [place EXCEPT ![p] = "take"]
        /\ value' = value /\ line' = line /\ waking' = waking
    BY DEF DownReturn
  <1>6. p \in Handed(s)
    BY <1>5 DEF Handed
  <1> HIDE DEF s
  <1>7. \A q \in Queues : p \notin Range(line[q])
    BY <1>1, <1>5, OrderFacts DEF InLine
  <1>8. wait_current_del(k, s, p) = k
    <2>1. ~wait_in_queue(k, p)
      BY <1>1, <1>7 DEF Lines, wait_in_queue, list_empty
    <2> QED
      BY <2>1 DEF wait_current_del
  <1>9. k.flags[p] = WT_KSEM
    BY <1>1, <1>5 DEF Sleepers
  <1>10. /\ k' \in Memory /\ k'.ok /\ k'.next = k.next /\ k'.prev = k.prev /\ k'.queue = k.queue
         /\ k'.state = k.state /\ k'.flags = k.flags /\ k'.wait_state = k.wait_state
    BY <1>1, <1>5, <1>8, <1>9 DEF Asserted, SemType, Memory
  <1>11. Lines(k', line')
    BY <1>1, <1>5, <1>10, LinesSame
  <1>12. /\ held'[p] = Append(held[p], s) /\ place'[p] = "take"
         /\ \A x \in Procs \ {p} : held'[x] = held[x] /\ place'[x] = place[x]
    BY <1>1, <1>5 DEF SemType
  <1>13. \A x \in Procs : Awake(x)' = Awake(x)
    BY <1>10 DEF Awake
  <1>14. \A x \in Procs \ {p} : NextSem(x)' = NextSem(x)
    BY <1>12 DEF NextSem
  <1>15. SemType'
    BY <1>1, <1>4, <1>5, <1>10 DEF SemType
  <1>16. Nested'
    <2> SUFFICES ASSUME NEW x \in Procs
                 PROVE  /\ Len(held'[x]) <= Len(Order)
                        /\ \A i \in 1..Len(held'[x]) : held'[x][i] = Order[i]
      BY DEF Nested
    <2>1. CASE x = p
      BY <2>1, <1>4, <1>12
    <2>2. CASE x # p
      BY <2>2, <1>1, <1>12 DEF Nested
    <2> QED
      BY <2>1, <2>2
  <1>17. Places'
    BY <1>1, <1>4, <1>5, <1>7, <1>12, <1>13 DEF Places
  <1>18. InLine'
    <2> SUFFICES ASSUME NEW q \in Queues, NEW x \in Range(line[q])
                 PROVE  /\ q = kbd => place'[x] = "read"
                        /\ q \in Sems => place'[x] = "down" /\ NextSem(x)' = q /\ ~Awake(x)' /\ k'.wait_state[x] = WT_KSEM
      BY <1>5 DEF InLine
    <2>1. x \in Procs \ {p}
      <3>1. line[q] \in Seq(Procs)
        BY <1>1 DEF SemType
      <3> QED
        BY <3>1, <1>7, AroundElements
    <2> QED
      BY <2>1, <1>1, <1>10, <1>12, <1>13, <1>14 DEF InLine
  <1>19. Sleepers'
    BY <1>1, <1>5, <1>10, <1>12, <1>13, <1>14 DEF Sleepers
  <1>20. \A x \in Procs, t \in Sems : Owns(x, t)' <=> Owns(x, t)
    <2> SUFFICES ASSUME NEW x \in Procs, NEW t \in Sems PROVE Owns(x, t)' <=> Owns(x, t)
      OBVIOUS
    <2>1. CASE x = p
      BY <2>1, <1>4, <1>6, <1>12 DEF Owns, Handed, s
    <2>2. CASE x # p
      BY <2>2, <1>12, <1>13, <1>14 DEF Owns, Handed
    <2> QED
      BY <2>1, <2>2
  <1>21. Units'
    BY <1>1, <1>5, <1>20 DEF Units
  <1> QED
    BY <1>1, <1>5, <1>10, <1>11, <1>15, <1>16, <1>17, <1>18, <1>19, <1>21 DEF SemInv

\* The process stops taking and begins to give back.
LEMMA TurnBackInv == ASSUME SemInv, NEW p \in Procs, TurnBack(p) PROVE SemInv'
  <1>1. /\ SemType /\ Lines(k, line) /\ Nested /\ Places /\ InLine /\ Sleepers /\ Units
    BY DEF SemInv
  <1>2. /\ place[p] = "take" /\ place' = [place EXCEPT ![p] = "give"]
        /\ k' = k /\ value' = value /\ held' = held /\ line' = line /\ waking' = waking
    BY DEF TurnBack
  <1>3. place'[p] = "give" /\ \A x \in Procs \ {p} : place'[x] = place[x]
    BY <1>1, <1>2 DEF SemType
  <1>4. \A x \in Procs : Awake(x)' = Awake(x) /\ NextSem(x)' = NextSem(x)
    BY <1>2 DEF Awake, NextSem
  <1>5. SemType' /\ Nested'
    BY <1>1, <1>2 DEF SemType, Nested
  <1>6. Places'
    BY <1>1, <1>2, <1>3, <1>4 DEF Places
  <1>7. InLine'
    <2> SUFFICES ASSUME NEW q \in Queues, NEW x \in Range(line[q])
                 PROVE  /\ q = kbd => place'[x] = "read"
                        /\ q \in Sems => place'[x] = "down" /\ NextSem(x)' = q /\ ~Awake(x)' /\ k'.wait_state[x] = WT_KSEM
      BY <1>2 DEF InLine
    <2>1. x \in Procs \ {p}
      <3>1. line[q] \in Seq(Procs)
        BY <1>1 DEF SemType
      <3> QED
        BY <3>1, <1>1, <1>2, AroundElements DEF Places
    <2> QED
      BY <2>1, <1>1, <1>2, <1>3, <1>4 DEF InLine
  <1>8. Sleepers'
    BY <1>1, <1>2, <1>3, <1>4 DEF Sleepers
  <1>9. \A x \in Procs, t \in Sems : Owns(x, t)' <=> Owns(x, t)
    <2> SUFFICES ASSUME NEW x \in Procs, NEW t \in Sems PROVE Owns(x, t)' <=> Owns(x, t)
      OBVIOUS
    <2>1. CASE x = p
      BY <2>1, <1>2, <1>3 DEF Owns, Handed
    <2>2. CASE x # p
      BY <2>2, <1>2, <1>3, <1>4 DEF Owns, Handed
    <2> QED
      BY <2>1, <2>2
  <1>10. Units'
    BY <1>1, <1>2, <1>9 DEF Units
  <1> QED
    BY <1>2, <1>5, <1>6, <1>7, <1>8, <1>10 DEF SemInv

\* __up: the unit goes back, or straight to the first in line.
LEMMA UpInv == ASSUME SemInv, NEW p \in Procs, Up(p) PROVE SemInv'
  <1>0. SUFFICES ASSUME NEW s, NEW w, s = Last(held[p]), w = wait_queue_first(k, s)
                 PROVE  SemInv'
    OBVIOUS
  <1>1. /\ SemType /\ k.ok /\ Lines(k, line) /\ waking.wait \in Range(line[kbd]) \cup {NULL}
        /\ Nested /\ Places /\ InLine /\ Sleepers /\ Units
    BY DEF SemInv
  <1>2. /\ place[p] = "give"
        /\ k' = __up(k, value[s], s).k
        /\ value' = [value EXCEPT ![s] = __up(k, value[s], s).value]
        /\ line' = Left(line, s, w)
        /\ held' = [held EXCEPT ![p] = Front(@)]
        /\ place' = [place EXCEPT ![p] = IF Len(held[p]) = 1 THEN "idle" ELSE "give"]
        /\ waking' = waking
    BY <1>0 DEF Up, Left
  <1>3. held[p] # << >> /\ Awake(p) /\ \A q \in Queues : p \notin Range(line[q])
    BY <1>1, <1>2 DEF Places
  <1>4. /\ s \in Sems /\ s \in Range(held[p])
        /\ Front(held[p]) \in Seq(Sems) /\ Len(Front(held[p])) = Len(held[p]) - 1
        /\ \A i \in 1..Len(Front(held[p])) : Front(held[p])[i] = Order[i]
        /\ Range(Front(held[p])) = Range(held[p]) \ {s}
        /\ Len(held[p]) \in Nat /\ Len(held[p]) <= Len(Order)
    <2>1. held[p] \in Seq(Sems) /\ Len(held[p]) <= Len(Order)
      BY NextFacts
    <2>2. \A i \in 1..Len(held[p]) : held[p][i] = Order[i]
      BY NextFacts
    <2>3. /\ Len(held[p]) \in Nat
          /\ Last(held[p]) \in Sems /\ Last(held[p]) \in Range(held[p])
          /\ Front(held[p]) \in Seq(Sems) /\ Len(Front(held[p])) = Len(held[p]) - 1
          /\ \A i \in 1..Len(Front(held[p])) : Front(held[p])[i] = Order[i]
          /\ Range(Front(held[p])) = Range(held[p]) \ {Last(held[p])}
      BY <2>1, <2>2, <1>3, HeldFacts
    <2> QED
      BY <2>1, <2>3, <1>0, Zenon
  <1>5. s \in Queues /\ s # kbd
    BY <1>4, OrderFacts
  <1>6. Owns(p, s)
    BY <1>4 DEF Owns
  <1>7. value[s] = 0 /\ \A x \in Procs : Owns(x, s) => x = p
    BY <1>1, <1>4, <1>6 DEF Units
  <1>8. w = IF line[s] = << >> THEN NULL ELSE line[s][1]
    <2>1. k \in Memory /\ line \in [Queues -> Seq(Procs)] /\ Lines(k, line) /\ s \in Queues
      BY <1>1, <1>5 DEF SemType
    <2>2. wait_queue_first(k, s) = IF line[s] = << >> THEN NULL ELSE line[s][1]
      BY <2>1, LinesRead
    <2> QED
      BY <2>2, <1>0
  <1>9. /\ held'[p] = Front(held[p]) /\ place'[p] \in {"idle", "give"}
        /\ place'[p] = "idle" <=> Front(held[p]) = << >>
        /\ \A x \in Procs \ {p} : held'[x] = held[x] /\ place'[x] = place[x]
    <2>1. Front(held[p]) = << >> <=> Len(Front(held[p])) = 0
      BY <1>4, EmptySeq
    <2>2. Len(held[p]) = 1 <=> Front(held[p]) = << >>
      BY <2>1, <1>4
    <2> QED
      BY <2>2, <1>1, <1>2 DEF SemType
  <1>10. Nested'
    <2> SUFFICES ASSUME NEW x \in Procs
                 PROVE  /\ Len(held'[x]) <= Len(Order)
                        /\ \A i \in 1..Len(held'[x]) : held'[x][i] = Order[i]
      BY DEF Nested
    <2>1. CASE x = p
      BY <2>1, <1>4, <1>9, OrderFacts
    <2>2. CASE x # p
      BY <2>2, <1>1, <1>9 DEF Nested
    <2> QED
      BY <2>1, <2>2
  <1>11. \A x \in Procs \ {p} : NextSem(x)' = NextSem(x)
    BY <1>9 DEF NextSem
  <1>12. CASE line[s] = << >>
    <2>1. w = NULL
      BY <1>8, <1>12
    <2>2. k' = k /\ value' = [value EXCEPT ![s] = 1]
      <3>1. __up(k, value[s], s) = [k |-> k, value |-> value[s] + 1]
        BY <2>1, <1>0 DEF __up
      <3>2. __up(k, value[s], s).k = k /\ __up(k, value[s], s).value = value[s] + 1
        BY <3>1
      <3>3. value[s] + 1 = 1
        BY <1>7
      <3> QED
        BY <3>2, <3>3, <1>2, Zenon
    <2>3. line' = line
      <3>1. RemoveFirst(<< >>, w) = << >>
        BY DEF RemoveFirst
      <3> QED
        BY <3>1, <1>1, <1>2, <1>12 DEF Left, SemType
    <2>4. \A x \in Procs : Awake(x)' = Awake(x)
      BY <2>2 DEF Awake
    <2>5. SemType'
      <3>1. value' \in [Sems -> Int]
        BY <2>2, <1>1, <1>4 DEF SemType
      <3>2. held' \in [Procs -> Seq(Sems)]
        BY <1>1, <1>2, <1>4 DEF SemType
      <3> QED
        BY <3>1, <3>2, <2>2, <2>3, <1>1, <1>2 DEF SemType
    <2>6. Places'
      BY <2>3, <2>4, <1>1, <1>3, <1>9 DEF Places
    <2>7. InLine'
      <3> SUFFICES ASSUME NEW q \in Queues, NEW x \in Range(line[q])
                   PROVE  /\ q = kbd => place'[x] = "read"
                          /\ q \in Sems => place'[x] = "down" /\ NextSem(x)' = q /\ ~Awake(x)' /\ k'.wait_state[x] = WT_KSEM
        BY <2>3 DEF InLine
      <3>1. x \in Procs \ {p}
        <4>1. line[q] \in Seq(Procs)
          BY <1>1 DEF SemType
        <4> QED
          BY <4>1, <1>3, AroundElements
      <3> QED
        BY <3>1, <2>2, <2>4, <1>1, <1>9, <1>11 DEF InLine
    <2>8. Sleepers'
      BY <2>2, <2>3, <2>4, <1>1, <1>9, <1>11 DEF Sleepers
    <2>9. \A x \in Procs, t \in Sems : Owns(x, t)' <=> Owns(x, t) /\ ~(x = p /\ t = s)
      <3> SUFFICES ASSUME NEW x \in Procs, NEW t \in Sems PROVE Owns(x, t)' <=> Owns(x, t) /\ ~(x = p /\ t = s)
        OBVIOUS
      <3>1. CASE x = p
        BY <3>1, <1>2, <1>4, <1>9 DEF Owns, Handed
      <3>2. CASE x # p
        BY <3>2, <2>4, <1>9, <1>11 DEF Owns, Handed
      <3> QED
        BY <3>1, <3>2
    <2>10. Units'
      <3> SUFFICES ASSUME NEW t \in Sems
                   PROVE  /\ value'[t] \in {0, 1}
                          /\ value'[t] = 0 <=> \E x \in Procs : Owns(x, t)'
                          /\ \A p1, p2 \in Procs : Owns(p1, t)' /\ Owns(p2, t)' => p1 = p2
                          /\ line'[t] # << >> => value'[t] = 0
        BY DEF Units
      <3>1. CASE t = s
        <4>1. value'[t] = 1 /\ line'[t] = << >>
          BY <3>1, <2>2, <2>3, <1>1, <1>4, <1>12 DEF SemType
        <4> QED
          BY <3>1, <4>1, <2>9, <1>7
      <3>2. CASE t # s
        <4>1. value'[t] = value[t] /\ line'[t] = line[t]
          BY <3>2, <2>2, <2>3, <1>1 DEF SemType
        <4> QED
          BY <3>2, <4>1, <2>9, <1>1 DEF Units
      <3> QED
        BY <3>1, <3>2
    <2> QED
      BY <2>2, <2>3, <2>5, <2>6, <2>7, <2>8, <2>10, <1>1, <1>2, <1>10 DEF SemInv
  <1>13. CASE line[s] # << >>
    <2>1. w \in Range(line[s]) /\ w \in Procs /\ w # NULL
      <3>1. w \in Range(line[s]) /\ w \in Procs
        BY <1>1, <1>5, <1>8, <1>13, LinesRead DEF SemType
      <3> QED
        BY <3>1, ElementsAssumption DEF Elements
    <2>2. place[w] = "down" /\ NextSem(w) = s /\ ~Awake(w) /\ k.wait_state[w] = WT_KSEM /\ w # p
      BY <2>1, <1>1, <1>3, <1>4, <1>5 DEF InLine
    <2> DEFINE a == Asserted(k, k.wait_state[w] = WT_KSEM)
    <2>3. /\ a \in Memory /\ a.ok /\ a.next = k.next /\ a.prev = k.prev /\ a.queue = k.queue
          /\ a.state = k.state /\ a.flags = k.flags /\ a.wait_state = k.wait_state
      BY <2>2, <1>1 DEF Asserted, SemType, Memory
    <2>4. k' = wakeup_wait(a, s, w, WT_KSEM, TRUE) /\ value' = [value EXCEPT ![s] = value[s]]
      BY <2>1, <1>0, <1>2 DEF __up
    <2> HIDE DEF a
    <2>5. value' = value
      BY <2>4, <1>1 DEF SemType
    <2>6. Lines(a, line)
      BY <2>3, <1>1, LinesSame
    <2>7. /\ line' \in [Queues -> Seq(Procs)]
          /\ Range(line'[s]) = Range(line[s]) \ {w}
          /\ \A r \in Queues \ {s} : line'[r] = line[r]
      <3>1. line \in [Queues -> Seq(Procs)]
        BY <1>1 DEF SemType
      <3>2. /\ Left(line, s, w) \in [Queues -> Seq(Procs)]
            /\ Range(Left(line, s, w)[s]) = Range(line[s]) \ {w}
        <4>1. a \in Memory /\ Lines(a, line) /\ s \in Queues /\ w \in Range(line[s])
          BY <2>1, <2>3, <2>6, <1>5
        <4>2. Left(line, s, w) \in [Queues -> Seq(Procs)]
          BY <3>1, <4>1, LinesLeave, Zenon
        <4>3. \A x : x \in Range(Left(line, s, w)[s]) <=> x \in Range(line[s]) /\ x # w
          BY <3>1, <4>1, LinesLeave, Zenon
        <4> QED
          BY <4>2, <4>3
      <3>3. \A r \in Queues \ {s} : Left(line, s, w)[r] = line[r]
        BY <3>1 DEF Left
      <3> QED
        BY <3>2, <3>3, <1>2
    <2>9. k' \in Memory /\ k'.ok = a.ok /\ k'.flags[w] = WT_KSEM /\ Woken(a, k', w) /\ Lines(k', line')
      <3>1. WT_KSEM \in Reasons /\ line \in [Queues -> Seq(Procs)]
        BY <1>1 DEF Reasons, SemType
      <3>2. /\ wakeup_wait(a, s, w, WT_KSEM, TRUE) \in Memory
            /\ wakeup_wait(a, s, w, WT_KSEM, TRUE).ok = a.ok
            /\ wakeup_wait(a, s, w, WT_KSEM, TRUE).flags[w] = WT_KSEM
            /\ Woken(a, wakeup_wait(a, s, w, WT_KSEM, TRUE), w)
            /\ Lines(wakeup_wait(a, s, w, WT_KSEM, TRUE), Left(line, s, w))
        <4>1. a \in Memory /\ Lines(a, line) /\ s \in Queues /\ w \in Range(line[s])
          BY <2>1, <2>3, <2>6, <1>5
        <4> QED
          BY <3>1, <4>1, LinesWakeOut, ZenonT(60)
      <3> QED
        BY <3>2, <2>4, <1>2
    <2>10. Lines(k', line') /\ k'.ok
      BY <2>3, <2>9
    <2>11. /\ Awake(w)' /\ k'.flags[w] = WT_KSEM
           /\ \A x \in Procs \ {w} : Awake(x)' = Awake(x) /\ k'.flags[x] = k.flags[x] /\ k'.wait_state[x] = k.wait_state[x]
      BY <2>3, <2>9 DEF Awake, Woken
    <2>20. place'[w] = "down" /\ held'[w] = held[w] /\ NextSem(w)' = s
      BY <2>1, <2>2, <1>9, <1>11
    <2>12. \A r \in Queues : Range(line'[r]) \subseteq Range(line[r]) /\ w \notin Range(line'[r])
                             /\ Range(line[r]) \ {w} \subseteq Range(line'[r])
      <3>1. \A r \in Queues \ {s} : w \notin Range(line[r])
        BY <2>1, <1>1, <1>5, LinesDisjoint
      <3> QED
        BY <3>1, <2>7
    <2>13. SemType'
      BY <2>5, <2>7, <2>9, <1>1, <1>2, <1>4, <1>9 DEF SemType
    <2>14. Places'
      <3> SUFFICES ASSUME NEW x \in Procs
                   PROVE  /\ place'[x] \in {"idle", "read"} => held'[x] = << >>
                          /\ place'[x] \in {"take", "give"} => held'[x] # << >>
                          /\ place'[x] = "down" => Len(held'[x]) < Len(Order)
                          /\ place'[x] \in {"idle", "take", "give"} =>
                               Awake(x)' /\ \A r \in Queues : x \notin Range(line'[r])
        BY DEF Places
      <3>1. CASE x = p
        BY <3>1, <2>2, <2>11, <2>12, <1>3, <1>9
      <3>2. CASE x = w
        BY <3>2, <2>2, <2>20, <1>1 DEF Places
      <3>3. CASE x # p /\ x # w
        BY <3>3, <2>11, <2>12, <1>1, <1>9 DEF Places
      <3> QED
        BY <3>1, <3>2, <3>3
    <2>15. InLine'
      <3> SUFFICES ASSUME NEW q \in Queues, NEW x \in Range(line'[q])
                   PROVE  /\ q = kbd => place'[x] = "read"
                          /\ q \in Sems => place'[x] = "down" /\ NextSem(x)' = q /\ ~Awake(x)' /\ k'.wait_state[x] = WT_KSEM
        BY DEF InLine
      <3>1. x \in Range(line[q]) /\ x \in Procs /\ x # p /\ x # w
        <4>1. line[q] \in Seq(Procs) /\ x \in Range(line[q])
          BY <2>12, <1>1 DEF SemType
        <4> QED
          BY <4>1, <2>12, <1>3, AroundElements
      <3> QED
        BY <3>1, <2>11, <1>1, <1>9, <1>11 DEF InLine
    <2>16. Sleepers'
      <3> SUFFICES ASSUME NEW x \in Procs
                   PROVE  /\ ~Awake(x)' /\ place'[x] = "down" => x \in Range(line'[NextSem(x)'])
                          /\ ~Awake(x)' /\ place'[x] = "read" => x \in Range(line'[kbd])
                          /\ Awake(x)' /\ place'[x] = "down" => k'.flags[x] = WT_KSEM
        BY DEF Sleepers
      <3>1. CASE x = p
        BY <3>1, <1>9
      <3>2. CASE x = w
        BY <3>2, <2>11
      <3>3. CASE x # p /\ x # w
        <4>1. place[x] = "down" => NextSem(x) \in Queues
          BY NextFacts, OrderFacts
        <4>2. kbd \in Queues
          BY OrderFacts
        <4>3. /\ place'[x] = place[x] /\ NextSem(x)' = NextSem(x) /\ Awake(x)' = Awake(x)
              /\ k'.flags[x] = k.flags[x]
          BY <3>3, <2>11, <1>9, <1>11
        <4>4. /\ ~Awake(x) /\ place[x] = "down" => x \in Range(line[NextSem(x)])
              /\ ~Awake(x) /\ place[x] = "read" => x \in Range(line[kbd])
              /\ Awake(x) /\ place[x] = "down" => k.flags[x] = WT_KSEM
          BY <1>1, Zenon DEF Sleepers
        <4>5. \A r \in Queues : x \in Range(line[r]) => x \in Range(line'[r])
          BY <3>3, <2>12
        <4> QED
          BY <4>1, <4>2, <4>3, <4>4, <4>5
      <3> QED
        BY <3>1, <3>2, <3>3
    <2>17. \A x \in Procs, t \in Sems : Owns(x, t)' <=> (Owns(x, t) /\ ~(x = p /\ t = s)) \/ (x = w /\ t = s)
      <3> SUFFICES ASSUME NEW x \in Procs, NEW t \in Sems
                   PROVE  Owns(x, t)' <=> (Owns(x, t) /\ ~(x = p /\ t = s)) \/ (x = w /\ t = s)
        OBVIOUS
      <3>1. CASE x = p
        BY <3>1, <2>2, <1>2, <1>4, <1>9 DEF Owns, Handed
      <3>2. CASE x = w
        BY <3>2, <2>2, <2>11, <2>20, <1>9, <1>11 DEF Owns, Handed
      <3>3. CASE x # p /\ x # w
        BY <3>3, <2>11, <1>9, <1>11 DEF Owns, Handed
      <3> QED
        BY <3>1, <3>2, <3>3
    <2>18. Units'
      <3> SUFFICES ASSUME NEW t \in Sems
                   PROVE  /\ value'[t] \in {0, 1}
                          /\ value'[t] = 0 <=> \E x \in Procs : Owns(x, t)'
                          /\ \A p1, p2 \in Procs : Owns(p1, t)' /\ Owns(p2, t)' => p1 = p2
                          /\ line'[t] # << >> => value'[t] = 0
        BY DEF Units
      <3>1. CASE t = s
        BY <3>1, <2>1, <2>5, <2>17, <1>7
      <3>2. CASE t # s
        <4>1. value'[t] = value[t] /\ line'[t] = line[t]
          BY <3>2, <2>5, <2>7, OrderFacts
        <4> QED
          BY <3>2, <4>1, <2>17, <1>1 DEF Units
      <3> QED
        BY <3>1, <3>2
    <2>19. waking'.wait \in Range(line'[kbd]) \cup {NULL}
      BY <2>7, <1>1, <1>2, <1>5, OrderFacts
    <2> QED
      BY <2>10, <2>13, <2>14, <2>15, <2>16, <2>18, <2>19, <1>10 DEF SemInv
  <1> QED
    BY <1>12, <1>13

\* A reader is back: it leaves the line if nobody took it out.
LEMMA ReadReturnInv == ASSUME SemInv, InterruptsOn, NEW p \in Procs, ReadReturn(p) PROVE SemInv'
  <1>1. /\ SemType /\ k.ok /\ Lines(k, line) /\ Nested /\ Places /\ InLine /\ Sleepers /\ Units
        /\ k \in Memory /\ line \in [Queues -> Seq(Procs)] /\ kbd \in Queues
    BY OrderFacts DEF SemInv, SemType
  <1>2. /\ place[p] = "read" /\ Awake(p)
        /\ k' = wait_current_del(k, kbd, p) /\ line' = Left(line, kbd, p)
        /\ place' = [place EXCEPT ![p] = "idle"]
        /\ value' = value /\ held' = held /\ waking' = waking /\ waking'.wait = NULL
    BY DEF ReadReturn, Left, InterruptsOn
  <1>3. held[p] = << >> /\ \A q \in Sems : p \notin Range(line[q])
    BY <1>1, <1>2, OrderFacts DEF Places, InLine
  <1>4. /\ k' \in Memory /\ k'.ok /\ Lines(k', line') /\ line' \in [Queues -> Seq(Procs)]
        /\ k'.state = k.state /\ k'.flags = k.flags /\ k'.wait_state = k.wait_state
        /\ \A x : x \in Range(line'[kbd]) <=> x \in Range(line[kbd]) /\ x # p
    <2>1. CASE p \in Range(line[kbd])
      <3>1. k' = wait_queue_del(k, kbd, p)
        BY <2>1, <1>1, <1>2, LinesRead DEF wait_current_del
      <3>2. /\ Lines(wait_queue_del(k, kbd, p), Left(line, kbd, p))
            /\ Left(line, kbd, p) \in [Queues -> Seq(Procs)]
            /\ wait_queue_del(k, kbd, p).ok = k.ok
            /\ \A x : x \in Range(Left(line, kbd, p)[kbd]) <=> x \in Range(line[kbd]) /\ x # p
        BY <2>1, <1>1, LinesLeave, Zenon
      <3>3. /\ wait_queue_del(k, kbd, p) \in Memory
            /\ wait_queue_del(k, kbd, p).state = k.state /\ wait_queue_del(k, kbd, p).flags = k.flags
            /\ wait_queue_del(k, kbd, p).wait_state = k.wait_state
        BY <1>1, WaitQueueDel
      <3> QED
        BY <3>1, <3>2, <3>3, <1>1, <1>2
    <2>2. CASE p \notin Range(line[kbd])
      <3>1. \A q \in Queues : p \notin Range(line[q])
        BY <2>2, <1>3, OrderFacts
      <3>2. ~wait_in_queue(k, p)
        BY <3>1, <1>1 DEF Lines, wait_in_queue, list_empty
      <3>3. k' = k
        BY <3>2, <1>2 DEF wait_current_del
      <3>4. RemoveFirst(line[kbd], p) = line[kbd]
        BY <2>2, <1>1, AroundElements DEF RemoveFirst
      <3>5. line' = line
        BY <3>4, <1>1, <1>2 DEF Left
      <3> QED
        BY <2>2, <3>3, <3>5, <1>1
    <2> QED
      BY <2>1, <2>2
  <1>5. \A q \in Queues \ {kbd} : line'[q] = line[q]
    BY <1>1, <1>2 DEF Left
  <1>6. \A q \in Queues : \A x : x \in Range(line'[q]) <=> x \in Range(line[q]) /\ x # p
    BY <1>3, <1>4, <1>5, OrderFacts
  <1>7. place'[p] = "idle" /\ \A x \in Procs \ {p} : place'[x] = place[x]
    BY <1>1, <1>2 DEF SemType
  <1>8. \A x \in Procs : Awake(x)' = Awake(x) /\ NextSem(x)' = NextSem(x)
    BY <1>2, <1>4 DEF Awake, NextSem
  <1>9. SemType' /\ Nested'
    BY <1>1, <1>2, <1>4 DEF SemType, Nested
  <1>10. Places'
    <2> SUFFICES ASSUME NEW x \in Procs
                 PROVE  /\ place'[x] \in {"idle", "read"} => held[x] = << >>
                        /\ place'[x] \in {"take", "give"} => held[x] # << >>
                        /\ place'[x] = "down" => Len(held[x]) < Len(Order)
                        /\ place'[x] \in {"idle", "take", "give"} =>
                             Awake(x)' /\ \A r \in Queues : x \notin Range(line'[r])
      BY <1>2 DEF Places
    <2>1. CASE x = p
      BY <2>1, <1>2, <1>3, <1>6, <1>7, <1>8
    <2>2. CASE x # p
      BY <2>2, <1>1, <1>6, <1>7, <1>8 DEF Places
    <2> QED
      BY <2>1, <2>2
  <1>11. InLine'
    <2> SUFFICES ASSUME NEW q \in Queues, NEW x \in Range(line'[q])
                 PROVE  /\ q = kbd => place'[x] = "read"
                        /\ q \in Sems => place'[x] = "down" /\ NextSem(x)' = q /\ ~Awake(x)' /\ k'.wait_state[x] = WT_KSEM
      BY DEF InLine
    <2>1. x \in Range(line[q]) /\ x \in Procs \ {p}
      BY <1>1, <1>6, AroundElements
    <2> QED
      BY <2>1, <1>1, <1>4, <1>7, <1>8 DEF InLine
  <1>12. Sleepers'
    <2> SUFFICES ASSUME NEW x \in Procs
                 PROVE  /\ ~Awake(x)' /\ place'[x] = "down" => x \in Range(line'[NextSem(x)'])
                        /\ ~Awake(x)' /\ place'[x] = "read" => x \in Range(line'[kbd])
                        /\ Awake(x)' /\ place'[x] = "down" => k'.flags[x] = WT_KSEM
      BY DEF Sleepers
    <2>1. CASE x = p
      BY <2>1, <1>7
    <2>2. CASE x # p
      <3>1. place[x] = "down" => NextSem(x) \in Queues
        BY NextFacts, OrderFacts
      <3> QED
        BY <2>2, <3>1, <1>1, <1>4, <1>6, <1>7, <1>8 DEF Sleepers
    <2> QED
      BY <2>1, <2>2
  <1>13. \A x \in Procs, t \in Sems : Owns(x, t)' <=> Owns(x, t)
    <2> SUFFICES ASSUME NEW x \in Procs, NEW t \in Sems PROVE Owns(x, t)' <=> Owns(x, t)
      OBVIOUS
    <2>1. CASE x = p
      BY <2>1, <1>2, <1>7 DEF Owns, Handed
    <2>2. CASE x # p
      BY <2>2, <1>2, <1>7, <1>8 DEF Owns, Handed
    <2> QED
      BY <2>1, <2>2
  <1>14. Units'
    <2>1. \A t \in Sems : line'[t] = line[t]
      BY <1>5, OrderFacts
    <2> QED
      BY <2>1, <1>1, <1>2, <1>13 DEF Units
  <1> QED
    BY <1>2, <1>4, <1>9, <1>10, <1>11, <1>12, <1>14 DEF SemInv

\* Who sleeps interruptibly reads: a kill wakes no sleeper of a semaphore.
LEMMA KillInv == ASSUME SemInv, NEW p \in Procs, Kill(p) PROVE SemInv'
  <1>1. /\ SemType /\ k.ok /\ Lines(k, line) /\ Places /\ InLine /\ Sleepers
        /\ waking.wait \in Range(line[kbd]) \cup {NULL}
        /\ k \in Memory /\ line \in [Queues -> Seq(Procs)]
    BY DEF SemInv, SemType
  <1>2. /\ ~Awake(p) /\ k.wait_state[p] = WT_KBD /\ k' = wakeup_proc(k, p)
        /\ value' = value /\ place' = place /\ held' = held /\ line' = line /\ waking' = waking
    BY DEF Kill, Interruptible
  <1>3. place[p] = "read"
    <2>1. place[p] \in {"down", "read"}
      BY <1>1, <1>2 DEF SemType, Places
    <2>2. ASSUME place[p] = "down" PROVE FALSE
      <3>1. p \in Range(line[NextSem(p)]) /\ NextSem(p) \in Sems
        BY <2>2, <1>1, <1>2, NextFacts DEF Sleepers
      <3>2. k.wait_state[p] = WT_KSEM
        BY <3>1, <1>1, OrderFacts DEF InLine
      <3> QED
        BY <3>2, <1>2 DEF WT_KSEM, WT_KBD
    <2> QED
      BY <2>1, <2>2
  <1>4. /\ k' \in Memory /\ k'.ok /\ k'.next = k.next /\ k'.prev = k.prev /\ k'.queue = k.queue /\ Woken(k, k', p)
    BY <1>1, <1>2, WakeupProc
  <1>5. Lines(k', line')
    BY <1>1, <1>2, <1>4, LinesSame
  <1>6. waking' \in [wait : Procs \cup {NULL}, del : BOOLEAN]
    BY <1>1, <1>2 DEF SemType
  <1> QED
    BY <1>1, <1>2, <1>3, <1>4, <1>5, <1>6, WokenInv

\* The interrupt wakes w, a reader in line, and takes it out if del.
LEMMA WakeKbdInv ==
    ASSUME SemInv, NEW w \in Range(line[kbd]), NEW del \in BOOLEAN,
           k' = wakeup_wait(k, kbd, w, WT_KBD, del),
           line' = [line EXCEPT ![kbd] = IF del THEN RemoveFirst(@, w) ELSE @],
           UNCHANGED <<value, place, held>>,
           waking' \in [wait : Procs \cup {NULL}, del : BOOLEAN],
           waking'.wait \in Range(line'[kbd]) \cup {NULL}
    PROVE  SemInv'
  <1>1. /\ k \in Memory /\ k.ok /\ Lines(k, line) /\ InLine
        /\ line \in [Queues -> Seq(Procs)] /\ kbd \in Queues /\ w \in Range(line[kbd])
    BY OrderFacts DEF SemInv, SemType
  <1>2. w \in Procs /\ place[w] = "read"
    BY <1>1, AroundElements DEF InLine
  <1>3. WT_KBD \in Reasons
    BY DEF Reasons
  <1>4. /\ k' \in Memory /\ k'.ok /\ Woken(k, k', w) /\ Lines(k', line')
        /\ line' \in [Queues -> Seq(Procs)]
        /\ \A q \in Sems : line'[q] = line[q]
        /\ Range(line'[kbd]) \subseteq Range(line[kbd]) /\ Range(line[kbd]) \ {w} \subseteq Range(line'[kbd])
    <2>1. CASE del = TRUE
      <3>1. line' = Left(line, kbd, w)
        BY <2>1 DEF Left
      <3>2. /\ wakeup_wait(k, kbd, w, WT_KBD, TRUE) \in Memory
            /\ wakeup_wait(k, kbd, w, WT_KBD, TRUE).ok = k.ok
            /\ Woken(k, wakeup_wait(k, kbd, w, WT_KBD, TRUE), w)
            /\ Lines(wakeup_wait(k, kbd, w, WT_KBD, TRUE), Left(line, kbd, w))
        BY <1>1, <1>3, LinesWakeOut, Zenon
      <3>3. /\ Left(line, kbd, w) \in [Queues -> Seq(Procs)]
            /\ \A x : x \in Range(Left(line, kbd, w)[kbd]) <=> x \in Range(line[kbd]) /\ x # w
        <4>1. k \in Memory /\ line \in [Queues -> Seq(Procs)] /\ Lines(k, line) /\ kbd \in Queues
          BY <1>1
        <4>2. w \in Range(line[kbd])
          BY <1>1
        <4> QED
          BY <4>1, <4>2, LinesLeave, Zenon
      <3>5. \A q \in Sems : line'[q] = line[q]
        BY <3>1, <1>1, OrderFacts DEF Left
      <3> QED
        BY <2>1, <3>1, <3>2, <3>3, <3>5, <1>1
    <2>2. CASE del = FALSE
      <3>1. line' = line
        BY <2>2, <1>1
      <3>2. /\ wakeup_wait(k, kbd, w, WT_KBD, FALSE) \in Memory
            /\ wakeup_wait(k, kbd, w, WT_KBD, FALSE).ok = k.ok
            /\ Woken(k, wakeup_wait(k, kbd, w, WT_KBD, FALSE), w)
            /\ Lines(wakeup_wait(k, kbd, w, WT_KBD, FALSE), line)
        BY <1>1, <1>3, LinesWake, Zenon
      <3> QED
        BY <2>2, <3>1, <3>2, <1>1
    <2> QED
      BY <2>1, <2>2
  <1> QED
    BY <1>2, <1>4, WokenInv

\* The interrupt begins with the first in line, or wakes the first only.
LEMMA KeyInv == ASSUME SemInv, InterruptsOn, NEW del \in BOOLEAN, Key(del) PROVE SemInv'
  <1>0. SUFFICES ASSUME NEW w, w = wait_queue_first(k, kbd)
                 PROVE  SemInv'
    OBVIOUS
  <1>1. /\ SemType /\ Lines(k, line) /\ k \in Memory /\ line \in [Queues -> Seq(Procs)] /\ kbd \in Queues
    BY OrderFacts DEF SemInv, SemType
  <1>2. w \in Range(line[kbd]) /\ w \in Procs /\ w # NULL
    <2>1. line[kbd] # << >>
      BY <1>1, LinesRead DEF Key
    <2>2. w \in Range(line[kbd]) /\ w \in Procs
      BY <2>1, <1>0, <1>1, LinesRead
    <2> QED
      BY <2>2, ElementsAssumption DEF Elements
  <1>3. CASE waking' = [wait |-> w, del |-> del] /\ k' = k /\ line' = line
    <2>1. value' = value /\ place' = place /\ held' = held
      BY DEF Key
    <2>2. waking' \in [wait : Procs \cup {NULL}, del : BOOLEAN] /\ waking'.wait \in Range(line'[kbd]) \cup {NULL}
      BY <1>2, <1>3
    <2>3. \A x \in Procs : Awake(x)' = Awake(x) /\ NextSem(x)' = NextSem(x)
      BY <2>1, <1>3 DEF Awake, NextSem
    <2>4. \A x \in Procs, t \in Sems : Owns(x, t)' <=> Owns(x, t)
      BY <2>1, <2>3 DEF Owns, Handed
    <2>5. SemType' /\ Nested' /\ Units' /\ Lines(k', line')
      BY <2>1, <2>2, <2>4, <1>1, <1>3 DEF SemInv, SemType, Nested, Units
    <2>6. Places' /\ Sleepers'
      BY <2>1, <2>3, <1>3 DEF SemInv, Places, Sleepers
    <2>7. InLine'
      <3> SUFFICES ASSUME NEW q \in Queues, NEW x \in Range(line[q])
                   PROVE  /\ q = kbd => place[x] = "read"
                          /\ q \in Sems => place[x] = "down" /\ NextSem(x)' = q /\ ~Awake(x)' /\ k.wait_state[x] = WT_KSEM
        BY <2>1, <1>3 DEF InLine
      <3>1. x \in Procs
        BY <1>1, AroundElements
      <3> QED
        BY <3>1, <2>3 DEF SemInv, InLine
    <2> QED
      BY <2>2, <2>5, <2>6, <2>7, <1>3 DEF SemInv
  <1>4. CASE /\ k' = wakeup_first(k, kbd, WT_KBD, del) /\ waking' = waking
             /\ line' = [line EXCEPT ![kbd] = IF del THEN RemoveFirst(@, w) ELSE @]
    <2>1. k' = wakeup_wait(k, kbd, w, WT_KBD, del)
      BY <1>0, <1>2, <1>4 DEF wakeup_first
    <2>2. UNCHANGED <<value, place, held>>
      BY DEF Key
    <2>3. waking' \in [wait : Procs \cup {NULL}, del : BOOLEAN] /\ waking'.wait \in Range(line'[kbd]) \cup {NULL}
      BY <1>1, <1>4 DEF SemType, InterruptsOn
    <2> QED
      BY <2>1, <2>2, <2>3, <1>2, <1>4, WakeKbdInv
  <1> QED
    BY <1>0, <1>3, <1>4 DEF Key

\* A turn of wakeup_queue: the next is in line, and no assertion fails.
LEMMA WakeupQueueInv == ASSUME SemInv, wakeup_queue PROVE SemInv'
  <1>0. SUFFICES ASSUME NEW w, NEW del, w = waking.wait, del = waking.del
                 PROVE  SemInv'
    OBVIOUS
  <1>1. /\ SemType /\ k.ok /\ Lines(k, line) /\ InLine /\ k \in Memory
        /\ line \in [Queues -> Seq(Procs)] /\ kbd \in Queues
    BY OrderFacts DEF SemInv, SemType
  <1>2. w \in Range(line[kbd]) /\ del \in BOOLEAN /\ w # NULL
    BY <1>0 DEF SemInv, SemType, wakeup_queue
  <1>3. w \in Procs /\ place[w] = "read"
    BY <1>1, <1>2, AroundElements DEF InLine
  <1>4. k' = wakeup_turn(k, kbd, w, WT_KBD, del)
        /\ waking' = [waking EXCEPT !.wait = next_woken(k', kbd, w, del)]
        /\ line' = [line EXCEPT ![kbd] = IF del THEN RemoveFirst(@, w) ELSE @]
        /\ value' = value /\ place' = place /\ held' = held
    BY <1>0 DEF wakeup_queue
  <1>5. WT_KBD \in Reasons
    BY DEF Reasons
  <1>6. /\ k' = wakeup_wait(k, kbd, w, WT_KBD, del)
        /\ k' \in Memory /\ Lines(k', line') /\ line' \in [Queues -> Seq(Procs)]
        /\ next_woken(k', kbd, w, del) \in Range(line'[kbd]) \cup {NULL}
    <2>1. CASE del = TRUE
      <3>1. line' = Left(line, kbd, w)
        BY <2>1, <1>4 DEF Left
      <3>2. k' = wakeup_wait(k, kbd, w, WT_KBD, TRUE)
        BY <2>1, <1>4 DEF wakeup_turn
      <3>3. /\ wakeup_wait(k, kbd, w, WT_KBD, TRUE) \in Memory
            /\ Lines(wakeup_wait(k, kbd, w, WT_KBD, TRUE), Left(line, kbd, w))
        BY <1>1, <1>2, <1>5, LinesWakeOut, Zenon
      <3>4. Left(line, kbd, w) \in [Queues -> Seq(Procs)]
        BY <1>1, <1>2, LinesLeave, Zenon
      <3>5. wait_queue_first(k', kbd) \in Range(line'[kbd]) \cup {NULL}
        <4>1. k' \in Memory /\ Lines(k', line') /\ line' \in [Queues -> Seq(Procs)]
          BY <3>1, <3>2, <3>3, <3>4
        <4> QED
          BY <4>1, <1>1, LinesRead, Zenon
      <3> QED
        BY <2>1, <3>1, <3>2, <3>3, <3>4, <3>5 DEF next_woken
    <2>2. CASE del = FALSE
      <3> DEFINE m == wakeup_wait(k, kbd, w, WT_KBD, FALSE)
      <3>1. line' = line
        BY <2>2, <1>1, <1>4
      <3>2. m \in Memory /\ Lines(m, line) /\ m.ok = k.ok
        BY <1>1, <1>2, <1>5, LinesWake, Zenon
      <3>3. k' = Asserted(m, wait_in_queue(m, w) /\ m.queue[w] = kbd)
        BY <2>2, <1>4 DEF wakeup_turn
      <3> HIDE DEF m
      <3>4. wait_in_queue(m, w) /\ m.queue[w] = kbd
        BY <3>2, <1>1, <1>2, LinesRead DEF Lines
      <3>5. k' = m
        BY <3>2, <3>3, <3>4, <1>1 DEF Asserted, Memory
      <3>6. wait_queue_next(m, kbd, w) \in Range(line[kbd]) \cup {NULL}
        BY <3>2, <1>1, <1>2, LinesRead
      <3> QED
        BY <2>2, <3>1, <3>2, <3>5, <3>6, <1>1 DEF next_woken, m
    <2> QED
      BY <2>1, <2>2, <1>2
  <1>7. waking' \in [wait : Procs \cup {NULL}, del : BOOLEAN] /\ waking'.wait \in Range(line'[kbd]) \cup {NULL}
    <2>1. Range(line'[kbd]) \subseteq Procs
      BY <1>1, <1>6, AroundElements
    <2> QED
      BY <2>1, <1>1, <1>4, <1>6 DEF SemType
  <1> QED
    BY <1>2, <1>4, <1>6, <1>7, WakeKbdInv

\* Every step of SemNext, and a stuttering step.
LEMMA SemStep == ASSUME SemInv, [SemNext]_semvars PROVE SemInv'
  <1>1. ASSUME NEW p \in Procs, Down(p) PROVE SemInv'
    <2>1. CASE value[NextSem(p)] > 0 /\ Taken(p, NextSem(p))
      BY <2>1, <1>1, TakenInv DEF Down, Taken
    <2>2. CASE /\ value[NextSem(p)] <= 0 /\ k' = wait_current_set(k, NextSem(p), p, WT_KSEM)
               /\ line' = [line EXCEPT ![NextSem(p)] = Append(@, p)]
               /\ place' = [place EXCEPT ![p] = "down"] /\ UNCHANGED <<value, held, waking>>
      <3>1. CanTake(p) /\ NextSem(p) \in Queues /\ WT_KSEM \in Reasons
        BY <1>1, NextFacts, OrderFacts DEF Down, CanTake, Reasons
      <3> QED
        BY <2>2, <3>1, SleepInv
    <2> QED
      BY <2>1, <2>2, <1>1 DEF Down
  <1>2. ASSUME NEW p \in Procs, try_down(p) PROVE SemInv'
    BY <1>2, TakenInv DEF try_down, Taken
  <1>3. ASSUME NEW p \in Procs, Read(p) PROVE SemInv'
    <2>1. kbd \in Queues /\ WT_KBD \in Reasons
      BY OrderFacts DEF Reasons
    <2> QED
      BY <2>1, <1>3, SleepInv DEF Read
  <1>4. ASSUME UNCHANGED semvars PROVE SemInv'
    BY <1>4 DEF semvars, SemInv, SemType, Nested, Places, InLine, Sleepers, Units, Owns, Handed, Awake, NextSem
  <1> QED
    BY <1>1, <1>2, <1>3, <1>4, DownReturnInv, TurnBackInv, UpInv, ReadReturnInv, KillInv, KeyInv, WakeupQueueInv
       DEF SemNext

\* A unit's one owner is the one holder or the one process it was handed to.
LEMMA SemInvExact == SemInv => SemExact
  <1> SUFFICES ASSUME SemInv PROVE SemExact
    OBVIOUS
  <1>1. /\ SemType /\ k.ok /\ Lines(k, line) /\ Nested /\ Places /\ InLine /\ Sleepers /\ Units
        /\ k \in Memory /\ line \in [Queues -> Seq(Procs)]
    BY DEF SemInv, SemType
  <1>2. \A q \in Queues : Ring(k.next, k.prev, q, line[q]) /\ IsInjective(line[q])
    BY <1>1 DEF Lines
  <1>3. \A p \in Procs : wait_in_queue(k, p) => \E q \in Queues : p \in Range(line[q])
    BY <1>1, OrderFacts, LinesRead
  <1>4. ASSUME NEW s \in Sems
        PROVE  /\ value[s] >= 0
               /\ line[s] # << >> => value[s] = 0
               /\ value[s] + Cardinality(Holders(s)) + Cardinality(Handed(s)) = InitialValue
    <2>1. Holders(s) \cap Handed(s) = {}
      BY NextFacts DEF Holders, Handed
    <2>2. value[s] \in {0, 1} /\ (line[s] # << >> => value[s] = 0)
      BY <1>1 DEF Units
    <2>3. \A p \in Procs : Owns(p, s) <=> p \in Holders(s) \cup Handed(s)
      BY DEF Owns, Holders
    <2>4. Holders(s) \subseteq Procs /\ Handed(s) \subseteq Procs
      BY DEF Holders, Handed
    <2>5. Cardinality({}) = 0
      BY FS_EmptySet
    <2>6. CASE value[s] = 1
      <3>1. Holders(s) = {} /\ Handed(s) = {}
        BY <2>3, <2>4, <2>6, <1>1 DEF Units
      <3> QED
        BY <3>1, <2>2, <2>5, <2>6 DEF InitialValue
    <2>7. CASE value[s] = 0
      <3>1. PICK p \in Procs : Owns(p, s) /\ \A x \in Procs : Owns(x, s) => x = p
        BY <2>7, <1>1 DEF Units
      <3>2. Cardinality({p}) = 1
        BY FS_Singleton
      <3>3. \/ Holders(s) = {p} /\ Handed(s) = {}
            \/ Holders(s) = {} /\ Handed(s) = {p}
        BY <3>1, <2>1, <2>3, <2>4
      <3>4. Cardinality(Holders(s)) + Cardinality(Handed(s)) = 1
        BY <3>2, <3>3, <2>5
      <3> QED
        <4>1. Cardinality(Holders(s)) \in Nat /\ Cardinality(Handed(s)) \in Nat
          BY <3>2, <3>3, <2>5
        <4> QED
          BY <3>4, <4>1, <2>2, <2>7 DEF InitialValue
    <2> QED
      BY <2>2, <2>6, <2>7
  <1>5. ASSUME NEW p \in Procs, ~Awake(p)
        PROVE  place[p] \in {"down", "read"} /\ wait_in_queue(k, p)
    <2>1. place[p] \in {"down", "read"}
      BY <1>1, <1>5 DEF SemType, Places
    <2>2. \E q \in Queues : p \in Range(line[q])
      BY <2>1, <1>1, <1>5, NextFacts, OrderFacts DEF Sleepers
    <2> QED
      BY <2>1, <2>2, <1>1, LinesRead
  <1> QED
    BY <1>1, <1>2, <1>3, <1>4, <1>5 DEF SemExact

\* The wait queues and the semaphores agree (SemExact of sem.c and wait.c), for
\* every set of processes and every order of semaphores.
THEOREM SemCorrect == SemSpec => []SemExact
  <1>1. SemInit => SemInv
    BY SemInitInv
  <1>2. SemInv /\ [SemNext]_semvars => SemInv'
    BY SemStep
  <1>3. SemInv => SemExact
    BY SemInvExact
  <1> QED
    BY <1>1, <1>2, <1>3, PTL DEF SemSpec
=============================================================================
