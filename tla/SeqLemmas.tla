----------------------------- MODULE SeqLemmas -----------------------------
(***************************************************************************)
(* What the list operations of the kernel model do to the elements of a    *)
(* sequence: every list of the model (run queue, timer list, wait queue,   *)
(* child list) is a sequence without repetitions, and the proofs reason    *)
(* about it as the set of its elements.  Then what proofs by induction     *)
(* start from, and the loops of the memory management.                     *)
(***************************************************************************)
EXTENDS Integers, SequencesExt, SequenceTheorems, WellFoundedInduction, TLAPS

\* list_add_tail: one more element, at the end.
LEMMA AppendElements ==
    ASSUME NEW S, NEW s \in Seq(S), NEW x \in S
    PROVE  /\ Append(s, x) \in Seq(S)
           /\ Range(Append(s, x)) = Range(s) \union {x}
           /\ IsInjective(s) /\ x \notin Range(s) => IsInjective(Append(s, x))
<1> DEFINE t == Append(s, x)
<1>1. /\ t \in Seq(S)
      /\ Len(t) = Len(s) + 1
      /\ \A i \in 1..Len(s) : t[i] = s[i]
      /\ t[Len(s) + 1] = x
  BY AppendProperties
<1>2. /\ Len(s) \in Nat /\ DOMAIN s = 1..Len(s) /\ DOMAIN t = 1..(Len(s) + 1)
  BY <1>1, LenProperties
<1> HIDE DEF t
<1>3. Range(t) = Range(s) \union {x}
  <2>1. \A y \in Range(t) : y \in Range(s) \union {x}
    BY <1>1, <1>2 DEF Range
  <2>2. \A y \in Range(s) \union {x} : y \in Range(t)
    BY <1>1, <1>2 DEF Range
  <2> QED BY <2>1, <2>2
<1>4. ASSUME IsInjective(s), x \notin Range(s) PROVE IsInjective(t)
  BY <1>1, <1>2, <1>4 DEF Range, IsInjective
<1> QED BY <1>1, <1>3, <1>4 DEF t

\* set_links: one more element, in front.
LEMMA ConsElements ==
    ASSUME NEW S, NEW s \in Seq(S), NEW x \in S
    PROVE  /\ <<x>> \o s \in Seq(S)
           /\ Range(<<x>> \o s) = Range(s) \union {x}
           /\ IsInjective(s) /\ x \notin Range(s) => IsInjective(<<x>> \o s)
<1> DEFINE t == <<x>> \o s
<1>1. <<x>> \in Seq(S) /\ Len(<<x>>) = 1 /\ <<x>>[1] = x
  OBVIOUS
<1>2. /\ t \in Seq(S)
      /\ Len(t) = 1 + Len(s)
      /\ \A i \in 1..(1 + Len(s)) : t[i] = IF i <= 1 THEN <<x>>[i] ELSE s[i - 1]
  <2>1. \A i \in 1..(Len(<<x>>) + Len(s)) :
           t[i] = IF i <= Len(<<x>>) THEN <<x>>[i] ELSE s[i - Len(<<x>>)]
    BY <1>1, ConcatProperties
  <2>2. t \in Seq(S) /\ Len(t) = Len(<<x>>) + Len(s)
    BY <1>1, ConcatProperties
  <2> QED BY <1>1, <2>1, <2>2
<1>3. /\ Len(s) \in Nat /\ DOMAIN s = 1..Len(s) /\ DOMAIN t = 1..(1 + Len(s))
  BY <1>2, LenProperties
<1> HIDE DEF t
<1>4. t[1] = x /\ \A i \in 1..Len(s) : t[i + 1] = s[i]
  BY <1>1, <1>2, <1>3
<1>5. Range(t) = Range(s) \union {x}
  <2>1. ASSUME NEW y \in Range(t) PROVE y \in Range(s) \union {x}
    <3>1. PICK i \in 1..(1 + Len(s)) : y = t[i]
      BY <1>3 DEF Range
    <3>2. CASE i = 1
      BY <3>1, <3>2, <1>4
    <3>3. CASE i # 1
      <4>1. i - 1 \in 1..Len(s) /\ t[i] = s[i - 1]
        BY <3>3, <1>2, <1>3
      <4> QED BY <4>1, <3>1, <1>3 DEF Range
    <3> QED BY <3>2, <3>3
  <2>2. \A y \in Range(s) \union {x} : y \in Range(t)
    <3>1. x \in Range(t)
      BY <1>3, <1>4 DEF Range
    <3>2. ASSUME NEW i \in 1..Len(s) PROVE s[i] \in Range(t)
      <4>1. i + 1 \in DOMAIN t
        BY <1>3
      <4> QED BY <4>1, <1>4 DEF Range
    <3> QED BY <3>1, <3>2, <1>3 DEF Range
  <2> QED BY <2>1, <2>2
<1>6. ASSUME IsInjective(s), x \notin Range(s) PROVE IsInjective(t)
  <2> SUFFICES ASSUME NEW a \in 1..(1 + Len(s)), NEW b \in 1..(1 + Len(s)), t[a] = t[b]
               PROVE  a = b
    BY <1>3 DEF IsInjective
  <2>1. \A i \in 1..Len(s) : s[i] # x
    BY <1>3, <1>6 DEF Range
  <2>2. \A i \in 1..(1 + Len(s)) : i = 1 \/ (i - 1 \in 1..Len(s) /\ t[i] = s[i - 1])
    BY <1>2, <1>3
  <2>3. CASE a = 1 \/ b = 1
    BY <2>1, <2>2, <2>3, <1>4
  <2>4. CASE a # 1 /\ b # 1
    <3>1. a - 1 = b - 1
      BY <2>2, <2>4, <1>3, <1>6 DEF IsInjective
    <3> QED BY <3>1, <1>3
  <2> QED BY <2>3, <2>4
<1> QED BY <1>2, <1>5, <1>6 DEF t

\* list_del of the first element.
LEMMA TailElements ==
    ASSUME NEW S, NEW s \in Seq(S), s # << >>
    PROVE  /\ Head(s) \in S
           /\ Head(s) \in Range(s)
           /\ Tail(s) \in Seq(S)
           /\ IsInjective(s) => /\ IsInjective(Tail(s))
                                /\ Range(Tail(s)) = Range(s) \ {Head(s)}
<1> DEFINE t == Tail(s)
<1>1. /\ Head(s) \in S
      /\ t \in Seq(S)
      /\ Len(t) = Len(s) - 1
      /\ \A i \in 1..Len(t) : t[i] = s[i + 1]
  BY HeadTailProperties
<1>2. Len(s) \in Nat \ {0} /\ DOMAIN s = 1..Len(s) /\ DOMAIN t = 1..(Len(s) - 1)
  BY <1>1, LenProperties, EmptySeq
<1>3. Head(s) = s[1]
  OBVIOUS
<1> HIDE DEF t
<1>4. Head(s) \in Range(s)
  BY <1>2, <1>3 DEF Range
<1>5. ASSUME IsInjective(s)
      PROVE  IsInjective(t) /\ Range(t) = Range(s) \ {Head(s)}
  <2>1. IsInjective(t)
    <3> SUFFICES ASSUME NEW a \in 1..(Len(s) - 1), NEW b \in 1..(Len(s) - 1), t[a] = t[b]
                 PROVE  a = b
      BY <1>2 DEF IsInjective
    <3>1. a + 1 \in DOMAIN s /\ b + 1 \in DOMAIN s
      BY <1>2
    <3>2. s[a + 1] = s[b + 1]
      BY <1>1, <1>2
    <3>3. a + 1 = b + 1
      BY <3>1, <3>2, <1>5 DEF IsInjective
    <3> QED BY <3>3, <1>2
  <2>2. ASSUME NEW y \in Range(t) PROVE y \in Range(s) \ {Head(s)}
    <3>1. PICK i \in 1..(Len(s) - 1) : y = t[i]
      BY <1>2 DEF Range
    <3>2. i + 1 \in 1..Len(s) /\ i + 1 # 1 /\ y = s[i + 1]
      BY <3>1, <1>1, <1>2
    <3> QED BY <3>2, <1>2, <1>3, <1>5 DEF Range, IsInjective
  <2>3. ASSUME NEW y \in Range(s) \ {Head(s)} PROVE y \in Range(t)
    <3>1. PICK i \in 1..Len(s) : y = s[i]
      BY <1>2 DEF Range
    <3>2. i # 1
      BY <3>1, <1>3
    <3>3. i - 1 \in 1..(Len(s) - 1) /\ t[i - 1] = s[i]
      BY <3>2, <1>1, <1>2
    <3> QED BY <3>1, <3>3, <1>2 DEF Range
  <2> QED BY <2>1, <2>2, <2>3
<1> QED BY <1>1, <1>4, <1>5 DEF t

\* list_del of any element: those behind it move up.
LEMMA RemoveAtIndices ==
    ASSUME NEW S, NEW s \in Seq(S), NEW k \in DOMAIN s
    PROVE  /\ RemoveAt(s, k) \in Seq(S)
           /\ Len(RemoveAt(s, k)) = Len(s) - 1
           /\ \A i \in 1..(Len(s) - 1) : RemoveAt(s, k)[i] = IF i < k THEN s[i] ELSE s[i + 1]
<1> DEFINE u == SubSeq(s, 1, k - 1)
           v == SubSeq(s, k + 1, Len(s))
           t == RemoveAt(s, k)
<1>1. Len(s) \in Nat /\ DOMAIN s = 1..Len(s) /\ \A i \in 1..Len(s) : s[i] \in S
  BY LenProperties, ElementOfSeq
<1>2. u \in Seq(S) /\ Len(u) = k - 1 /\ \A i \in 1..(k - 1) : u[i] = s[i]
  <2>1. \A i \in 1..(k - 1) : s[i] \in S
    BY <1>1
  <2>2. k - 1 \in Int /\ 1 \in Int
    BY <1>1
  <2>3. /\ u \in Seq(S)
        /\ Len(u) = IF 1 <= k - 1 THEN k - 1 - 1 + 1 ELSE 0
        /\ \A i \in 1..(k - 1 - 1 + 1) : u[i] = s[1 + i - 1]
    BY <2>1, <2>2, SubSeqProperties
  <2> HIDE DEF u
  <2> QED BY <2>3, <1>1
<1>3. /\ v \in Seq(S)
      /\ Len(v) = Len(s) - k
      /\ \A i \in 1..(Len(s) - k) : v[i] = s[k + i]
  <2>1. \A i \in (k + 1)..Len(s) : s[i] \in S
    BY <1>1
  <2>2. k + 1 \in Int /\ Len(s) \in Int
    BY <1>1
  <2>3. /\ v \in Seq(S)
        /\ Len(v) = IF k + 1 <= Len(s) THEN Len(s) - (k + 1) + 1 ELSE 0
        /\ \A i \in 1..(Len(s) - (k + 1) + 1) : v[i] = s[k + 1 + i - 1]
    BY <2>1, <2>2, SubSeqProperties
  <2> HIDE DEF v
  <2>4. k \in Nat /\ k <= Len(s) /\ Len(s) - (k + 1) + 1 = Len(s) - k
    BY <1>1
  <2>5. Len(v) = Len(s) - k
    BY <2>3, <2>4, <1>1
  <2>6. ASSUME NEW i \in 1..(Len(s) - k) PROVE v[i] = s[k + i]
    <3>1. k + 1 + i - 1 = k + i /\ i \in 1..(Len(s) - (k + 1) + 1)
      BY <2>4, <1>1
    <3>2. v[i] = s[k + 1 + i - 1]
      BY <3>1, <2>3
    <3> QED BY <3>1, <3>2
  <2> QED BY <2>3, <2>5, <2>6
<1> HIDE DEF u, v
<1>4. /\ t \in Seq(S)
      /\ Len(t) = Len(s) - 1
      /\ \A i \in 1..(Len(s) - 1) : t[i] = IF i < k THEN s[i] ELSE s[i + 1]
  <2>1. t = u \o v
    BY DEF RemoveAt, u, v
  <2> HIDE DEF t
  <2>0. u \in Seq(S) /\ v \in Seq(S)
    BY <1>2, <1>3
  <2>2. /\ t \in Seq(S)
        /\ Len(t) = Len(u) + Len(v)
        /\ \A i \in 1..(Len(u) + Len(v)) : t[i] = IF i <= Len(u) THEN u[i] ELSE v[i - Len(u)]
    <3>1. /\ u \o v \in Seq(S)
          /\ Len(u \o v) = Len(u) + Len(v)
          /\ \A i \in 1..(Len(u) + Len(v)) :
                (u \o v)[i] = IF i <= Len(u) THEN u[i] ELSE v[i - Len(u)]
      BY ONLY <2>0, ConcatProperties
    <3> QED BY ONLY <2>1, <3>1
  <2>3. ASSUME NEW i \in 1..(Len(s) - 1)
        PROVE  t[i] = IF i < k THEN s[i] ELSE s[i + 1]
    <3>1. CASE i < k
      BY <3>1, <2>2, <1>1, <1>2, <1>3
    <3>2. CASE i >= k
      <4>0. /\ i - (k - 1) \in 1..(Len(s) - k)
            /\ i \in 1..((k - 1) + (Len(s) - k)) /\ ~(i <= k - 1)
        BY <3>2, <1>1
      <4>1. i - (k - 1) \in 1..(Len(s) - k) /\ t[i] = v[i - (k - 1)]
        BY <4>0, <2>2, <1>2, <1>3
      <4>2. v[i - (k - 1)] = s[k + (i - (k - 1))]
        BY <4>1, <1>3
      <4>3. k + (i - (k - 1)) = i + 1
        BY <1>1
      <4> QED BY <3>2, <4>1, <4>2, <4>3, <1>1
    <3> QED BY <3>1, <3>2, <1>1
  <2>4. Len(u) + Len(v) = Len(s) - 1
    BY <1>1, <1>2, <1>3
  <2> QED BY <2>2, <2>3, <2>4
<1> QED BY <1>4

\* list_del of any element.
LEMMA RemoveAtElements ==
    ASSUME NEW S, NEW s \in Seq(S), NEW k \in DOMAIN s
    PROVE  /\ RemoveAt(s, k) \in Seq(S)
           /\ Len(RemoveAt(s, k)) = Len(s) - 1
           /\ IsInjective(s) => /\ IsInjective(RemoveAt(s, k))
                                /\ Range(RemoveAt(s, k)) = Range(s) \ {s[k]}
<1> DEFINE t == RemoveAt(s, k)
<1>1. Len(s) \in Nat /\ DOMAIN s = 1..Len(s) /\ \A i \in 1..Len(s) : s[i] \in S
  BY LenProperties, ElementOfSeq
<1>4. /\ t \in Seq(S)
      /\ Len(t) = Len(s) - 1
      /\ \A i \in 1..(Len(s) - 1) : t[i] = IF i < k THEN s[i] ELSE s[i + 1]
  BY RemoveAtIndices
<1> HIDE DEF t
<1>5. DOMAIN t = 1..(Len(s) - 1)
  BY <1>4, LenProperties
<1>6. ASSUME IsInjective(s)
      PROVE  IsInjective(t) /\ Range(t) = Range(s) \ {s[k]}
  <2>1. IsInjective(t)
    <3> SUFFICES ASSUME NEW a \in 1..(Len(s) - 1), NEW b \in 1..(Len(s) - 1), t[a] = t[b]
                 PROVE  a = b
      BY <1>5 DEF IsInjective
    <3> DEFINE at(i) == IF i < k THEN i ELSE i + 1
    <3>1. at(a) \in 1..Len(s) /\ at(b) \in 1..Len(s) /\ t[a] = s[at(a)] /\ t[b] = s[at(b)]
      BY <1>1, <1>4
    <3>2. at(a) = at(b)
      <4> HIDE DEF at
      <4> QED BY <3>1, <1>1, <1>6 DEF IsInjective
    <3> QED BY <3>2, <1>1
  <2>2. ASSUME NEW y \in Range(t) PROVE y \in Range(s) \ {s[k]}
    <3>1. PICK i \in 1..(Len(s) - 1) : y = t[i]
      BY <1>5 DEF Range
    <3>2. PICK j \in 1..Len(s) : j # k /\ y = s[j]
      <4>1. CASE i < k
        BY <4>1, <3>1, <1>1, <1>4
      <4>2. CASE i >= k
        <5>1. i + 1 \in 1..Len(s) /\ i + 1 # k /\ y = s[i + 1]
          BY <4>2, <3>1, <1>1, <1>4
        <5> QED BY <5>1
      <4> QED BY <4>1, <4>2, <1>1
    <3> QED BY <3>2, <1>1, <1>6 DEF Range, IsInjective
  <2>3. ASSUME NEW y \in Range(s) \ {s[k]} PROVE y \in Range(t)
    <3>1. PICK i \in 1..Len(s) : y = s[i]
      BY <1>1 DEF Range
    <3>2. i # k
      BY <3>1
    <3>3. CASE i < k
      <4>1. i \in 1..(Len(s) - 1) /\ t[i] = s[i]
        BY <3>3, <1>1, <1>4
      <4> QED BY <4>1, <3>1, <1>5 DEF Range
    <3>4. CASE i > k
      <4>1. i - 1 \in 1..(Len(s) - 1) /\ ~(i - 1 < k) /\ (i - 1) + 1 = i
        BY <3>4, <1>1
      <4>2. t[i - 1] = s[i]
        BY <4>1, <1>4
      <4> QED BY <4>1, <4>2, <3>1, <1>5 DEF Range
    <3> QED BY <3>2, <3>3, <3>4, <1>1
  <2> QED BY <2>1, <2>2, <2>3
<1> QED BY <1>4, <1>6 DEF t

\* What stands where after list_add_before at position k.
LEMMA InsertAtIndices ==
    ASSUME NEW S, NEW s \in Seq(S), NEW k \in 1..(Len(s) + 1), NEW x \in S
    PROVE  /\ InsertAt(s, k, x) \in Seq(S)
           /\ Len(InsertAt(s, k, x)) = Len(s) + 1
           /\ \A i \in 1..(k - 1) : InsertAt(s, k, x)[i] = s[i]
           /\ InsertAt(s, k, x)[k] = x
           /\ \A i \in (k + 1)..(Len(s) + 1) : InsertAt(s, k, x)[i] = s[i - 1]
<1> DEFINE u == SubSeq(s, 1, k - 1)
           v == SubSeq(s, k, Len(s))
           w == Append(u, x)
           t == w \o v
<1>1. /\ Len(s) \in Nat /\ DOMAIN s = 1..Len(s) /\ \A i \in 1..Len(s) : s[i] \in S
      /\ k \in Nat /\ k >= 1 /\ k <= Len(s) + 1
  BY LenProperties, ElementOfSeq
<1>2. u \in Seq(S) /\ Len(u) = k - 1 /\ \A i \in 1..(k - 1) : u[i] = s[i]
  <2>1. /\ \A i \in 1..(k - 1) : s[i] \in S
        /\ k - 1 \in Int /\ 1 \in Int
    BY <1>1
  <2>2. /\ u \in Seq(S)
        /\ Len(u) = IF 1 <= k - 1 THEN k - 1 - 1 + 1 ELSE 0
        /\ \A i \in 1..(k - 1 - 1 + 1) : u[i] = s[1 + i - 1]
    BY <2>1, SubSeqProperties
  <2> HIDE DEF u
  <2> QED BY <2>2, <1>1
<1>3. /\ v \in Seq(S) /\ Len(v) = Len(s) - k + 1
      /\ \A i \in 1..(Len(s) - k + 1) : v[i] = s[k + i - 1]
  <2>1. /\ \A i \in k..Len(s) : s[i] \in S
        /\ k \in Int /\ Len(s) \in Int
    BY <1>1
  <2>2. /\ v \in Seq(S) /\ Len(v) = IF k <= Len(s) THEN Len(s) - k + 1 ELSE 0
        /\ \A i \in 1..(Len(s) - k + 1) : v[i] = s[k + i - 1]
    BY <2>1, SubSeqProperties
  <2> HIDE DEF v
  <2> QED BY <2>2, <1>1
<1>4. InsertAt(s, k, x) = t
  <2>1. InsertAt(s, k, x) = u \o <<x>> \o v
    BY DEF InsertAt
  <2> HIDE DEF u, v
  <2>2. u \o <<x>> = Append(u, x)
    BY <1>2, AppendIsConcat
  <2> QED BY <2>1, <2>2
<1> HIDE DEF u, v
<1>5. /\ w \in Seq(S) /\ Len(w) = k
      /\ \A i \in 1..(k - 1) : w[i] = s[i]
      /\ w[k] = x
  <2>1. /\ w \in Seq(S) /\ Len(w) = Len(u) + 1
        /\ \A i \in 1..Len(u) : w[i] = u[i]
        /\ w[Len(u) + 1] = x
    BY <1>2, AppendProperties
  <2> HIDE DEF w
  <2> QED BY <2>1, <1>1, <1>2
<1> HIDE DEF w
<1>6. /\ t \in Seq(S) /\ Len(t) = Len(w) + Len(v)
      /\ \A i \in 1..(Len(w) + Len(v)) : t[i] = IF i <= Len(w) THEN w[i] ELSE v[i - Len(w)]
  <2>1. w \in Seq(S) /\ v \in Seq(S)
    BY <1>3, <1>5
  <2> QED BY ONLY <2>1, ConcatProperties
<1> HIDE DEF t
<1>7. Len(w) + Len(v) = Len(s) + 1
  BY <1>1, <1>3, <1>5
<1>8. /\ \A i \in 1..(k - 1) : t[i] = s[i]
      /\ t[k] = x
      /\ \A i \in (k + 1)..(Len(s) + 1) : t[i] = s[i - 1]
  <2>1. ASSUME NEW i \in 1..(k - 1) PROVE t[i] = s[i]
    BY <1>1, <1>5, <1>6, <1>7
  <2>2. t[k] = x
    BY <1>1, <1>5, <1>6, <1>7
  <2>3. ASSUME NEW i \in (k + 1)..(Len(s) + 1) PROVE t[i] = s[i - 1]
    <3>1. i - k \in 1..(Len(s) - k + 1) /\ k + (i - k) - 1 = i - 1
      BY <1>1
    <3>2. t[i] = v[i - k]
      BY <1>1, <1>5, <1>6, <1>7
    <3>3. v[i - k] = s[k + (i - k) - 1]
      BY <3>1, <1>3
    <3> QED BY <3>1, <3>2, <3>3
  <2> QED BY <2>1, <2>2, <2>3
<1> QED BY <1>4, <1>6, <1>7, <1>8

\* list_add_before: one more element, at position k.
LEMMA InsertAtElements ==
    ASSUME NEW S, NEW s \in Seq(S), NEW k \in 1..(Len(s) + 1), NEW x \in S
    PROVE  /\ InsertAt(s, k, x) \in Seq(S)
           /\ Len(InsertAt(s, k, x)) = Len(s) + 1
           /\ Range(InsertAt(s, k, x)) = Range(s) \union {x}
           /\ IsInjective(s) /\ x \notin Range(s) => IsInjective(InsertAt(s, k, x))
<1> DEFINE t == InsertAt(s, k, x)
<1>1. /\ Len(s) \in Nat /\ DOMAIN s = 1..Len(s) /\ \A i \in 1..Len(s) : s[i] \in S
      /\ k \in Nat /\ k >= 1 /\ k <= Len(s) + 1
  BY LenProperties, ElementOfSeq
<1>2. t \in Seq(S) /\ Len(t) = Len(s) + 1
  BY InsertAtIndices
<1>3. /\ \A i \in 1..(k - 1) : t[i] = s[i]
      /\ t[k] = x
      /\ \A i \in (k + 1)..(Len(s) + 1) : t[i] = s[i - 1]
  BY InsertAtIndices
<1> HIDE DEF t
<1>4. DOMAIN t = 1..(Len(s) + 1)
  BY <1>2, LenProperties
\* Where position i of t comes from: k itself, or this position of s.
<1> DEFINE at(i) == IF i < k THEN i ELSE i - 1
<1>5. \A i \in 1..(Len(s) + 1) : i = k \/ (at(i) \in 1..Len(s) /\ t[i] = s[at(i)])
  BY <1>1, <1>3
<1>6. \A i, j \in 1..(Len(s) + 1) : i # k /\ j # k /\ at(i) = at(j) => i = j
  BY <1>1
<1>7. \A j \in 1..Len(s) : \E i \in 1..(Len(s) + 1) : t[i] = s[j]
  <2> SUFFICES ASSUME NEW j \in 1..Len(s)
               PROVE  \E i \in 1..(Len(s) + 1) : t[i] = s[j]
    OBVIOUS
  <2>1. CASE j < k
    BY <2>1, <1>1, <1>3
  <2>2. CASE j >= k
    <3>1. j + 1 \in (k + 1)..(Len(s) + 1) /\ (j + 1) - 1 = j /\ j + 1 \in 1..(Len(s) + 1)
      BY <2>2, <1>1
    <3>2. t[j + 1] = s[j]
      BY <3>1, <1>3
    <3> QED BY <3>1, <3>2
  <2> QED BY <2>1, <2>2, <1>1
<1> HIDE DEF at
<1>8. Range(t) = Range(s) \union {x}
  <2>1. \A y \in Range(t) : y \in Range(s) \union {x}
    BY <1>1, <1>4, <1>3, <1>5 DEF Range
  <2>2. x \in Range(t)
    <3>1. k \in 1..(Len(s) + 1)
      BY <1>1
    <3> QED BY <3>1, <1>4, <1>3 DEF Range
  <2>3. \A y \in Range(s) : y \in Range(t)
    BY <1>1, <1>4, <1>7 DEF Range
  <2> QED BY <2>1, <2>2, <2>3
<1>9. ASSUME IsInjective(s), x \notin Range(s) PROVE IsInjective(t)
  <2> SUFFICES ASSUME NEW a \in 1..(Len(s) + 1), NEW b \in 1..(Len(s) + 1), t[a] = t[b]
               PROVE  a = b
    BY <1>4 DEF IsInjective
  <2>1. \A i \in 1..Len(s) : s[i] # x
    BY <1>1, <1>9 DEF Range
  <2>2. CASE a = k \/ b = k
    BY <2>1, <2>2, <1>3, <1>5
  <2>3. CASE a # k /\ b # k
    <3>1. at(a) = at(b)
      BY <2>3, <1>1, <1>5, <1>9 DEF IsInjective
    <3> QED BY <3>1, <2>3, <1>6
  <2> QED BY <2>2, <2>3
<1> QED BY <1>2, <1>8, <1>9 DEF t

\* An element that is there once is removed where it is.
LEMMA RemoveFirstAt ==
    ASSUME NEW S, NEW s \in Seq(S), IsInjective(s), NEW k \in DOMAIN s
    PROVE  RemoveFirst(s, s[k]) = RemoveAt(s, k)
<1> DEFINE at == {i \in 1..Len(s) : s[i] = s[k]}
<1>1. DOMAIN s = 1..Len(s) /\ Len(s) \in Nat
  BY LenProperties
<1>2. at = {k}
  BY <1>1 DEF IsInjective
<1>3. SelectInSeq(s, LAMBDA v : v = s[k]) = Min(at)
  BY <1>2 DEF SelectInSeq
<1>4. Min(at) = k
  BY <1>1, <1>2 DEF Min
<1> QED BY <1>1, <1>3, <1>4 DEF RemoveFirst

\* list_del of the first element.
LEMMA RemoveAtFirst ==
    ASSUME NEW S, NEW s \in Seq(S), s # << >>
    PROVE  RemoveAt(s, 1) = Tail(s)
<1>1. Len(s) \in Nat /\ DOMAIN s = 1..Len(s) /\ 1 \in DOMAIN s
  BY LenProperties
<1>2. /\ RemoveAt(s, 1) \in Seq(S) /\ Len(RemoveAt(s, 1)) = Len(s) - 1
      /\ \A i \in 1..(Len(s) - 1) : RemoveAt(s, 1)[i] = IF i < 1 THEN s[i] ELSE s[i + 1]
  BY <1>1, RemoveAtIndices
<1>3. /\ Tail(s) \in Seq(S) /\ Len(Tail(s)) = Len(s) - 1
      /\ \A i \in 1..Len(Tail(s)) : Tail(s)[i] = s[i + 1]
  BY HeadTailProperties
<1>4. SUFFICES ASSUME NEW t, t = RemoveAt(s, 1), NEW u, u = Tail(s) PROVE t = u
  OBVIOUS
<1>5. \A i \in 1..Len(t) : t[i] = u[i]
  BY <1>1, <1>2, <1>3, <1>4
<1> QED BY <1>2, <1>3, <1>4, <1>5, SeqEqual

\* What comes first once an element is gone.
LEMMA RemoveAtHead ==
    ASSUME NEW S, NEW s \in Seq(S), NEW k \in DOMAIN s, RemoveAt(s, k) # << >>
    PROVE  /\ k = 1 => 2 \in DOMAIN s /\ Head(RemoveAt(s, k)) = s[2]
           /\ k # 1 => Head(RemoveAt(s, k)) = s[1]
<1>1. /\ RemoveAt(s, k) = SubSeq(s, 1, k - 1) \o SubSeq(s, k + 1, Len(s))
      /\ k \in Nat /\ k >= 1 /\ k <= Len(s) /\ Len(s) \in Nat
  BY DEF RemoveAt
<1>2. CASE k = 1
  BY <1>1, <1>2
<1>3. CASE k # 1
  BY <1>1, <1>3
<1> QED BY <1>2, <1>3

\* The first element once x is at position k.
LEMMA InsertAtHead ==
    ASSUME NEW S, NEW s \in Seq(S), NEW k \in 1..(Len(s) + 1), NEW x \in S
    PROVE  InsertAt(s, k, x) # << >> /\ Head(InsertAt(s, k, x)) = IF k = 1 THEN x ELSE s[1]
<1>1. /\ InsertAt(s, k, x) = SubSeq(s, 1, k - 1) \o <<x>> \o SubSeq(s, k, Len(s))
      /\ k \in Nat /\ k >= 1 /\ k <= Len(s) + 1 /\ Len(s) \in Nat
  BY DEF InsertAt
<1>2. CASE k = 1
  BY <1>1, <1>2
<1>3. CASE k # 1
  <2> DEFINE u == SubSeq(s, 1, k - 1)
             w == u \o <<x>>
             v == SubSeq(s, k, Len(s))
  <2>0. \A i \in 1..Len(s) : s[i] \in S
    BY ElementOfSeq
  <2>1. u \in Seq(S) /\ Len(u) = k - 1 /\ u[1] = s[1]
    <3>1. /\ \A i \in 1..(k - 1) : s[i] \in S
          /\ k - 1 \in Int /\ 1 \in Int
      BY <1>1, <2>0
    <3>2. /\ u \in Seq(S)
          /\ Len(u) = IF 1 <= k - 1 THEN k - 1 - 1 + 1 ELSE 0
          /\ \A i \in 1..(k - 1 - 1 + 1) : u[i] = s[1 + i - 1]
      BY <3>1, SubSeqProperties
    <3> HIDE DEF u
    <3> QED BY <3>2, <1>1, <1>3
  <2>4. v \in Seq(S)
    <3>1. /\ \A i \in k..Len(s) : s[i] \in S
          /\ k \in Int /\ Len(s) \in Int
      BY <1>1, <2>0
    <3> QED BY <3>1, SubSeqProperties
  <2> HIDE DEF u, v
  <2>2. w \in Seq(S) /\ Len(w) = k /\ w[1] = s[1]
    BY <1>1, <1>3, <2>1
  <2> HIDE DEF w
  <2>3. w \o v # << >> /\ Head(w \o v) = s[1]
    BY <1>1, <2>1, <2>2, <2>4
  <2> QED BY <1>1, <1>3, <2>3 DEF u, v, w
<1> QED BY <1>2, <1>3

\* Of the natural numbers that have a property, one is the least.
LEMMA LeastNatural ==
    ASSUME NEW T \in SUBSET Nat, T # {}
    PROVE  \E n \in T : \A m \in T : n <= m
<1> DEFINE R == OpToRel(<, Nat)
<1>1. IsWellFoundedOn(R, Nat)
  BY NatLessThanWellFounded
<1>2. \A m, n \in Nat : m < n => <<m, n>> \in R
  BY DEF OpToRel
<1> HIDE DEF R
<1>3. PICK n \in T : \A m \in T : <<m, n>> \notin R
  BY <1>1, WFMin
<1>4. \A m \in T : ~(m < n)
  BY <1>2, <1>3
<1> QED BY <1>4

-----------------------------------------------------------------------------
(* Induction along a loop.                                                 *)

\* What holds at the start and is kept by each turn holds at the end.
LEMMA Turns ==
    ASSUME NEW n \in Nat, NEW T, 0 \in T, \A i \in 1..n : i - 1 \in T => i \in T
    PROVE  \A i \in 0..n : i \in T
<1> DEFINE Failing == {i \in 0..n : i \notin T}
<1>1. Failing = {}
  <2> SUFFICES ASSUME Failing # {} PROVE FALSE
    OBVIOUS
  <2>1. Failing \in SUBSET Nat
    OBVIOUS
  <2>2. PICK k \in Failing : \A m \in Failing : k <= m
    <3> HIDE DEF Failing
    <3> QED BY <2>1, LeastNatural
  <2>3. k \in 1..n /\ k - 1 \in 0..n /\ k - 1 \notin Failing
    <3>1. k \in 0..n /\ k \notin T /\ k # 0
      BY <2>2
    <3>2. k - 1 \notin Failing
      <4> HIDE DEF Failing
      <4> QED BY <3>1, <2>2
    <3> QED BY <3>1, <3>2
  <2> QED BY <2>2, <2>3
<1> QED BY <1>1

\* Each turn of the loop leads from a state of R to one.
Turning(n, R, next) ==
    \A i \in 1..n : \A t : <<t, i - 1>> \in R => <<next[<<t, i - 1>>], i>> \in R
\* g is the sequence of the loop's states.
Looped(g, n, s, next) == g = [i \in 0..n |-> IF i = 0 THEN s ELSE next[<<g[i - 1], i - 1>>]]
StaysIn(g, n, R) == \A i \in 0..n : <<g[i], i>> \in R

\* The states of a loop whose turns are given by a function on the states with
\* their numbers exist.
LEMMA LoopExists ==
    ASSUME NEW n \in Nat, NEW R, NEW s, <<s, 0>> \in R, NEW next, Turning(n, R, next)
    PROVE  \E g : Looped(g, n, s, next) /\ StaysIn(g, n, R)
<1> DEFINE Good(g, m) == /\ g = [i \in 0..m |-> IF i = 0 THEN s ELSE next[<<g[i - 1], i - 1>>]]
                         /\ \A i \in 0..m : <<g[i], i>> \in R
           T == {m \in 0..n : \E g : Good(g, m)}
<1>1. 0 \in T
  <2> DEFINE f == [i \in 0..0 |-> s]
  <2>1. f = [i \in 0..0 |-> IF i = 0 THEN s ELSE next[<<f[i - 1], i - 1>>]]
    OBVIOUS
  <2>2. \A i \in 0..0 : <<f[i], i>> \in R
    OBVIOUS
  <2> HIDE DEF f
  <2>3. Good(f, 0)
    BY <2>1, <2>2
  <2> HIDE DEF Good
  <2> QED BY <2>3
<1>2. ASSUME NEW m \in 1..n, m - 1 \in T PROVE m \in T
  <2>0. \A i \in 1..n : \A t : <<t, i - 1>> \in R => <<next[<<t, i - 1>>], i>> \in R
    BY DEF Turning
  <2>1. PICK g : Good(g, m - 1)
    BY <1>2
  <2> DEFINE Turn(h, i) == IF i = 0 THEN s ELSE next[<<h[i - 1], i - 1>>]
             f == [i \in 0..m |-> Turn(g, i)]
  <2>2. \A i \in 0..(m - 1) : f[i] = g[i]
    <3>1. g = [i \in 0..(m - 1) |-> Turn(g, i)]
      BY <2>1
    <3> HIDE DEF Turn
    <3> QED BY <3>1
  <2>3. f = [i \in 0..m |-> Turn(g, i)]
    OBVIOUS
  <2> HIDE DEF f
  <2>4. \A i \in 0..m : Turn(g, i) = Turn(f, i)
    <3> SUFFICES ASSUME NEW i \in 0..m PROVE Turn(g, i) = Turn(f, i)
      OBVIOUS
    <3>1. CASE i = 0
      BY <3>1
    <3>2. CASE i # 0
      <4>1. i - 1 \in 0..(m - 1)
        BY <3>2
      <4> QED BY <4>1, <2>2
    <3> QED BY <3>1, <3>2
  <2>5. f = [i \in 0..m |-> Turn(f, i)]
    <3> HIDE DEF Turn
    <3> QED BY <2>3, <2>4
  <2>6. \A i \in 0..m : <<f[i], i>> \in R
    <3> SUFFICES ASSUME NEW i \in 0..m PROVE <<f[i], i>> \in R
      OBVIOUS
    <3>1. CASE i # m
      <4>1. i \in 0..(m - 1)
        BY <3>1
      <4> QED BY <4>1, <2>1, <2>2
    <3>2. CASE i = m
      <4>1. m - 1 \in 0..(m - 1) /\ m # 0
        OBVIOUS
      <4>2. <<g[m - 1], m - 1>> \in R
        BY <4>1, <2>1
      <4>3. f[m] = next[<<g[m - 1], m - 1>>]
        BY <4>1, <2>3
      <4> QED BY <3>2, <4>2, <4>3, <2>0
    <3> QED BY <3>1, <3>2
  <2>7. Good(f, m)
    BY <2>5, <2>6
  <2> HIDE DEF Good
  <2> QED BY <2>7
<1>3. n \in T
  <2>1. \A i \in 0..n : i \in T
    <3> HIDE DEF T
    <3>1. \A i \in 1..n : i - 1 \in T => i \in T
      BY <1>2
    <3> QED BY <1>1, <3>1, Turns
  <2>2. n \in 0..n
    OBVIOUS
  <2> HIDE DEF T
  <2> QED BY <2>1, <2>2
<1> QED BY <1>3 DEF Looped, StaysIn

\* What each turn keeps holds at the end.
LEMMA LastTurn ==
    ASSUME NEW n \in Nat, NEW R, NEW g, <<g[0], 0>> \in R,
           \A i \in 1..n : <<g[i - 1], i - 1>> \in R => <<g[i], i>> \in R
    PROVE  <<g[n], n>> \in R
<1> DEFINE T == {i \in 0..n : <<g[i], i>> \in R}
<1>1. 0 \in T /\ \A i \in 1..n : i - 1 \in T => i \in T
  OBVIOUS
<1> HIDE DEF T
<1>2. \A i \in 0..n : i \in T
  BY <1>1, Turns
<1>3. n \in T
  BY <1>2
<1> QED BY <1>3 DEF T
=============================================================================
