---------------------------- MODULE LinksProofs ----------------------------
(***************************************************************************)
(* Proofs about module Links, for any set of processes: what set_links,    *)
(* remove_links and do_exit's loop each rely on, said of single pointers;  *)
(* then that the pointers of a process make up a list, which the walk of   *)
(* do_wait visits, and that the lists change as module Tree says.          *)
(***************************************************************************)
EXTENDS Links, SeqLemmas, FiniteSetTheorems, TLAPS

InUse == { p \in Proc : state[p] # "PROC_FREE" }

LinksType ==
    /\ parent \in [Proc -> Pointer]
    /\ cptr \in [Proc -> Pointer]
    /\ yptr \in [Proc -> Pointer]
    /\ optr \in [Proc -> Pointer]
    /\ state \in [Proc -> {"PROC_FREE", "alive", "PROC_ZOMBIE"}]
    /\ dying \in Pointer
    /\ nr_process \in Nat

\* Who is alive, and who has a parent.
Lives ==
    /\ state[initproc] = "alive"
    /\ dying # NULL => state[dying] = "PROC_ZOMBIE"
    /\ parent[initproc] = NULL /\ optr[initproc] = NULL
    /\ \A p \in Proc : parent[p] # NULL <=> p \in InUse \ {initproc}

\* Every child has a parent that can reap it or is handing it over, and a zombie
\* has no children once it has left the loop.
Parented ==
    /\ \A p \in Proc : parent[p] # NULL => state[parent[p]] = "alive" \/ parent[p] = dying
    /\ \A p \in Proc : state[p] = "PROC_ZOMBIE" /\ p # dying => cptr[p] = NULL

\* cptr points at the child without a younger sibling, and that child is the one
\* cptr points at.  The first child left on a dying process's list still points
\* at the sibling that has gone to initproc.
FirstChild ==
    /\ \A q \in InUse : cptr[q] # NULL =>
          parent[cptr[q]] = q /\ (yptr[cptr[q]] = NULL \/ q = dying)
    /\ \A p \in InUse \ {initproc} : yptr[p] = NULL => cptr[parent[p]] = p

\* optr and yptr undo each other between siblings, with the same exception.
Siblings ==
    /\ \A p \in InUse : optr[p] # NULL =>
          yptr[optr[p]] = p /\ parent[optr[p]] = parent[p]
    /\ \A p \in InUse \ {initproc} : yptr[p] # NULL =>
          \/ optr[yptr[p]] = p /\ parent[yptr[p]] = parent[p]
          \/ parent[p] = dying /\ cptr[dying] = p

\* No circle of younger siblings: every set of processes has a member whose younger
\* sibling is outside.
Uncircled == \A S \in SUBSET InUse : S # {} => \E p \in S : yptr[p] \notin S

\* The neighbours agree, and nobody is without a parent.
PointersAgree == Lives /\ Parented /\ FirstChild /\ Siblings /\ Uncircled

\* nr_process counts the processes in use and idleproc.
Counted == IsFiniteSet(InUse) /\ nr_process = 1 + Cardinality(InUse)

LInv == LinksType /\ PointersAgree /\ Counted
-----------------------------------------------------------------------------
(* The steps, pointer by pointer.                                          *)

\* Writing through a pointer changes what it points at, and nothing if it is NULL.
LEMMA SetAt ==
    ASSUME NEW f \in [Proc -> Pointer], NEW p \in Pointer, NEW v \in Pointer
    PROVE  /\ Set(f, p, v) \in [Proc -> Pointer]
           /\ \A q \in Proc : Set(f, p, v)[q] = IF q = p THEN v ELSE f[q]
<1>1. CASE p = NULL
  BY <1>1, LinksAssumption DEF Set
<1>2. CASE p \in Proc
  <2>1. Set(f, p, v) = [f EXCEPT ![p] = v]
    BY <1>2, LinksAssumption DEF Set
  <2> QED BY <1>2, <2>1
<1> QED BY <1>1, <1>2 DEF Pointer

\* nr_process++ for a process that enters the table keeps the count.
LEMMA CountUp ==
    ASSUME Counted, NEW p, p \notin InUse, InUse' = InUse \union {p}, nr_process \in Nat,
           nr_process' = nr_process + 1
    PROVE  Counted' /\ nr_process' \in Nat
<1>1. IsFiniteSet(InUse') /\ Cardinality(InUse') = Cardinality(InUse) + 1
  BY FS_AddElement DEF Counted
<1>2. Cardinality(InUse) \in Nat
  BY FS_CardinalityType DEF Counted
<1> QED BY <1>1, <1>2 DEF Counted

\* nr_process-- for one that leaves it.
LEMMA CountDown ==
    ASSUME Counted, NEW p \in InUse, InUse' = InUse \ {p}, nr_process \in Nat,
           nr_process' = nr_process - 1
    PROVE  Counted' /\ nr_process' \in Nat
<1>1. IsFiniteSet(InUse') /\ Cardinality(InUse') = Cardinality(InUse) - 1
  BY FS_RemoveElement DEF Counted
<1>2. Cardinality(InUse) \in Nat /\ Cardinality(InUse') \in Nat
  BY <1>1, FS_CardinalityType DEF Counted
<1> QED BY <1>1, <1>2 DEF Counted

\* do_fork: the child is the youngest of its parent, and nobody's parent.
LEMMA ForkKeeps == ASSUME LInv, NEW p \in Proc, NEW q \in Proc, Fork(p, q) PROVE LInv'
<1> USE LinksAssumption DEF Pointer
<1> DEFINE old == cptr[q]
<1>1. /\ dying = NULL /\ dying' = NULL /\ state[q] = "alive" /\ state[p] = "PROC_FREE"
      /\ p # q /\ p # initproc /\ old \in Pointer /\ nr_process' = nr_process + 1
      /\ state' = [state EXCEPT ![p] = "alive"]
      /\ parent' = [parent EXCEPT ![p] = q]
      /\ optr' = [optr EXCEPT ![p] = old]
      /\ yptr' = Set([yptr EXCEPT ![p] = NULL], old, p)
      /\ cptr' = [cptr EXCEPT ![p] = NULL, ![q] = p]
  BY DEF Fork, set_links, LInv, LinksType, PointersAgree, Lives
<1>2. /\ parent \in [Proc -> Pointer] /\ cptr \in [Proc -> Pointer] /\ yptr \in [Proc -> Pointer]
      /\ optr \in [Proc -> Pointer] /\ nr_process \in Nat
      /\ state \in [Proc -> {"PROC_FREE", "alive", "PROC_ZOMBIE"}]
      /\ Lives /\ Parented /\ FirstChild /\ Siblings /\ Uncircled
  BY DEF LInv, LinksType, PointersAgree
<1>3. old # p /\ old = cptr[q]
  BY <1>1, <1>2 DEF Lives, FirstChild, Siblings, InUse
<1> HIDE DEF old
<1>4. /\ yptr' \in [Proc -> Pointer]
      /\ \A r \in Proc : yptr'[r] = IF r = old THEN p ELSE IF r = p THEN NULL ELSE yptr[r]
  <2> DEFINE f == [yptr EXCEPT ![p] = NULL]
  <2>1. f \in [Proc -> Pointer] /\ \A r \in Proc : f[r] = IF r = p THEN NULL ELSE yptr[r]
    BY <1>2
  <2>2. yptr' = Set(f, old, p) /\ p \in Pointer /\ old \in Pointer
    BY <1>1
  <2> HIDE DEF f
  <2>3. /\ Set(f, old, p) \in [Proc -> Pointer]
        /\ \A r \in Proc : Set(f, old, p)[r] = IF r = old THEN p ELSE f[r]
    BY ONLY <2>1, <2>2, SetAt
  <2> QED BY <2>1, <2>2, <2>3
<1>5. \A r \in Proc :
        /\ state'[r] = IF r = p THEN "alive" ELSE state[r]
        /\ parent'[r] = IF r = p THEN q ELSE parent[r]
        /\ optr'[r] = IF r = p THEN old ELSE optr[r]
        /\ cptr'[r] = IF r = q THEN p ELSE IF r = p THEN NULL ELSE cptr[r]
  BY <1>1, <1>2
<1>6. InUse' = InUse \union {p} /\ p \notin InUse
  BY <1>1, <1>5 DEF InUse
<1>7. Counted' /\ nr_process' \in Nat
  BY <1>1, <1>2, <1>6, CountUp DEF LInv
<1>8. LinksType'
  BY <1>1, <1>2, <1>4, <1>7 DEF LinksType
<1>9. Lives'
  BY <1>1, <1>2, <1>5, <1>6 DEF Lives
<1>10. Parented'
  BY <1>1, <1>2, <1>5, <1>6 DEF Parented, Lives, InUse
<1>12. /\ q \in InUse /\ q \in Proc /\ cptr[q] = old
       /\ old # NULL => old \in Proc /\ parent[old] = q /\ yptr[old] = NULL
  BY <1>1, <1>2, <1>3 DEF FirstChild, InUse
<1>11. FirstChild'
  <2>1. ASSUME NEW r \in InUse', cptr'[r] # NULL
        PROVE  parent'[cptr'[r]] = r /\ yptr'[cptr'[r]] = NULL
    <3>1. CASE r = q
      <4>1. cptr'[r] = p /\ parent'[p] = q
        BY <1>5, <3>1
      <4>2. yptr'[p] = NULL
        BY <1>3, <1>4
      <4> QED BY <3>1, <4>1, <4>2
    <3>2. CASE r # q
      <4>1. r \in InUse /\ r # p /\ cptr'[r] = cptr[r] /\ cptr[r] \in Proc
        BY <1>2, <1>5, <1>6, <2>1, <3>2 DEF InUse
      <4>2. parent[cptr[r]] = r /\ yptr[cptr[r]] = NULL /\ r \in Proc
        BY <1>1, <1>2, <2>1, <4>1 DEF FirstChild, InUse
      <4>3. cptr[r] # p
        BY <1>2, <1>6, <4>1, <4>2 DEF Lives
      <4>4. cptr[r] # old
        BY <3>2, <4>1, <4>2, <1>12
      <4> QED BY <1>4, <1>5, <4>1, <4>2, <4>3, <4>4
    <3> QED BY <3>1, <3>2
  <2>2. ASSUME NEW r \in InUse' \ {initproc}, yptr'[r] = NULL PROVE cptr'[parent'[r]] = r
    <3>1. CASE r = p
      BY <1>1, <1>5, <3>1
    <3>2. CASE r # p
      <4>1. r \in InUse /\ r # old /\ yptr[r] = NULL /\ r \in Proc
        BY <1>4, <1>6, <2>2, <3>2 DEF InUse
      <4>2. cptr[parent[r]] = r /\ parent'[r] = parent[r] /\ parent[r] \in Proc
        BY <1>2, <1>5, <2>2, <3>2, <4>1 DEF FirstChild, Lives
      <4>3. parent[r] # p
        BY <1>1, <1>2, <4>1, <4>2 DEF Parented
      <4>4. parent[r] # q
        BY <4>1, <4>2, <1>12
      <4> QED BY <1>5, <4>2, <4>3, <4>4
    <3> QED BY <3>1, <3>2
  <2> QED BY <2>1, <2>2 DEF FirstChild
<1>13. Siblings'
  <2>1. ASSUME NEW r \in InUse', optr'[r] # NULL
        PROVE  yptr'[optr'[r]] = r /\ parent'[optr'[r]] = parent'[r]
    <3>1. CASE r = p
      <4>1. optr'[r] = old /\ old \in Proc /\ parent[old] = q
        BY <1>1, <1>2, <1>5, <1>12, <2>1, <3>1 DEF FirstChild, InUse
      <4> QED BY <1>1, <1>3, <1>4, <1>5, <3>1, <4>1
    <3>2. CASE r # p
      <4>1. r \in InUse /\ optr'[r] = optr[r] /\ optr[r] \in Proc /\ r \in Proc
        BY <1>2, <1>5, <1>6, <2>1, <3>2 DEF InUse
      <4>2. yptr[optr[r]] = r /\ parent[optr[r]] = parent[r]
        BY <1>2, <2>1, <4>1 DEF Siblings
      <4>3. parent[r] # NULL /\ optr[r] # p
        BY <1>1, <1>2, <1>6, <4>1, <4>2, <2>1 DEF Lives
      <4>4. optr[r] # old
        BY <1>1, <1>2, <1>12, <4>1, <4>2 DEF FirstChild, InUse
      <4> QED BY <1>4, <1>5, <3>2, <4>1, <4>2, <4>3, <4>4
    <3> QED BY <3>1, <3>2
  <2>2. ASSUME NEW r \in InUse' \ {initproc}, yptr'[r] # NULL
        PROVE  optr'[yptr'[r]] = r /\ parent'[yptr'[r]] = parent'[r]
    <3>1. CASE r = old
      <4>1. yptr'[r] = p /\ parent[old] = q /\ old \in Proc
        BY <1>1, <1>2, <1>4, <1>12, <2>2, <3>1 DEF FirstChild, InUse
      <4> QED BY <1>3, <1>5, <3>1, <4>1
    <3>2. CASE r # old
      <4>1. r \in InUse /\ r # p /\ yptr'[r] = yptr[r] /\ yptr[r] \in Proc /\ r \in Proc
        BY <1>2, <1>4, <1>6, <2>2, <3>2 DEF InUse
      <4>2. /\ optr[yptr[r]] = r /\ parent[yptr[r]] = parent[r]
        BY <1>1, <1>2, <2>2, <4>1 DEF Siblings, Lives
      <4>3. parent[r] # NULL /\ yptr[r] # p
        BY <1>1, <1>2, <1>6, <2>2, <4>1, <4>2 DEF Lives
      <4> QED BY <1>4, <1>5, <4>1, <4>2, <4>3
    <3> QED BY <3>1, <3>2
  <2> QED BY <2>1, <2>2 DEF Siblings
<1>14. Uncircled'
  <2> SUFFICES ASSUME NEW S \in SUBSET InUse', S # {} PROVE \E r \in S : yptr'[r] \notin S
    BY DEF Uncircled
  <2>1. S \subseteq Proc /\ NULL \notin S
    BY DEF InUse
  <2>2. CASE p \in S
    BY <1>1, <1>3, <1>4, <2>1, <2>2
  <2>3. CASE p \notin S
    <3>1. PICK r \in S : yptr[r] \notin S
      BY <1>2, <1>6, <2>3 DEF Uncircled
    <3> QED BY <1>4, <2>1, <2>3, <3>1
  <2> QED BY <2>2, <2>3
<1> QED BY <1>7, <1>8, <1>9, <1>10, <1>11, <1>13, <1>14 DEF LInv, PointersAgree
\* do_exit, up to its loop: only the state of the process changes.
LEMMA ExitKeeps == ASSUME LInv, NEW q \in Proc, Exit(q) PROVE LInv'
<1> USE LinksAssumption DEF Pointer
<1>1. /\ dying = NULL /\ dying' = q /\ state[q] = "alive" /\ q # initproc /\ q # NULL
      /\ state' = [state EXCEPT ![q] = "PROC_ZOMBIE"]
      /\ parent' = parent /\ optr' = optr /\ yptr' = yptr /\ cptr' = cptr
      /\ nr_process' = nr_process
  BY DEF Exit, links
<1>2. LinksType /\ Lives /\ Parented /\ FirstChild /\ Siblings /\ Uncircled /\ Counted
  BY DEF LInv, PointersAgree
<1>3. \A r \in Proc : state'[r] = IF r = q THEN "PROC_ZOMBIE" ELSE state[r]
  BY <1>1, <1>2 DEF LinksType
<1>4. InUse' = InUse
  BY <1>1, <1>3 DEF InUse
<1>5. LinksType'
  BY <1>1, <1>2 DEF LinksType
<1>6. Lives'
  BY <1>1, <1>2, <1>3, <1>4 DEF Lives
<1>7. Parented'
  BY <1>1, <1>2, <1>3 DEF Parented, LinksType
<1>8. FirstChild'
  BY <1>1, <1>2, <1>4 DEF FirstChild, InUse
<1>9. Siblings'
  <2>1. \A p \in InUse \ {initproc} : parent[p] # NULL
    BY <1>2 DEF Lives, InUse
  <2> QED BY <1>1, <1>2, <1>4, <2>1 DEF Siblings
<1>10. Uncircled'
  BY <1>1, <1>2, <1>4 DEF Uncircled
<1>11. Counted'
  BY <1>1, <1>2, <1>4 DEF Counted
<1> QED BY <1>5, <1>6, <1>7, <1>8, <1>9, <1>10, <1>11 DEF LInv, PointersAgree

\* The end of do_exit's loop: with its list empty, the process has no children, since
\* the youngest of them would have no younger sibling and be on cptr.
LEMMA ExitDoneKeeps == ASSUME LInv, ExitDone PROVE LInv'
<1> USE LinksAssumption DEF Pointer
<1>1. /\ dying \in Proc /\ cptr[dying] = NULL /\ dying' = NULL
      /\ state' = state /\ parent' = parent /\ optr' = optr /\ yptr' = yptr /\ cptr' = cptr
      /\ nr_process' = nr_process
  BY DEF ExitDone, links, LInv, LinksType
<1>2. LinksType /\ Lives /\ Parented /\ FirstChild /\ Siblings /\ Uncircled /\ Counted
  BY DEF LInv, PointersAgree
<1>3. InUse' = InUse
  BY <1>1 DEF InUse
<1>4. \A p \in Proc : parent[p] # dying
  <2> DEFINE S == {p \in InUse : parent[p] = dying}
  <2>1. SUFFICES S = {}
    BY <1>1, <1>2 DEF Lives
  <2>2. SUFFICES ASSUME S # {} PROVE FALSE
    OBVIOUS
  <2>3. PICK p \in S : yptr[p] \notin S
    BY <1>2, <2>2 DEF Uncircled
  <2>4. p \in InUse \ {initproc} /\ p \in Proc /\ parent[p] = dying
    BY <1>1, <1>2 DEF Lives, InUse
  <2>5. yptr[p] # NULL
    BY <1>1, <1>2, <2>4 DEF FirstChild
  <2>6. yptr[p] \in Proc /\ parent[yptr[p]] = dying
    BY <1>1, <1>2, <2>4, <2>5 DEF Siblings, LinksType
  <2>7. yptr[p] \in InUse
    BY <1>1, <1>2, <2>6 DEF Lives
  <2> QED BY <2>3, <2>6, <2>7
<1>5. LinksType' /\ Lives' /\ Uncircled' /\ Counted'
  BY <1>1, <1>2, <1>3 DEF LinksType, Lives, Uncircled, Counted
<1>6. Parented'
  BY <1>1, <1>2, <1>4 DEF Parented
<1>7. FirstChild'
  BY <1>1, <1>2, <1>3 DEF FirstChild
<1>8. Siblings'
  BY <1>1, <1>2, <1>3, <1>4 DEF Siblings, InUse
<1> QED BY <1>5, <1>6, <1>7, <1>8 DEF LInv, PointersAgree

\* One turn of do_exit's loop: the youngest child of the dying process becomes
\* initproc's youngest.  Its next sibling keeps pointing at it.
LEMMA ReparentKeeps == ASSUME LInv, Reparent PROVE LInv'
<1> USE LinksAssumption DEF Pointer
<1> DEFINE p == cptr[dying]
           old == cptr[initproc]
           o == optr[p]
<1>1. /\ dying \in Proc /\ p \in Proc /\ old \in Pointer /\ dying' = dying
      /\ state' = state /\ nr_process' = nr_process
      /\ parent' = [parent EXCEPT ![p] = initproc]
      /\ optr' = [optr EXCEPT ![p] = old]
      /\ yptr' = Set([yptr EXCEPT ![p] = NULL], old, p)
      /\ cptr' = [cptr EXCEPT ![dying] = o, ![initproc] = p]
  BY DEF Reparent, LInv, LinksType
<1>2. /\ parent \in [Proc -> Pointer] /\ cptr \in [Proc -> Pointer] /\ yptr \in [Proc -> Pointer]
      /\ optr \in [Proc -> Pointer] /\ nr_process \in Nat
      /\ state \in [Proc -> {"PROC_FREE", "alive", "PROC_ZOMBIE"}]
      /\ Lives /\ Parented /\ FirstChild /\ Siblings /\ Uncircled /\ Counted
  BY DEF LInv, LinksType, PointersAgree
<1>3. /\ dying \in InUse /\ initproc \in InUse /\ dying # initproc
      /\ cptr[dying] = p /\ cptr[initproc] = old /\ optr[p] = o /\ o \in Pointer
  BY <1>1, <1>2 DEF Lives, InUse
<1> HIDE DEF p, old, o
<1>4. /\ parent[p] = dying /\ p \in InUse /\ p # initproc
      /\ old # NULL => old \in InUse /\ parent[old] = initproc /\ yptr[old] = NULL
      /\ old # p
  <2>1. parent[p] = dying
    BY <1>1, <1>2, <1>3 DEF FirstChild
  <2>2. p \in InUse /\ p # initproc
    BY <1>1, <1>2, <2>1 DEF Lives
  <2>3. old # NULL => old \in InUse /\ parent[old] = initproc /\ yptr[old] = NULL
    BY <1>1, <1>2, <1>3 DEF FirstChild, Lives
  <2> QED BY <1>1, <1>3, <2>1, <2>2, <2>3
<1>5. /\ yptr' \in [Proc -> Pointer]
      /\ \A r \in Proc : yptr'[r] = IF r = old THEN p ELSE IF r = p THEN NULL ELSE yptr[r]
  <2> DEFINE f == [yptr EXCEPT ![p] = NULL]
  <2>1. f \in [Proc -> Pointer] /\ \A r \in Proc : f[r] = IF r = p THEN NULL ELSE yptr[r]
    BY <1>1, <1>2
  <2>2. yptr' = Set(f, old, p) /\ p \in Pointer /\ old \in Pointer
    BY <1>1
  <2> HIDE DEF f
  <2>3. /\ Set(f, old, p) \in [Proc -> Pointer]
        /\ \A r \in Proc : Set(f, old, p)[r] = IF r = old THEN p ELSE f[r]
    BY ONLY <2>1, <2>2, SetAt
  <2> QED BY <2>1, <2>2, <2>3
<1>6. \A r \in Proc :
        /\ parent'[r] = IF r = p THEN initproc ELSE parent[r]
        /\ optr'[r] = IF r = p THEN old ELSE optr[r]
        /\ cptr'[r] = IF r = initproc THEN p ELSE IF r = dying THEN o ELSE cptr[r]
  BY <1>1, <1>2
<1>7. InUse' = InUse /\ InUse \subseteq Proc
  BY <1>1 DEF InUse
<1>8. LinksType'
  BY <1>1, <1>2, <1>3, <1>5 DEF LinksType
<1>9. Lives'
  BY <1>1, <1>2, <1>4, <1>6, <1>7 DEF Lives
<1>10. Parented'
  BY <1>1, <1>2, <1>6 DEF Parented, Lives
\* The first child's stale pointer does not lead back to a child of the dying process.
<1>11. \A r \in InUse : parent[r] = dying => yptr[p] # r
  <2> DEFINE S == {r \in InUse : parent[r] = dying}
  <2>1. PICK r \in S : yptr[r] \notin S
    <3>1. p \in S
      BY <1>4
    <3> QED BY <1>2, <3>1 DEF Uncircled
  <2>2. r = p
    <3> SUFFICES ASSUME r # p PROVE FALSE
      OBVIOUS
    <3>1. r \in InUse \ {initproc} /\ r \in Proc /\ parent[r] = dying
      BY <1>1, <1>2, <1>7, <2>1 DEF Lives
    <3>2. yptr[r] # NULL
      BY <1>2, <1>3, <3>1 DEF FirstChild
    <3>3. yptr[r] \in Proc /\ parent[yptr[r]] = dying
      BY <1>2, <1>3, <3>1, <3>2 DEF Siblings
    <3>4. yptr[r] \in InUse
      BY <1>1, <1>2, <3>3 DEF Lives
    <3> QED BY <2>1, <3>3, <3>4
  <2> QED BY <2>1, <2>2
<1>12. /\ o # NULL => o \in InUse /\ o # p /\ yptr[o] = p /\ parent[o] = dying
  <2> SUFFICES ASSUME o # NULL PROVE o \in InUse /\ o # p /\ yptr[o] = p /\ parent[o] = dying
    OBVIOUS
  <2>1. yptr[o] = p /\ parent[o] = dying /\ o \in Proc
    BY <1>2, <1>3, <1>4 DEF Siblings
  <2>2. o \in InUse
    BY <1>1, <1>2, <2>1 DEF Lives
  <2> QED BY <1>11, <2>1, <2>2
<1>13. FirstChild'
  <2>1. ASSUME NEW r \in InUse, cptr'[r] # NULL
        PROVE  parent'[cptr'[r]] = r /\ (yptr'[cptr'[r]] = NULL \/ r = dying)
    <3>1. CASE r = initproc
      <4>1. cptr'[r] = p /\ parent'[p] = initproc
        BY <1>1, <1>6, <1>7, <3>1
      <4>2. yptr'[p] = NULL
        BY <1>1, <1>4, <1>5
      <4> QED BY <3>1, <4>1, <4>2
    <3>2. CASE r = dying
      <4>1. cptr'[r] = o /\ o # NULL
        BY <1>1, <1>3, <1>6, <2>1, <3>2
      <4> QED BY <1>6, <1>7, <1>12, <3>2, <4>1
    <3>3. CASE r # initproc /\ r # dying
      <4>1. cptr'[r] = cptr[r] /\ cptr[r] # NULL /\ cptr[r] \in Proc
        BY <1>2, <1>6, <1>7, <2>1, <3>3
      <4>2. parent[cptr[r]] = r /\ yptr[cptr[r]] = NULL
        BY <1>2, <3>3, <4>1 DEF FirstChild
      <4>3. cptr[r] # p /\ cptr[r] # old
        BY <1>4, <3>3, <4>1, <4>2
      <4> QED BY <1>5, <1>6, <4>1, <4>2, <4>3
    <3> QED BY <3>1, <3>2, <3>3
  <2>2. ASSUME NEW r \in InUse \ {initproc}, yptr'[r] = NULL PROVE cptr'[parent'[r]] = r
    <3>1. CASE r = p
      BY <1>1, <1>6, <3>1
    <3>2. CASE r # p
      <4>1. r # old /\ yptr[r] = NULL /\ r \in Proc
        BY <1>1, <1>5, <1>7, <2>2, <3>2
      <4>2. cptr[parent[r]] = r /\ parent'[r] = parent[r] /\ parent[r] \in Proc
        BY <1>2, <1>6, <2>2, <3>2, <4>1 DEF FirstChild, Lives
      <4> QED BY <1>3, <1>6, <3>2, <4>1, <4>2
    <3> QED BY <3>1, <3>2
  <2> QED BY <1>1, <1>7, <2>1, <2>2 DEF FirstChild
<1>14. Siblings'
  <2>1. ASSUME NEW r \in InUse, optr'[r] # NULL
        PROVE  yptr'[optr'[r]] = r /\ parent'[optr'[r]] = parent'[r]
    <3>1. CASE r = p
      <4>1. optr'[r] = old /\ old \in Proc /\ parent[old] = initproc
        BY <1>1, <1>4, <1>6, <1>7, <2>1, <3>1
      <4>2. yptr'[old] = p
        BY <1>5, <4>1
      <4>3. parent'[p] = initproc /\ parent'[old] = initproc
        BY <1>1, <1>4, <1>6, <4>1
      <4> QED BY <3>1, <4>1, <4>2, <4>3
    <3>2. CASE r # p
      <4>1. optr'[r] = optr[r] /\ optr[r] \in Proc /\ optr[r] # NULL /\ r \in Proc
        BY <1>2, <1>6, <1>7, <2>1, <3>2
      <4>2. yptr[optr[r]] = r /\ parent[optr[r]] = parent[r]
        BY <1>2, <4>1 DEF Siblings
      <4>3. optr[r] # p
        BY <1>4, <1>11, <4>2
      <4>4. optr[r] # old
        BY <1>4, <4>1, <4>2
      <4> QED BY <1>5, <1>6, <3>2, <4>1, <4>2, <4>3, <4>4
    <3> QED BY <3>1, <3>2
  <2>2. ASSUME NEW r \in InUse \ {initproc}, yptr'[r] # NULL
        PROVE  \/ optr'[yptr'[r]] = r /\ parent'[yptr'[r]] = parent'[r]
               \/ parent'[r] = dying /\ cptr'[dying] = r
    <3>1. CASE r = old
      <4>1. yptr'[r] = p /\ parent[old] = initproc /\ old \in Proc
        BY <1>4, <1>5, <1>7, <2>2, <3>1
      <4> QED BY <1>1, <1>4, <1>6, <3>1, <4>1
    <3>2. CASE r # old
      <4>1. r # p /\ yptr'[r] = yptr[r] /\ yptr[r] \in Proc /\ yptr[r] # NULL /\ r \in Proc
        BY <1>2, <1>5, <1>7, <2>2, <3>2
      <4>2. optr[yptr[r]] = r /\ parent[yptr[r]] = parent[r]
        BY <1>2, <1>3, <2>2, <4>1 DEF Siblings
      <4>3. CASE yptr[r] = p
        BY <1>1, <1>3, <1>4, <1>6, <4>1, <4>2, <4>3
      <4>4. CASE yptr[r] # p
        BY <1>6, <4>1, <4>2, <4>4
      <4> QED BY <4>3, <4>4
    <3> QED BY <3>1, <3>2
  <2> QED BY <1>1, <1>7, <2>1, <2>2 DEF Siblings
<1>15. Uncircled'
  <2> SUFFICES ASSUME NEW S \in SUBSET InUse, S # {} PROVE \E r \in S : yptr'[r] \notin S
    BY <1>7 DEF Uncircled
  <2>1. S \subseteq Proc /\ NULL \notin S
    BY <1>7
  <2>2. CASE p \in S
    BY <1>1, <1>4, <1>5, <2>1, <2>2
  <2>3. CASE p \notin S
    <3>1. PICK r \in S : yptr[r] \notin S
      BY <1>2 DEF Uncircled
    <3> QED BY <1>5, <2>1, <2>3, <3>1
  <2> QED BY <2>2, <2>3
<1>16. Counted'
  BY <1>1, <1>2, <1>7 DEF Counted
<1> QED BY <1>8, <1>9, <1>10, <1>13, <1>14, <1>15, <1>16 DEF LInv, PointersAgree

\* do_wait: the siblings of the zombie point at each other.
LEMMA ReapKeeps == ASSUME LInv, NEW p \in Proc, Reap(p) PROVE LInv'
<1> USE LinksAssumption DEF Pointer
<1> DEFINE q == parent[p]
           y == yptr[p]
           o == optr[p]
<1>1. /\ dying = NULL /\ dying' = NULL /\ state[p] = "PROC_ZOMBIE" /\ state[q] = "alive"
      /\ state' = [state EXCEPT ![p] = "PROC_FREE"]
      /\ parent' = [parent EXCEPT ![p] = NULL]
      /\ optr' = Set(optr, y, o)
      /\ yptr' = Set(yptr, o, y)
      /\ cptr' = IF y = NULL THEN [cptr EXCEPT ![q] = o] ELSE cptr
      /\ nr_process' = nr_process - 1
  BY DEF Reap, remove_links
<1>2. /\ parent \in [Proc -> Pointer] /\ cptr \in [Proc -> Pointer] /\ yptr \in [Proc -> Pointer]
      /\ optr \in [Proc -> Pointer] /\ nr_process \in Nat
      /\ state \in [Proc -> {"PROC_FREE", "alive", "PROC_ZOMBIE"}]
      /\ Lives /\ Parented /\ FirstChild /\ Siblings /\ Uncircled /\ Counted
  BY DEF LInv, LinksType, PointersAgree
<1>3. /\ parent[p] = q /\ yptr[p] = y /\ optr[p] = o
      /\ p \in InUse /\ p # initproc /\ q \in Proc /\ p # q /\ y \in Pointer /\ o \in Pointer
  BY <1>1, <1>2 DEF Lives, InUse
<1> HIDE DEF q, y, o
<1>4. /\ y # NULL => y \in InUse /\ optr[y] = p /\ parent[y] = q
      /\ o # NULL => o \in InUse /\ yptr[o] = p /\ parent[o] = q
  <2>1. y # NULL => y \in Proc /\ optr[y] = p /\ parent[y] = q
    BY <1>1, <1>2, <1>3 DEF Siblings
  <2>2. o # NULL => o \in Proc /\ yptr[o] = p /\ parent[o] = q
    BY <1>2, <1>3 DEF Siblings
  <2> QED BY <1>2, <1>3, <2>1, <2>2 DEF Lives
<1>5. y # p /\ o # p
  <2>1. PICK r \in {p} : yptr[r] \notin {p}
    <3>1. {p} \in SUBSET InUse /\ {p} # {}
      BY <1>3
    <3> QED BY <1>2, <3>1 DEF Uncircled
  <2> QED BY <1>3, <1>4, <2>1
<1>6. /\ yptr' \in [Proc -> Pointer] /\ optr' \in [Proc -> Pointer]
      /\ \A r \in Proc : yptr'[r] = IF r = o THEN y ELSE yptr[r]
      /\ \A r \in Proc : optr'[r] = IF r = y THEN o ELSE optr[r]
  <2>1. /\ yptr' \in [Proc -> Pointer]
        /\ \A r \in Proc : yptr'[r] = IF r = o THEN y ELSE yptr[r]
    <3>1. yptr' = IF o = NULL THEN yptr ELSE [yptr EXCEPT ![o] = y]
      BY <1>1 DEF Set
    <3> QED BY <1>2, <1>3, <3>1
  <2>2. /\ optr' \in [Proc -> Pointer]
        /\ \A r \in Proc : optr'[r] = IF r = y THEN o ELSE optr[r]
    <3>1. optr' = IF y = NULL THEN optr ELSE [optr EXCEPT ![y] = o]
      BY <1>1 DEF Set
    <3> QED BY <1>2, <1>3, <3>1
  <2> QED BY <2>1, <2>2
<1>7. \A r \in Proc :
        /\ state'[r] = IF r = p THEN "PROC_FREE" ELSE state[r]
        /\ parent'[r] = IF r = p THEN NULL ELSE parent[r]
        /\ cptr'[r] = IF r = q /\ y = NULL THEN o ELSE cptr[r]
  BY <1>1, <1>2
<1>8. InUse' = InUse \ {p} /\ InUse \subseteq Proc
  BY <1>7 DEF InUse
<1>9. Counted' /\ nr_process' \in Nat
  BY <1>1, <1>2, <1>3, <1>8, CountDown
<1>10. LinksType'
  BY <1>1, <1>2, <1>3, <1>6, <1>9 DEF LinksType
<1>11. Lives'
  BY <1>1, <1>2, <1>3, <1>4, <1>6, <1>7, <1>8 DEF Lives
<1>12. Parented'
  BY <1>1, <1>2, <1>3, <1>7 DEF Parented
<1>13. FirstChild'
  <2>1. ASSUME NEW r \in InUse \ {p}, cptr'[r] # NULL
        PROVE  parent'[cptr'[r]] = r /\ yptr'[cptr'[r]] = NULL
    <3>1. CASE r = q /\ y = NULL
      <4>1. cptr'[r] = o /\ o \in Proc /\ parent[o] = q
        BY <1>3, <1>4, <1>7, <2>1, <3>1
      <4> QED BY <1>5, <1>6, <1>7, <3>1, <4>1
    <3>2. CASE ~(r = q /\ y = NULL)
      <4>1. cptr'[r] = cptr[r] /\ cptr[r] \in Proc /\ cptr[r] # NULL /\ r \in Proc
        BY <1>2, <1>7, <1>8, <2>1, <3>2
      <4>2. parent[cptr[r]] = r /\ yptr[cptr[r]] = NULL
        BY <1>1, <1>2, <2>1, <4>1 DEF FirstChild
      <4>3. cptr[r] # p /\ cptr[r] # o
        BY <1>3, <1>4, <3>2, <4>1, <4>2
      <4> QED BY <1>6, <1>7, <4>1, <4>2, <4>3
    <3> QED BY <3>1, <3>2
  <2>2. ASSUME NEW r \in InUse \ {p, initproc}, yptr'[r] = NULL PROVE cptr'[parent'[r]] = r
    <3>1. r \in Proc /\ parent'[r] = parent[r] /\ parent[r] \in Proc
      BY <1>2, <1>7, <1>8 DEF Lives
    <3>2. CASE r = o
      BY <1>3, <1>4, <1>6, <1>7, <2>2, <3>1, <3>2
    <3>3. CASE r # o
      <4>1. cptr[parent[r]] = r
        BY <1>2, <1>6, <2>2, <3>1, <3>3 DEF FirstChild
      <4>2. y = NULL => cptr[q] = p
        BY <1>2, <1>3 DEF FirstChild
      <4> QED BY <1>7, <3>1, <4>1, <4>2
    <3> QED BY <3>2, <3>3
  <2> QED BY <1>8, <2>1, <2>2 DEF FirstChild
<1>14. Siblings'
  <2>1. ASSUME NEW r \in InUse \ {p}, optr'[r] # NULL
        PROVE  yptr'[optr'[r]] = r /\ parent'[optr'[r]] = parent'[r]
    <3>1. CASE r = y
      <4>1. optr'[r] = o /\ o \in Proc /\ parent[o] = q /\ parent[y] = q
        BY <1>3, <1>4, <1>6, <1>8, <2>1, <3>1
      <4> QED BY <1>5, <1>6, <1>7, <1>8, <3>1, <4>1
    <3>2. CASE r # y
      <4>1. optr'[r] = optr[r] /\ optr[r] \in Proc /\ optr[r] # NULL /\ r \in Proc
        BY <1>2, <1>6, <1>8, <2>1, <3>2
      <4>2. yptr[optr[r]] = r /\ parent[optr[r]] = parent[r]
        BY <1>2, <4>1 DEF Siblings
      <4>3. optr[r] # p /\ optr[r] # o
        BY <1>3, <1>4, <3>2, <4>1, <4>2
      <4> QED BY <1>6, <1>7, <4>1, <4>2, <4>3
    <3> QED BY <3>1, <3>2
  <2>2. ASSUME NEW r \in InUse \ {p, initproc}, yptr'[r] # NULL
        PROVE  optr'[yptr'[r]] = r /\ parent'[yptr'[r]] = parent'[r]
    <3>1. CASE r = o
      <4>1. yptr'[r] = y /\ y \in Proc /\ parent[o] = q /\ parent[y] = q
        BY <1>3, <1>4, <1>6, <1>8, <2>2, <3>1
      <4> QED BY <1>5, <1>6, <1>7, <1>8, <3>1, <4>1
    <3>2. CASE r # o
      <4>1. yptr'[r] = yptr[r] /\ yptr[r] \in Proc /\ yptr[r] # NULL /\ r \in Proc
        BY <1>2, <1>6, <1>8, <2>2, <3>2
      <4>2. parent[r] # NULL
        BY <1>2, <4>1 DEF Lives
      <4>3. optr[yptr[r]] = r /\ parent[yptr[r]] = parent[r]
        BY <1>1, <1>2, <4>1, <4>2 DEF Siblings
      <4>4. yptr[r] # p /\ yptr[r] # y
        BY <1>3, <1>4, <3>2, <4>1, <4>3
      <4> QED BY <1>6, <1>7, <4>1, <4>3, <4>4
    <3> QED BY <3>1, <3>2
  <2> QED BY <1>8, <2>1, <2>2 DEF Siblings
<1>15. Uncircled'
  <2> SUFFICES ASSUME NEW S \in SUBSET (InUse \ {p}), S # {}
               PROVE  \E r \in S : yptr'[r] \notin S
    BY <1>8 DEF Uncircled
  <2>1. S \subseteq InUse /\ S \subseteq Proc
    BY <1>8
  <2>2. CASE o \in S
    <3>1. PICK r \in S \union {p} : yptr[r] \notin S \union {p}
      <4>1. S \union {p} \in SUBSET InUse /\ S \union {p} # {}
        BY <1>3, <2>1
      <4> QED BY <1>2, <4>1 DEF Uncircled
    <3>2. CASE r = p
      BY <1>3, <1>6, <2>1, <2>2, <3>1, <3>2
    <3>3. CASE r # p
      <4>1. r \in S /\ r # o
        BY <1>4, <2>1, <3>1, <3>3
      <4> QED BY <1>6, <2>1, <3>1, <4>1
    <3> QED BY <3>2, <3>3
  <2>3. CASE o \notin S
    <3>1. PICK r \in S : yptr[r] \notin S
      BY <1>2, <2>1 DEF Uncircled
    <3> QED BY <1>6, <2>1, <2>3, <3>1
  <2> QED BY <2>2, <2>3
<1> QED BY <1>9, <1>10, <1>11, <1>12, <1>13, <1>14, <1>15 DEF LInv, PointersAgree
-----------------------------------------------------------------------------
(* Walks.                                                                  *)

\* The walk of n steps exists, for every n: shown for the least n of which it is not
\* so, from the walk of n - 1.
LEMMA WalkExists ==
    ASSUME NEW next, NEW N \in Nat
    PROVE  \E f : f = [n \in 0..N |-> Longer(f, next, n)]
<1> DEFINE Exists(m) == \E f : f = [n \in 0..m |-> Longer(f, next, n)]
           Failing == {m \in Nat : ~Exists(m)}
<1>1. Longer(<< >>, next, 0) = [r \in Pointer |-> << >>]
  BY DEF Longer
<1>2. Exists(0)
  <2> DEFINE f == [n \in 0..0 |-> Longer(<< >>, next, n)]
  <2>1. \A g : Longer(g, next, 0) = Longer(<< >>, next, 0)
    BY DEF Longer
  <2>2. f = [n \in 0..0 |-> Longer(f, next, n)]
    <3> HIDE DEF f
    <3>1. \A n \in 0..0 : Longer(<< >>, next, n) = Longer(f, next, n)
      BY <2>1
    <3> QED BY <3>1 DEF f
  <2> QED BY <2>2
<1>3. ASSUME NEW m \in Nat, Exists(m) PROVE Exists(m + 1)
  <2>1. PICK g : g = [n \in 0..m |-> Longer(g, next, n)]
    BY <1>3
  <2> DEFINE f == [n \in 0..m+1 |-> Longer(g, next, n)]
  <2>2. \A n \in 0..m : f[n] = g[n]
    BY <2>1
  <2>3. \A n \in 0..m+1 : Longer(g, next, n) = Longer(f, next, n)
    <3> HIDE DEF f
    <3>1. \A n \in 1..m+1 : f[n-1] = g[n-1]
      <4> SUFFICES ASSUME NEW n \in 1..m+1 PROVE f[n-1] = g[n-1]
        OBVIOUS
      <4>1. n - 1 \in 0..m
        OBVIOUS
      <4> QED BY <2>2, <4>1
    <3> SUFFICES ASSUME NEW n \in 0..m+1 PROVE Longer(g, next, n) = Longer(f, next, n)
      OBVIOUS
    <3>2. CASE n = 0
      BY <3>2 DEF Longer
    <3>3. CASE n # 0
      <4>1. f[n-1] = g[n-1]
        BY <3>1, <3>3
      <4> QED BY <4>1 DEF Longer
    <3> QED BY <3>2, <3>3
  <2>4. f = [n \in 0..m+1 |-> Longer(f, next, n)]
    <3>1. f = [n \in 0..m+1 |-> Longer(g, next, n)]
      OBVIOUS
    <3> HIDE DEF f
    <3> QED BY <2>3, <3>1
  <2> QED BY <2>4
<1>4. Failing = {}
  <2> SUFFICES ASSUME Failing # {} PROVE FALSE
    OBVIOUS
  <2>1. PICK n \in Failing : \A m \in Failing : n <= m
    <3>1. Failing \in SUBSET Nat
      OBVIOUS
    <3> HIDE DEF Failing
    <3> QED BY <3>1, LeastNatural
  <2>2. n \in Nat /\ ~Exists(n)
    BY <2>1
  <2>3. n # 0
    BY <1>2, <2>2
  <2>4. n - 1 \in Nat /\ n - 1 \notin Failing /\ (n - 1) + 1 = n
    <3> HIDE DEF Failing
    <3> QED BY <2>1, <2>2, <2>3
  <2>5. Exists(n - 1)
    BY <2>4
  <2> HIDE DEF Exists
  <2>6. Exists((n - 1) + 1)
    BY <1>3, <2>4, <2>5
  <2> QED BY <2>2, <2>4, <2>6
<1>5. N \notin Failing
  BY <1>4
<1> QED BY <1>5

\* A walk visits the elements of a sequence in which next leads from each to the one
\* behind it, if the sequence is not longer than a walk may be.
LEMMA WalkAlong ==
    ASSUME NEW next, NEW s \in Seq(Proc), Len(s) <= Cardinality(Proc), Cardinality(Proc) \in Nat,
           NEW first, first = IF s = << >> THEN NULL ELSE s[1],
           \A i \in 1..Len(s) : next[s[i]] = IF i = Len(s) THEN NULL ELSE s[i+1]
    PROVE  Along(next, first) = s
<1> DEFINE N == Cardinality(Proc)
           M == Len(s)
           at(i) == IF i = M + 1 THEN NULL ELSE s[i]
           older == CHOOSE f : f = [n \in 0..N |-> Longer(f, next, n)]
<1>1. Along(next, first) = older[N][first]
  BY DEF Along
<1>2. older = [n \in 0..N |-> Longer(older, next, n)]
  BY WalkExists
<1> HIDE DEF older
<1>3. \A n \in 0..N : older[n] = Longer(older, next, n)
  BY <1>2
<1>4. N \in Nat /\ M \in Nat /\ M <= N /\ \A i \in 1..M : s[i] \in Proc
  BY ElementOfSeq
<1> HIDE DEF N, M
<1> DEFINE EndOf(k, t) == /\ t \in Seq(Proc) /\ Len(t) = k
                         /\ \A j \in 1..k : t[j] = s[M - k + j]
           Walked(k) == \A n \in k..N : EndOf(k, older[n][at(M - k + 1)])
           Failing == {k \in 0..M : ~Walked(k)}
<1>5. Walked(0)
  <2> SUFFICES ASSUME NEW n \in 0..N PROVE EndOf(0, older[n][at(M + 1)])
    BY <1>4
  <2>1. older[n][NULL] = << >>
    BY <1>3, <1>4 DEF Longer, Pointer
  <2>2. at(M + 1) = NULL
    OBVIOUS
  <2>3. << >> \in Seq(Proc) /\ Len(<< >>) = 0 /\ 1..0 = {}
    OBVIOUS
  <2> HIDE DEF at
  <2> QED BY <2>1, <2>2, <2>3
<1>6. ASSUME NEW k \in 0..M, k + 1 <= M, Walked(k) PROVE Walked(k + 1)
  <2> SUFFICES ASSUME NEW n \in (k+1)..N PROVE EndOf(k + 1, older[n][at(M - (k + 1) + 1)])
    OBVIOUS
  <2> DEFINE i == M - k
             t == older[n-1][at(i + 1)]
  <2>1. i \in 1..M /\ i \in Nat /\ s[i] \in Proc /\ at(i) = s[i] /\ next[s[i]] = at(i + 1)
        /\ M - (k + 1) + 1 = i /\ M - k + 1 = i + 1
    <3>1. i \in 1..M /\ i \in Nat /\ M - (k + 1) + 1 = i /\ M - k + 1 = i + 1 /\ i # M + 1
      BY <1>4, <1>6
    <3>2. i = M <=> i + 1 = M + 1
      BY <3>1, <1>4
    <3> HIDE DEF i
    <3> QED BY <3>1, <3>2, <1>4 DEF M
  <2>2. n - 1 \in k..N /\ n \in 0..N /\ n # 0
    BY <1>4, <1>6
  <2>3. EndOf(k, t)
    BY <1>6, <2>1, <2>2
  <2>4. older[n][s[i]] = <<s[i]>> \o t
    <3>1. older[n] = Longer(older, next, n)
      BY <1>3, <2>2
    <3>2. s[i] \in Pointer /\ s[i] # NULL
      BY <2>1, LinksAssumption DEF Pointer
    <3> HIDE DEF i, at
    <3> QED BY <2>1, <2>2, <3>1, <3>2 DEF Longer
  <2> HIDE DEF t, at, i
  <2>5. EndOf(k + 1, <<s[i]>> \o t)
    <3>1. <<s[i]>> \o t \in Seq(Proc) /\ Len(<<s[i]>> \o t) = k + 1
      BY <2>1, <2>3, <1>4
    <3>2. ASSUME NEW j \in 1..(k+1) PROVE (<<s[i]>> \o t)[j] = s[M - (k + 1) + j]
      <4>1. CASE j = 1
        <5>1. M - (k + 1) + j = i
          BY <2>1, <4>1, <1>4
        <5> QED BY <2>3, <4>1, <5>1, <2>1, <1>4
      <4>2. CASE j # 1
        <5>1. j - 1 \in 1..k /\ M - (k + 1) + j = M - k + (j - 1)
          BY <4>2, <1>4
        <5>2. (<<s[i]>> \o t)[j] = t[j - 1]
          BY <2>1, <2>3, <4>2, <5>1
        <5> QED BY <2>3, <5>1, <5>2
      <4> QED BY <4>1, <4>2
    <3> QED BY <3>1, <3>2
  <2> QED BY <2>1, <2>4, <2>5
<1>7. Failing = {}
  <2> SUFFICES ASSUME Failing # {} PROVE FALSE
    OBVIOUS
  <2>1. PICK k \in Failing : \A m \in Failing : k <= m
    <3>1. Failing \in SUBSET Nat
      BY <1>4
    <3> HIDE DEF Failing
    <3> QED BY <3>1, LeastNatural
  <2>2. k \in 0..M /\ ~Walked(k)
    BY <2>1
  <2> HIDE DEF Walked
  <2>3. k # 0
    BY <1>5, <2>2
  <2>4. k - 1 \in 0..M /\ k - 1 \notin Failing /\ (k - 1) + 1 = k /\ (k - 1) + 1 <= M
    <3> HIDE DEF Failing
    <3> QED BY <1>4, <2>1, <2>2, <2>3
  <2>5. Walked(k - 1)
    BY <2>4
  <2>6. Walked((k - 1) + 1)
    BY <1>6, <2>4, <2>5
  <2> QED BY <2>2, <2>4, <2>6
<1>8. Walked(M)
  <2>1. M \in 0..M
    BY <1>4
  <2> HIDE DEF Walked
  <2> QED BY <1>7, <2>1
<1>9. first = at(1)
  BY <1>4 DEF M
<1>10. EndOf(M, older[N][first])
  <2>1. M - M + 1 = 1 /\ N \in M..N
    BY <1>4
  <2> HIDE DEF EndOf, at
  <2> QED BY <1>8, <1>9, <2>1
<1> DEFINE t == older[N][first]
<1>11. t = s
  <2>1. t \in Seq(Proc) /\ Len(t) = M /\ \A j \in 1..M : t[j] = s[j]
    <3> HIDE DEF t
    <3>1. t \in Seq(Proc) /\ Len(t) = M /\ \A j \in 1..M : t[j] = s[M - M + j]
      BY <1>10 DEF t
    <3>2. \A j \in 1..M : M - M + j = j
      BY <1>4
    <3> QED BY <3>1, <3>2
  <2> HIDE DEF t
  <2> QED BY <2>1, SeqEqual DEF M
<1> QED BY <1>1, <1>11

-----------------------------------------------------------------------------
(* Lists.                                                                  *)

FirstOf(s) == IF s = << >> THEN NULL ELSE s[1]

\* The pointers cp, par and opt make s the list of children of q.
IsList(cp, par, opt, q, s) ==
    /\ s \in Seq(Proc) /\ IsInjective(s)
    /\ cp[q] = FirstOf(s)
    /\ \A i \in 1..Len(s) : par[s[i]] = q
    /\ \A i \in 1..Len(s) : opt[s[i]] = IF i = Len(s) THEN NULL ELSE s[i+1]

\* What a walk visits is the list, and who has a parent is on its list.
Listed ==
    /\ \A q \in InUse : IsList(cptr, parent, optr, q, ChildrenOf(q))
    /\ \A q, p \in Proc : parent[p] = q => p \in Range(ChildrenOf(q))

\* A list without repetitions is not longer than a walk may be.
LEMMA ListLength ==
    ASSUME NEW s \in Seq(Proc), IsInjective(s)
    PROVE  Cardinality(Proc) \in Nat /\ Len(s) <= Cardinality(Proc)
<1>1. IsFiniteSet(Proc)
  BY LinksAssumption
<1>2. Cardinality(Proc) \in Nat
  BY <1>1, FS_CardinalityType
<1>3. Len(s) \in Nat /\ DOMAIN s = 1..Len(s) /\ s \in [1..Len(s) -> Proc]
  BY LenProperties
<1>4. s \in Injection(1..Len(s), Proc)
  BY <1>3 DEF IsInjective, Injection
<1>5. Cardinality(1..Len(s)) <= Cardinality(Proc)
  BY <1>1, <1>4, FS_Injection
<1>6. Cardinality(1..Len(s)) = Len(s)
  BY <1>3, FS_Interval
<1> QED BY <1>2, <1>5, <1>6

\* A walk visits the list.
LEMMA ListWalked ==
    ASSUME NEW cp, NEW par, NEW opt, NEW q, NEW s, IsList(cp, par, opt, q, s)
    PROVE  Along(opt, cp[q]) = s
<1>1. /\ s \in Seq(Proc) /\ IsInjective(s)
      /\ cp[q] = IF s = << >> THEN NULL ELSE s[1]
      /\ \A i \in 1..Len(s) : opt[s[i]] = IF i = Len(s) THEN NULL ELSE s[i+1]
  BY DEF IsList, FirstOf
<1>2. Len(s) <= Cardinality(Proc) /\ Cardinality(Proc) \in Nat
  BY <1>1, ListLength
<1> QED BY <1>1, <1>2, WalkAlong

\* Pointers of the list that stay.
LEMMA ListKept ==
    ASSUME NEW cp, NEW par, NEW opt, NEW q, NEW s, IsList(cp, par, opt, q, s),
           NEW cp2, NEW par2, NEW opt2,
           cp2[q] = cp[q],
           \A i \in 1..Len(s) : par2[s[i]] = par[s[i]] /\ opt2[s[i]] = opt[s[i]]
    PROVE  IsList(cp2, par2, opt2, q, s)
BY DEF IsList

\* A new first child.
LEMMA ListGrows ==
    ASSUME NEW cp, NEW par, NEW opt, NEW q, NEW s, IsList(cp, par, opt, q, s),
           NEW p \in Proc, p \notin Range(s),
           NEW cp2, NEW par2, NEW opt2,
           cp2[q] = p, par2[p] = q, opt2[p] = cp[q],
           \A i \in 1..Len(s) : par2[s[i]] = par[s[i]] /\ opt2[s[i]] = opt[s[i]]
    PROVE  IsList(cp2, par2, opt2, q, <<p>> \o s)
<1>1. s \in Seq(Proc) /\ IsInjective(s) /\ Len(s) \in Nat
  BY DEF IsList
<1>2. SUFFICES ASSUME NEW t, t = <<p>> \o s PROVE IsList(cp2, par2, opt2, q, t)
  OBVIOUS
<1>3. t \in Seq(Proc) /\ IsInjective(t)
  BY <1>1, <1>2, ConsElements
<1>4. Len(t) = Len(s) + 1 /\ t[1] = p /\ t # << >>
  BY <1>1, <1>2
<1>5. \A i \in 1..Len(s) : t[i + 1] = s[i]
  BY <1>1, <1>2
<1>6. cp2[q] = FirstOf(t)
  BY <1>4 DEF FirstOf
<1>7. \A i \in 1..Len(t) : i = 1 \/ \E j \in 1..Len(s) : i = j + 1
  <2> SUFFICES ASSUME NEW i \in 1..Len(t), i # 1 PROVE \E j \in 1..Len(s) : i = j + 1
    OBVIOUS
  <2>1. i - 1 \in 1..Len(s) /\ i = (i - 1) + 1
    BY <1>1, <1>4
  <2> QED BY <2>1
<1>8. /\ \A i \in 1..Len(s) : par[s[i]] = q /\ opt[s[i]] = IF i = Len(s) THEN NULL ELSE s[i+1]
      /\ cp[q] = IF s = << >> THEN NULL ELSE s[1]
  BY DEF IsList, FirstOf
<1>9. ASSUME NEW i \in 1..Len(t)
      PROVE  par2[t[i]] = q /\ opt2[t[i]] = IF i = Len(t) THEN NULL ELSE t[i+1]
  <2>1. CASE i = 1
    <3>1. CASE s = << >>
      BY <1>4, <1>8, <2>1, <3>1
    <3>2. CASE s # << >>
      <4>1. Len(s) # 0 /\ 1 \in 1..Len(s)
        BY <1>1, <3>2
      <4>2. t[2] = s[1]
        BY <1>5, <4>1
      <4> QED BY <1>1, <1>4, <1>8, <2>1, <3>2, <4>1, <4>2
    <3> QED BY <3>1, <3>2
  <2>2. CASE i # 1
    <3>1. PICK j \in 1..Len(s) : i = j + 1
      BY <1>7, <2>2
    <3>2. t[i] = s[j] /\ par2[s[j]] = q /\ opt2[s[j]] = IF j = Len(s) THEN NULL ELSE s[j+1]
      BY <1>5, <1>8, <3>1
    <3>3. j # Len(s) => t[i + 1] = s[j + 1]
      <4> SUFFICES ASSUME j # Len(s) PROVE t[(j + 1) + 1] = s[j + 1]
        BY <3>1
      <4>1. j + 1 \in 1..Len(s)
        BY <1>1
      <4> QED BY <1>5, <4>1
    <3>4. j = Len(s) <=> i = Len(t)
      BY <1>1, <1>4, <3>1
    <3> QED BY <3>2, <3>3, <3>4
  <2> QED BY <2>1, <2>2
<1> QED BY <1>3, <1>6, <1>9 DEF IsList

\* A child that leaves: the one before it, or the parent, points behind it.
LEMMA ListShrinks ==
    ASSUME NEW cp, NEW par, NEW opt, NEW q, NEW s, IsList(cp, par, opt, q, s),
           NEW k \in DOMAIN s,
           NEW cp2, NEW par2, NEW opt2,
           cp2[q] = IF k = 1 THEN opt[s[k]] ELSE cp[q],
           k # 1 => opt2[s[k-1]] = opt[s[k]],
           \A i \in 1..Len(s) : i # k => par2[s[i]] = par[s[i]],
           \A i \in 1..Len(s) : i # k /\ i # k - 1 => opt2[s[i]] = opt[s[i]]
    PROVE  IsList(cp2, par2, opt2, q, RemoveAt(s, k))
<1>1. s \in Seq(Proc) /\ IsInjective(s) /\ Len(s) \in Nat /\ DOMAIN s = 1..Len(s)
  BY DEF IsList
<1>2. SUFFICES ASSUME NEW t, t = RemoveAt(s, k) PROVE IsList(cp2, par2, opt2, q, t)
  OBVIOUS
<1>3. t \in Seq(Proc) /\ IsInjective(t)
  BY <1>1, <1>2, RemoveAtElements
<1>4. \A i \in 1..(Len(s) - 1) : t[i] = IF i < k THEN s[i] ELSE s[i + 1]
  BY <1>1, <1>2, RemoveAtIndices
<1>9. Len(t) = Len(s) - 1
  BY <1>1, <1>2, RemoveAtIndices
<1>10. k \in Nat /\ 1 <= k /\ k <= Len(s) /\ Len(s) \in Nat /\ Len(t) \in Nat
  <2>1. k \in 1..Len(s) /\ Len(s) \in Nat
    BY <1>1
  <2>2. Len(t) \in Nat
    BY <1>3
  <2> QED BY <2>1, <2>2
<1>5. \A i \in 1..Len(s) : par[s[i]] = q /\ opt[s[i]] = IF i = Len(s) THEN NULL ELSE s[i+1]
  BY DEF IsList
<1>6. cp[q] = s[1] /\ 1 \in 1..Len(s) /\ s # << >>
  <2>1. 1 \in 1..Len(s) /\ s # << >>
    BY <1>1
  <2> QED BY <2>1 DEF IsList, FirstOf
<1>7. cp2[q] = FirstOf(t)
  <2>1. CASE t = << >>
    <3>1. Len(s) = 1 /\ k = 1
      <4>1. Len(t) = 0
        BY <2>1
      <4> QED BY <1>9, <1>10, <4>1
    <3> QED BY <1>1, <1>5, <2>1, <3>1 DEF FirstOf
  <2>2. CASE t # << >>
    <3>1. Len(s) > 1 /\ 1 \in 1..(Len(s) - 1)
      BY <1>1, <1>3, <1>9, <2>2
    <3>2. t[1] = IF k = 1 THEN s[2] ELSE s[1]
      BY <1>1, <1>4, <3>1
    <3>3. k = 1 => opt[s[k]] = s[2]
      <4>1. opt[s[1]] = IF 1 = Len(s) THEN NULL ELSE s[1+1]
        BY <1>5, <1>6
      <4> QED BY <3>1, <4>1
    <3> QED BY <1>6, <2>2, <3>2, <3>3 DEF FirstOf
  <2> QED BY <2>1, <2>2
<1>8. ASSUME NEW i \in 1..Len(t)
      PROVE  par2[t[i]] = q /\ opt2[t[i]] = IF i = Len(t) THEN NULL ELSE t[i+1]
  <2>1. i \in 1..(Len(s) - 1) /\ i \in Nat /\ k \in Nat
    BY <1>1, <1>9
  <2>2. i # Len(t) => i + 1 \in 1..(Len(s) - 1)
    BY <1>9, <1>10, <2>1
  <2>3. CASE i < k
    <3>1. t[i] = s[i] /\ i \in 1..Len(s) /\ i # k /\ i # Len(s)
      <4>1. i \in 1..Len(s) /\ i # k /\ i # Len(s)
        BY <1>10, <2>1, <2>3
      <4> QED BY <1>4, <2>1, <2>3, <4>1
    <3>2. par2[s[i]] = q
      BY <1>5, <3>1
    <3>3. CASE i = k - 1
      <4>1. k # 1 /\ opt2[s[i]] = opt[s[k]] /\ (i = Len(t) <=> k = Len(s))
        BY <1>1, <1>9, <2>1, <3>3
      <4>2. i # Len(t) => t[i + 1] = s[k + 1]
        <5> SUFFICES ASSUME i # Len(t) PROVE t[i + 1] = s[(i + 1) + 1]
          BY <2>1, <3>3, <1>1
        <5>1. ~(i + 1 < k)
          BY <2>1, <3>3, <1>1
        <5> QED BY <1>4, <2>2, <5>1
      <4> QED BY <1>1, <1>5, <3>1, <3>2, <4>1, <4>2
    <3>4. CASE i # k - 1
      <4>1. i # Len(t) /\ i + 1 < k
        BY <1>9, <1>10, <2>1, <2>3, <3>4
      <4>3. opt2[s[i]] = s[i + 1]
        BY <1>5, <3>1, <3>4
      <4>2. t[i + 1] = s[i + 1]
        BY <1>4, <2>2, <4>1
      <4> QED BY <3>1, <3>2, <4>1, <4>2, <4>3
    <3> QED BY <3>3, <3>4
  <2>4. CASE ~(i < k)
    <3>1. t[i] = s[i + 1] /\ i + 1 \in 1..Len(s) /\ i + 1 # k /\ i + 1 # k - 1
      BY <1>1, <1>4, <2>1, <2>4
    <3>2. par2[s[i + 1]] = q /\ opt2[s[i + 1]] = IF i + 1 = Len(s) THEN NULL ELSE s[(i + 1) + 1]
      BY <1>5, <3>1
    <3>3. i = Len(t) <=> i + 1 = Len(s)
      BY <1>9, <1>10, <2>1
    <3>4. i # Len(t) => t[i + 1] = s[(i + 1) + 1]
      <4> SUFFICES ASSUME i # Len(t) PROVE t[i + 1] = s[(i + 1) + 1]
        OBVIOUS
      <4>1. ~(i + 1 < k)
        BY <2>1, <2>4, <1>1
      <4> QED BY <1>4, <2>2, <4>1
    <3> QED BY <3>1, <3>2, <3>3, <3>4
  <2> QED BY <2>3, <2>4
<1> QED BY <1>3, <1>7, <1>8 DEF IsList
-----------------------------------------------------------------------------
(* The invariant.                                                          *)

\* initproc is the only process, and nobody's child.
LEMMA LinksStart == ASSUME LinksInit PROVE LInv
<1> USE LinksAssumption DEF Pointer
<1>1. InUse = {initproc}
  BY DEF LinksInit, InUse
<1>2. IsFiniteSet(InUse) /\ Cardinality(InUse) = 1
  BY <1>1, FS_Singleton
<1>3. Counted
  BY <1>2 DEF LinksInit, Counted
<1>4. LinksType
  BY DEF LinksInit, LinksType
<1>5. Lives /\ Parented /\ FirstChild /\ Siblings
  BY <1>1 DEF LinksInit, Lives, Parented, FirstChild, Siblings
<1>6. Uncircled
  BY <1>1 DEF LinksInit, Uncircled
<1> QED BY <1>3, <1>4, <1>5, <1>6 DEF LInv, PointersAgree

\* Every step of fork, exit and wait keeps it.
LEMMA LinksStep == ASSUME LInv, [LinksNext]_linkvars PROVE LInv'
<1>1. CASE \E p, q \in Proc : Fork(p, q)
  BY <1>1, ForkKeeps
<1>2. CASE \E p \in Proc : Exit(p)
  BY <1>2, ExitKeeps
<1>3. CASE \E p \in Proc : Reap(p)
  BY <1>3, ReapKeeps
<1>4. CASE Reparent
  BY <1>4, ReparentKeeps
<1>5. CASE ExitDone
  BY <1>5, ExitDoneKeeps
<1>6. CASE UNCHANGED linkvars
  BY <1>6 DEF linkvars, links, LInv, LinksType, PointersAgree, Lives, Parented, FirstChild, Siblings,
              Uncircled, Counted, InUse
<1> QED BY <1>1, <1>2, <1>3, <1>4, <1>5, <1>6 DEF LinksNext

\* The same for the behaviours.
LEMMA LinksInvariance == LinksSpec => []LInv
BY LinksStart, LinksStep, PTL DEF LinksSpec

\* Whatever the number of processes: at every step of fork, exit and wait, the loop
\* of do_exit included, the pointers of set_links and remove_links agree with those
\* of the neighbours, and no process in use is without a parent that is alive or is
\* handing it over.
THEOREM NeighboursAgree == LinksSpec => []PointersAgree
<1>1. LInv => PointersAgree
  BY DEF LInv
<1> QED BY <1>1, LinksInvariance, PTL

\* nr_process, which limits do_fork and which init_main asserts to be 2 in the end,
\* counts the processes in use and idleproc.
THEOREM ProcessesCounted == LinksSpec => []Counted
<1>1. LInv => Counted
  BY DEF LInv
<1> QED BY <1>1, LinksInvariance, PTL
-----------------------------------------------------------------------------
(* The tree.                                                               *)

\* Lists for which the pointers stand after a step are what the walks then give.
LEMMA ListsNext ==
    ASSUME LInv', NEW new,
           \A r \in InUse' : IsList(cptr', parent', optr', r, new[r]),
           \A r \in Proc \ InUse' : new[r] = << >>,
           \A q, p \in Proc : parent'[p] = q => p \in Range(new[q])
    PROVE  Listed' /\ \A r \in Proc : ChildrenOf(r)' = new[r]
<1>1. \A r \in Proc : ChildrenOf(r)' = IF r \in InUse' THEN Along(optr', cptr'[r]) ELSE << >>
  BY DEF ChildrenOf, Walk, InUse
<1>2. \A r \in InUse' : Along(optr', cptr'[r]) = new[r]
  BY ListWalked
<1>3. \A r \in Proc : ChildrenOf(r)' = new[r]
  BY <1>1, <1>2
<1>4. \A r \in InUse' : r \in Proc
  BY DEF InUse
<1>5. \A r \in InUse' : IsList(cptr', parent', optr', r, ChildrenOf(r)')
  BY <1>3, <1>4
<1>6. \A q, p \in Proc : parent'[p] = q => p \in Range(ChildrenOf(q)')
  BY <1>3
<1>7. Listed'
  BY <1>5, <1>6 DEF Listed
<1> QED BY <1>3, <1>7

\* Who is on a list, and who is not.
LEMMA OnLists ==
    ASSUME LInv, Listed
    PROVE  /\ \A q \in Proc : ChildrenOf(q) \in Seq(Proc) /\ IsInjective(ChildrenOf(q))
           /\ \A q \in Proc \ InUse : ChildrenOf(q) = << >>
           /\ \A q \in Proc : \A i \in 1..Len(ChildrenOf(q)) :
                 parent[ChildrenOf(q)[i]] = q /\ ChildrenOf(q)[i] \in InUse \ {initproc}
           /\ \A q \in Proc : cptr[q] = NULL => ChildrenOf(q) = << >>
<1> USE LinksAssumption
<1>1. \A q \in Proc \ InUse : ChildrenOf(q) = << >>
  BY DEF ChildrenOf, InUse
<1>2. \A q \in InUse : IsList(cptr, parent, optr, q, ChildrenOf(q))
  BY DEF Listed
<1>3. ASSUME NEW q \in Proc, NEW s, s = ChildrenOf(q)
      PROVE  /\ s \in Seq(Proc) /\ IsInjective(s) /\ (cptr[q] = NULL => s = << >>)
             /\ \A i \in 1..Len(s) : parent[s[i]] = q /\ s[i] \in InUse \ {initproc}
  <2>1. CASE q \in InUse
    <3>1. /\ s \in Seq(Proc) /\ IsInjective(s) /\ cptr[q] = FirstOf(s)
          /\ \A i \in 1..Len(s) : parent[s[i]] = q
      BY <1>2, <1>3, <2>1 DEF IsList
    <3>2. \A i \in 1..Len(s) : s[i] \in Proc
      BY <3>1, ElementOfSeq
    <3>3. \A i \in 1..Len(s) : s[i] \in InUse \ {initproc}
      BY <1>3, <3>1, <3>2 DEF LInv, PointersAgree, Lives
    <3>4. cptr[q] = NULL => s = << >>
      <4> SUFFICES ASSUME s # << >> PROVE s[1] # NULL
        BY <3>1 DEF FirstOf
      <4>1. 1 \in 1..Len(s)
        BY <3>1
      <4> QED BY <3>2, <4>1
    <3> QED BY <3>1, <3>3, <3>4
  <2>2. CASE q \notin InUse
    <3>1. s = << >>
      BY <1>1, <1>3, <2>2
    <3> QED BY <3>1 DEF IsInjective
  <2> QED BY <2>1, <2>2
<1> QED BY <1>1, <1>3

\* do_fork: a birth.
LEMMA ForkTree ==
    ASSUME LInv, LInv', Listed, NEW p \in Proc, NEW q \in Proc, Fork(p, q)
    PROVE  Listed' /\ T!Born(p, q)
<1> USE LinksAssumption DEF Pointer
<1>1. /\ state[q] = "alive" /\ state[p] = "PROC_FREE" /\ p # q /\ p # initproc
      /\ \A r \in Proc : /\ state'[r] = IF r = p THEN "alive" ELSE state[r]
                         /\ parent'[r] = IF r = p THEN q ELSE parent[r]
                         /\ optr'[r] = IF r = p THEN cptr[q] ELSE optr[r]
                         /\ cptr'[r] = IF r = q THEN p ELSE IF r = p THEN NULL ELSE cptr[r]
  BY DEF Fork, set_links, LInv, LinksType, PointersAgree, Lives
<1>2. InUse' = InUse \union {p} /\ p \notin InUse /\ q \in InUse /\ InUse \subseteq Proc
  BY <1>1 DEF InUse
<1>3. parent[p] = NULL
  BY <1>2 DEF LInv, PointersAgree, Lives
<1>4. /\ \A r \in Proc : ChildrenOf(r) \in Seq(Proc) /\ IsInjective(ChildrenOf(r))
      /\ \A r \in Proc \ InUse : ChildrenOf(r) = << >>
      /\ \A r \in Proc : \A i \in 1..Len(ChildrenOf(r)) :
            parent[ChildrenOf(r)[i]] = r /\ ChildrenOf(r)[i] \in InUse \ {initproc}
  BY OnLists
<1>5. ASSUME NEW r \in Proc, NEW s, s = ChildrenOf(r)
      PROVE  /\ p \notin Range(s)
             /\ \A i \in 1..Len(s) : parent'[s[i]] = parent[s[i]] /\ optr'[s[i]] = optr[s[i]]
  <2>1. s \in Seq(Proc) /\ \A i \in 1..Len(s) : s[i] \in Proc /\ s[i] # p
    BY <1>2, <1>4, <1>5
  <2> QED BY <1>1, <2>1 DEF Range
<1>6. SUFFICES ASSUME NEW new,
                      new = [r \in Proc |-> IF r = q THEN <<p>> \o ChildrenOf(q) ELSE ChildrenOf(r)]
               PROVE  Listed' /\ T!Born(p, q)
  OBVIOUS
<1>7. ASSUME NEW r \in InUse' PROVE IsList(cptr', parent', optr', r, new[r])
  <2>1. CASE r = q
    <3>1. SUFFICES ASSUME NEW s, s = ChildrenOf(q)
                   PROVE  IsList(cptr', parent', optr', q, <<p>> \o s)
      BY <1>2, <1>6, <2>1
    <3>2. IsList(cptr, parent, optr, q, s)
      BY <1>2, <3>1 DEF Listed
    <3>3. p \notin Range(s) /\ \A i \in 1..Len(s) : parent'[s[i]] = parent[s[i]] /\ optr'[s[i]] = optr[s[i]]
      BY <1>5, <3>1
    <3>4. cptr'[q] = p /\ parent'[p] = q /\ optr'[p] = cptr[q]
      BY <1>1
    <3> QED BY <3>2, <3>3, <3>4, ListGrows
  <2>2. CASE r = p
    <3>1. new[r] = << >>
      BY <1>1, <1>2, <1>4, <1>6, <2>2
    <3>2. cptr'[r] = NULL
      BY <1>1, <2>2
    <3> QED BY <3>1, <3>2 DEF IsList, FirstOf, IsInjective
  <2>3. CASE r # p /\ r # q
    <3>1. SUFFICES ASSUME NEW s, s = ChildrenOf(r)
                   PROVE  IsList(cptr', parent', optr', r, s)
      BY <1>2, <1>6, <2>3
    <3>2. r \in InUse /\ r \in Proc
      BY <1>2, <2>3
    <3>3. IsList(cptr, parent, optr, r, s)
      BY <3>1, <3>2 DEF Listed
    <3>4. \A i \in 1..Len(s) : parent'[s[i]] = parent[s[i]] /\ optr'[s[i]] = optr[s[i]]
      BY <1>5, <3>1, <3>2
    <3>5. cptr'[r] = cptr[r]
      BY <1>1, <2>3, <3>2
    <3> QED BY <3>3, <3>4, <3>5, ListKept
  <2> QED BY <2>1, <2>2, <2>3
<1>8. \A r \in Proc \ InUse' : new[r] = << >>
  BY <1>2, <1>4, <1>6
<1>9. ASSUME NEW r \in Proc, NEW c \in Proc, parent'[c] = r PROVE c \in Range(new[r])
  <2>1. CASE c = p
    <3>1. r = q /\ new[q] = <<p>> \o ChildrenOf(q)
      BY <1>1, <1>6, <1>9, <2>1
    <3>2. p \in Range(<<p>> \o ChildrenOf(q))
      BY <1>4, ConsElements
    <3> QED BY <2>1, <3>1, <3>2
  <2>2. CASE c # p
    <3>1. c \in Range(ChildrenOf(r))
      BY <1>1, <1>9, <2>2 DEF Listed
    <3>2. CASE r = q
      <4>1. c \in Range(<<p>> \o ChildrenOf(q))
        BY <1>4, <3>1, <3>2, ConsElements
      <4> QED BY <1>6, <3>2, <4>1
    <3>3. CASE r # q
      BY <1>6, <3>1, <3>3
    <3> QED BY <3>2, <3>3
  <2> QED BY <2>1, <2>2
<1>10. Listed' /\ \A r \in Proc : ChildrenOf(r)' = new[r]
  BY <1>7, <1>8, <1>9, ListsNext
<1>11. T!Born(p, q)
  <2>1. p # initproc /\ \A r \in Proc : p \notin Range(ChildrenOf(r))
    BY <1>1, <1>5
  <2>2. ChildrenOf(p) = << >>
    BY <1>2, <1>4
  <2>3. q = initproc \/ \E r \in Proc : q \in Range(ChildrenOf(r))
    <3>1. q # initproc => parent[q] # NULL /\ parent[q] \in Proc
      BY <1>2 DEF LInv, PointersAgree, Lives, LinksType
    <3> QED BY <3>1 DEF Listed
  <2>4. \A r \in Proc : ChildrenOf(r)' = IF r = q THEN <<p>> \o ChildrenOf(q) ELSE ChildrenOf(r)
    BY <1>6, <1>10
  <2>5. [r \in Proc |-> ChildrenOf(r)]' =
          [[r \in Proc |-> ChildrenOf(r)] EXCEPT ![q] = <<p>> \o [r \in Proc |-> ChildrenOf(r)][q]]
    BY <2>4
  <2> DEFINE C == [r \in Proc |-> ChildrenOf(r)]
  <2>6. \A r \in Proc : C[r] = ChildrenOf(r)
    OBVIOUS
  <2>7. C' = [C EXCEPT ![q] = <<p>> \o C[q]]
    BY <2>5
  <2>8. T!Born(p, q) <=> /\ p # initproc /\ (\A r \in Proc : p \notin Range(C[r])) /\ C[p] = << >>
                         /\ ~(q # initproc /\ \A r \in Proc : q \notin Range(C[r])) /\ q # p
                         /\ C' = [C EXCEPT ![q] = <<p>> \o C[q]]
    BY DEF T!Born, T!Unborn, T!Range, Range
  <2> HIDE DEF C
  <2> QED BY <1>1, <2>1, <2>2, <2>3, <2>6, <2>7, <2>8
<1> QED BY <1>10, <1>11

\* One turn of do_exit's loop: an adoption.
LEMMA ReparentTree ==
    ASSUME LInv, LInv', Listed, Reparent
    PROVE  Listed' /\ T!Adopted(dying)
<1> USE LinksAssumption DEF Pointer
<1>1. /\ dying \in Proc /\ cptr[dying] # NULL
      /\ state' = state /\ dying # initproc /\ dying \in InUse /\ initproc \in InUse
  BY DEF Reparent, LInv, LinksType, PointersAgree, Lives, InUse
<1>2. SUFFICES ASSUME NEW d \in Proc, d = dying, NEW p \in Proc, p = cptr[d]
               PROVE  Listed' /\ T!Adopted(d)
  BY <1>1 DEF LInv, LinksType
<1>3. \A r \in Proc : /\ parent'[r] = IF r = p THEN initproc ELSE parent[r]
                      /\ optr'[r] = IF r = p THEN cptr[initproc] ELSE optr[r]
                      /\ cptr'[r] = IF r = initproc THEN p ELSE IF r = d THEN optr[p] ELSE cptr[r]
  BY <1>2 DEF Reparent, LInv, LinksType
<1>4. InUse' = InUse /\ InUse \subseteq Proc
  BY <1>1 DEF InUse
<1>5. /\ \A r \in Proc : ChildrenOf(r) \in Seq(Proc) /\ IsInjective(ChildrenOf(r))
      /\ \A r \in Proc \ InUse : ChildrenOf(r) = << >>
      /\ \A r \in Proc : \A i \in 1..Len(ChildrenOf(r)) :
            parent[ChildrenOf(r)[i]] = r /\ ChildrenOf(r)[i] \in InUse \ {initproc}
  BY OnLists
<1>6. PICK s \in Seq(Proc) : s = ChildrenOf(d)
  BY <1>5
<1>7. /\ IsList(cptr, parent, optr, d, s) /\ s # << >> /\ s[1] = p /\ parent[p] = d
      /\ 1 \in DOMAIN s /\ IsInjective(s)
  <2>1. IsList(cptr, parent, optr, d, s)
    BY <1>1, <1>2, <1>6 DEF Listed
  <2>2. s # << >> /\ s[1] = p
    BY <1>2, <2>1 DEF IsList, FirstOf
  <2>3. 1 \in 1..Len(s) /\ 1 \in DOMAIN s
    BY <2>2
  <2> QED BY <2>1, <2>2, <2>3 DEF IsList
<1>8. ASSUME NEW r \in Proc, r # d, NEW u, u = ChildrenOf(r)
      PROVE  /\ p \notin Range(u)
             /\ \A i \in 1..Len(u) : parent'[u[i]] = parent[u[i]] /\ optr'[u[i]] = optr[u[i]]
  <2>1. u \in Seq(Proc) /\ \A i \in 1..Len(u) : u[i] \in Proc /\ u[i] # p
    BY <1>4, <1>5, <1>7, <1>8
  <2> QED BY <1>3, <2>1 DEF Range
<1>9. SUFFICES ASSUME NEW new,
                      new = [r \in Proc |-> IF r = initproc THEN <<p>> \o ChildrenOf(initproc)
                                            ELSE IF r = d THEN RemoveAt(s, 1) ELSE ChildrenOf(r)]
               PROVE  Listed' /\ T!Adopted(d)
  OBVIOUS
<1>10. ASSUME NEW r \in InUse' PROVE IsList(cptr', parent', optr', r, new[r])
  <2>1. CASE r = initproc
    <3>1. SUFFICES ASSUME NEW u, u = ChildrenOf(initproc)
                   PROVE  IsList(cptr', parent', optr', initproc, <<p>> \o u)
      BY <1>9, <2>1
    <3>2. IsList(cptr, parent, optr, initproc, u)
      BY <1>1, <3>1 DEF Listed
    <3>3. p \notin Range(u) /\ \A i \in 1..Len(u) : parent'[u[i]] = parent[u[i]] /\ optr'[u[i]] = optr[u[i]]
      BY <1>1, <1>2, <1>8, <3>1
    <3>4. cptr'[initproc] = p /\ parent'[p] = initproc /\ optr'[p] = cptr[initproc]
      BY <1>3
    <3> QED BY <3>2, <3>3, <3>4, ListGrows
  <2>2. CASE r = d
    <3>1. new[r] = RemoveAt(s, 1)
      BY <1>1, <1>2, <1>9, <2>2
    <3>2. cptr'[d] = IF 1 = 1 THEN optr[s[1]] ELSE cptr[d]
      BY <1>1, <1>2, <1>3, <1>7
    <3>3. \A i \in 1..Len(s) : i # 1 => s[i] \in Proc /\ s[i] # p
      <4>1. DOMAIN s = 1..Len(s) /\ \A i \in 1..Len(s) : s[i] \in Proc
        BY ElementOfSeq, LenProperties
      <4> QED BY <1>7, <4>1 DEF IsInjective
    <3>4. /\ \A i \in 1..Len(s) : i # 1 => parent'[s[i]] = parent[s[i]]
          /\ \A i \in 1..Len(s) : i # 1 /\ i # 1 - 1 => optr'[s[i]] = optr[s[i]]
          /\ 1 # 1 => optr'[s[1-1]] = optr[s[1]]
      BY <1>3, <3>3
    <3>5. IsList(cptr', parent', optr', d, RemoveAt(s, 1))
      BY <1>7, <3>2, <3>4, ListShrinks
    <3> QED BY <2>2, <3>1, <3>5
  <2>3. CASE r # initproc /\ r # d
    <3>1. r \in InUse /\ r \in Proc
      BY <1>4
    <3>2. SUFFICES ASSUME NEW u, u = ChildrenOf(r)
                   PROVE  IsList(cptr', parent', optr', r, u)
      BY <1>9, <2>3, <3>1
    <3>3. IsList(cptr, parent, optr, r, u)
      BY <3>1, <3>2 DEF Listed
    <3>4. \A i \in 1..Len(u) : parent'[u[i]] = parent[u[i]] /\ optr'[u[i]] = optr[u[i]]
      BY <1>8, <2>3, <3>1, <3>2
    <3>5. cptr'[r] = cptr[r]
      BY <1>3, <2>3, <3>1
    <3> QED BY <3>3, <3>4, <3>5, ListKept
  <2> QED BY <2>1, <2>2, <2>3
<1>11. \A r \in Proc \ InUse' : new[r] = << >>
  BY <1>1, <1>2, <1>4, <1>5, <1>9
<1>12. Range(RemoveAt(s, 1)) = Range(s) \ {p}
  BY <1>7, RemoveAtElements
<1>13. ASSUME NEW r \in Proc, NEW c \in Proc, parent'[c] = r PROVE c \in Range(new[r])
  <2>1. Range(<<p>> \o ChildrenOf(initproc)) = Range(ChildrenOf(initproc)) \union {p}
    BY <1>5, ConsElements
  <2>2. CASE c = p
    <3>1. r = initproc
      BY <1>3, <1>13, <2>2
    <3> QED BY <1>9, <2>1, <2>2, <3>1
  <2>3. CASE c # p
    <3>1. c \in Range(ChildrenOf(r))
      BY <1>3, <1>13, <2>3 DEF Listed
    <3>2. CASE r = initproc
      BY <1>9, <2>1, <3>1, <3>2
    <3>3. CASE r = d /\ r # initproc
      BY <1>6, <1>9, <1>12, <2>3, <3>1, <3>3
    <3>4. CASE r # d /\ r # initproc
      BY <1>9, <3>1, <3>4
    <3> QED BY <3>2, <3>3, <3>4
  <2> QED BY <2>2, <2>3
<1>14. Listed' /\ \A r \in Proc : ChildrenOf(r)' = new[r]
  BY <1>10, <1>11, <1>13, ListsNext
<1>15. T!Adopted(d)
  <2> DEFINE C == [r \in Proc |-> ChildrenOf(r)]
  <2>1. RemoveAt(s, 1) = Tail(s)
    BY <1>7, RemoveAtFirst
  <2>2. \A r \in Proc : ChildrenOf(r)' = IF r = initproc THEN <<p>> \o ChildrenOf(initproc)
                                         ELSE IF r = d THEN Tail(s) ELSE ChildrenOf(r)
    BY <1>9, <1>14, <2>1
  <2>3. \A r \in Proc : C[r] = ChildrenOf(r)
    OBVIOUS
  <2>4. Head(C[d]) = p /\ C[d] # << >> /\ C[d] = s
    BY <1>6, <1>7, <2>3
  <2>5. C' = [r \in Proc |-> ChildrenOf(r)']
    OBVIOUS
  <2>6. C' = [C EXCEPT ![d] = Tail(C[d]), ![initproc] = <<Head(C[d])>> \o C[initproc]]
    <3>1. \A r \in Proc : ChildrenOf(r)' = IF r = initproc THEN <<Head(C[d])>> \o C[initproc]
                                           ELSE IF r = d THEN Tail(C[d]) ELSE C[r]
      BY <2>2, <2>3, <2>4
    <3>2. initproc # d
      BY <1>1, <1>2
    <3>3. C \in [Proc -> {C[r] : r \in Proc}]
      OBVIOUS
    <3> HIDE DEF C
    <3> QED BY <2>5, <3>1, <3>2, <3>3
  <2>7. T!Adopted(d) <=> /\ d # initproc /\ C[d] # << >>
                         /\ C' = [C EXCEPT ![d] = Tail(C[d]), ![initproc] = <<Head(C[d])>> \o C[initproc]]
    <3>1. initproc # d => [C EXCEPT ![d] = Tail(C[d])][initproc] = C[initproc]
      OBVIOUS
    <3> QED BY <1>1, <1>2, <3>1 DEF T!Adopted
  <2> HIDE DEF C
  <2> QED BY <1>1, <1>2, <2>4, <2>6, <2>7
<1> QED BY <1>14, <1>15

\* do_wait: a departure.
LEMMA ReapTree ==
    ASSUME LInv, LInv', Listed, NEW p \in Proc, Reap(p)
    PROVE  Listed' /\ \E q \in Proc : T!Gone(p, q)
<1> USE LinksAssumption DEF Pointer
<1>1. /\ dying = NULL /\ state[p] = "PROC_ZOMBIE" /\ parent[p] \in Proc /\ p # initproc
      /\ state' = [state EXCEPT ![p] = "PROC_FREE"]
  BY DEF Reap, LInv, LinksType, PointersAgree, Lives, InUse
<1>2. SUFFICES ASSUME NEW q \in Proc, q = parent[p], NEW y \in Pointer, y = yptr[p]
               PROVE  Listed' /\ T!Gone(p, q)
  BY <1>1 DEF LInv, LinksType
<1>3. \A r \in Proc : /\ parent'[r] = IF r = p THEN NULL ELSE parent[r]
                      /\ optr'[r] = IF r = y THEN optr[p] ELSE optr[r]
                      /\ cptr'[r] = IF r = q /\ y = NULL THEN optr[p] ELSE cptr[r]
  BY <1>2 DEF Reap, remove_links, Set, LInv, LinksType
<1>4. InUse' = InUse \ {p} /\ p \in InUse /\ q \in InUse /\ InUse \subseteq Proc /\ state[q] = "alive" /\ p # q
  BY <1>1, <1>2 DEF InUse, LInv, LinksType, Reap
<1>5. /\ \A r \in Proc : ChildrenOf(r) \in Seq(Proc) /\ IsInjective(ChildrenOf(r))
      /\ \A r \in Proc \ InUse : ChildrenOf(r) = << >>
      /\ \A r \in Proc : \A i \in 1..Len(ChildrenOf(r)) :
            parent[ChildrenOf(r)[i]] = r /\ ChildrenOf(r)[i] \in InUse \ {initproc}
      /\ \A r \in Proc : cptr[r] = NULL => ChildrenOf(r) = << >>
  BY OnLists
<1>6. ChildrenOf(p) = << >>
  BY <1>1, <1>5 DEF LInv, PointersAgree, Parented
<1>7. PICK s \in Seq(Proc) : s = ChildrenOf(q)
  BY <1>5
<1>8. IsList(cptr, parent, optr, q, s) /\ IsInjective(s) /\ DOMAIN s = 1..Len(s) /\ Len(s) \in Nat
  BY <1>4, <1>7, LenProperties DEF Listed, IsList
<1>9. PICK k \in DOMAIN s : s[k] = p
  <2>1. p \in Range(s)
    BY <1>2, <1>7 DEF Listed
  <2> QED BY <2>1 DEF Range
<1>10. /\ k = 1 => y = NULL
       /\ k # 1 => y = s[k-1] /\ k - 1 \in 1..Len(s) /\ y # NULL
  <2>1. ASSUME k = 1 PROVE y = NULL
    <3>1. cptr[q] = p
      <4>1. s # << >> /\ s[1] = p
        BY <1>8, <1>9, <2>1
      <4> QED BY <1>8, <4>1 DEF IsList, FirstOf
    <3> QED BY <1>1, <1>2, <1>4, <3>1 DEF LInv, PointersAgree, FirstChild
  <2>2. ASSUME k # 1 PROVE y = s[k-1] /\ k - 1 \in 1..Len(s) /\ y # NULL
    <3>1. k - 1 \in 1..Len(s) /\ k - 1 # Len(s) /\ (k - 1) + 1 = k
      BY <1>8, <2>2
    <3>2. optr[s[k-1]] = p /\ s[k-1] \in InUse /\ s[k-1] \in Proc
      <4>1. optr[s[k-1]] = s[(k-1)+1]
        BY <1>8, <3>1 DEF IsList
      <4>2. s[k-1] \in InUse
        BY <1>5, <1>7, <3>1
      <4> QED BY <1>4, <1>9, <3>1, <4>1, <4>2
    <3>3. yptr[optr[s[k-1]]] = s[k-1]
      BY <3>2 DEF LInv, PointersAgree, Siblings
    <3> QED BY <1>2, <3>1, <3>2, <3>3
  <2> QED BY <2>1, <2>2
<1>11. y # NULL => y \in Proc /\ parent[y] = q
  BY <1>5, <1>7, <1>8, <1>10
<1>12. SUFFICES ASSUME NEW new,
                       new = [r \in Proc |-> IF r = q THEN RemoveAt(s, k) ELSE ChildrenOf(r)]
                PROVE  Listed' /\ T!Gone(p, q)
  OBVIOUS
<1>13. ASSUME NEW r \in InUse' PROVE IsList(cptr', parent', optr', r, new[r])
  <2>1. CASE r = q
    <3>1. new[r] = RemoveAt(s, k)
      BY <1>12, <2>1
    <3>2. cptr'[q] = IF k = 1 THEN optr[s[k]] ELSE cptr[q]
      BY <1>3, <1>9, <1>10
    <3>3. k # 1 => optr'[s[k-1]] = optr[s[k]]
      BY <1>3, <1>9, <1>10, <1>11
    <3>4. \A i \in 1..Len(s) : /\ s[i] \in Proc
                               /\ i # k => s[i] # p
                               /\ i # k - 1 => s[i] # y
      <4>1. \A i \in 1..Len(s) : s[i] \in Proc
        BY ElementOfSeq
      <4>2. \A i \in 1..Len(s) : i # k => s[i] # p
        BY <1>8, <1>9 DEF IsInjective
      <4>3. ASSUME NEW i \in 1..Len(s), i # k - 1 PROVE s[i] # y
        BY <1>8, <1>10, <4>1, <4>3 DEF IsInjective
      <4> QED BY <4>1, <4>2, <4>3
    <3>5. \A i \in 1..Len(s) : i # k => parent'[s[i]] = parent[s[i]]
      BY <1>3, <3>4
    <3>6. \A i \in 1..Len(s) : i # k /\ i # k - 1 => optr'[s[i]] = optr[s[i]]
      BY <1>3, <3>4
    <3>7. IsList(cptr', parent', optr', q, RemoveAt(s, k))
      BY <1>8, <3>2, <3>3, <3>5, <3>6, ListShrinks
    <3> QED BY <2>1, <3>1, <3>7
  <2>2. CASE r # q
    <3>1. r \in InUse /\ r \in Proc
      BY <1>4
    <3>2. SUFFICES ASSUME NEW u, u = ChildrenOf(r)
                   PROVE  IsList(cptr', parent', optr', r, u)
      BY <1>12, <2>2, <3>1
    <3>3. IsList(cptr, parent, optr, r, u)
      BY <3>1, <3>2 DEF Listed
    <3>4. \A i \in 1..Len(u) : u[i] \in Proc /\ parent[u[i]] = r
      BY <1>4, <1>5, <3>1, <3>2
    <3>5. \A i \in 1..Len(u) : parent'[u[i]] = parent[u[i]] /\ optr'[u[i]] = optr[u[i]]
      BY <1>2, <1>3, <1>11, <2>2, <3>4
    <3>6. cptr'[r] = cptr[r]
      BY <1>3, <2>2, <3>1
    <3> QED BY <3>3, <3>5, <3>6, ListKept
  <2> QED BY <2>1, <2>2
<1>14. \A r \in Proc \ InUse' : new[r] = << >>
  BY <1>4, <1>5, <1>6, <1>12
<1>15. ASSUME NEW r \in Proc, NEW c \in Proc, parent'[c] = r PROVE c \in Range(new[r])
  <2>1. Range(RemoveAt(s, k)) = Range(s) \ {p}
    BY <1>8, <1>9, RemoveAtElements
  <2>2. c # p /\ c \in Range(ChildrenOf(r))
    BY <1>3, <1>15 DEF Listed
  <2> QED BY <1>7, <1>12, <2>1, <2>2
<1>16. Listed' /\ \A r \in Proc : ChildrenOf(r)' = new[r]
  BY <1>13, <1>14, <1>15, ListsNext
<1>17. T!Gone(p, q)
  <2> DEFINE C == [r \in Proc |-> ChildrenOf(r)]
  <2>1. \A r \in Proc : C[r] = ChildrenOf(r)
    OBVIOUS
  <2>2. C' = [C EXCEPT ![q] = RemoveAt(C[q], k)]
    BY <1>7, <1>12, <1>16
  <2>3. T!Gone(p, q) <=> /\ C[p] = << >>
                         /\ \E i \in DOMAIN C[q] : C[q][i] = p /\ C' = [C EXCEPT ![q] = RemoveAt(C[q], i)]
    BY DEF T!Gone, T!RemoveAt, RemoveAt
  <2> HIDE DEF C
  <2> QED BY <1>6, <1>7, <1>9, <2>1, <2>2, <2>3
<1> QED BY <1>16, <1>17

\* The rest of do_exit leaves the lists as they are.
LEMMA SameTree ==
    ASSUME Listed, UNCHANGED <<parent, cptr, optr>>, InUse' = InUse
    PROVE  Listed' /\ UNCHANGED [q \in Proc |-> ChildrenOf(q)]
<1>1. \A q \in Proc : ChildrenOf(q)' = ChildrenOf(q)
  BY DEF ChildrenOf, Walk, InUse
<1>2. InUse \subseteq Proc
  BY DEF InUse
<1>3. Listed'
  BY <1>1, <1>2 DEF Listed
<1> QED BY <1>1, <1>3

\* Nobody but initproc is in use, and it has no children.
LEMMA TreeStart == ASSUME LinksInit PROVE Listed /\ T!Init
<1> USE LinksAssumption DEF Pointer
<1>1. LInv /\ InUse = {initproc} /\ cptr[initproc] = NULL /\ \A p \in Proc : parent[p] = NULL
  BY LinksStart DEF LinksInit, InUse
<1>2. IsList(cptr, parent, optr, initproc, << >>)
  BY <1>1 DEF IsList, FirstOf, IsInjective
<1>3. ChildrenOf(initproc) = << >>
  BY <1>1, <1>2, ListWalked DEF ChildrenOf, Walk
<1>4. \A p \in Proc : ChildrenOf(p) = << >>
  BY <1>1, <1>3 DEF ChildrenOf, InUse
<1>5. Listed
  BY <1>1, <1>2, <1>3 DEF Listed
<1> QED BY <1>4, <1>5 DEF T!Init

\* Every step is one of the tree, or leaves it as it is.
LEMMA TreeStep ==
    ASSUME LInv, Listed, [LinksNext]_linkvars
    PROVE  Listed' /\ [T!Next]_([q \in Proc |-> ChildrenOf(q)])
<1>1. LInv'
  BY LinksStep
<1>2. ASSUME NEW p \in Proc, NEW q \in Proc, Fork(p, q)
      PROVE  Listed' /\ T!Next
  BY <1>1, <1>2, ForkTree DEF T!Next
<1>3. ASSUME NEW q \in Proc, Exit(q)
      PROVE  Listed' /\ UNCHANGED [r \in Proc |-> ChildrenOf(r)]
  <2>1. UNCHANGED <<parent, cptr, optr>>
    BY <1>3 DEF Exit, links
  <2>2. InUse' = InUse
    BY <1>3 DEF Exit, InUse, LInv, LinksType
  <2> QED BY <2>1, <2>2, SameTree
<1>4. ASSUME NEW p \in Proc, Reap(p) PROVE Listed' /\ T!Next
  BY <1>1, <1>4, ReapTree DEF T!Next
<1>5. ASSUME Reparent PROVE Listed' /\ T!Next
  <2>1. dying \in Proc
    BY <1>5, LinksAssumption DEF Reparent, LInv, LinksType, Pointer
  <2> QED BY <1>1, <1>5, <2>1, ReparentTree DEF T!Next
<1>6. ASSUME ExitDone \/ UNCHANGED linkvars
      PROVE  Listed' /\ UNCHANGED [r \in Proc |-> ChildrenOf(r)]
  <2>1. UNCHANGED <<parent, cptr, optr>> /\ state' = state
    BY <1>6 DEF ExitDone, links, linkvars
  <2>2. InUse' = InUse
    BY <2>1 DEF InUse
  <2> QED BY <2>1, <2>2, SameTree
<1> QED BY <1>2, <1>3, <1>4, <1>5, <1>6 DEF LinksNext

\* The lists, for the behaviours.
LEMMA TreeInvariance == LinksSpec => [](LInv /\ Listed)
<1>1. LinksInit => LInv /\ Listed
  BY LinksStart, TreeStart
<1>2. LInv /\ Listed /\ [LinksNext]_linkvars => (LInv /\ Listed)'
  BY LinksStep, TreeStep
<1> QED BY <1>1, <1>2, PTL DEF LinksSpec

\* The lists and the pointers of neighbours make up LinksAgree.
LEMMA ListedAgree == ASSUME LInv, Listed PROVE LinksAgree
<1> USE LinksAssumption DEF Pointer
<1>1. /\ \A q \in Proc : ChildrenOf(q) \in Seq(Proc) /\ IsInjective(ChildrenOf(q))
      /\ \A q \in Proc \ InUse : ChildrenOf(q) = << >>
      /\ \A q \in Proc : \A i \in 1..Len(ChildrenOf(q)) :
            parent[ChildrenOf(q)[i]] = q /\ ChildrenOf(q)[i] \in InUse \ {initproc}
  BY OnLists
<1>2. Mirrored
  <2> SUFFICES ASSUME NEW q \in Proc, NEW s, s = ChildrenOf(q), NEW i \in DOMAIN s
               PROVE  /\ state[s[i]] # "PROC_FREE" /\ parent[s[i]] = q
                      /\ \/ yptr[s[i]] = IF i = 1 THEN NULL ELSE s[i-1]
                         \/ i = 1 /\ q = dying
    BY DEF Mirrored
  <2>1. s \in Seq(Proc) /\ i \in 1..Len(s) /\ Len(s) \in Nat
    BY <1>1, LenProperties
  <2>2. parent[s[i]] = q /\ s[i] \in InUse \ {initproc} /\ \A j \in 1..Len(s) : s[j] \in InUse /\ s[j] \in Proc
    BY <1>1, <2>1 DEF InUse
  <2>3. q \in InUse
    BY <1>1, <2>1
  <2>4. /\ cptr[q] = FirstOf(s)
        /\ \A j \in 1..Len(s) : optr[s[j]] = IF j = Len(s) THEN NULL ELSE s[j+1]
    BY <2>3 DEF Listed, IsList
  <2>5. CASE i = 1
    <3>1. cptr[q] = s[i] /\ s[i] # NULL
      BY <2>1, <2>2, <2>4, <2>5 DEF FirstOf
    <3> QED BY <2>2, <2>3, <2>5, <3>1 DEF LInv, PointersAgree, FirstChild, InUse
  <2>6. CASE i # 1
    <3>1. i - 1 \in 1..Len(s) /\ i - 1 # Len(s) /\ (i - 1) + 1 = i
      BY <2>1, <2>6
    <3>2. optr[s[i-1]] = s[i] /\ s[i-1] \in InUse /\ s[i] # NULL
      BY <2>2, <2>4, <3>1
    <3>3. yptr[optr[s[i-1]]] = s[i-1]
      BY <3>2 DEF LInv, PointersAgree, Siblings
    <3> QED BY <2>2, <2>6, <3>2, <3>3 DEF InUse
  <2> QED BY <2>5, <2>6
<1>3. NobodyLost
  <2> SUFFICES ASSUME NEW p \in Proc
               PROVE  /\ state[p] = "PROC_ZOMBIE" /\ p # dying => cptr[p] = NULL
                      /\ state[p] # "PROC_FREE" /\ p # initproc =>
                            \E q \in Proc : p \in Range(ChildrenOf(q)) /\ (state[q] = "alive" \/ q = dying)
    BY DEF NobodyLost
  <2>1. state[p] # "PROC_FREE" /\ p # initproc => parent[p] \in Proc /\ parent[p] # NULL
    BY DEF LInv, LinksType, PointersAgree, Lives, InUse
  <2>2. state[p] # "PROC_FREE" /\ p # initproc => p \in Range(ChildrenOf(parent[p]))
    BY <2>1 DEF Listed
  <2> QED BY <2>1, <2>2 DEF LInv, PointersAgree, Parented
<1>4. nr_process = 1 + Cardinality({p \in Proc : state[p] # "PROC_FREE"})
  BY DEF LInv, Counted, InUse
<1> QED BY <1>2, <1>3, <1>4 DEF LinksAgree

\* What do_wait finds on its walk is the list of the children, for any number of
\* processes and at every step of fork, exit and wait: the walk comes to an end, each
\* child is on it once, the pointers of set_links and remove_links agree with it, and
\* no process in use is on nobody's list.
THEOREM WalksAgree == LinksSpec => []LinksAgree
<1>1. LInv /\ Listed => LinksAgree
  BY ListedAgree
<1> QED BY <1>1, TreeInvariance, PTL

\* What set_links, remove_links and do_exit do to four pointers a process is a birth,
\* an adoption or a departure in the tree of processes: Links implements Tree.
THEOREM LinksImplementTree == LinksSpec => ImplementsTree
<1>1. LinksInit => T!Init
  BY TreeStart
<1>2. LInv /\ Listed /\ [LinksNext]_linkvars => [T!Next]_([q \in Proc |-> ChildrenOf(q)])
  BY TreeStep
<1> QED BY <1>1, <1>2, TreeInvariance, PTL DEF LinksSpec, ImplementsTree, T!Spec
=============================================================================
