----------------------------- MODULE VmmProofs -----------------------------
(***************************************************************************)
(* Proofs about module Vmm, for every finite set of processes and every    *)
(* memory, TLB and program its assumption admits: which frame is whose,    *)
(* what the TLB may hold, and whose pages a step may write.                *)
(* A function of the memory manager works on one address space; others are *)
(* the frames of everything else.  Sound(s, others) says that each frame   *)
(* is free, in the address space, or one of the others; a lemma for each   *)
(* function says what it leaves (Kept, Left) and what it moves.  Lemma     *)
(* Replace puts the one process that has changed back among the rest.      *)
(***************************************************************************)
EXTENDS Vmm, SeqLemmas, FiniteSetTheorems, TLAPS

-----------------------------------------------------------------------------
(* Types.                                                                  *)

Frames == SUBSET Frame
Map == {NoMap} \cup [frame : Frame, w : BOOLEAN]
Table == 0..PDX(NVA - 1)
Area == {vma \in [start : Va, end : 0..NVA, flags : SUBSET VmFlag] : vma.start < vma.end}
Tabs == [Table -> Frame \cup {None}]
Ptes == [Va -> Map]
MM == [pgdir : Frame \cup {None}, mmap : Seq(Area), pt : Tabs, pte : Ptes]
Refs == [Frame -> Int]
Pages == [Frame -> Content]
Objects == [Kind -> Int]
Slot == 0..(NTLB - 1)
Error == {"", "E_NO_MEM", "E_INVAL", "E_INVAL_ELF", "E_IO", "assert", "unhandled pgfault"}
Entry == [vpn2 : Int, lo : Map \X Map]
Tlb == [Slot -> Entry]
Machine ==
    [free : Frames, ref : Refs, page : Pages, kmem : Objects, tlb : Tlb, index : Slot,
     err : Error, kleft : Nat, rleft : Nat, mm : MM, kstack : Frames]

-----------------------------------------------------------------------------
(* Arithmetic.                                                             *)

\* What division gives.
LEMMA Divide ==
    ASSUME NEW a \in Nat, NEW n \in Nat \ {0}
    PROVE  a = n * (a \div n) + (a % n) /\ a % n \in 0..(n - 1) /\ a \div n \in Nat
OBVIOUS

\* A multiple of an even number is even, so the last entry pair is complete.
LEMMA EvenSpace == ASSUME VmmAssumption PROVE NVA % 2 = 0
<1> DEFINE q == NVA \div PTSIZE
           h == PTSIZE \div 2
<1>0. NVA \in Nat /\ PTSIZE \in Nat \ {0} /\ PTSIZE % 2 = 0 /\ NVA % PTSIZE = 0
  BY DEF VmmAssumption
<1>1. NVA = PTSIZE * q /\ q \in Nat
  BY <1>0, Divide
<1>2. PTSIZE = 2 * h /\ h \in Nat
  BY <1>0
<1> HIDE DEF q, h
<1> DEFINE z == h * q
<1>3. NVA = 2 * z /\ z \in Nat
  BY <1>1, <1>2
<1> HIDE DEF z
<1> QED BY <1>3

\* The page table of a page is one of the directory's.
LEMMA TableOf ==
    ASSUME VmmAssumption, NEW la \in Va
    PROVE  PDX(la) \in Table
<1>1. NVA - 1 \in Nat /\ la \in Nat /\ la <= NVA - 1 /\ PTSIZE \in Nat \ {0}
  BY DEF VmmAssumption, Va
<1>2. la \div PTSIZE <= (NVA - 1) \div PTSIZE /\ la \div PTSIZE \in Nat
      /\ (NVA - 1) \div PTSIZE \in Nat
  BY <1>1
<1> QED BY <1>2 DEF PDX, Table

\* Tables are in the order of their pages.
LEMMA TableOrder ==
    ASSUME VmmAssumption, NEW a \in Nat, NEW b \in Nat, a <= b
    PROVE  PDX(a) <= PDX(b) /\ PDX(a) \in Nat /\ PDX(b) \in Nat
BY DEF VmmAssumption, PDX

\* Sums of naturals.
LEMMA NatSum == \A a, b \in Nat : a + b \in Nat
OBVIOUS

-----------------------------------------------------------------------------
(* What an operation does to the machine.                                  *)

\* The frames of a page directory with its tables, and those of its pages.
TablesOf(mm) == {mm.pt[i] : i \in Table} \ {None}
PagesOf(mm) == {mm.pte[la].frame : la \in Va} \ {None}
Parts(mm) == ({mm.pgdir} \ {None}) \cup TablesOf(mm) \cup PagesOf(mm)

\* No frame has two places in an address space.
Apart(mm) ==
    /\ \A i, j \in Table : i # j /\ mm.pt[i] # None => mm.pt[i] # mm.pt[j]
    /\ \A la, lb \in Va : la # lb /\ mm.pte[la] # NoMap => mm.pte[la].frame # mm.pte[lb].frame
    /\ \A i \in Table, la \in Va : mm.pt[i] # None => mm.pt[i] # mm.pte[la].frame
    /\ mm.pgdir # None => mm.pgdir \notin TablesOf(mm) \cup PagesOf(mm)

\* Pages have a table and lie in an area; tables have an area.
Covered(mm, la) == \E n \in DOMAIN mm.mmap : Holds(mm.mmap[n], la)
Placed(mm) ==
    /\ \A la \in Va : mm.pte[la] # NoMap => mm.pt[PDX(la)] # None /\ Covered(mm, la)
    /\ \A i \in Table : mm.pt[i] # None =>
          \E n \in DOMAIN mm.mmap : i \in PDX(mm.mmap[n].start)..PDX(mm.mmap[n].end - 1)

\* Every frame is free, in the address space s works on, or one of the others'.
Sound(s, others) ==
    /\ s \in Machine /\ others \in Frames
    /\ s.free \cap others = {} /\ s.free \cap Parts(s.mm) = {} /\ others \cap Parts(s.mm) = {}
    /\ Frame = s.free \cup others \cup Parts(s.mm)
    /\ \A f \in s.free : s.ref[f] = 0
    /\ \A la \in Va : s.mm.pte[la] # NoMap => s.ref[s.mm.pte[la].frame] = 1
    /\ Apart(s.mm)
    /\ Placed(s.mm)

\* The others' frames are left alone, the TLB is left alone or flushed, and each
\* area has its object.
Kept(s, t, others) ==
    /\ t.kstack = s.kstack /\ t.index = s.index /\ t.mm.pgdir = s.mm.pgdir
    /\ \A f \in others : t.ref[f] = s.ref[f] /\ t.page[f] = s.page[f]
    /\ t.tlb = NoTlb \/ (t.tlb = s.tlb /\ t.mm.pte = s.mm.pte)
    /\ \A k \in Kind \ {"vma"} : t.kmem[k] = s.kmem[k]
    /\ t.kmem["vma"] - Len(t.mm.mmap) = s.kmem["vma"] - Len(s.mm.mmap)

\* The types of the fields.
LEMMA Fields ==
    ASSUME NEW s \in Machine
    PROVE  /\ s.free \in Frames /\ s.ref \in Refs /\ s.page \in Pages /\ s.kmem \in Objects
           /\ s.tlb \in Tlb /\ s.index \in Slot /\ s.err \in Error
           /\ s.kleft \in Nat /\ s.rleft \in Nat /\ s.mm \in MM /\ s.kstack \in Frames
BY DEF Machine

\* The fields of an mm_struct.
LEMMA MMFields ==
    ASSUME NEW mm \in MM
    PROVE  /\ mm.pgdir \in Frame \cup {None} /\ mm.mmap \in Seq(Area)
           /\ mm.pt \in Tabs /\ mm.pte \in Ptes
BY DEF MM

\* Kept is transitive.
LEMMA KeptTwice ==
    ASSUME NEW s, NEW t, NEW u, NEW others, Kept(s, t, others), Kept(t, u, others)
    PROVE  Kept(s, u, others)
BY DEF Kept

\* Nothing of the others changes where nothing does.
LEMMA KeptSame ==
    ASSUME NEW s, NEW others
    PROVE  Kept(s, s, others)
BY DEF Kept

\* What keeps the frames of others keeps those of fewer.
LEMMA KeptFewer ==
    ASSUME NEW s, NEW t, NEW others, Kept(s, t, others), NEW fewer \in SUBSET others
    PROVE  Kept(s, t, fewer)
BY DEF Kept

\* A frame that is free.
LEMMA NextFree ==
    ASSUME NEW s \in Machine, s.free # {}
    PROVE  NextFrame(s) \in s.free /\ NextFrame(s) \in Frame /\ NextFrame(s) # None
<1>1. s.free \in SUBSET Nat /\ s.free \in SUBSET Frame
  BY Fields DEF Frames, Frame
<1>2. \E f \in s.free : \A g \in s.free : f <= g
  BY <1>1, LeastNatural
<1>3. NextFrame(s) \in s.free
  BY <1>2 DEF NextFrame
<1> QED BY <1>1, <1>3 DEF Frame, None

\* What free_pages does.
Freed(s, fs, t) ==
    /\ t \in Machine
    /\ t.free = s.free \cup fs /\ t.kmem = s.kmem /\ t.mm = s.mm /\ t.err = s.err
    /\ t.tlb = s.tlb /\ t.index = s.index /\ t.kstack = s.kstack
    /\ t.kleft = s.kleft /\ t.rleft = s.rleft
    /\ \A f \in Frame : /\ t.ref[f] = IF f \in fs THEN 0 ELSE s.ref[f]
                        /\ t.page[f] = IF f \in fs THEN "stale" ELSE s.page[f]

\* free_pages gives the frames back and touches nothing else.
LEMMA FreePages ==
    ASSUME NEW s \in Machine, NEW fs \in SUBSET Frame
    PROVE  Freed(s, fs, free_pages(s, fs))
<1> DEFINE t == free_pages(s, fs)
<1> DEFINE r == [f \in Frame |-> IF f \in fs THEN 0 ELSE s.ref[f]]
           p == [f \in Frame |-> IF f \in fs THEN "stale" ELSE s.page[f]]
<1>1. s.free \cup fs \in Frames /\ r \in Refs /\ p \in Pages
  BY Fields DEF Frames, Refs, Pages, Content
<1>2. t = [s EXCEPT !.free = s.free \cup fs, !.ref = r, !.page = p]
  BY DEF free_pages
<1>3. /\ \A f \in Frame : /\ r[f] = IF f \in fs THEN 0 ELSE s.ref[f]
                          /\ p[f] = IF f \in fs THEN "stale" ELSE s.page[f]
  OBVIOUS
<1> HIDE DEF r, p, t
<1>4. t \in Machine
  BY <1>1, <1>2 DEF Machine
<1>5. /\ t.free = s.free \cup fs /\ t.ref = r /\ t.page = p
      /\ t.kmem = s.kmem /\ t.mm = s.mm /\ t.err = s.err
      /\ t.tlb = s.tlb /\ t.index = s.index /\ t.kstack = s.kstack
      /\ t.kleft = s.kleft /\ t.rleft = s.rleft
  BY <1>2 DEF Machine
<1> QED BY <1>3, <1>4, <1>5 DEF Freed, t

\* Only err and the TLB may differ.
Alike(s, t) ==
    /\ t \in Machine
    /\ t.free = s.free /\ t.ref = s.ref /\ t.page = s.page /\ t.kmem = s.kmem /\ t.mm = s.mm
    /\ t.index = s.index /\ t.kstack = s.kstack /\ t.kleft = s.kleft /\ t.rleft = s.rleft

\* An error code leaves everything else.
LEMMA FailFields ==
    ASSUME NEW s \in Machine, NEW e \in Error
    PROVE  Alike(s, Fail(s, e)) /\ Fail(s, e).err = e /\ Fail(s, e).tlb = s.tlb
BY DEF Machine, Fail, Alike

\* A flush leaves everything but the TLB.
LEMMA Flush ==
    ASSUME VmmAssumption, NEW s \in Machine
    PROVE  /\ Alike(s, tlb_invalidate_all(s))
           /\ tlb_invalidate_all(s).tlb = NoTlb /\ tlb_invalidate_all(s).err = s.err
<1>1. NoTlb \in Tlb
  <2>1. NoEntry \in Entry
    BY DEF NoEntry, Entry, Map
  <2> QED BY <2>1 DEF NoTlb, Tlb, Slot
<1> QED BY <1>1 DEF Machine, tlb_invalidate_all, Alike

-----------------------------------------------------------------------------
(* Page tables.                                                            *)

\* A page in an area has its table among those of the area.
LEMMA CoveredTable ==
    ASSUME VmmAssumption, NEW mm \in MM, NEW la \in Va, Covered(mm, la)
    PROVE  /\ PDX(la) \in Table
           /\ \E n \in DOMAIN mm.mmap :
                 PDX(la) \in PDX(mm.mmap[n].start)..PDX(mm.mmap[n].end - 1)
<1>1. PICK n \in DOMAIN mm.mmap : Holds(mm.mmap[n], la)
  BY DEF Covered
<1>2. mm.mmap[n] \in Area
  BY MMFields, ElementOfSeq, LenProperties
<1>3. /\ mm.mmap[n].start \in Nat /\ mm.mmap[n].end - 1 \in Nat
      /\ mm.mmap[n].start <= la /\ la <= mm.mmap[n].end - 1 /\ la \in Nat
  BY <1>1, <1>2 DEF Area, Holds, Va, VmmAssumption
<1>4. PDX(la) \in PDX(mm.mmap[n].start)..PDX(mm.mmap[n].end - 1)
  <2>1. PDX(mm.mmap[n].start) <= PDX(la) /\ PDX(mm.mmap[n].start) \in Nat /\ PDX(la) \in Nat
    BY <1>3, TableOrder
  <2>2. PDX(la) <= PDX(mm.mmap[n].end - 1) /\ PDX(mm.mmap[n].end - 1) \in Nat
    BY <1>3, TableOrder
  <2> QED BY <2>1, <2>2
<1> QED BY <1>4, TableOf

\* A page table in frame f.
AddTable(s, la, f) == [s EXCEPT !.free = @ \ {f}, !.ref[f] = 1, !.mm.pt[PDX(la)] = f]
TableAdded(s, la, f, t) ==
    /\ t.mm = [s.mm EXCEPT !.pt = [s.mm.pt EXCEPT ![PDX(la)] = f]]
    /\ t.free = s.free \ {f} /\ t.ref = [s.ref EXCEPT ![f] = 1] /\ t.page = s.page
    /\ t.kmem = s.kmem /\ t.tlb = s.tlb /\ t.index = s.index /\ t.err = s.err
    /\ t.kstack = s.kstack

\* A new page table takes a free frame.
LEMMA NewTable ==
    ASSUME VmmAssumption, NEW others, NEW s, Sound(s, others), NEW la \in Va,
           Covered(s.mm, la), s.mm.pt[PDX(la)] = None, NEW f \in s.free, f # None
    PROVE  /\ Sound(AddTable(s, la, f), others)
           /\ TableAdded(s, la, f, AddTable(s, la, f))
<1> DEFINE t == AddTable(s, la, f)
<1> DEFINE k == PDX(la)
<1>1. k \in Table /\ f \in Frame
  BY CoveredTable, Fields DEF Sound, Frames
<1> DEFINE pt == [s.mm.pt EXCEPT ![k] = f]
           mm == [s.mm EXCEPT !.pt = pt]
           ref == [s.ref EXCEPT ![f] = 1]
<1>2. pt \in Tabs /\ pt[k] = f /\ \A i \in Table : i # k => pt[i] = s.mm.pt[i]
  BY <1>1, Fields, MMFields DEF Sound, Tabs
<1>3. ref \in Refs /\ ref[f] = 1 /\ \A g \in Frame : g # f => ref[g] = s.ref[g]
  BY <1>1, Fields DEF Sound, Refs
<1>4. s.free \ {f} \in Frames
  BY Fields DEF Sound, Frames
<1>5. t = [s EXCEPT !.free = s.free \ {f}, !.ref = ref, !.mm = mm]
  BY DEF AddTable
<1> HIDE DEF pt, ref, t
<1>6. /\ mm \in MM /\ mm.pt = pt /\ mm.pte = s.mm.pte /\ mm.mmap = s.mm.mmap
      /\ mm.pgdir = s.mm.pgdir
  BY <1>2, Fields DEF Sound, MM
<1> HIDE DEF mm
<1>7. /\ t \in Machine /\ t.free = s.free \ {f} /\ t.ref = ref /\ t.mm = mm /\ t.page = s.page
      /\ t.kmem = s.kmem /\ t.tlb = s.tlb /\ t.index = s.index /\ t.err = s.err
      /\ t.kstack = s.kstack
  BY <1>3, <1>4, <1>5, <1>6 DEF Sound, Machine
<1>8. f \notin others /\ f \notin Parts(s.mm)
  BY DEF Sound
<1>9. PagesOf(mm) = PagesOf(s.mm) /\ TablesOf(mm) = TablesOf(s.mm) \cup {f}
  <2>1. TablesOf(mm) = {pt[i] : i \in Table} \ {None}
    BY <1>6 DEF TablesOf
  <2>2. \A x : x \in TablesOf(mm) <=> x \in TablesOf(s.mm) \cup {f}
    BY <1>1, <1>2, <2>1 DEF TablesOf
  <2> QED BY <1>6, <2>2 DEF PagesOf
<1>10. Parts(mm) = Parts(s.mm) \cup {f}
  BY <1>6, <1>9 DEF Parts
<1>11. Apart(mm)
  <2>0. f \notin TablesOf(s.mm) /\ f \notin PagesOf(s.mm) /\ f # s.mm.pgdir
    BY <1>8 DEF Parts
  <2>4. /\ \A i, j \in Table : i # j /\ s.mm.pt[i] # None => s.mm.pt[i] # s.mm.pt[j]
        /\ \A i \in Table, lb \in Va : s.mm.pt[i] # None => s.mm.pt[i] # s.mm.pte[lb].frame
    BY DEF Sound, Apart
  <2>1. ASSUME NEW i \in Table, NEW j \in Table, i # j, pt[i] # None PROVE pt[i] # pt[j]
    <3>1. \A m \in Table : s.mm.pt[m] # f
      BY <2>0 DEF TablesOf
    <3> QED BY <2>1, <3>1, <1>2, <2>4
  <2>2. ASSUME NEW i \in Table, NEW lb \in Va, pt[i] # None PROVE pt[i] # s.mm.pte[lb].frame
    <3>1. s.mm.pte[lb].frame # f
      BY <2>0 DEF PagesOf
    <3> QED BY <2>2, <3>1, <1>2, <2>4
  <2>3. mm.pgdir # None => mm.pgdir \notin TablesOf(mm) \cup PagesOf(mm)
    BY <2>0, <1>6, <1>9 DEF Sound, Apart
  <2> QED BY <2>1, <2>2, <2>3, <1>6 DEF Apart, Sound
<1>12. Placed(mm)
  <2>1. ASSUME NEW lb \in Va, s.mm.pte[lb] # NoMap PROVE pt[PDX(lb)] # None /\ Covered(mm, lb)
    BY <2>1, <1>2, <1>6, TableOf DEF Sound, Placed, Covered
  <2>2. ASSUME NEW i \in Table, pt[i] # None
        PROVE \E n \in DOMAIN mm.mmap : i \in PDX(mm.mmap[n].start)..PDX(mm.mmap[n].end - 1)
    <3>1. CASE i = k
      BY <3>1, <1>6, CoveredTable, Fields DEF Sound
    <3>2. CASE i # k
      BY <2>2, <3>2, <1>2, <1>6 DEF Sound, Placed
    <3> QED BY <3>1, <3>2
  <2> QED BY <2>1, <2>2, <1>6 DEF Placed
<1>13. /\ \A g \in t.free : t.ref[g] = 0
       /\ \A lb \in Va : t.mm.pte[lb] # NoMap => t.ref[t.mm.pte[lb].frame] = 1
  <2>1. \A g \in t.free : t.ref[g] = 0
    BY <1>3, <1>7, Fields DEF Sound, Frames
  <2>2. ASSUME NEW lb \in Va, s.mm.pte[lb] # NoMap PROVE ref[s.mm.pte[lb].frame] = 1
    <3>1. s.mm.pte[lb] \in Map
      BY Fields, MMFields DEF Sound, Ptes
    <3>2. s.mm.pte[lb].frame \in Frame
      BY <3>1, <2>2 DEF Map
    <3> QED BY <3>2, <2>2, <1>3 DEF Sound
  <2> QED BY <2>1, <2>2, <1>6, <1>7
<1>14. /\ t.free \cap others = {} /\ t.free \cap Parts(t.mm) = {} /\ others \cap Parts(t.mm) = {}
       /\ Frame = t.free \cup others \cup Parts(t.mm)
  <2>1. /\ s.free \cap others = {} /\ s.free \cap Parts(s.mm) = {}
        /\ others \cap Parts(s.mm) = {} /\ Frame = s.free \cup others \cup Parts(s.mm)
    BY DEF Sound
  <2>2. t.free = s.free \ {f} /\ Parts(t.mm) = Parts(s.mm) \cup {f}
    BY <1>7, <1>10
  <2> QED BY <2>1, <2>2, <1>8
<1>15. Sound(t, others)
  BY <1>7, <1>11, <1>12, <1>13, <1>14 DEF Sound
<1> QED BY <1>7, <1>15 DEF TableAdded, mm, pt, ref, t

\* get_pte: the table is there afterwards, or there was no frame for it.
TableGot(s, la, others, t) ==
    /\ Sound(t, others) /\ Kept(s, t, others)
    /\ t.mm.pte = s.mm.pte /\ t.mm.mmap = s.mm.mmap /\ t.page = s.page /\ t.tlb = s.tlb
    /\ \A i \in Table : s.mm.pt[i] # None => t.mm.pt[i] = s.mm.pt[i]
    /\ \/ t.err = s.err /\ t.mm.pt[PDX(la)] # None
       \/ t.err = "E_NO_MEM" /\ t.mm = s.mm /\ s.mm.pt[PDX(la)] = None

\* get_pte leaves the page as it was and its page table allocated: it was there, or a
\* free frame became one, or there was no memory.
LEMMA GetPte ==
    ASSUME VmmAssumption, NEW others, NEW s, Sound(s, others), NEW la \in Va,
           Covered(s.mm, la)
    PROVE  TableGot(s, la, others, get_pte(s, la))
<1> SUFFICES ASSUME NEW t, t = get_pte(s, la)
             PROVE  TableGot(s, la, others, t)
  OBVIOUS
<1>0. s \in Machine /\ PDX(la) \in Table
  BY TableOf DEF Sound
<1>1. CASE s.mm.pt[PDX(la)] # None
  <2>1. t = s
    BY <1>1 DEF get_pte
  <2> QED BY <2>1, <1>1, KeptSame DEF TableGot
<1>2. CASE s.mm.pt[PDX(la)] = None /\ s.free = {}
  <2>0. "E_NO_MEM" \in Error
    BY DEF Error
  <2>1. t = Fail(s, "E_NO_MEM")
    BY <1>2 DEF get_pte
  <2>2. /\ t \in Machine /\ t.free = s.free /\ t.ref = s.ref /\ t.page = s.page
        /\ t.kmem = s.kmem /\ t.tlb = s.tlb /\ t.index = s.index /\ t.mm = s.mm
        /\ t.kstack = s.kstack /\ t.err = "E_NO_MEM"
    BY <2>0, <2>1, <1>0, FailFields DEF Alike
  <2>3. Sound(t, others)
    BY <2>2 DEF Sound
  <2> QED BY <1>2, <2>2, <2>3 DEF Kept, TableGot
<1>3. CASE s.mm.pt[PDX(la)] = None /\ s.free # {}
  <2> DEFINE f == NextFrame(s)
  <2>1. f \in s.free /\ f \in Frame /\ f # None
    BY <1>0, <1>3, NextFree
  <2>2. t = AddTable(s, la, f)
    BY <1>3 DEF get_pte, AddTable
  <2> HIDE DEF f
  <2>3. /\ Sound(t, others)
        /\ t.mm = [s.mm EXCEPT !.pt = [s.mm.pt EXCEPT ![PDX(la)] = f]]
        /\ t.free = s.free \ {f} /\ t.ref = [s.ref EXCEPT ![f] = 1] /\ t.page = s.page
        /\ t.kmem = s.kmem /\ t.tlb = s.tlb /\ t.index = s.index /\ t.err = s.err
        /\ t.kstack = s.kstack
    <3>1. Sound(t, others) /\ TableAdded(s, la, f, t)
      BY <1>3, <2>1, <2>2, NewTable, SMTT(40)
    <3> QED BY <3>1 DEF TableAdded
  <2>4. s.mm \in MM /\ s.mm.pt \in Tabs /\ s.ref \in Refs
    BY <1>0, Fields, MMFields
  <2>5. /\ t.mm.pte = s.mm.pte /\ t.mm.mmap = s.mm.mmap /\ t.mm.pgdir = s.mm.pgdir
        /\ t.mm.pt = [s.mm.pt EXCEPT ![PDX(la)] = f]
    BY <2>3, <2>4 DEF MM
  <2>6. t.mm.pt[PDX(la)] = f /\ \A i \in Table : i # PDX(la) => t.mm.pt[i] = s.mm.pt[i]
    BY <2>4, <2>5, <1>0 DEF Tabs
  <2>7. f \notin others /\ \A g \in others : t.ref[g] = s.ref[g]
    <3>1. f \notin others /\ others \in SUBSET Frame
      BY <2>1 DEF Sound, Frames
    <3> QED BY <3>1, <2>3, <2>4 DEF Refs
  <2>8. Kept(s, t, others)
    BY <2>3, <2>5, <2>7 DEF Kept
  <2> QED BY <2>1, <2>3, <2>5, <2>6, <2>8, <1>3 DEF TableGot
<1> QED BY <1>1, <1>2, <1>3

\* An address space with another entry for page la.
SetPte(mm, la, map) == [mm EXCEPT !.pte = [mm.pte EXCEPT ![la] = map]]
PteIs(mm, la, map, t) ==
    /\ t \in MM /\ t.pgdir = mm.pgdir /\ t.mmap = mm.mmap /\ t.pt = mm.pt
    /\ t.pte[la] = map /\ \A lb \in Va : lb # la => t.pte[lb] = mm.pte[lb]

\* The page table with one entry set.
LEMMA PteSet ==
    ASSUME NEW mm \in MM, NEW la \in Va, NEW map \in Map
    PROVE  PteIs(mm, la, map, SetPte(mm, la, map))
<1> DEFINE pte == [mm.pte EXCEPT ![la] = map]
<1>1. pte \in Ptes /\ pte[la] = map /\ \A lb \in Va : lb # la => pte[lb] = mm.pte[lb]
  BY MMFields DEF Ptes
<1>2. SetPte(mm, la, map) = [mm EXCEPT !.pte = pte]
  BY DEF SetPte
<1> HIDE DEF pte
<1> QED BY <1>1, <1>2 DEF MM, PteIs

\* page_remove_pte: the page was mapped once, so its frame is free.
Removed(s, la, others, t) ==
    /\ Sound(t, others) /\ Kept(s, t, others) /\ t.err = s.err /\ t.tlb = NoTlb
    /\ t.mm = SetPte(s.mm, la, NoMap)
    /\ \A g \in Frame : g # s.mm.pte[la].frame => t.ref[g] = s.ref[g] /\ t.page[g] = s.page[g]

\* page_remove_pte unmaps the page and frees its frame exactly when this was the last
\* mapping of it; the TLB keeps nothing of the page.
LEMMA RemovePte ==
    ASSUME VmmAssumption, NEW others, NEW s, Sound(s, others), NEW la \in Va,
           s.mm.pte[la] # NoMap
    PROVE  Removed(s, la, others, page_remove_pte(s, la))
<1> SUFFICES ASSUME NEW t, t = page_remove_pte(s, la)
             PROVE  Removed(s, la, others, t)
  OBVIOUS
<1> DEFINE f == s.mm.pte[la].frame
           mm == SetPte(s.mm, la, NoMap)
           ref == [s.ref EXCEPT ![f] = s.ref[f] - 1]
           s1 == [s EXCEPT !.ref = ref, !.mm = mm]
           s2 == free_pages(s1, {f})
<1>1. s \in Machine /\ s.mm \in MM /\ s.ref \in Refs /\ s.mm.pte[la] \in Map
  BY Fields, MMFields DEF Sound, Ptes
<1>2. f \in Frame /\ f # None /\ s.ref[f] = 1
  <2>1. f \in Frame
    BY <1>1 DEF Map
  <2> QED BY <2>1 DEF Sound, Frame, None
<1>3. ref \in Refs /\ ref[f] = 0 /\ \A g \in Frame : g # f => ref[g] = s.ref[g]
  BY <1>1, <1>2 DEF Refs
<1>4. /\ mm \in MM /\ mm.pgdir = s.mm.pgdir /\ mm.mmap = s.mm.mmap /\ mm.pt = s.mm.pt
      /\ mm.pte[la] = NoMap /\ \A lb \in Va : lb # la => mm.pte[lb] = s.mm.pte[lb]
  <2>1. NoMap \in Map
    BY DEF Map
  <2>2. PteIs(s.mm, la, NoMap, mm)
    BY <1>1, <2>1, PteSet
  <2> QED BY <2>2 DEF PteIs
<1>5. t = tlb_invalidate_all(IF s1.ref[f] = 0 THEN free_pages(s1, {f}) ELSE s1)
  BY DEF page_remove_pte, SetPte
<1> HIDE DEF ref, mm, f
<1>6. /\ s1 \in Machine /\ s1.free = s.free /\ s1.ref = ref /\ s1.mm = mm /\ s1.page = s.page
      /\ s1.kmem = s.kmem /\ s1.tlb = s.tlb /\ s1.index = s.index /\ s1.err = s.err
      /\ s1.kstack = s.kstack
  BY <1>1, <1>3, <1>4 DEF Machine
<1> HIDE DEF s1
<1>7. /\ s2 \in Machine
      /\ s2.free = s1.free \cup {f} /\ s2.kmem = s1.kmem /\ s2.mm = s1.mm /\ s2.err = s1.err
      /\ s2.tlb = s1.tlb /\ s2.index = s1.index /\ s2.kstack = s1.kstack
      /\ \A g \in Frame : /\ s2.ref[g] = IF g \in {f} THEN 0 ELSE s1.ref[g]
                          /\ s2.page[g] = IF g \in {f} THEN "stale" ELSE s1.page[g]
  <2>1. {f} \in SUBSET Frame
    BY <1>2
  <2>2. Freed(s1, {f}, s2)
    BY <1>6, <2>1, FreePages
  <2> QED BY <2>2 DEF Freed
<1>8. t = tlb_invalidate_all(s2)
  BY <1>3, <1>5, <1>6
<1> HIDE DEF s2
<1>9. /\ t \in Machine /\ t.tlb = NoTlb
      /\ t.free = s2.free /\ t.ref = s2.ref /\ t.page = s2.page
      /\ t.kmem = s2.kmem /\ t.mm = s2.mm /\ t.err = s2.err /\ t.index = s2.index
      /\ t.kstack = s2.kstack
  <2>1. s2 \in Machine
    BY <1>7
  <2>2. Alike(s2, t) /\ t.tlb = NoTlb /\ t.err = s2.err
    BY <1>8, <2>1, Flush
  <2> QED BY <2>2 DEF Alike
<1>10. /\ t.free = s.free \cup {f} /\ t.mm = mm
       /\ \A g \in Frame : g # f => t.ref[g] = s.ref[g] /\ t.page[g] = s.page[g]
       /\ t.ref[f] = 0
  BY <1>2, <1>3, <1>6, <1>7, <1>9
<1>11. PagesOf(mm) = PagesOf(s.mm) \ {f} /\ TablesOf(mm) = TablesOf(s.mm)
  <2>1. TablesOf(mm) = TablesOf(s.mm)
    BY <1>4 DEF TablesOf
  <2>2. \A lb \in Va : lb # la => s.mm.pte[lb].frame # f
    BY DEF Sound, Apart, f
  <2>3. NoMap.frame = None
    BY DEF NoMap
  <2>4. ASSUME NEW x, x \in PagesOf(mm) PROVE x \in PagesOf(s.mm) \ {f}
    <3>1. PICK lb \in Va : x = mm.pte[lb].frame /\ x # None
      BY <2>4 DEF PagesOf
    <3>2. lb # la /\ mm.pte[lb] = s.mm.pte[lb]
      BY <3>1, <2>3, <1>4
    <3> QED BY <3>1, <3>2, <2>2 DEF PagesOf
  <2>5. ASSUME NEW x, x \in PagesOf(s.mm) \ {f} PROVE x \in PagesOf(mm)
    <3>1. PICK lb \in Va : x = s.mm.pte[lb].frame /\ x # None
      BY <2>5 DEF PagesOf
    <3>2. lb # la /\ mm.pte[lb] = s.mm.pte[lb]
      BY <3>1, <2>5, <1>4 DEF f
    <3> QED BY <3>1, <3>2 DEF PagesOf
  <2> QED BY <2>1, <2>4, <2>5
<1>12. /\ f \in PagesOf(s.mm) /\ f \notin TablesOf(s.mm) /\ f # s.mm.pgdir
  <2>1. f \in PagesOf(s.mm)
    BY <1>2 DEF PagesOf, f
  <2>2. f \notin TablesOf(s.mm)
    BY DEF Sound, Apart, TablesOf, f
  <2>3. s.mm.pgdir # None => s.mm.pgdir \notin PagesOf(s.mm)
    BY DEF Sound, Apart
  <2> QED BY <1>2, <2>1, <2>2, <2>3
<1>13. Parts(mm) = Parts(s.mm) \ {f} /\ f \in Parts(s.mm)
  BY <1>4, <1>11, <1>12 DEF Parts
<1>14. /\ t.free \cap others = {} /\ t.free \cap Parts(t.mm) = {} /\ others \cap Parts(t.mm) = {}
       /\ Frame = t.free \cup others \cup Parts(t.mm) /\ f \notin others
  <2>1. /\ s.free \cap others = {} /\ s.free \cap Parts(s.mm) = {}
        /\ others \cap Parts(s.mm) = {} /\ Frame = s.free \cup others \cup Parts(s.mm)
    BY DEF Sound
  <2> QED BY <2>1, <1>10, <1>13
<1>15. Apart(mm)
  <2>1. mm.pgdir # None => mm.pgdir \notin TablesOf(mm) \cup PagesOf(mm)
    BY <1>4, <1>11 DEF Sound, Apart
  <2>2. \A la1, lb \in Va : la1 # lb /\ mm.pte[la1] # NoMap => mm.pte[la1].frame # mm.pte[lb].frame
    <3> SUFFICES ASSUME NEW la1 \in Va, NEW lb \in Va, la1 # lb, mm.pte[la1] # NoMap
                 PROVE  mm.pte[la1].frame # mm.pte[lb].frame
      OBVIOUS
    <3>1. la1 # la /\ mm.pte[la1] = s.mm.pte[la1]
      BY <1>4
    <3>2. CASE lb = la
      <4>1. mm.pte[la1] \in Map
        BY <3>1, <1>1, MMFields DEF Ptes
      <4>2. mm.pte[la1].frame \in Frame
        BY <4>1 DEF Map
      <4> QED BY <3>2, <4>2, <1>4 DEF NoMap, Frame, None
    <3>3. CASE lb # la
      BY <3>1, <3>3, <1>4 DEF Sound, Apart
    <3> QED BY <3>2, <3>3
  <2>3. \A i \in Table, lb \in Va : mm.pt[i] # None => mm.pt[i] # mm.pte[lb].frame
    <3> SUFFICES ASSUME NEW i \in Table, NEW lb \in Va, mm.pt[i] # None
                 PROVE  mm.pt[i] # mm.pte[lb].frame
      OBVIOUS
    <3>1. CASE lb = la
      BY <3>1, <1>4 DEF NoMap
    <3>2. CASE lb # la
      BY <3>2, <1>4 DEF Sound, Apart
    <3> QED BY <3>1, <3>2
  <2>4. \A i, j \in Table : i # j /\ mm.pt[i] # None => mm.pt[i] # mm.pt[j]
    BY <1>4 DEF Sound, Apart
  <2> QED BY <2>1, <2>2, <2>3, <2>4 DEF Apart
<1>16. Placed(mm)
  BY <1>4 DEF Sound, Placed, Covered
<1>17. /\ \A g \in t.free : t.ref[g] = 0
       /\ \A lb \in Va : mm.pte[lb] # NoMap => t.ref[mm.pte[lb].frame] = 1
  <2>1. \A g \in t.free : t.ref[g] = 0
    <3>1. s.free \in SUBSET Frame /\ \A g \in s.free : s.ref[g] = 0
      BY <1>1, Fields DEF Sound, Frames
    <3> QED BY <3>1, <1>10
  <2>2. ASSUME NEW lb \in Va, mm.pte[lb] # NoMap PROVE t.ref[mm.pte[lb].frame] = 1
    <3>1. lb # la /\ mm.pte[lb] = s.mm.pte[lb] /\ s.mm.pte[lb] \in Map
      BY <1>1, <1>4, <2>2, MMFields DEF Ptes
    <3>2. s.mm.pte[lb].frame \in Frame /\ s.mm.pte[lb].frame # f
      BY <2>2, <3>1 DEF Map, Sound, Apart, f
    <3> QED BY <2>2, <3>1, <3>2, <1>10, SMTT(40) DEF Sound
  <2> QED BY <2>1, <2>2
<1>18. Sound(t, others)
  BY <1>9, <1>10, <1>14, <1>15, <1>16, <1>17 DEF Sound
<1>19. Kept(s, t, others)
  <2>1. others \in SUBSET Frame
    BY DEF Sound, Frames
  <2>2. \A g \in others : t.ref[g] = s.ref[g] /\ t.page[g] = s.page[g]
    BY <2>1, <1>10, <1>14
  <2> QED BY <2>2, <1>4, <1>6, <1>7, <1>9 DEF Kept
<1> QED BY <1>6, <1>7, <1>9, <1>10, <1>18, <1>19 DEF Removed, mm, f

\* An entry of a page table: it is empty or names a frame of the address space.
LEMMA EntryFrame ==
    ASSUME NEW others, NEW s, Sound(s, others), NEW la \in Va
    PROVE  /\ s.mm.pte[la] \in Map
           /\ s.mm.pte[la] = NoMap <=> s.mm.pte[la].frame = None
           /\ s.mm.pte[la] # NoMap =>
                 /\ s.mm.pte[la].frame \in Frame /\ s.mm.pte[la].frame \in PagesOf(s.mm)
                 /\ s.mm.pte[la].frame \notin others /\ s.mm.pte[la].frame \notin s.free
<1>1. s.mm.pte[la] \in Map
  BY Fields, MMFields DEF Sound, Ptes
<1>2. s.mm.pte[la] # NoMap => s.mm.pte[la].frame \in Frame /\ s.mm.pte[la].frame # None
  BY <1>1 DEF Map, Frame, None
<1>3. NoMap.frame = None
  BY DEF NoMap
<1>4. s.mm.pte[la] # NoMap => s.mm.pte[la].frame \in PagesOf(s.mm)
  BY <1>2 DEF PagesOf
<1>5. \A f \in PagesOf(s.mm) : f \notin others /\ f \notin s.free
  BY DEF Sound, Parts
<1> QED BY <1>1, <1>2, <1>3, <1>4, <1>5

\* One of the others' frames with another reference count.
SetRef(s, f, r) == [s EXCEPT !.ref = [s.ref EXCEPT ![f] = r]]
Counted(s, f, r, others, t) ==
    /\ Sound(t, others) /\ Kept(s, t, others \ {f}) /\ t.mm = s.mm /\ t.err = s.err
    /\ t.page = s.page /\ t.free = s.free /\ t.tlb = s.tlb /\ t.ref[f] = r
    /\ \A g \in Frame : g # f => t.ref[g] = s.ref[g]

\* The reference count of a frame outside the address space may be set.
LEMMA OthersRef ==
    ASSUME NEW others, NEW s, Sound(s, others), NEW f \in others, NEW r \in Int
    PROVE  Counted(s, f, r, others, SetRef(s, f, r))
<1> SUFFICES ASSUME NEW t, t = SetRef(s, f, r)
             PROVE  Counted(s, f, r, others, t)
  OBVIOUS
<1> DEFINE ref == [s.ref EXCEPT ![f] = r]
<1>1. s \in Machine /\ s.ref \in Refs /\ f \in Frame /\ others \in SUBSET Frame
  BY Fields DEF Sound, Frames
<1>2. ref \in Refs /\ ref[f] = r /\ \A g \in Frame : g # f => ref[g] = s.ref[g]
  BY <1>1 DEF Refs
<1>3. t = [s EXCEPT !.ref = ref]
  BY DEF SetRef
<1> HIDE DEF ref
<1>4. /\ t \in Machine /\ t.free = s.free /\ t.ref = ref /\ t.mm = s.mm /\ t.page = s.page
      /\ t.kmem = s.kmem /\ t.tlb = s.tlb /\ t.index = s.index /\ t.err = s.err
      /\ t.kstack = s.kstack
  BY <1>1, <1>2, <1>3 DEF Machine
<1>5. \A g \in t.free : t.ref[g] = 0
  <2>1. \A g \in s.free : g # f /\ g \in Frame /\ s.ref[g] = 0
    BY <1>1, Fields DEF Sound, Frames
  <2> QED BY <2>1, <1>2, <1>4
<1>6. \A la \in Va : t.mm.pte[la] # NoMap => t.ref[t.mm.pte[la].frame] = 1
  <2> SUFFICES ASSUME NEW la \in Va, s.mm.pte[la] # NoMap PROVE ref[s.mm.pte[la].frame] = 1
    BY <1>4
  <2>1. s.mm.pte[la].frame \in Frame /\ s.mm.pte[la].frame # f
    BY EntryFrame
  <2> QED BY <2>1, <1>2 DEF Sound
<1>7. Sound(t, others)
  BY <1>4, <1>5, <1>6 DEF Sound
<1>8. Kept(s, t, others \ {f})
  BY <1>1, <1>2, <1>4 DEF Kept
<1> QED BY <1>2, <1>4, <1>7, <1>8 DEF Counted

\* A page is mapped where none was: one of the others' frames joins the address space.
MapPage(s, la, map) == [s EXCEPT !.mm = SetPte(s.mm, la, map)]
NewlyMapped(s, la, map, others, t) ==
    /\ Sound(t, others) /\ t.mm = SetPte(s.mm, la, map)
    /\ t.free = s.free /\ t.ref = s.ref /\ t.page = s.page /\ t.kmem = s.kmem
    /\ t.tlb = s.tlb /\ t.index = s.index /\ t.err = s.err /\ t.kstack = s.kstack

\* A frame of the others with its one reference becomes the frame of a page that had
\* none.
LEMMA PageMapped ==
    ASSUME VmmAssumption, NEW others, NEW s, Sound(s, others), NEW la \in Va,
           NEW f \in others, NEW w \in BOOLEAN, s.mm.pte[la] = NoMap, s.ref[f] = 1,
           Covered(s.mm, la), s.mm.pt[PDX(la)] # None, NEW map, map = [frame |-> f, w |-> w]
    PROVE  NewlyMapped(s, la, map, others \ {f}, MapPage(s, la, map))
<1> SUFFICES ASSUME NEW t, t = MapPage(s, la, map)
             PROVE  NewlyMapped(s, la, map, others \ {f}, t)
  OBVIOUS
<1> DEFINE mm == SetPte(s.mm, la, map)
<1>1. /\ s \in Machine /\ f \in Frame /\ others \in SUBSET Frame /\ s.mm \in MM
      /\ f \notin s.free /\ f \notin Parts(s.mm) /\ f # None
  BY Fields DEF Sound, Frames, Frame, None
<1>2. map \in Map /\ map.frame = f /\ map # NoMap
  BY <1>1 DEF Map, NoMap
<1>3. /\ mm \in MM /\ mm.pgdir = s.mm.pgdir /\ mm.mmap = s.mm.mmap /\ mm.pt = s.mm.pt
      /\ mm.pte[la] = map /\ \A lb \in Va : lb # la => mm.pte[lb] = s.mm.pte[lb]
  BY <1>1, <1>2, PteSet DEF PteIs
<1>4. t = [s EXCEPT !.mm = mm]
  BY DEF MapPage
<1> HIDE DEF mm
<1>5. /\ t \in Machine /\ t.free = s.free /\ t.ref = s.ref /\ t.mm = mm /\ t.page = s.page
      /\ t.kmem = s.kmem /\ t.tlb = s.tlb /\ t.index = s.index /\ t.err = s.err
      /\ t.kstack = s.kstack
  BY <1>1, <1>3, <1>4 DEF Machine
<1>6. PagesOf(mm) = PagesOf(s.mm) \cup {f} /\ TablesOf(mm) = TablesOf(s.mm)
  <2>1. TablesOf(mm) = TablesOf(s.mm)
    BY <1>3 DEF TablesOf
  <2>2. ASSUME NEW x, x \in PagesOf(mm) PROVE x \in PagesOf(s.mm) \cup {f}
    <3>1. PICK lb \in Va : x = mm.pte[lb].frame /\ x # None
      BY <2>2 DEF PagesOf
    <3>2. CASE lb = la
      BY <3>1, <3>2, <1>2, <1>3
    <3>3. CASE lb # la
      BY <3>1, <3>3, <1>3 DEF PagesOf
    <3> QED BY <3>2, <3>3
  <2>3. ASSUME NEW x, x \in PagesOf(s.mm) PROVE x \in PagesOf(mm)
    <3>1. PICK lb \in Va : x = s.mm.pte[lb].frame /\ x # None
      BY <2>3 DEF PagesOf
    <3>2. lb # la
      BY <3>1 DEF NoMap
    <3> QED BY <3>1, <3>2, <1>3 DEF PagesOf
  <2>4. f \in PagesOf(mm)
    BY <1>1, <1>2, <1>3 DEF PagesOf
  <2> QED BY <2>1, <2>2, <2>3, <2>4
<1>7. Parts(mm) = Parts(s.mm) \cup {f}
  BY <1>3, <1>6 DEF Parts
<1>8. f \notin TablesOf(s.mm) /\ f \notin PagesOf(s.mm) /\ f # s.mm.pgdir
  BY <1>1 DEF Parts
<1>9. Apart(mm)
  <2>1. /\ \A i, j \in Table : i # j /\ s.mm.pt[i] # None => s.mm.pt[i] # s.mm.pt[j]
        /\ \A i \in Table, lb \in Va : s.mm.pt[i] # None => s.mm.pt[i] # s.mm.pte[lb].frame
        /\ \A la1, lb \in Va : la1 # lb /\ s.mm.pte[la1] # NoMap
              => s.mm.pte[la1].frame # s.mm.pte[lb].frame
        /\ s.mm.pgdir # None => s.mm.pgdir \notin TablesOf(s.mm) \cup PagesOf(s.mm)
    BY DEF Sound, Apart
  <2>2. \A lb \in Va : s.mm.pte[lb].frame # f
    BY <1>1, <1>8 DEF PagesOf
  <2>3. \A i \in Table : s.mm.pt[i] # f
    BY <1>1, <1>8 DEF TablesOf
  <2>4. \A la1, lb \in Va : la1 # lb /\ mm.pte[la1] # NoMap => mm.pte[la1].frame # mm.pte[lb].frame
    <3> SUFFICES ASSUME NEW la1 \in Va, NEW lb \in Va, la1 # lb, mm.pte[la1] # NoMap
                 PROVE  mm.pte[la1].frame # mm.pte[lb].frame
      OBVIOUS
    <3>1. CASE la1 = la
      BY <3>1, <1>2, <1>3, <2>2
    <3>2. CASE lb = la
      BY <3>2, <1>2, <1>3, <2>2
    <3>3. CASE la1 # la /\ lb # la
      <4>1. mm.pte[la1] = s.mm.pte[la1] /\ mm.pte[lb] = s.mm.pte[lb]
        BY <3>3, <1>3
      <4>2. s.mm.pte[la1].frame # s.mm.pte[lb].frame
        BY <4>1, <2>1
      <4> QED BY <4>1, <4>2
    <3> QED BY <3>1, <3>2, <3>3
  <2>5. \A i \in Table, lb \in Va : mm.pt[i] # None => mm.pt[i] # mm.pte[lb].frame
    <3> SUFFICES ASSUME NEW i \in Table, NEW lb \in Va, mm.pt[i] # None
                 PROVE  mm.pt[i] # mm.pte[lb].frame
      OBVIOUS
    <3>1. CASE lb = la
      BY <3>1, <1>2, <1>3, <2>3
    <3>2. CASE lb # la
      <4>1. mm.pt[i] = s.mm.pt[i] /\ mm.pte[lb] = s.mm.pte[lb]
        BY <3>2, <1>3
      <4>2. s.mm.pt[i] # s.mm.pte[lb].frame
        BY <4>1, <2>1
      <4> QED BY <4>1, <4>2
    <3> QED BY <3>1, <3>2
  <2>6. mm.pgdir # None => mm.pgdir \notin TablesOf(mm) \cup PagesOf(mm)
    BY <2>1, <1>3, <1>6, <1>8
  <2>7. \A i, j \in Table : i # j /\ mm.pt[i] # None => mm.pt[i] # mm.pt[j]
    BY <1>3, <2>1
  <2> QED BY <2>4, <2>5, <2>6, <2>7 DEF Apart
<1>10. Placed(mm)
  <2>1. \A lb \in Va : mm.pte[lb] # NoMap => mm.pt[PDX(lb)] # None /\ Covered(mm, lb)
    <3> SUFFICES ASSUME NEW lb \in Va, mm.pte[lb] # NoMap
                 PROVE  s.mm.pt[PDX(lb)] # None /\ Covered(s.mm, lb)
      BY <1>3 DEF Covered
    <3>1. CASE lb = la
      BY <3>1
    <3>2. CASE lb # la
      BY <3>2, <1>3 DEF Sound, Placed
    <3> QED BY <3>1, <3>2
  <2>2. \A i \in Table : mm.pt[i] # None =>
           \E n \in DOMAIN mm.mmap : i \in PDX(mm.mmap[n].start)..PDX(mm.mmap[n].end - 1)
    BY <1>3 DEF Sound, Placed
  <2> QED BY <2>1, <2>2 DEF Placed
<1>11. \A lb \in Va : mm.pte[lb] # NoMap => s.ref[mm.pte[lb].frame] = 1
  <2> SUFFICES ASSUME NEW lb \in Va, mm.pte[lb] # NoMap PROVE s.ref[mm.pte[lb].frame] = 1
    OBVIOUS
  <2>1. CASE lb = la
    BY <2>1, <1>2, <1>3
  <2>2. CASE lb # la
    BY <2>2, <1>3 DEF Sound
  <2> QED BY <2>1, <2>2
<1>12. /\ s.free \cap (others \ {f}) = {} /\ s.free \cap Parts(mm) = {}
       /\ (others \ {f}) \cap Parts(mm) = {} /\ Frame = s.free \cup (others \ {f}) \cup Parts(mm)
  <2>1. /\ s.free \cap others = {} /\ s.free \cap Parts(s.mm) = {}
        /\ others \cap Parts(s.mm) = {} /\ Frame = s.free \cup others \cup Parts(s.mm)
    BY DEF Sound
  <2> QED BY <2>1, <1>1, <1>7
<1>13. others \ {f} \in Frames /\ \A g \in s.free : s.ref[g] = 0
  BY DEF Sound, Frames
<1>14. Sound(t, others \ {f})
  BY <1>5, <1>9, <1>10, <1>11, <1>12, <1>13 DEF Sound
<1> QED BY <1>5, <1>14 DEF NewlyMapped, mm

\* What page_insert has done if it succeeds: f has left the others for page la.
Inserted(s, f, la, w, others, t) ==
    /\ t.err = "" /\ t.tlb = NoTlb
    /\ Sound(t, others \ {f}) /\ Kept(s, t, others \ {f})
    /\ t.mm.mmap = s.mm.mmap
    /\ t.mm.pte[la] = [frame |-> f, w |-> w]
    /\ \A lb \in Va : lb # la => t.mm.pte[lb] = s.mm.pte[lb]
    /\ \A g \in Frame : g # s.mm.pte[la].frame => t.page[g] = s.page[g]
    /\ t.mm.pt[PDX(la)] # None
    /\ \A i \in Table : s.mm.pt[i] # None => t.mm.pt[i] # None
\* And if it fails: nothing but the error code.
Uninserted(s, others, t) ==
    /\ t.err = "E_NO_MEM" /\ t.tlb = s.tlb
    /\ Sound(t, others) /\ Kept(s, t, others) /\ t.mm = s.mm /\ t.page = s.page

\* page_insert maps the frame, or there is no memory for the page table and nothing is
\* mapped.
LEMMA PageInsert ==
    ASSUME VmmAssumption, NEW others, NEW s, Sound(s, others), Ok(s), NEW la \in Va,
           NEW f \in others, NEW w \in BOOLEAN, s.ref[f] = 0, Covered(s.mm, la)
    PROVE  \/ Inserted(s, f, la, w, others, page_insert(s, f, la, w))
           \/ Uninserted(s, others, page_insert(s, f, la, w)) /\ s.mm.pt[PDX(la)] = None
<1> DEFINE t1 == get_pte(s, la)
           r1 == t1.ref[f] + 1
           s1 == SetRef(t1, f, r1)
           old == t1.mm.pte[la].frame
           s2 == IF old = None THEN s1 ELSE page_remove_pte(s1, la)
           map == [frame |-> f, w |-> w]
           s3 == MapPage(s2, la, map)
           t == page_insert(s, f, la, w)
<1>1. /\ Sound(t1, others) /\ Kept(s, t1, others)
      /\ t1.mm.pte = s.mm.pte /\ t1.mm.mmap = s.mm.mmap /\ t1.page = s.page /\ t1.tlb = s.tlb
      /\ \A i \in Table : s.mm.pt[i] # None => t1.mm.pt[i] = s.mm.pt[i]
      /\ \/ t1.err = s.err /\ t1.mm.pt[PDX(la)] # None
         \/ t1.err = "E_NO_MEM" /\ t1.mm = s.mm /\ s.mm.pt[PDX(la)] = None
  BY GetPte DEF TableGot
<1>2. CASE t1.err = "E_NO_MEM" /\ t1.mm = s.mm /\ s.mm.pt[PDX(la)] = None
  <2>1. t = t1
    BY <1>2 DEF page_insert, Then, Ok
  <2> HIDE DEF t, t1
  <2>2. Uninserted(s, others, t1)
    BY <1>1, <1>2 DEF Uninserted
  <2> QED BY <2>1, <2>2, <1>2 DEF t
<1>3. CASE t1.err = s.err /\ t1.mm.pt[PDX(la)] # None
  <2>1. t1.err = ""
    BY <1>3 DEF Ok
  <2>2. old # f
    <3> HIDE DEF t1
    <3>1. t1.mm.pte[la] # NoMap => old \notin others
      BY <1>1, EntryFrame
    <3>2. t1.mm.pte[la] = NoMap => old = None
      BY DEF NoMap
    <3>3. f # None
      BY DEF Sound, Frames, Frame, None
    <3> QED BY <3>1, <3>2, <3>3
  <2>3. t = tlb_invalidate_all(s3)
    <3>1. t = LET q1 == [t1 EXCEPT !.ref[f] = @ + 1]
                  q2 == CASE old = None -> q1
                          [] old = f -> [q1 EXCEPT !.ref[f] = @ - 1]
                          [] OTHER -> page_remove_pte(q1, la)
              IN  tlb_invalidate_all([q2 EXCEPT !.mm.pte[la] = map])
      BY <2>1 DEF page_insert, Then, Ok
    <3>2. [t1 EXCEPT !.ref[f] = @ + 1] = s1
      BY DEF SetRef
    <3>3. t = LET q2 == CASE old = None -> s1
                          [] old = f -> [s1 EXCEPT !.ref[f] = @ - 1]
                          [] OTHER -> page_remove_pte(s1, la)
              IN  tlb_invalidate_all([q2 EXCEPT !.mm.pte[la] = map])
      BY <3>1, <3>2
    <3> HIDE DEF s1, t, t1, map
    <3>4. t = tlb_invalidate_all([s2 EXCEPT !.mm.pte[la] = map])
      BY <2>2, <3>3
    <3> QED BY <3>4 DEF MapPage, SetPte
  <2> HIDE DEF t
  <2>4. r1 = 1 /\ s.ref[f] = t1.ref[f]
    <3> HIDE DEF t1
    <3>1. t1.ref[f] = s.ref[f]
      BY <1>1 DEF Kept
    <3> QED BY <3>1
  <2>5. /\ Sound(s1, others) /\ Kept(t1, s1, others \ {f}) /\ s1.mm = t1.mm /\ s1.err = t1.err
        /\ s1.page = t1.page /\ s1.ref[f] = 1
    <3> HIDE DEF t1, r1
    <3>1. r1 \in Int
      BY <2>4
    <3>2. Counted(t1, f, r1, others, s1)
      BY <1>1, <3>1, OthersRef
    <3> QED BY <2>4, <3>2 DEF Counted
  <2> HIDE DEF s1, t1
  <2>6. /\ Sound(s2, others) /\ Kept(s1, s2, others \ {f}) /\ s2.err = s1.err
        /\ s2.mm.mmap = s1.mm.mmap /\ s2.mm.pt = s1.mm.pt /\ s2.mm.pte[la] = NoMap
        /\ \A lb \in Va : lb # la => s2.mm.pte[lb] = s1.mm.pte[lb]
        /\ \A g \in Frame : g # old => s2.page[g] = s1.page[g]
        /\ s2.ref[f] = 1
    <3>1. CASE old = None
      <4>1. s2 = s1
        BY <3>1
      <4>2. s1.mm.pte[la] = NoMap
        BY <2>5, <3>1, EntryFrame
      <4> QED BY <4>1, <4>2, <2>5, KeptSame
    <3>2. CASE old # None
      <4>1. s1.mm.pte[la] # NoMap /\ s1.mm.pte[la].frame = old
        BY <2>5, <3>2 DEF NoMap
      <4>2. s2 = page_remove_pte(s1, la)
        BY <3>2
      <4>3. /\ Sound(s2, others) /\ Kept(s1, s2, others) /\ s2.err = s1.err
            /\ s2.mm = SetPte(s1.mm, la, NoMap)
            /\ \A g \in Frame : g # old => s2.ref[g] = s1.ref[g] /\ s2.page[g] = s1.page[g]
        <5>1. Removed(s1, la, others, s2)
          BY <4>1, <4>2, <2>5, RemovePte, SMTT(40)
        <5> QED BY <4>1, <5>1 DEF Removed
      <4>4. Kept(s1, s2, others \ {f})
        BY <4>3, KeptFewer
      <4>5. PteIs(s1.mm, la, NoMap, s2.mm)
        <5>1. s1.mm \in MM /\ NoMap \in Map
          BY <2>5, Fields DEF Sound, Map
        <5> QED BY <5>1, <4>3, PteSet
      <4>6. s2.ref[f] = 1
        <5>1. f \in Frame
          BY DEF Sound, Frames
        <5> QED BY <5>1, <2>2, <2>5, <4>3
      <4> HIDE DEF s2
      <4> QED BY <4>3, <4>4, <4>5, <4>6 DEF PteIs
    <3> QED BY <3>1, <3>2
  <2> HIDE DEF s2
  <2>7. Covered(s2.mm, la) /\ s2.mm.pt[PDX(la)] # None
    BY <1>1, <1>3, <2>5, <2>6 DEF Covered
  <2>8. /\ Sound(s3, others \ {f})
        /\ s3.mm = SetPte(s2.mm, la, map)
        /\ s3.free = s2.free /\ s3.ref = s2.ref /\ s3.page = s2.page /\ s3.kmem = s2.kmem
        /\ s3.tlb = s2.tlb /\ s3.index = s2.index /\ s3.err = s2.err /\ s3.kstack = s2.kstack
    <3>1. NewlyMapped(s2, la, map, others \ {f}, s3)
      BY <2>6, <2>7, PageMapped
    <3> QED BY <3>1 DEF NewlyMapped
  <2>9. PteIs(s2.mm, la, map, s3.mm)
    <3>1. s2.mm \in MM /\ map \in Map
      BY <2>6, Fields DEF Sound, Map, Frames
    <3> QED BY <3>1, <2>8, PteSet
  <2> HIDE DEF s3, map
  <2>10. Alike(s3, t) /\ t.tlb = NoTlb /\ t.err = s3.err
    <3>1. s3 \in Machine
      BY <2>8 DEF Sound
    <3> QED BY <2>3, <3>1, Flush
  <2>11. Sound(t, others \ {f})
    BY <2>8, <2>10 DEF Sound, Alike
  <2>12. Kept(s2, t, others \ {f})
    BY <2>8, <2>9, <2>10 DEF Kept, Alike, PteIs
  <2>13. Kept(s, t, others \ {f})
    <3>1. Kept(s, t1, others \ {f})
      BY <1>1, KeptFewer
    <3>2. Kept(s, s1, others \ {f})
      BY <3>1, <2>5, KeptTwice
    <3>3. Kept(s, s2, others \ {f})
      BY <3>2, <2>6, KeptTwice
    <3> QED BY <3>3, <2>12, KeptTwice
  <2>14. /\ t.err = ""
         /\ t.mm.mmap = s.mm.mmap
         /\ t.mm.pte[la] = map
         /\ \A lb \in Va : lb # la => t.mm.pte[lb] = s.mm.pte[lb]
    <3>1. t.mm = s3.mm /\ t.err = s3.err
      BY <2>10 DEF Alike
    <3>2. t.err = ""
      BY <3>1, <2>1, <2>5, <2>6, <2>8
    <3>3. s3.mm.mmap = s2.mm.mmap /\ s2.mm.mmap = s.mm.mmap
      BY <1>1, <2>5, <2>6, <2>9 DEF PteIs
    <3>4. s3.mm.pte[la] = map /\ \A lb \in Va : lb # la => s3.mm.pte[lb] = s2.mm.pte[lb]
      BY <2>9 DEF PteIs
    <3>5. \A lb \in Va : lb # la => s2.mm.pte[lb] = s.mm.pte[lb]
      BY <1>1, <2>5, <2>6
    <3> QED BY <3>1, <3>2, <3>3, <3>4, <3>5
  <2>15. \A g \in Frame : g # s.mm.pte[la].frame => t.page[g] = s.page[g]
    BY <1>1, <2>5, <2>6, <2>8, <2>10 DEF Alike
  <2>16. /\ t.mm.pt[PDX(la)] # None
         /\ \A i \in Table : s.mm.pt[i] # None => t.mm.pt[i] # None
    BY <1>1, <1>3, <2>5, <2>6, <2>9, <2>10 DEF Alike, PteIs
  <2>17. Inserted(s, f, la, w, others, t)
    BY <2>10, <2>11, <2>13, <2>14, <2>15, <2>16 DEF Inserted, map
  <2> QED BY <2>17 DEF t
<1> QED BY <1>1, <1>2, <1>3

\* A free frame is taken, with new contents.
Take(s, f, c) == [s EXCEPT !.free = s.free \ {f}, !.page = [s.page EXCEPT ![f] = c]]
Taken(s, f, c, others, t) ==
    /\ Sound(t, others \cup {f}) /\ Kept(s, t, others) /\ t.mm = s.mm /\ t.err = s.err
    /\ t.tlb = s.tlb /\ t.ref[f] = 0 /\ t.page[f] = c
    /\ \A g \in Frame : g # f => t.page[g] = s.page[g]
    /\ f \notin others /\ t.free = s.free \ {f} /\ t.ref = s.ref

\* A free frame taken by alloc_page is one of the others' until it is mapped.
LEMMA TakeFrame ==
    ASSUME NEW others, NEW s, Sound(s, others), NEW f \in s.free, NEW c \in Content
    PROVE  Taken(s, f, c, others, Take(s, f, c))
<1> SUFFICES ASSUME NEW t, t = Take(s, f, c)
             PROVE  Taken(s, f, c, others, t)
  OBVIOUS
<1> DEFINE page == [s.page EXCEPT ![f] = c]
<1>1. /\ s \in Machine /\ s.page \in Pages /\ s.free \in SUBSET Frame /\ f \in Frame
      /\ others \in SUBSET Frame
  BY Fields DEF Sound, Frames
<1>2. page \in Pages /\ page[f] = c /\ \A g \in Frame : g # f => page[g] = s.page[g]
  BY <1>1 DEF Pages
<1>3. t = [s EXCEPT !.free = s.free \ {f}, !.page = page]
  BY DEF Take
<1>4. s.free \ {f} \in Frames
  BY <1>1 DEF Frames
<1> HIDE DEF page
<1>5. /\ t \in Machine /\ t.free = s.free \ {f} /\ t.ref = s.ref /\ t.mm = s.mm /\ t.page = page
      /\ t.kmem = s.kmem /\ t.tlb = s.tlb /\ t.index = s.index /\ t.err = s.err
      /\ t.kstack = s.kstack
  BY <1>1, <1>2, <1>3, <1>4 DEF Machine
<1>6. /\ s.free \cap others = {} /\ s.free \cap Parts(s.mm) = {}
      /\ others \cap Parts(s.mm) = {} /\ Frame = s.free \cup others \cup Parts(s.mm)
  BY DEF Sound
<1>7. /\ (s.free \ {f}) \cap (others \cup {f}) = {} /\ (s.free \ {f}) \cap Parts(s.mm) = {}
      /\ (others \cup {f}) \cap Parts(s.mm) = {}
      /\ Frame = (s.free \ {f}) \cup (others \cup {f}) \cup Parts(s.mm)
      /\ f \notin others /\ others \cup {f} \in Frames
  BY <1>1, <1>6 DEF Frames
<1>8. \A g \in s.free \ {f} : s.ref[g] = 0
  BY DEF Sound
<1>9. Sound(t, others \cup {f})
  BY <1>5, <1>7, <1>8 DEF Sound
<1>10. Kept(s, t, others)
  BY <1>1, <1>2, <1>5, <1>7 DEF Kept
<1>11. s.ref[f] = 0
  BY DEF Sound
<1> QED BY <1>2, <1>5, <1>7, <1>9, <1>10, <1>11 DEF Taken

\* Frames of the others are freed.
LEMMA GiveBack ==
    ASSUME NEW others, NEW s, Sound(s, others), NEW fs \in SUBSET others, NEW t,
           Freed(s, fs, t)
    PROVE  Sound(t, others \ fs) /\ Kept(s, t, others \ fs)
<1>1. /\ t \in Machine
      /\ t.free = s.free \cup fs /\ t.kmem = s.kmem /\ t.mm = s.mm /\ t.err = s.err
      /\ t.tlb = s.tlb /\ t.index = s.index /\ t.kstack = s.kstack
      /\ \A f \in Frame : /\ t.ref[f] = IF f \in fs THEN 0 ELSE s.ref[f]
                          /\ t.page[f] = IF f \in fs THEN "stale" ELSE s.page[f]
  BY DEF Freed
<1>2. /\ s.free \cap others = {} /\ s.free \cap Parts(s.mm) = {} /\ others \in SUBSET Frame
      /\ others \cap Parts(s.mm) = {} /\ Frame = s.free \cup others \cup Parts(s.mm)
  BY DEF Sound, Frames
<1>3. /\ t.free \cap (others \ fs) = {} /\ t.free \cap Parts(t.mm) = {}
      /\ (others \ fs) \cap Parts(t.mm) = {} /\ Frame = t.free \cup (others \ fs) \cup Parts(t.mm)
      /\ others \ fs \in Frames
  <2>1. t.free = s.free \cup fs /\ t.mm = s.mm
    BY <1>1
  <2> QED BY <2>1, <1>2 DEF Frames
<1>4. \A g \in t.free : t.ref[g] = 0
  <2>1. \A g \in s.free : s.ref[g] = 0 /\ g \in Frame
    BY <1>2 DEF Sound
  <2> QED BY <1>1, <1>2, <2>1
<1>5. \A la \in Va : t.mm.pte[la] # NoMap => t.ref[t.mm.pte[la].frame] = 1
  <2> SUFFICES ASSUME NEW la \in Va, s.mm.pte[la] # NoMap PROVE t.ref[s.mm.pte[la].frame] = 1
    BY <1>1
  <2>1. s.mm.pte[la].frame \in Frame /\ s.mm.pte[la].frame \notin fs
    BY EntryFrame
  <2> QED BY <2>1, <1>1 DEF Sound
<1>6. Sound(t, others \ fs)
  BY <1>1, <1>3, <1>4, <1>5 DEF Sound
<1>7. Kept(s, t, others \ fs)
  BY <1>1, <1>2 DEF Kept
<1> QED BY <1>6, <1>7

\* A new page at la, which was given a free frame.
PageAdded(s, la, w, others, t) ==
    /\ t.err = "" /\ t.tlb = NoTlb
    /\ Sound(t, others) /\ Kept(s, t, others)
    /\ t.mm.mmap = s.mm.mmap
    /\ t.mm.pte[la] # NoMap /\ t.mm.pte[la].w = w
    /\ \A lb \in Va : lb # la =>
          /\ t.mm.pte[lb] = s.mm.pte[lb]
          /\ s.mm.pte[lb] # NoMap => t.page[s.mm.pte[lb].frame] = s.page[s.mm.pte[lb].frame]
    /\ t.mm.pt[PDX(la)] # None
    /\ \A i \in Table : s.mm.pt[i] # None => t.mm.pt[i] # None
\* It has contents c.
PageFilled(s, la, w, c, others, t) ==
    PageAdded(s, la, w, others, t) /\ t.page[t.mm.pte[la].frame] = c
\* There was no frame for it or its table.
PageRefused(s, others, t) ==
    /\ t.err = "E_NO_MEM" /\ t.tlb = s.tlb
    /\ Sound(t, others) /\ Kept(s, t, others) /\ t.mm = s.mm

\* page_insert of a frame that was free.
LEMMA InsertTaken ==
    ASSUME VmmAssumption, NEW others, NEW s, Sound(s, others), Ok(s), NEW la \in Va,
           NEW f \in s.free, NEW c \in Content, NEW w \in BOOLEAN, Covered(s.mm, la),
           NEW s0, Taken(s, f, c, others, s0)
    PROVE  \/ PageFilled(s, la, w, c, others, page_insert(s0, f, la, w))
           \/ Uninserted(s0, others \cup {f}, page_insert(s0, f, la, w)) /\ s.mm.pt[PDX(la)] = None
<1> SUFFICES ASSUME NEW t, t = page_insert(s0, f, la, w)
             PROVE  \/ PageFilled(s, la, w, c, others, t)
                    \/ Uninserted(s0, others \cup {f}, t) /\ s.mm.pt[PDX(la)] = None
  OBVIOUS
<1>1. /\ Sound(s0, others \cup {f}) /\ Kept(s, s0, others) /\ s0.mm = s.mm /\ s0.err = s.err
      /\ s0.ref[f] = 0 /\ s0.page[f] = c /\ \A g \in Frame : g # f => s0.page[g] = s.page[g]
      /\ f \notin others
  BY DEF Taken
<1>2. \/ Inserted(s0, f, la, w, others \cup {f}, t)
      \/ Uninserted(s0, others \cup {f}, t) /\ s0.mm.pt[PDX(la)] = None
  <2>1. f \in others \cup {f} /\ Ok(s0) /\ Covered(s0.mm, la) /\ s0.ref[f] = 0
    BY <1>1 DEF Ok
  <2>2. Sound(s0, others \cup {f})
    BY <1>1
  <2>3. \/ Inserted(s0, f, la, w, others \cup {f}, page_insert(s0, f, la, w))
        \/ /\ Uninserted(s0, others \cup {f}, page_insert(s0, f, la, w))
           /\ s0.mm.pt[PDX(la)] = None
    BY <2>1, <2>2, PageInsert
  <2> QED BY <2>3
<1>3. CASE Inserted(s0, f, la, w, others \cup {f}, t)
  <2>1. (others \cup {f}) \ {f} = others
    BY <1>1
  <2>2. /\ t.err = "" /\ t.tlb = NoTlb
        /\ Sound(t, others) /\ Kept(s0, t, others)
        /\ t.mm.mmap = s0.mm.mmap
        /\ t.mm.pte[la] = [frame |-> f, w |-> w]
        /\ \A lb \in Va : lb # la => t.mm.pte[lb] = s0.mm.pte[lb]
        /\ \A g \in Frame : g # s0.mm.pte[la].frame => t.page[g] = s0.page[g]
        /\ t.mm.pt[PDX(la)] # None
        /\ \A i \in Table : s0.mm.pt[i] # None => t.mm.pt[i] # None
    BY <1>3, <2>1 DEF Inserted
  <2>3. Kept(s, t, others)
    BY <1>1, <2>2, KeptTwice
  <2>4. f \in Frame /\ f # None
    BY Fields DEF Sound, Frames, Frame, None
  <2>5. f # s.mm.pte[la].frame
    <3>1. s.mm.pte[la] # NoMap => s.mm.pte[la].frame \notin s.free
      BY EntryFrame
    <3>2. NoMap.frame = None
      BY DEF NoMap
    <3> QED BY <2>4, <3>1, <3>2
  <2>6. ASSUME NEW lb \in Va, lb # la, s.mm.pte[lb] # NoMap
        PROVE  t.page[s.mm.pte[lb].frame] = s.page[s.mm.pte[lb].frame]
    <3>1. s.mm.pte[lb].frame \in Frame /\ s.mm.pte[lb].frame \notin s.free
      BY <2>6, EntryFrame
    <3>2. s.mm.pte[lb].frame # s.mm.pte[la].frame /\ s.mm.pte[lb].frame # f
      BY <2>6, <3>1 DEF Sound, Apart
    <3> QED BY <3>1, <3>2, <2>2, <1>1
  <2>7. t.mm.pte[la] # NoMap /\ t.mm.pte[la].w = w /\ t.mm.pte[la].frame = f
    <3>0. t.mm.pte[la] = [frame |-> f, w |-> w]
      BY <2>2
    <3>1. t.mm.pte[la].frame = f /\ t.mm.pte[la].w = w
      BY <3>0
    <3>2. NoMap.frame = None
      BY DEF NoMap
    <3> QED BY <2>4, <3>1, <3>2
  <2>8. t.page[f] = c
    BY <1>1, <2>2, <2>4, <2>5
  <2>9. PageAdded(s, la, w, others, t)
    BY <1>1, <2>2, <2>3, <2>6, <2>7 DEF PageAdded
  <2> QED BY <2>7, <2>8, <2>9 DEF PageFilled
<1> QED BY <1>1, <1>2, <1>3

\* pgdir_alloc_page.
LEMMA PgdirAllocPage ==
    ASSUME VmmAssumption, NEW others, NEW s, Sound(s, others), Ok(s), NEW la \in Va,
           NEW w \in BOOLEAN, Covered(s.mm, la)
    PROVE  \/ PageAdded(s, la, w, others, pgdir_alloc_page(s, la, w))
           \/ PageRefused(s, others, pgdir_alloc_page(s, la, w))
<1> DEFINE f == NextFrame(s)
           s0 == Take(s, f, s.page[f])
           s1 == page_insert(s0, f, la, w)
           t == pgdir_alloc_page(s, la, w)
<1>0. s \in Machine /\ s.page \in Pages /\ "E_NO_MEM" \in Error
  BY Fields DEF Sound, Error
<1>1. CASE s.free = {}
  <2>1. t = Fail(s, "E_NO_MEM")
    BY <1>1 DEF pgdir_alloc_page
  <2>2. Alike(s, t) /\ t.err = "E_NO_MEM" /\ t.tlb = s.tlb
    BY <1>0, <2>1, FailFields
  <2> HIDE DEF t
  <2>3. Sound(t, others) /\ Kept(s, t, others) /\ t.mm = s.mm
    BY <2>2 DEF Sound, Alike, Kept
  <2>4. PageRefused(s, others, t)
    BY <2>2, <2>3 DEF PageRefused
  <2> QED BY <2>4 DEF t
<1>2. CASE s.free # {}
  <2>1. f \in s.free /\ f \in Frame /\ f # None
    BY <1>0, <1>2, NextFree
  <2>2. s.page[f] \in Content
    BY <1>0, <2>1 DEF Pages
  <2>3. [s EXCEPT !.free = @ \ {f}] = s0
    <3> HIDE DEF f
    <3>1. [s.page EXCEPT ![f] = s.page[f]] = s.page
      BY <1>0, <2>1 DEF Pages
    <3> QED BY <3>1, <1>0 DEF Take, Machine
  <2>4. t = IF Ok(s1) THEN s1 ELSE free_pages(s1, {f})
    BY <1>2, <2>3 DEF pgdir_alloc_page
  <2> HIDE DEF f, t
  <2>5. Taken(s, f, s.page[f], others, s0)
    BY <2>1, <2>2, TakeFrame
  <2> HIDE DEF s0
  <2>6. \/ PageAdded(s, la, w, others, s1)
        \/ Uninserted(s0, others \cup {f}, s1)
    <3>1. \/ PageFilled(s, la, w, s.page[f], others, page_insert(s0, f, la, w))
          \/ /\ Uninserted(s0, others \cup {f}, page_insert(s0, f, la, w))
             /\ s.mm.pt[PDX(la)] = None
      BY <2>1, <2>2, <2>5, InsertTaken
    <3> QED BY <3>1 DEF PageFilled
  <2> HIDE DEF s1
  <2>7. CASE PageAdded(s, la, w, others, s1)
    <3>1. t = s1
      BY <2>4, <2>7 DEF PageAdded, Ok
    <3> QED BY <2>7, <3>1 DEF t
  <2>8. CASE Uninserted(s0, others \cup {f}, s1)
    <3>1. t = free_pages(s1, {f}) /\ s1.tlb = s0.tlb /\ s1.mm = s0.mm /\ s1.err = "E_NO_MEM"
          /\ Sound(s1, others \cup {f}) /\ Kept(s0, s1, others \cup {f})
      BY <2>4, <2>8 DEF Uninserted, Ok
    <3>2. Freed(s1, {f}, t)
      <4>1. s1 \in Machine /\ {f} \in SUBSET Frame
        BY <2>1, <3>1 DEF Sound
      <4> QED BY <3>1, <4>1, FreePages
    <3>3. Sound(t, others) /\ Kept(s1, t, others)
      <4>1. {f} \in SUBSET (others \cup {f}) /\ (others \cup {f}) \ {f} = others
        BY <2>5 DEF Taken
      <4>2. /\ Sound(t, (others \cup {f}) \ {f}) /\ Kept(s1, t, (others \cup {f}) \ {f})
        BY <3>1, <3>2, <4>1, GiveBack
      <4> QED BY <4>1, <4>2
    <3>4. Kept(s0, s1, others)
      BY <3>1, KeptFewer
    <3>5. Kept(s, t, others)
      <4>1. Kept(s, s0, others)
        BY <2>5 DEF Taken
      <4>2. Kept(s, s1, others)
        BY <4>1, <3>4, KeptTwice
      <4> QED BY <4>2, <3>3, KeptTwice
    <3>6. t.err = "E_NO_MEM" /\ t.tlb = s.tlb /\ t.mm = s.mm
      BY <3>1, <3>2, <2>5 DEF Freed, Taken
    <3>7. PageRefused(s, others, t)
      BY <3>3, <3>5, <3>6 DEF PageRefused
    <3> QED BY <3>7 DEF t
  <2> QED BY <2>6, <2>7, <2>8
<1> QED BY <1>1, <1>2

\* unmap_range, when it has come to page n of the range.
Unmapped(s, start, n, others, t) ==
    /\ Sound(t, others) /\ Kept(s, t, others) /\ t.err = s.err
    /\ t.mm.mmap = s.mm.mmap /\ t.mm.pt = s.mm.pt
    /\ \A la \in Va : t.mm.pte[la] = IF start <= la /\ la < start + n THEN NoMap
                                     ELSE s.mm.pte[la]

\* One turn of unmap_range: with page i the first i pages of the range are unmapped.
LEMMA UnmapPage ==
    ASSUME VmmAssumption, NEW others, NEW s, NEW start \in Nat, NEW i \in Nat \ {0},
           NEW la \in Va, la = start + i - 1,
           NEW t, Unmapped(s, start, i - 1, others, t)
    PROVE  Unmapped(s, start, i, others,
                    IF t.mm.pt[PDX(la)] = None \/ t.mm.pte[la] = NoMap THEN t
                    ELSE page_remove_pte(t, la))
<1>1. /\ Sound(t, others) /\ Kept(s, t, others) /\ t.err = s.err
      /\ t.mm.mmap = s.mm.mmap /\ t.mm.pt = s.mm.pt
      /\ \A lb \in Va : t.mm.pte[lb] = IF start <= lb /\ lb < start + (i - 1) THEN NoMap
                                       ELSE s.mm.pte[lb]
  BY DEF Unmapped
<1>2. CASE t.mm.pt[PDX(la)] = None \/ t.mm.pte[la] = NoMap
  <2>1. t.mm.pte[la] = NoMap
    BY <1>1, <1>2 DEF Sound, Placed
  <2>2. \A lb \in Va : t.mm.pte[lb] = IF start <= lb /\ lb < start + i THEN NoMap
                                      ELSE s.mm.pte[lb]
    <3> SUFFICES ASSUME NEW lb \in Va
                 PROVE  t.mm.pte[lb] = IF start <= lb /\ lb < start + i THEN NoMap
                                       ELSE s.mm.pte[lb]
      OBVIOUS
    <3>1. CASE lb = la
      <4>1. start <= lb /\ lb < start + i
        BY <3>1
      <4> QED BY <2>1, <3>1, <4>1
    <3>2. CASE lb # la
      <4>1. lb < start + i <=> lb < start + (i - 1)
        BY <3>2 DEF Va, VmmAssumption
      <4> QED BY <1>1, <4>1
    <3> QED BY <3>1, <3>2
  <2>3. Unmapped(s, start, i, others, t)
    BY <1>1, <2>2 DEF Unmapped
  <2> QED BY <1>2, <2>3
<1>3. CASE t.mm.pt[PDX(la)] # None /\ t.mm.pte[la] # NoMap
  <2> DEFINE u == page_remove_pte(t, la)
  <2>1. Removed(t, la, others, u)
    BY <1>1, <1>3, RemovePte
  <2> HIDE DEF u
  <2>2. /\ Sound(u, others) /\ Kept(t, u, others) /\ u.err = t.err
        /\ u.mm = SetPte(t.mm, la, NoMap)
    BY <2>1 DEF Removed
  <2>3. PteIs(t.mm, la, NoMap, u.mm)
    <3>1. t.mm \in MM /\ NoMap \in Map
      BY <1>1, Fields DEF Sound, Map
    <3> QED BY <3>1, <2>2, PteSet
  <2>4. /\ u.mm.mmap = t.mm.mmap /\ u.mm.pt = t.mm.pt
        /\ u.mm.pte[la] = NoMap /\ \A lb \in Va : lb # la => u.mm.pte[lb] = t.mm.pte[lb]
    BY <2>3 DEF PteIs
  <2>5. \A lb \in Va : u.mm.pte[lb] = IF start <= lb /\ lb < start + i THEN NoMap
                                      ELSE s.mm.pte[lb]
    <3> SUFFICES ASSUME NEW lb \in Va
                 PROVE  u.mm.pte[lb] = IF start <= lb /\ lb < start + i THEN NoMap
                                       ELSE s.mm.pte[lb]
      OBVIOUS
    <3>1. CASE lb = la
      <4>1. start <= lb /\ lb < start + i
        BY <3>1
      <4> QED BY <2>4, <3>1, <4>1
    <3>2. CASE lb # la
      <4>1. lb < start + i <=> lb < start + (i - 1)
        BY <3>2 DEF Va, VmmAssumption
      <4> QED BY <1>1, <2>4, <3>2, <4>1
    <3> QED BY <3>1, <3>2
  <2>6. Kept(s, u, others)
    BY <1>1, <2>2, KeptTwice
  <2>7. Unmapped(s, start, i, others, u)
    BY <1>1, <2>2, <2>4, <2>5, <2>6 DEF Unmapped
  <2> QED BY <1>3, <2>7 DEF u
<1> QED BY <1>2, <1>3

\* unmap_range unmaps the pages of the range and no other page, and frees their frames.
LEMMA UnmapRange ==
    ASSUME VmmAssumption, NEW others, NEW s, Sound(s, others), NEW start \in Nat,
           NEW end \in 0..NVA, start <= end
    PROVE  Unmapped(s, start, end - start, others, unmap_range(s, start, end))
<1> DEFINE n == end - start
           Turn(t, i) == LET la == start + i - 1
                         IN  IF t.mm.pt[PDX(la)] = None \/ t.mm.pte[la] = NoMap THEN t
                             ELSE page_remove_pte(t, la)
           R == {x \in Machine \X (0..n) : Unmapped(s, start, x[2], others, x[1])}
           next == [x \in R |-> Turn(x[1], x[2] + 1)]
           after == CHOOSE g : g = [i \in 0..n |-> IF i = 0 THEN s ELSE Turn(g[i - 1], i)]
<1>1. unmap_range(s, start, end) = after[n]
  BY DEF unmap_range, Loop
<1>2. n \in Nat
  BY DEF VmmAssumption
<1>3. <<s, 0>> \in R
  <2>1. Kept(s, s, others) /\ s \in Machine
    BY KeptSame DEF Sound
  <2>2. \A la \in Va : ~(start <= la /\ la < start + 0)
    BY DEF Va, VmmAssumption
  <2>3. Unmapped(s, start, 0, others, s)
    BY <2>1, <2>2 DEF Unmapped
  <2> QED BY <1>2, <2>1, <2>3
<1>4. ASSUME NEW i \in 1..n, NEW t, <<t, i - 1>> \in R
      PROVE  <<Turn(t, i), i>> \in R
  <2>1. Unmapped(s, start, i - 1, others, t)
    BY <1>4
  <2>2. start + i - 1 \in Va /\ i \in Nat \ {0}
    BY <1>2 DEF Va, VmmAssumption
  <2>3. Unmapped(s, start, i, others, Turn(t, i))
    BY <2>1, <2>2, UnmapPage
  <2> HIDE DEF Turn
  <2>4. Turn(t, i) \in Machine
    BY <2>3 DEF Unmapped, Sound
  <2> QED BY <1>2, <2>3, <2>4
<1>5. \A i \in 1..n : \A t : <<t, i - 1>> \in R => next[<<t, i - 1>>] = Turn(t, i)
  <2> SUFFICES ASSUME NEW i \in 1..n, NEW t, <<t, i - 1>> \in R
               PROVE  next[<<t, i - 1>>] = Turn(t, i)
    OBVIOUS
  <2>1. (i - 1) + 1 = i
    BY <1>2
  <2> HIDE DEF Turn, R
  <2> QED BY <2>1
<1> HIDE DEF Turn, R, next, n
<1>6. Turning(n, R, next)
  BY <1>4, <1>5 DEF Turning
<1>7. PICK g : Looped(g, n, s, next) /\ StaysIn(g, n, R)
  <2> HIDE DEF after
  <2> QED BY <1>2, <1>3, <1>6, LoopExists
<1>8. g = [i \in 0..n |-> IF i = 0 THEN s ELSE Turn(g[i - 1], i)]
  <2>1. \A i \in 0..n : i # 0 => i \in 1..n /\ i - 1 \in 0..n
    BY <1>2
  <2>2. \A i \in 0..n : i # 0 => next[<<g[i - 1], i - 1>>] = Turn(g[i - 1], i)
    BY <1>5, <1>7, <2>1 DEF StaysIn
  <2> QED BY <1>7, <2>2 DEF Looped
<1>9. after = [i \in 0..n |-> IF i = 0 THEN s ELSE Turn(after[i - 1], i)]
  BY <1>8
<1> HIDE DEF after
<1>10. <<after[n], n>> \in R
  <2>1. <<after[0], 0>> \in R
    BY <1>2, <1>3, <1>9
  <2>2. \A i \in 1..n : <<after[i - 1], i - 1>> \in R => <<after[i], i>> \in R
    BY <1>2, <1>4, <1>9
  <2> QED BY <1>2, <2>1, <2>2, LastTurn
<1> QED BY <1>1, <1>10 DEF R, n

\* copy_page: page la is what it is in the address space from.
SamePage(from, la, page, t) ==
    IF from.pte[la] = NoMap THEN t.mm.pte[la] = NoMap
    ELSE /\ t.mm.pte[la] # NoMap /\ t.mm.pte[la].w = from.pte[la].w
         /\ t.page[t.mm.pte[la].frame] = page[from.pte[la].frame]
\* All other pages are as they were, with their contents.
OtherPages(s, la, t) ==
    \A lb \in Va : lb # la =>
        /\ t.mm.pte[lb] = s.mm.pte[lb]
        /\ s.mm.pte[lb] # NoMap => t.page[s.mm.pte[lb].frame] = s.page[s.mm.pte[lb].frame]
PageCopied(s, from, la, others, t) ==
    /\ Sound(t, others) /\ Kept(s, t, others) /\ t.mm.mmap = s.mm.mmap
    /\ OtherPages(s, la, t)
    /\ t.err \in {"", "E_NO_MEM", "assert"}
    /\ t.err = "" => SamePage(from, la, s.page, t)

\* copy_range at one page: the copy is in a frame of its own, with the contents and the
\* permissions of the original, or it failed with nothing mapped.
LEMMA CopyPage ==
    ASSUME VmmAssumption, NEW others, NEW s, Sound(s, others), Ok(s), NEW la \in Va,
           Covered(s.mm, la), s.mm.pte[la] = NoMap, NEW from \in MM
    PROVE  PageCopied(s, from, la, others, copy_page(s, from, la))
<1> SUFFICES ASSUME NEW t, t = copy_page(s, from, la)
             PROVE  PageCopied(s, from, la, others, t)
  OBVIOUS
<1>0. s \in Machine /\ "assert" \in Error /\ from.pte \in Ptes
  BY Fields, MMFields DEF Sound, Error
<1>1. CASE from.pte[la] = NoMap
  <2>1. t = s
    BY <1>1 DEF copy_page
  <2>2. Kept(s, s, others)
    BY KeptSame
  <2>3. OtherPages(s, la, s)
    BY DEF OtherPages
  <2> QED BY <1>1, <2>1, <2>2, <2>3 DEF PageCopied, SamePage, Ok
<1>2. CASE from.pte[la] # NoMap
  <2> DEFINE g == get_pte(s, la)
             map == from.pte[la]
             f == NextFrame(g)
             s0 == Take(g, f, g.page[map.frame])
             u == page_insert(s0, f, la, map.w)
  <2>1. t = IF ~Ok(g) THEN g ELSE IF g.free = {} THEN Fail(g, "assert")
            ELSE page_insert([g EXCEPT !.free = @ \ {f}, !.page[f] = g.page[map.frame]],
                             f, la, map.w)
    BY <1>2 DEF copy_page, Then
  <2>2. [g EXCEPT !.free = @ \ {f}, !.page[f] = g.page[map.frame]] = s0
    BY DEF Take
  <2>3. t = IF ~Ok(g) THEN g ELSE IF g.free = {} THEN Fail(g, "assert") ELSE u
    BY <2>1, <2>2
  <2>4. map.frame \in Frame /\ map.w \in BOOLEAN
    <3>1. map \in Map /\ map # NoMap
      BY <1>0, <1>2 DEF Ptes
    <3> QED BY <3>1 DEF Map
  <2>5. TableGot(s, la, others, g)
    BY GetPte
  <2> HIDE DEF g, map
  <2>6. /\ Sound(g, others) /\ Kept(s, g, others) /\ g \in Machine
        /\ g.mm.pte = s.mm.pte /\ g.mm.mmap = s.mm.mmap /\ g.page = s.page
        /\ \/ g.err = s.err /\ g.mm.pt[PDX(la)] # None
           \/ g.err = "E_NO_MEM"
    BY <2>5 DEF TableGot, Sound
  <2>7. CASE ~Ok(g)
    <3>1. t = g /\ g.err = "E_NO_MEM"
      BY <2>3, <2>6, <2>7 DEF Ok
    <3>2. OtherPages(s, la, g)
      BY <2>6 DEF OtherPages
    <3> QED BY <3>1, <3>2, <2>6 DEF PageCopied
  <2>8. CASE Ok(g) /\ g.free = {}
    <3>1. t = Fail(g, "assert")
      BY <2>3, <2>8
    <3>2. Alike(g, t) /\ t.err = "assert" /\ t.tlb = g.tlb
      BY <1>0, <2>6, <3>1, FailFields
    <3>3. Sound(t, others) /\ t.mm = g.mm /\ t.page = g.page
      BY <2>6, <3>2 DEF Sound, Alike
    <3>4. Kept(s, t, others)
      <4>1. Kept(g, t, others)
        BY <3>2 DEF Alike, Kept
      <4> QED BY <2>6, <4>1, KeptTwice
    <3>5. OtherPages(s, la, t)
      BY <2>6, <3>3 DEF OtherPages
    <3> QED BY <2>6, <3>2, <3>3, <3>4, <3>5 DEF PageCopied
  <2>9. CASE Ok(g) /\ g.free # {}
    <3>1. f \in g.free /\ f \in Frame
      BY <2>6, <2>9, NextFree
    <3>2. g.page[map.frame] \in Content
      <4>1. g.page \in Pages
        BY <2>6, Fields
      <4> QED BY <2>4, <4>1 DEF Pages
    <3>3. t = u
      BY <2>3, <2>9
    <3> HIDE DEF f
    <3>4. Taken(g, f, g.page[map.frame], others, s0)
      BY <2>6, <3>1, <3>2, TakeFrame
    <3>5. g.mm.pt[PDX(la)] # None /\ Covered(g.mm, la)
      BY <2>6, <2>9 DEF Ok, Covered
    <3> HIDE DEF s0
    <3>6. PageFilled(g, la, map.w, g.page[map.frame], others, u)
      <4>1. \/ PageFilled(g, la, map.w, g.page[map.frame], others, page_insert(s0, f, la, map.w))
            \/ /\ Uninserted(s0, others \cup {f}, page_insert(s0, f, la, map.w))
               /\ g.mm.pt[PDX(la)] = None
        BY <2>4, <2>6, <2>9, <3>1, <3>2, <3>4, <3>5, InsertTaken
      <4> QED BY <3>5, <4>1
    <3> HIDE DEF u
    <3>7. /\ t.err = "" /\ Sound(t, others) /\ Kept(g, t, others) /\ t.mm.mmap = g.mm.mmap
          /\ t.mm.pte[la] # NoMap /\ t.mm.pte[la].w = map.w
          /\ OtherPages(g, la, t)
          /\ t.page[t.mm.pte[la].frame] = g.page[map.frame]
      BY <3>3, <3>6 DEF PageFilled, PageAdded, OtherPages
    <3>8. SamePage(from, la, s.page, t)
      BY <1>2, <2>6, <3>7 DEF SamePage, map
    <3>9. Kept(s, t, others)
      BY <2>6, <3>7, KeptTwice
    <3>10. OtherPages(s, la, t)
      BY <2>6, <3>7 DEF OtherPages
    <3> QED BY <2>6, <3>7, <3>8, <3>9, <3>10 DEF PageCopied
  <2> QED BY <2>7, <2>8, <2>9
<1> QED BY <1>1, <1>2

\* The tables of a set leave the address space, which has no pages.
DropTables(s, drop) ==
    [s EXCEPT !.mm = [s.mm EXCEPT !.pt = [i \in Table |-> IF i \in drop THEN None ELSE s.mm.pt[i]]]]
DroppedFrames(s, drop) == {s.mm.pt[i] : i \in drop \cap Table} \ {None}
TablesDropped(s, drop, others, t) ==
    /\ Sound(t, others) /\ Kept(s, t, others) /\ t.err = s.err
    /\ t.mm.mmap = s.mm.mmap /\ t.mm.pte = s.mm.pte
    /\ t.mm.pt = [i \in Table |-> IF i \in drop THEN None ELSE s.mm.pt[i]]

\* Page tables taken out of a directory with no page mapped are the others' frames then.
LEMMA TablesLeave ==
    ASSUME VmmAssumption, NEW others, NEW s, Sound(s, others), NEW drop,
           \A la \in Va : s.mm.pte[la] = NoMap
    PROVE  /\ TablesDropped(s, drop, others \cup DroppedFrames(s, drop), DropTables(s, drop))
           /\ DroppedFrames(s, drop) \cap others = {} /\ DroppedFrames(s, drop) \in SUBSET Frame
<1> DEFINE fs == DroppedFrames(s, drop)
<1> SUFFICES ASSUME NEW t, t = DropTables(s, drop)
             PROVE  /\ TablesDropped(s, drop, others \cup fs, t)
                    /\ fs \cap others = {} /\ fs \in SUBSET Frame
  OBVIOUS
<1> DEFINE pt == [i \in Table |-> IF i \in drop THEN None ELSE s.mm.pt[i]]
           mm == [s.mm EXCEPT !.pt = pt]
<1>0. fs = {s.mm.pt[i] : i \in drop \cap Table} \ {None}
  BY DEF DroppedFrames
<1> HIDE DEF fs
<1>1. s \in Machine /\ s.mm \in MM /\ s.mm.pt \in Tabs /\ others \in SUBSET Frame
  BY Fields, MMFields DEF Sound, Frames
<1>2. pt \in Tabs
  BY <1>1 DEF Tabs
<1>3. /\ s.free \cap others = {} /\ s.free \cap Parts(s.mm) = {}
      /\ others \cap Parts(s.mm) = {} /\ Frame = s.free \cup others \cup Parts(s.mm)
  BY DEF Sound
<1>4. fs \in SUBSET TablesOf(s.mm) /\ fs \in SUBSET Frame
  <2>1. \A x \in fs : x \in TablesOf(s.mm) /\ x \in Frame
    <3> SUFFICES ASSUME NEW x \in fs PROVE x \in TablesOf(s.mm) /\ x \in Frame
      OBVIOUS
    <3>1. PICK i \in drop \cap Table : x = s.mm.pt[i] /\ x # None
      BY <1>0
    <3> QED BY <3>1, <1>1 DEF TablesOf, Tabs
  <2> QED BY <2>1
<1>5. /\ \A i \in Table : pt[i] = IF i \in drop THEN None ELSE s.mm.pt[i]
  OBVIOUS
<1>6. mm \in MM /\ mm.pt = pt /\ mm.pte = s.mm.pte /\ mm.mmap = s.mm.mmap /\ mm.pgdir = s.mm.pgdir
  <2> HIDE DEF pt
  <2> QED BY <1>1, <1>2 DEF MM
<1>7. t = [s EXCEPT !.mm = mm]
  BY DEF DropTables
<1> HIDE DEF mm, pt
<1>8. /\ t \in Machine /\ t.free = s.free /\ t.ref = s.ref /\ t.mm = mm /\ t.page = s.page
      /\ t.kmem = s.kmem /\ t.tlb = s.tlb /\ t.index = s.index /\ t.err = s.err
      /\ t.kstack = s.kstack
  BY <1>1, <1>6, <1>7 DEF Machine
<1>9. TablesOf(mm) = TablesOf(s.mm) \ fs
  <2>1. ASSUME NEW x \in TablesOf(mm) PROVE x \in TablesOf(s.mm) /\ x \notin fs
    <3>1. PICK i \in Table : x = pt[i] /\ x # None
      BY <1>6, <2>1 DEF TablesOf
    <3>2. i \notin drop /\ x = s.mm.pt[i]
      BY <1>5, <3>1
    <3>3. ASSUME x \in fs PROVE FALSE
      <4>1. PICK j \in drop \cap Table : x = s.mm.pt[j]
        BY <1>0, <3>3
      <4> QED BY <3>1, <3>2, <4>1 DEF Sound, Apart
    <3> QED BY <3>1, <3>2, <3>3 DEF TablesOf
  <2>2. ASSUME NEW x \in TablesOf(s.mm), x \notin fs PROVE x \in TablesOf(mm)
    <3>1. PICK i \in Table : x = s.mm.pt[i] /\ x # None
      BY <2>2 DEF TablesOf
    <3>2. i \notin drop
      BY <1>0, <2>2, <3>1
    <3>3. x = pt[i]
      BY <1>5, <3>1, <3>2
    <3> QED BY <1>6, <3>1, <3>3 DEF TablesOf
  <2> QED BY <2>1, <2>2
<1>10. PagesOf(mm) = PagesOf(s.mm) /\ PagesOf(s.mm) = {}
  BY <1>6 DEF PagesOf, NoMap
<1>11. s.mm.pgdir # None => s.mm.pgdir \notin TablesOf(s.mm)
  BY DEF Sound, Apart
<1>12. Parts(mm) = Parts(s.mm) \ fs /\ fs \in SUBSET Parts(s.mm)
  <2>1. /\ Parts(mm) = ({s.mm.pgdir} \ {None}) \cup (TablesOf(s.mm) \ fs)
        /\ Parts(s.mm) = ({s.mm.pgdir} \ {None}) \cup TablesOf(s.mm)
    BY <1>6, <1>9, <1>10 DEF Parts
  <2> QED BY <1>4, <1>11, <2>1
<1>13. /\ t.free \cap (others \cup fs) = {} /\ t.free \cap Parts(mm) = {}
       /\ (others \cup fs) \cap Parts(mm) = {}
       /\ Frame = t.free \cup (others \cup fs) \cup Parts(mm)
       /\ others \cup fs \in Frames /\ fs \cap others = {}
  <2>1. t.free = s.free
    BY <1>8
  <2> QED BY <1>1, <1>3, <1>4, <1>12, <2>1 DEF Frames
<1>14. Apart(mm)
  <2>1. ASSUME NEW i \in Table, NEW j \in Table, i # j, mm.pt[i] # None PROVE mm.pt[i] # mm.pt[j]
    <3>1. mm.pt[i] = s.mm.pt[i] /\ mm.pt[j] \in {None, s.mm.pt[j]}
      BY <1>5, <1>6, <2>1
    <3> QED BY <2>1, <3>1 DEF Sound, Apart
  <2>2. ASSUME NEW i \in Table, NEW la \in Va, mm.pt[i] # None PROVE mm.pt[i] # mm.pte[la].frame
    <3>1. mm.pte[la].frame = None
      BY <1>6 DEF NoMap
    <3> QED BY <2>2, <3>1
  <2>3. mm.pgdir # None => mm.pgdir \notin TablesOf(mm) \cup PagesOf(mm)
    BY <1>6, <1>9, <1>10, <1>11
  <2> QED BY <1>6, <2>1, <2>2, <2>3 DEF Apart
<1>15. Placed(mm)
  <2>1. ASSUME NEW i \in Table, mm.pt[i] # None
        PROVE  \E n \in DOMAIN mm.mmap : i \in PDX(mm.mmap[n].start)..PDX(mm.mmap[n].end - 1)
    <3>1. s.mm.pt[i] # None
      BY <1>5, <1>6, <2>1
    <3> QED BY <1>6, <3>1 DEF Sound, Placed
  <2> QED BY <1>6, <2>1 DEF Placed
<1>16. \A la \in Va : mm.pte[la] # NoMap => t.ref[mm.pte[la].frame] = 1
  BY <1>6
<1>17. Sound(t, others \cup fs)
  <2>1. \A f \in t.free : t.ref[f] = 0
    BY <1>8 DEF Sound
  <2> QED BY <1>8, <1>13, <1>14, <1>15, <1>16, <2>1 DEF Sound
<1>18. Kept(s, t, others \cup fs)
  BY <1>6, <1>8 DEF Kept
<1>19. TablesDropped(s, drop, others \cup fs, t)
  BY <1>6, <1>8, <1>17, <1>18 DEF TablesDropped, pt
<1> QED BY <1>4, <1>13, <1>19 DEF fs

\* exit_range: the tables of the range are freed.
RangeExited(s, start, end, others, t) ==
    /\ Sound(t, others) /\ Kept(s, t, others) /\ t.err = s.err
    /\ t.mm.mmap = s.mm.mmap /\ t.mm.pte = s.mm.pte
    /\ \A i \in Table : t.mm.pt[i] = IF i \in PDX(start)..PDX(end - 1) THEN None ELSE s.mm.pt[i]

\* exit_range frees the page tables that lie in the range, when its pages are unmapped.
LEMMA ExitRange ==
    ASSUME VmmAssumption, NEW others, NEW s, Sound(s, others),
           NEW start \in Nat, NEW end \in 0..NVA, start < end,
           \A la \in Va : s.mm.pte[la] = NoMap
    PROVE  RangeExited(s, start, end, others, exit_range(s, start, end))
<1> DEFINE tables == PDX(start)..PDX(end - 1)
           fs == DroppedFrames(s, tables)
           u == DropTables(s, tables)
           t == exit_range(s, start, end)
<1>1. tables \in SUBSET Table
  <2>1. end - 1 \in Nat /\ start <= end - 1 /\ end - 1 \in Va
    BY DEF Va, VmmAssumption
  <2>2. PDX(end - 1) \in Table
    BY <2>1, TableOf
  <2>3. PDX(start) \in Nat
    BY <2>1, TableOrder
  <2>4. (NVA - 1) \div PTSIZE \in Int
    BY DEF VmmAssumption
  <2> QED BY <2>2, <2>3, <2>4 DEF Table, PDX
<1>2. s \in Machine /\ s.mm \in MM /\ s.mm.pt \in Tabs
  BY Fields, MMFields DEF Sound
<1>3. t = free_pages(u, fs)
  <2>1. DOMAIN s.mm.pt = Table
    BY <1>2 DEF Tabs
  <2>2. [s EXCEPT !.mm.pt = [i \in DOMAIN @ |-> IF i \in tables THEN None ELSE @[i]]] = u
    <3> HIDE DEF tables
    <3> QED BY <2>1 DEF DropTables
  <2>3. {s.mm.pt[i] : i \in tables} \ {None} = fs
    <3>1. tables \cap Table = tables
      BY <1>1
    <3> HIDE DEF tables
    <3> QED BY <3>1 DEF DroppedFrames
  <2>4. t = free_pages([s EXCEPT !.mm.pt = [i \in DOMAIN @ |-> IF i \in tables THEN None ELSE @[i]]],
                       {s.mm.pt[i] : i \in tables} \ {None})
    BY DEF exit_range
  <2> HIDE DEF tables, fs, u, t
  <2> QED BY <2>2, <2>3, <2>4
<1> HIDE DEF tables, t
<1>4. TablesDropped(s, tables, others \cup fs, u) /\ fs \cap others = {} /\ fs \in SUBSET Frame
  <2> HIDE DEF fs, u
  <2>1. /\ TablesDropped(s, tables, others \cup DroppedFrames(s, tables), DropTables(s, tables))
        /\ DroppedFrames(s, tables) \cap others = {} /\ DroppedFrames(s, tables) \in SUBSET Frame
    BY TablesLeave
  <2> QED BY <2>1 DEF fs, u
<1> HIDE DEF u
<1>5. /\ Sound(u, others \cup fs) /\ Kept(s, u, others \cup fs) /\ u.err = s.err
      /\ u.mm.mmap = s.mm.mmap /\ u.mm.pte = s.mm.pte
      /\ u.mm.pt = [i \in Table |-> IF i \in tables THEN None ELSE s.mm.pt[i]]
  BY <1>4 DEF TablesDropped
<1> HIDE DEF fs
<1>6. Freed(u, fs, t)
  <2>1. u \in Machine
    BY <1>5 DEF Sound
  <2> QED BY <1>3, <1>4, <2>1, FreePages
<1>7. Sound(t, others) /\ Kept(u, t, others)
  <2>1. fs \in SUBSET (others \cup fs) /\ (others \cup fs) \ fs = others
    BY <1>4
  <2>2. Sound(t, (others \cup fs) \ fs) /\ Kept(u, t, (others \cup fs) \ fs)
    BY <1>5, <1>6, <2>1, GiveBack
  <2> QED BY <2>1, <2>2
<1>8. Kept(s, t, others)
  <2>1. Kept(s, u, others)
    BY <1>5, KeptFewer
  <2> QED BY <2>1, <1>7, KeptTwice
<1>9. t.mm = u.mm /\ t.err = u.err
  BY <1>6 DEF Freed
<1>10. RangeExited(s, start, end, others, t)
  BY <1>5, <1>7, <1>8, <1>9 DEF RangeExited, tables
<1> QED BY <1>10 DEF t

\* The first loop of exit_mmap, when it has unmapped k areas.
AreasUnmapped(s, k, others, t) ==
    /\ Sound(t, others) /\ Kept(s, t, others) /\ t.err = s.err
    /\ t.mm.mmap = s.mm.mmap
    /\ \A la \in Va : \A m \in 1..k : Holds(s.mm.mmap[m], la) => t.mm.pte[la] = NoMap

\* The second loop, when it has freed the tables of k areas.
AreasExited(s, k, others, t) ==
    /\ Sound(t, others) /\ Kept(s, t, others) /\ t.err = s.err
    /\ t.mm.mmap = s.mm.mmap
    /\ \A la \in Va : t.mm.pte[la] = NoMap
    /\ \A i \in Table : \A m \in 1..k :
          i \in PDX(s.mm.mmap[m].start)..PDX(s.mm.mmap[m].end - 1) => t.mm.pt[i] = None

\* An area of an address space.
LEMMA AreaType ==
    ASSUME NEW others, NEW s, Sound(s, others), NEW m \in 1..Len(s.mm.mmap)
    PROVE  /\ s.mm.mmap[m] \in Area
           /\ s.mm.mmap[m].start \in Nat /\ s.mm.mmap[m].end \in 0..NVA
           /\ s.mm.mmap[m].start < s.mm.mmap[m].end
           /\ Len(s.mm.mmap) \in Nat /\ DOMAIN s.mm.mmap = 1..Len(s.mm.mmap)
<1>1. s.mm.mmap \in Seq(Area)
  BY Fields, MMFields DEF Sound
<1>2. s.mm.mmap[m] \in Area
  BY <1>1, ElementOfSeq
<1>3. s.mm.mmap[m].start \in Va
  BY <1>2 DEF Area
<1>4. s.mm.mmap[m].end \in 0..NVA /\ s.mm.mmap[m].start < s.mm.mmap[m].end
  BY <1>2 DEF Area
<1>5. s.mm.mmap[m].start \in Nat
  BY <1>3 DEF Va
<1> QED BY <1>1, <1>2, <1>4, <1>5, LenProperties

\* One turn of the first loop of exit_mmap.
LEMMA UnmapArea ==
    ASSUME VmmAssumption, NEW others, NEW s, Sound(s, others), NEW i \in 1..Len(s.mm.mmap),
           NEW t, AreasUnmapped(s, i - 1, others, t)
    PROVE  AreasUnmapped(s, i, others,
                         unmap_range(t, s.mm.mmap[i].start, s.mm.mmap[i].end))
<1> DEFINE a == s.mm.mmap[i].start
           b == s.mm.mmap[i].end
           u == unmap_range(t, a, b)
<1>1. a \in Nat /\ b \in 0..NVA /\ a <= b /\ Len(s.mm.mmap) \in Nat
  BY AreaType
<1>2. /\ Sound(t, others) /\ Kept(s, t, others) /\ t.err = s.err
      /\ t.mm.mmap = s.mm.mmap
      /\ \A la \in Va : \A m \in 1..(i - 1) : Holds(s.mm.mmap[m], la) => t.mm.pte[la] = NoMap
  BY DEF AreasUnmapped
<1> HIDE DEF a, b
<1>3. Unmapped(t, a, b - a, others, u)
  BY <1>1, <1>2, UnmapRange
<1> HIDE DEF u
<1>4. /\ Sound(u, others) /\ Kept(t, u, others) /\ u.err = t.err
      /\ u.mm.mmap = t.mm.mmap
      /\ \A la \in Va : u.mm.pte[la] = IF a <= la /\ la < a + (b - a) THEN NoMap ELSE t.mm.pte[la]
  BY <1>3 DEF Unmapped
<1>5. ASSUME NEW la \in Va, NEW m \in 1..i, Holds(s.mm.mmap[m], la)
      PROVE  u.mm.pte[la] = NoMap
  <2>1. CASE m = i
    <3>1. a <= la /\ la < b
      BY <1>5, <2>1 DEF Holds, a, b
    <3>2. a <= la /\ la < a + (b - a)
      BY <1>1, <3>1
    <3> QED BY <1>4, <3>2
  <2>2. CASE m # i
    <3>1. m \in 1..(i - 1)
      BY <1>1, <2>2
    <3>2. t.mm.pte[la] = NoMap
      BY <1>2, <1>5, <3>1
    <3> QED BY <1>4, <3>2
  <2> QED BY <2>1, <2>2
<1>6. Kept(s, u, others)
  BY <1>2, <1>4, KeptTwice
<1>7. AreasUnmapped(s, i, others, u)
  BY <1>2, <1>4, <1>5, <1>6 DEF AreasUnmapped
<1> QED BY <1>7 DEF u, a, b

\* One turn of the second loop of exit_mmap.
LEMMA ExitArea ==
    ASSUME VmmAssumption, NEW others, NEW s, Sound(s, others), NEW i \in 1..Len(s.mm.mmap),
           NEW t, AreasExited(s, i - 1, others, t)
    PROVE  AreasExited(s, i, others,
                       exit_range(t, s.mm.mmap[i].start, s.mm.mmap[i].end))
<1> DEFINE a == s.mm.mmap[i].start
           b == s.mm.mmap[i].end
           u == exit_range(t, a, b)
<1>1. a \in Nat /\ b \in 0..NVA /\ a < b /\ Len(s.mm.mmap) \in Nat
  BY AreaType
<1>2. /\ Sound(t, others) /\ Kept(s, t, others) /\ t.err = s.err
      /\ t.mm.mmap = s.mm.mmap
      /\ \A la \in Va : t.mm.pte[la] = NoMap
      /\ \A j \in Table : \A m \in 1..(i - 1) :
            j \in PDX(s.mm.mmap[m].start)..PDX(s.mm.mmap[m].end - 1) => t.mm.pt[j] = None
  BY DEF AreasExited
<1> HIDE DEF a, b
<1>3. RangeExited(t, a, b, others, u)
  BY <1>1, <1>2, ExitRange
<1> HIDE DEF u
<1>4. /\ Sound(u, others) /\ Kept(t, u, others) /\ u.err = t.err
      /\ u.mm.mmap = t.mm.mmap /\ u.mm.pte = t.mm.pte
      /\ \A j \in Table : u.mm.pt[j] = IF j \in PDX(a)..PDX(b - 1) THEN None ELSE t.mm.pt[j]
  BY <1>3 DEF RangeExited
<1>5. ASSUME NEW j \in Table, NEW m \in 1..i,
             j \in PDX(s.mm.mmap[m].start)..PDX(s.mm.mmap[m].end - 1)
      PROVE  u.mm.pt[j] = None
  <2>1. CASE m = i
    <3>1. j \in PDX(a)..PDX(b - 1)
      BY <1>5, <2>1 DEF a, b
    <3> QED BY <1>4, <3>1
  <2>2. CASE m # i
    <3>1. m \in 1..(i - 1)
      BY <1>1, <2>2
    <3>2. t.mm.pt[j] = None
      BY <1>2, <1>5, <3>1
    <3> QED BY <1>4, <3>2
  <2> QED BY <2>1, <2>2
<1>6. Kept(s, u, others)
  BY <1>2, <1>4, KeptTwice
<1>7. AreasExited(s, i, others, u)
  BY <1>2, <1>4, <1>5, <1>6 DEF AreasExited
<1> QED BY <1>7 DEF u, a, b

\* The loops of exit_mmap.
UnmapAll(s) == Loop(s, Len(s.mm.mmap),
                    LAMBDA t, i : unmap_range(t, s.mm.mmap[i].start, s.mm.mmap[i].end))
ExitAll(s, u) == Loop(u, Len(s.mm.mmap),
                      LAMBDA t, i : exit_range(t, s.mm.mmap[i].start, s.mm.mmap[i].end))

\* The first loop of exit_mmap unmaps every page, since every page lies in an area.
LEMMA UnmapAllAreas ==
    ASSUME VmmAssumption, NEW others, NEW s, Sound(s, others)
    PROVE  AreasUnmapped(s, Len(s.mm.mmap), others, UnmapAll(s))
<1> DEFINE n == Len(s.mm.mmap)
           Turn(t, i) == unmap_range(t, s.mm.mmap[i].start, s.mm.mmap[i].end)
           R == {x \in Machine \X (0..n) : AreasUnmapped(s, x[2], others, x[1])}
           next == [x \in R |-> Turn(x[1], x[2] + 1)]
           after == CHOOSE g : g = [i \in 0..n |-> IF i = 0 THEN s ELSE Turn(g[i - 1], i)]
<1>1. UnmapAll(s) = after[n]
  BY DEF UnmapAll, Loop
<1>2. n \in Nat
  BY Fields, MMFields, LenProperties DEF Sound
<1>3. <<s, 0>> \in R
  <2>1. Kept(s, s, others) /\ s \in Machine
    BY KeptSame DEF Sound
  <2>2. AreasUnmapped(s, 0, others, s)
    BY <2>1 DEF AreasUnmapped
  <2> QED BY <1>2, <2>1, <2>2
<1>4. ASSUME NEW i \in 1..n, NEW t, <<t, i - 1>> \in R
      PROVE  <<Turn(t, i), i>> \in R
  <2>1. AreasUnmapped(s, i - 1, others, t)
    BY <1>4
  <2>2. AreasUnmapped(s, i, others, Turn(t, i))
    BY <2>1, UnmapArea
  <2> HIDE DEF Turn
  <2>3. Turn(t, i) \in Machine
    BY <2>2 DEF AreasUnmapped, Sound
  <2> QED BY <1>2, <2>2, <2>3
<1>5. \A i \in 1..n : \A t : <<t, i - 1>> \in R => next[<<t, i - 1>>] = Turn(t, i)
  <2> SUFFICES ASSUME NEW i \in 1..n, NEW t, <<t, i - 1>> \in R
               PROVE  next[<<t, i - 1>>] = Turn(t, i)
    OBVIOUS
  <2>1. (i - 1) + 1 = i
    BY <1>2
  <2> HIDE DEF Turn, R
  <2> QED BY <2>1
<1> HIDE DEF Turn, R, next, n
<1>6. Turning(n, R, next)
  BY <1>4, <1>5 DEF Turning
<1>7. PICK g : Looped(g, n, s, next) /\ StaysIn(g, n, R)
  <2> HIDE DEF after
  <2> QED BY <1>2, <1>3, <1>6, LoopExists
<1>8. g = [i \in 0..n |-> IF i = 0 THEN s ELSE Turn(g[i - 1], i)]
  <2>1. \A i \in 0..n : i # 0 => i \in 1..n /\ i - 1 \in 0..n
    BY <1>2
  <2>2. \A i \in 0..n : i # 0 => next[<<g[i - 1], i - 1>>] = Turn(g[i - 1], i)
    BY <1>5, <1>7, <2>1 DEF StaysIn
  <2> QED BY <1>7, <2>2 DEF Looped
<1>9. after = [i \in 0..n |-> IF i = 0 THEN s ELSE Turn(after[i - 1], i)]
  BY <1>8
<1> HIDE DEF after
<1>10. <<after[n], n>> \in R
  <2>1. <<after[0], 0>> \in R
    BY <1>2, <1>3, <1>9
  <2>2. \A i \in 1..n : <<after[i - 1], i - 1>> \in R => <<after[i], i>> \in R
    BY <1>2, <1>4, <1>9
  <2> QED BY <1>2, <2>1, <2>2, LastTurn
<1> QED BY <1>1, <1>10 DEF R, n

\* The second loop of exit_mmap frees every page table, since each has a page in an area.
LEMMA ExitAllAreas ==
    ASSUME VmmAssumption, NEW others, NEW s, Sound(s, others),
           NEW u, AreasUnmapped(s, Len(s.mm.mmap), others, u)
    PROVE  AreasExited(s, Len(s.mm.mmap), others, ExitAll(s, u))
<1> DEFINE n == Len(s.mm.mmap)
           Turn(t, i) == exit_range(t, s.mm.mmap[i].start, s.mm.mmap[i].end)
           R == {x \in Machine \X (0..n) : AreasExited(s, x[2], others, x[1])}
           next == [x \in R |-> Turn(x[1], x[2] + 1)]
           after == CHOOSE g : g = [i \in 0..n |-> IF i = 0 THEN u ELSE Turn(g[i - 1], i)]
<1>1. ExitAll(s, u) = after[n]
  BY DEF ExitAll, Loop
<1>2. n \in Nat
  BY Fields, MMFields, LenProperties DEF Sound
<1>3. <<u, 0>> \in R
  <2>1. /\ Sound(u, others) /\ Kept(s, u, others) /\ u.err = s.err
        /\ u.mm.mmap = s.mm.mmap /\ u \in Machine
        /\ \A la \in Va : \A m \in 1..n : Holds(s.mm.mmap[m], la) => u.mm.pte[la] = NoMap
    BY DEF AreasUnmapped, Sound
  <2>2. DOMAIN s.mm.mmap = 1..n
    BY Fields, MMFields, LenProperties DEF Sound
  <2>3. \A la \in Va : u.mm.pte[la] = NoMap
    <3> SUFFICES ASSUME NEW la \in Va, u.mm.pte[la] # NoMap PROVE FALSE
      OBVIOUS
    <3>1. Covered(u.mm, la)
      BY <2>1 DEF Sound, Placed
    <3> QED BY <2>1, <2>2, <3>1 DEF Covered
  <2>4. AreasExited(s, 0, others, u)
    BY <2>1, <2>3 DEF AreasExited
  <2> QED BY <1>2, <2>1, <2>4
<1>4. ASSUME NEW i \in 1..n, NEW t, <<t, i - 1>> \in R
      PROVE  <<Turn(t, i), i>> \in R
  <2>1. AreasExited(s, i - 1, others, t)
    BY <1>4
  <2>2. AreasExited(s, i, others, Turn(t, i))
    BY <2>1, ExitArea
  <2> HIDE DEF Turn
  <2>3. Turn(t, i) \in Machine
    BY <2>2 DEF AreasExited, Sound
  <2> QED BY <1>2, <2>2, <2>3
<1>5. \A i \in 1..n : \A t : <<t, i - 1>> \in R => next[<<t, i - 1>>] = Turn(t, i)
  <2> SUFFICES ASSUME NEW i \in 1..n, NEW t, <<t, i - 1>> \in R
               PROVE  next[<<t, i - 1>>] = Turn(t, i)
    OBVIOUS
  <2>1. (i - 1) + 1 = i
    BY <1>2
  <2> HIDE DEF Turn, R
  <2> QED BY <2>1
<1> HIDE DEF Turn, R, next, n
<1>6. Turning(n, R, next)
  BY <1>4, <1>5 DEF Turning
<1>7. PICK g : Looped(g, n, u, next) /\ StaysIn(g, n, R)
  <2> HIDE DEF after
  <2> QED BY <1>2, <1>3, <1>6, LoopExists
<1>8. g = [i \in 0..n |-> IF i = 0 THEN u ELSE Turn(g[i - 1], i)]
  <2>1. \A i \in 0..n : i # 0 => i \in 1..n /\ i - 1 \in 0..n
    BY <1>2
  <2>2. \A i \in 0..n : i # 0 => next[<<g[i - 1], i - 1>>] = Turn(g[i - 1], i)
    BY <1>5, <1>7, <2>1 DEF StaysIn
  <2> QED BY <1>7, <2>2 DEF Looped
<1>9. after = [i \in 0..n |-> IF i = 0 THEN u ELSE Turn(after[i - 1], i)]
  BY <1>8
<1> HIDE DEF after
<1>10. <<after[n], n>> \in R
  <2>1. <<after[0], 0>> \in R
    BY <1>2, <1>3, <1>9
  <2>2. \A i \in 1..n : <<after[i - 1], i - 1>> \in R => <<after[i], i>> \in R
    BY <1>2, <1>4, <1>9
  <2> QED BY <1>2, <2>1, <2>2, LastTurn
<1> QED BY <1>1, <1>10 DEF R, n

\* exit_mmap: no page and no table is left.
MmapExited(s, others, t) ==
    /\ Sound(t, others) /\ Kept(s, t, others) /\ t.err = s.err
    /\ t.mm.mmap = s.mm.mmap
    /\ \A la \in Va : t.mm.pte[la] = NoMap
    /\ \A i \in Table : t.mm.pt[i] = None

\* exit_mmap leaves no page and no page table.
LEMMA ExitMmap ==
    ASSUME VmmAssumption, NEW others, NEW s, Sound(s, others)
    PROVE  MmapExited(s, others, exit_mmap(s))
<1> DEFINE u == UnmapAll(s)
           t == ExitAll(s, u)
<1>1. exit_mmap(s) = t
  BY DEF exit_mmap, UnmapAll, ExitAll
<1>2. AreasUnmapped(s, Len(s.mm.mmap), others, u)
  BY UnmapAllAreas
<1> HIDE DEF u
<1>3. AreasExited(s, Len(s.mm.mmap), others, t)
  BY <1>2, ExitAllAreas
<1> HIDE DEF t
<1>4. /\ Sound(t, others) /\ Kept(s, t, others) /\ t.err = s.err
      /\ t.mm.mmap = s.mm.mmap
      /\ \A la \in Va : t.mm.pte[la] = NoMap
      /\ \A i \in Table : \A m \in 1..Len(s.mm.mmap) :
            i \in PDX(s.mm.mmap[m].start)..PDX(s.mm.mmap[m].end - 1) => t.mm.pt[i] = None
  BY <1>3 DEF AreasExited
<1>5. DOMAIN s.mm.mmap = 1..Len(s.mm.mmap)
  BY Fields, MMFields, LenProperties DEF Sound
<1>6. ASSUME NEW i \in Table, t.mm.pt[i] # None PROVE FALSE
  <2>1. PICK m \in DOMAIN t.mm.mmap : i \in PDX(t.mm.mmap[m].start)..PDX(t.mm.mmap[m].end - 1)
    BY <1>4, <1>6 DEF Sound, Placed
  <2> QED BY <1>4, <1>5, <1>6, <2>1
<1>7. MmapExited(s, others, t)
  BY <1>4, <1>6 DEF MmapExited
<1> QED BY <1>1, <1>7

-----------------------------------------------------------------------------
(* Whole address spaces.                                                   *)

\* Kept for functions that make and destroy address spaces.
Left(s, t, others) ==
    /\ t.kstack = s.kstack /\ t.index = s.index
    /\ \A f \in others : t.ref[f] = s.ref[f] /\ t.page[f] = s.page[f]
    /\ t.tlb = NoTlb \/ (t.tlb = s.tlb /\ t.mm.pte = s.mm.pte)

\* The objects an address space consists of.
Needs(mm, k) ==
    CASE k = "vma" -> Len(mm.mmap)
      [] k = "mm" -> IF mm.pgdir = None THEN 0 ELSE 1
      [] OTHER -> 0
Balanced(s, t) == \A k \in Kind : t.kmem[k] - Needs(t.mm, k) = s.kmem[k] - Needs(s.mm, k)

\* A step that keeps the mm_struct too leaves the others alone and the objects balanced.
LEMMA KeptLeft ==
    ASSUME NEW s \in Machine, NEW t \in Machine, NEW others, Kept(s, t, others)
    PROVE  Left(s, t, others) /\ Balanced(s, t)
<1>1. Left(s, t, others)
  BY DEF Kept, Left
<1>2. s.kmem \in Objects /\ t.kmem \in Objects
  BY Fields
<1>3. ASSUME NEW k \in Kind PROVE t.kmem[k] - Needs(t.mm, k) = s.kmem[k] - Needs(s.mm, k)
  <2>1. CASE k = "vma"
    BY <2>1 DEF Kept, Needs
  <2>2. CASE k = "mm"
    <3>1. t.kmem[k] = s.kmem[k] /\ t.mm.pgdir = s.mm.pgdir
      BY <2>2 DEF Kept, Kind
    <3> QED BY <3>1, <2>2 DEF Needs
  <2>3. CASE k # "vma" /\ k # "mm"
    <3>1. t.kmem[k] = s.kmem[k]
      BY <2>3 DEF Kept
    <3> QED BY <3>1, <2>3 DEF Needs
  <2> QED BY <2>1, <2>2, <2>3
<1> QED BY <1>1, <1>3 DEF Balanced

\* Two steps that leave the others alone.
LEMMA LeftTwice ==
    ASSUME NEW s, NEW t, NEW u, NEW others, Left(s, t, others), Left(t, u, others)
    PROVE  Left(s, u, others)
BY DEF Left

\* What leaves others alone leaves fewer alone.
LEMMA LeftFewer ==
    ASSUME NEW s, NEW t, NEW others, Left(s, t, others), NEW fewer \in SUBSET others
    PROVE  Left(s, t, fewer)
BY DEF Left

\* Two steps that keep the objects balanced with the mm_struct.
LEMMA BalancedTwice ==
    ASSUME NEW s, NEW t, NEW u, Balanced(s, t), Balanced(t, u)
    PROVE  Balanced(s, u)
BY DEF Balanced

\* n objects of a kind more, or fewer.
Charged(s, kind, n, t) ==
    /\ t \in Machine /\ t.err = s.err
    /\ t.free = s.free /\ t.ref = s.ref /\ t.page = s.page /\ t.mm = s.mm
    /\ t.tlb = s.tlb /\ t.index = s.index /\ t.kstack = s.kstack
    /\ \A k \in Kind : t.kmem[k] = s.kmem[k] + (IF k = kind THEN n ELSE 0)

\* kfree takes the objects off the count.
LEMMA KFree ==
    ASSUME NEW s \in Machine, NEW kind \in Kind, NEW n \in Int
    PROVE  Charged(s, kind, 0 - n, kfree(s, kind, n))
<1> DEFINE t == kfree(s, kind, n)
           kmem == [s.kmem EXCEPT ![kind] = s.kmem[kind] - n]
<1>1. s.kmem \in Objects
  BY Fields
<1>2. kmem \in Objects /\ \A k \in Kind : kmem[k] = s.kmem[k] + (IF k = kind THEN 0 - n ELSE 0)
  BY <1>1 DEF Objects
<1>3. t = [s EXCEPT !.kmem = kmem]
  BY DEF kfree
<1> HIDE DEF kmem, t
<1>4. /\ t \in Machine /\ t.err = s.err
      /\ t.free = s.free /\ t.ref = s.ref /\ t.page = s.page /\ t.mm = s.mm
      /\ t.tlb = s.tlb /\ t.index = s.index /\ t.kstack = s.kstack /\ t.kmem = kmem
  BY <1>2, <1>3 DEF Machine
<1>5. Charged(s, kind, 0 - n, t)
  BY <1>2, <1>4 DEF Charged
<1> QED BY <1>5 DEF t

\* kmalloc counts one object more, or fails and changes nothing.
LEMMA KMalloc ==
    ASSUME NEW s \in Machine, NEW kind \in Kind
    PROVE  \/ Charged(s, kind, 1, kmalloc(s, kind))
           \/ /\ Alike(s, kmalloc(s, kind)) /\ kmalloc(s, kind).tlb = s.tlb
              /\ kmalloc(s, kind).err = "E_NO_MEM"
<1> DEFINE t == kmalloc(s, kind)
           kmem == [s.kmem EXCEPT ![kind] = s.kmem[kind] + 1]
           kleft == IF s.kleft = 0 THEN 0 ELSE s.kleft - 1
<1>1. s.kmem \in Objects /\ s.kleft \in Nat /\ "E_NO_MEM" \in Error
  BY Fields DEF Error
<1>2. CASE s.kleft = 1
  <2>1. t = Fail(s, "E_NO_MEM")
    BY <1>2 DEF kmalloc
  <2>2. Alike(s, t) /\ t.err = "E_NO_MEM" /\ t.tlb = s.tlb
    BY <1>1, <2>1, FailFields
  <2> HIDE DEF t
  <2> QED BY <2>2 DEF t
<1>3. CASE s.kleft # 1
  <2>1. t = [s EXCEPT !.kmem = kmem, !.kleft = kleft]
    BY <1>3 DEF kmalloc
  <2>2. kmem \in Objects /\ \A k \in Kind : kmem[k] = s.kmem[k] + (IF k = kind THEN 1 ELSE 0)
    BY <1>1 DEF Objects
  <2>3. kleft \in Nat
    BY <1>1
  <2> HIDE DEF kmem, kleft, t
  <2>4. /\ t \in Machine /\ t.err = s.err
        /\ t.free = s.free /\ t.ref = s.ref /\ t.page = s.page /\ t.mm = s.mm
        /\ t.tlb = s.tlb /\ t.index = s.index /\ t.kstack = s.kstack /\ t.kmem = kmem
    BY <2>1, <2>2, <2>3 DEF Machine
  <2>5. Charged(s, kind, 1, t)
    BY <2>2, <2>4 DEF Charged
  <2> QED BY <2>5 DEF t
<1> QED BY <1>2, <1>3

\* What counts objects or sets err leaves the frames.
LEMMA ChargedSound ==
    ASSUME NEW others, NEW s, Sound(s, others), NEW kind, NEW n, NEW t, Charged(s, kind, n, t)
    PROVE  Sound(t, others) /\ Left(s, t, others)
BY DEF Charged, Sound, Left

\* A state that differs in err and the countdowns only is as sound.
LEMMA AlikeSound ==
    ASSUME NEW others, NEW s, Sound(s, others), NEW t, Alike(s, t), t.tlb = s.tlb
    PROVE  Sound(t, others) /\ Left(s, t, others) /\ Kept(s, t, others) /\ Balanced(s, t)
<1>1. Sound(t, others) /\ Left(s, t, others) /\ Kept(s, t, others)
  BY DEF Alike, Sound, Left, Kept
<1>2. Balanced(s, t)
  BY DEF Alike, Balanced
<1> QED BY <1>1, <1>2

\* mm_destroy.
Destroyed(s, t) ==
    /\ t \in Machine /\ t.err = s.err
    /\ t.free = s.free /\ t.ref = s.ref /\ t.page = s.page
    /\ t.mm.mmap = << >> /\ t.mm.pgdir = s.mm.pgdir /\ t.mm.pt = s.mm.pt /\ t.mm.pte = s.mm.pte
    /\ t.tlb = s.tlb /\ t.index = s.index /\ t.kstack = s.kstack
    /\ \A k \in Kind : t.kmem[k] = s.kmem[k] - (CASE k = "vma" -> Len(s.mm.mmap)
                                                  [] k = "mm" -> 1
                                                  [] OTHER -> 0)

\* mm_destroy frees the mm_struct and a vma_struct for each area.
LEMMA MMDestroy ==
    ASSUME NEW s \in Machine
    PROVE  Destroyed(s, mm_destroy(s))
<1> DEFINE mm == [s.mm EXCEPT !.mmap = << >>]
           s1 == [s EXCEPT !.mm = mm]
           s2 == kfree(s1, "vma", Len(s.mm.mmap))
           t == kfree(s2, "mm", 1)
<1>1. mm_destroy(s) = t
  BY DEF mm_destroy
<1>2. s.mm \in MM /\ Len(s.mm.mmap) \in Nat /\ "vma" \in Kind /\ "mm" \in Kind /\ s.kmem \in Objects
  BY Fields, MMFields, LenProperties DEF Kind
<1>3. << >> \in Seq(Area)
  OBVIOUS
<1>4. /\ mm \in MM /\ mm.mmap = << >> /\ mm.pgdir = s.mm.pgdir /\ mm.pt = s.mm.pt
      /\ mm.pte = s.mm.pte
  <2> HIDE DEF Area
  <2> QED BY <1>2, <1>3 DEF MM
<1> HIDE DEF mm
<1>6. /\ s1 \in Machine /\ s1.err = s.err
      /\ s1.free = s.free /\ s1.ref = s.ref /\ s1.page = s.page /\ s1.mm = mm
      /\ s1.tlb = s.tlb /\ s1.index = s.index /\ s1.kstack = s.kstack /\ s1.kmem = s.kmem
  BY <1>4 DEF Machine
<1> HIDE DEF s1
<1>7. Charged(s1, "vma", 0 - Len(s.mm.mmap), s2)
  BY <1>2, <1>6, KFree
<1> HIDE DEF s2
<1>8. Charged(s2, "mm", 0 - 1, t)
  <2>1. s2 \in Machine
    BY <1>7 DEF Charged
  <2> QED BY <1>2, <2>1, KFree
<1> HIDE DEF t
<1>9. ASSUME NEW k \in Kind
      PROVE  t.kmem[k] = s.kmem[k] - (CASE k = "vma" -> Len(s.mm.mmap)
                                        [] k = "mm" -> 1
                                        [] OTHER -> 0)
  <2>1. s.kmem[k] \in Int
    BY <1>2 DEF Objects
  <2>2. s2.kmem[k] = s.kmem[k] + (IF k = "vma" THEN 0 - Len(s.mm.mmap) ELSE 0)
    BY <1>6, <1>7 DEF Charged
  <2>3. t.kmem[k] = s2.kmem[k] + (IF k = "mm" THEN 0 - 1 ELSE 0)
    BY <1>8 DEF Charged
  <2>4. CASE k = "vma"
    BY <1>2, <2>1, <2>2, <2>3, <2>4
  <2>5. CASE k = "mm"
    BY <1>2, <2>1, <2>2, <2>3, <2>5
  <2>6. CASE k # "vma" /\ k # "mm"
    BY <1>2, <2>1, <2>2, <2>3, <2>6
  <2> QED BY <2>4, <2>5, <2>6
<1>10. /\ t \in Machine /\ t.err = s.err
       /\ t.free = s.free /\ t.ref = s.ref /\ t.page = s.page /\ t.mm = mm
       /\ t.tlb = s.tlb /\ t.index = s.index /\ t.kstack = s.kstack
  BY <1>6, <1>7, <1>8 DEF Charged
<1>11. Destroyed(s, t)
  BY <1>4, <1>9, <1>10 DEF Destroyed
<1> QED BY <1>1, <1>11

\* No address space.
LEMMA NoMMFields ==
    /\ NoMM.pgdir = None /\ NoMM.mmap = << >>
    /\ \A i \in Table : NoMM.pt[i] = None
    /\ \A la \in Va : NoMM.pte[la] = NoMap
    /\ NoMM \in MM
<1>1. /\ NoMM.pgdir = None /\ NoMM.mmap = << >>
      /\ NoMM.pt = [i \in Table |-> None] /\ NoMM.pte = [la \in Va |-> NoMap]
  BY DEF NoMM, Table
<1>2. NoMM.pt \in Tabs /\ NoMM.pte \in Ptes /\ NoMM.mmap \in Seq(Area)
  BY <1>1 DEF Tabs, Ptes, Map
<1>3. NoMM = [pgdir |-> NoMM.pgdir, mmap |-> NoMM.mmap, pt |-> NoMM.pt, pte |-> NoMM.pte]
  BY DEF NoMM
<1>4. NoMM \in MM
  BY <1>1, <1>2, <1>3 DEF MM
<1> QED BY <1>1, <1>4

\* An mm_struct with nothing in it is NoMM.
LEMMA IsNoMM ==
    ASSUME NEW mm \in MM, mm.pgdir = None, mm.mmap = << >>,
           \A i \in Table : mm.pt[i] = None, \A la \in Va : mm.pte[la] = NoMap
    PROVE  mm = NoMM
<1>1. mm.pt = [i \in Table |-> None]
  BY MMFields DEF Tabs
<1>2. mm.pte = [la \in Va |-> NoMap]
  BY MMFields DEF Ptes
<1>3. mm = [pgdir |-> mm.pgdir, mmap |-> mm.mmap, pt |-> mm.pt, pte |-> mm.pte]
  BY DEF MM
<1> QED BY <1>1, <1>2, <1>3 DEF NoMM, Table

\* put_pgdir and mm_destroy of an address space with no pages and no tables left.
LEMMA PutPgdir ==
    ASSUME VmmAssumption, NEW others, NEW s, Sound(s, others), s.mm.pgdir # None,
           \A la \in Va : s.mm.pte[la] = NoMap, \A i \in Table : s.mm.pt[i] = None
    PROVE  /\ Sound(mm_destroy(put_pgdir(s)), others) /\ mm_destroy(put_pgdir(s)).mm = NoMM
           /\ Left(s, mm_destroy(put_pgdir(s)), others)
           /\ Balanced(s, mm_destroy(put_pgdir(s))) /\ mm_destroy(put_pgdir(s)).err = s.err
<1> DEFINE f == s.mm.pgdir
           mm == [s.mm EXCEPT !.pgdir = None]
           s1 == [s EXCEPT !.mm = mm]
           s2 == free_pages(s1, {f})
           t == mm_destroy(s2)
<1>1. mm_destroy(put_pgdir(s)) = t
  BY DEF put_pgdir
<1>2. /\ s \in Machine /\ s.mm \in MM /\ f \in Frame /\ others \in SUBSET Frame
      /\ Len(s.mm.mmap) \in Nat /\ s.kmem \in Objects
  BY Fields, MMFields, LenProperties DEF Sound, Frames
<1>3. /\ mm \in MM /\ mm.pgdir = None /\ mm.mmap = s.mm.mmap /\ mm.pt = s.mm.pt
      /\ mm.pte = s.mm.pte
  BY <1>2 DEF MM
<1> HIDE DEF mm
<1>4. /\ s1 \in Machine /\ s1.err = s.err
      /\ s1.free = s.free /\ s1.ref = s.ref /\ s1.page = s.page /\ s1.mm = mm
      /\ s1.tlb = s.tlb /\ s1.index = s.index /\ s1.kstack = s.kstack /\ s1.kmem = s.kmem
  BY <1>2, <1>3 DEF Machine
<1> HIDE DEF s1
<1>5. TablesOf(s.mm) = {} /\ PagesOf(s.mm) = {} /\ TablesOf(mm) = {} /\ PagesOf(mm) = {}
  BY <1>3 DEF TablesOf, PagesOf, NoMap
<1>6. Parts(s.mm) = {f} /\ Parts(mm) = {}
  BY <1>3, <1>5 DEF Parts
<1>7. Sound(s1, others \cup {f})
  <2>1. /\ s.free \cap others = {} /\ s.free \cap {f} = {} /\ others \cap {f} = {}
        /\ Frame = s.free \cup others \cup {f}
    BY <1>6 DEF Sound
  <2>2. /\ s1.free \cap (others \cup {f}) = {} /\ s1.free \cap Parts(s1.mm) = {}
        /\ (others \cup {f}) \cap Parts(s1.mm) = {} /\ others \cup {f} \in Frames
        /\ Frame = s1.free \cup (others \cup {f}) \cup Parts(s1.mm)
    BY <1>2, <1>4, <1>6, <2>1 DEF Frames
  <2>3. \A g \in s1.free : s1.ref[g] = 0
    BY <1>4 DEF Sound
  <2>4. \A la \in Va : s1.mm.pte[la] = NoMap
    BY <1>3, <1>4
  <2>5. \A i \in Table : s1.mm.pt[i] = None
    BY <1>3, <1>4
  <2>6. Apart(s1.mm)
    BY <1>3, <1>4, <2>4, <2>5 DEF Apart
  <2>7. Placed(s1.mm)
    BY <2>4, <2>5 DEF Placed
  <2> QED BY <1>4, <2>2, <2>3, <2>4, <2>6, <2>7 DEF Sound
<1>8. Freed(s1, {f}, s2)
  BY <1>2, <1>4, FreePages
<1> HIDE DEF s2
<1>9. Sound(s2, others) /\ Kept(s1, s2, others)
  <2>1. {f} \in SUBSET (others \cup {f}) /\ (others \cup {f}) \ {f} = others
    <3>1. f \notin others
      BY <1>6 DEF Sound
    <3> QED BY <3>1
  <2>2. Sound(s2, (others \cup {f}) \ {f}) /\ Kept(s1, s2, (others \cup {f}) \ {f})
    BY <1>7, <1>8, <2>1, GiveBack
  <2> QED BY <2>1, <2>2
<1>10. Destroyed(s2, t)
  <2>1. s2 \in Machine
    BY <1>9 DEF Sound
  <2> QED BY <2>1, MMDestroy
<1> HIDE DEF t
<1>11. s2.mm = mm /\ s2.kmem = s.kmem /\ s2.tlb = s.tlb /\ s2.err = s.err
  BY <1>4, <1>8 DEF Freed
<1>12. t.mm = NoMM /\ t.mm \in MM
  <2>1. t.mm \in MM
    BY <1>10, Fields DEF Destroyed
  <2>2. /\ t.mm.pgdir = None /\ t.mm.mmap = << >>
        /\ \A i \in Table : t.mm.pt[i] = None
        /\ \A la \in Va : t.mm.pte[la] = NoMap
    BY <1>3, <1>10, <1>11 DEF Destroyed
  <2> QED BY <2>1, <2>2, IsNoMM
<1>13. Sound(t, others)
  <2>1. TablesOf(t.mm) = {} /\ PagesOf(t.mm) = {} /\ t.mm.pgdir = None
    BY <1>12, NoMMFields DEF TablesOf, PagesOf, NoMap
  <2>2. Parts(t.mm) = {} /\ Parts(s2.mm) = {}
    BY <2>1, <1>6, <1>11 DEF Parts
  <2>3. /\ t.free \cap others = {} /\ t.free \cap Parts(t.mm) = {} /\ others \cap Parts(t.mm) = {}
        /\ Frame = t.free \cup others \cup Parts(t.mm) /\ others \in Frames
        /\ \A g \in t.free : t.ref[g] = 0
    BY <1>9, <1>10, <2>2 DEF Sound, Destroyed
  <2>4. Apart(t.mm)
    BY <1>12, <2>1, NoMMFields DEF Apart
  <2>5. Placed(t.mm)
    BY <1>12, NoMMFields DEF Placed
  <2>6. \A la \in Va : t.mm.pte[la] = NoMap
    BY <1>12, NoMMFields
  <2> QED BY <1>10, <2>3, <2>4, <2>5, <2>6 DEF Sound, Destroyed
<1>14. Left(s, t, others)
  <2>1. t.kstack = s.kstack /\ t.index = s.index /\ t.tlb = s.tlb
    BY <1>4, <1>8, <1>10 DEF Freed, Destroyed
  <2>2. \A g \in others : t.ref[g] = s.ref[g] /\ t.page[g] = s.page[g]
    BY <1>4, <1>9, <1>10 DEF Kept, Destroyed
  <2>3. t.mm.pte = s.mm.pte
    BY <1>3, <1>10, <1>11 DEF Destroyed
  <2> QED BY <2>1, <2>2, <2>3 DEF Left
<1>15. Balanced(s, t)
  <2>1. ASSUME NEW k \in Kind PROVE t.kmem[k] - Needs(t.mm, k) = s.kmem[k] - Needs(s.mm, k)
    <3>1. s.kmem[k] \in Int
      BY <1>2 DEF Objects
    <3>2. t.kmem[k] = s.kmem[k] - (CASE k = "vma" -> Len(s.mm.mmap)
                                     [] k = "mm" -> 1
                                     [] OTHER -> 0)
      BY <1>3, <1>10, <1>11 DEF Destroyed
    <3>3. Needs(t.mm, k) = 0
      BY <1>12, NoMMFields DEF Needs
    <3>4. CASE k = "vma"
      BY SMTT(40), <1>2, <3>1, <3>2, <3>3, <3>4 DEF Needs
    <3>5. CASE k = "mm"
      BY <1>2, <3>1, <3>2, <3>3, <3>5 DEF Needs
    <3>6. CASE k # "vma" /\ k # "mm"
      BY <1>2, <3>1, <3>2, <3>3, <3>6 DEF Needs
    <3> QED BY <3>4, <3>5, <3>6
  <2> QED BY <2>1 DEF Balanced
<1>16. t.err = s.err
  BY <1>10, <1>11 DEF Destroyed
<1> QED BY <1>1, <1>12, <1>13, <1>14, <1>15, <1>16

\* free_mm.
MMFreed(s, others, t) ==
    /\ Sound(t, others) /\ Left(s, t, others) /\ Balanced(s, t)
    /\ t.err = s.err /\ t.mm = NoMM

\* What do_exit and fork's cleanup do to an mm_struct: exit_mmap, put_pgdir, mm_destroy;
\* every frame of it is free then, and its objects are off the count.
LEMMA FreeMM ==
    ASSUME VmmAssumption, NEW others, NEW s, Sound(s, others), s.mm.pgdir = None => s.mm = NoMM
    PROVE  MMFreed(s, others, free_mm(s))
<1>1. CASE s.mm = NoMM
  <2>1. free_mm(s) = s
    BY <1>1 DEF free_mm
  <2> QED BY <1>1, <2>1 DEF MMFreed, Left, Balanced
<1>2. CASE s.mm # NoMM
  <2> DEFINE u == exit_mmap(s)
             t == mm_destroy(put_pgdir(u))
  <2>1. free_mm(s) = t
    BY <1>2 DEF free_mm
  <2>2. MmapExited(s, others, u)
    BY ExitMmap
  <2> HIDE DEF u
  <2>3. /\ Sound(u, others) /\ Kept(s, u, others) /\ u.err = s.err
        /\ \A la \in Va : u.mm.pte[la] = NoMap
        /\ \A i \in Table : u.mm.pt[i] = None
    BY <2>2 DEF MmapExited
  <2>4. u.mm.pgdir # None
    BY <1>2, <2>3 DEF Kept
  <2>5. /\ Sound(t, others) /\ t.mm = NoMM /\ Left(u, t, others) /\ Balanced(u, t) /\ t.err = u.err
    BY <2>3, <2>4, PutPgdir
  <2> HIDE DEF t
  <2>6. Left(s, u, others) /\ Balanced(s, u)
    <3>1. s \in Machine /\ u \in Machine
      BY <2>3 DEF Sound
    <3> QED BY <2>3, <3>1, KeptLeft
  <2>7. Left(s, t, others)
    BY <2>5, <2>6, LeftTwice
  <2>8. Balanced(s, t)
    BY <2>5, <2>6, BalancedTwice
  <2> QED BY <2>1, <2>3, <2>5, <2>7, <2>8 DEF MMFreed
<1> QED BY <1>1, <1>2

\* Areas of an address space do not overlap.
Clear(a, b) == a.end <= b.start \/ b.end <= a.start
Separate(mm) ==
    /\ IsInjective(mm.mmap)
    /\ \A a, b \in Range(mm.mmap) : a # b => Clear(a, b)

\* mm_map: one more area, or an area in the way, or no object for it.
AreaMapped(s, vma, others, t) ==
    /\ Sound(t, others) /\ Kept(s, t, others) /\ t.err = s.err
    /\ t.mm.pte = s.mm.pte /\ t.mm.pt = s.mm.pt /\ t.page = s.page
    /\ Range(t.mm.mmap) = Range(s.mm.mmap) \cup {vma}
    /\ Separate(t.mm)
AreaRefused(s, vma, t) ==
    /\ Alike(s, t) /\ t.tlb = s.tlb
    /\ \/ t.err = "E_NO_MEM"
       \/ t.err = "E_INVAL" /\ \E a \in Range(s.mm.mmap) : ~Clear(a, vma)

\* mm_map adds the area apart from those there are, or refuses it and adds nothing.
LEMMA MMMap ==
    ASSUME VmmAssumption, NEW others, NEW s, Sound(s, others), Separate(s.mm),
           Ok(s), NEW start \in Va, NEW end \in 0..NVA, start < end,
           NEW flags \in SUBSET VmFlag, NEW vma, vma = [start |-> start, end |-> end, flags |-> flags]
    PROVE  \/ AreaMapped(s, vma, others, mm_map(s, start, end, flags))
           \/ AreaRefused(s, vma, mm_map(s, start, end, flags))
<1> DEFINE u == mm_map(s, start, end, flags)
           before == {i \in DOMAIN s.mm.mmap : s.mm.mmap[i].start < start}
           pos == Cardinality(before) + 1
           s1 == kmalloc(s, "vma")
           mmap == InsertAt(s.mm.mmap, pos, vma)
           mm == [s1.mm EXCEPT !.mmap = InsertAt(s1.mm.mmap, pos, vma)]
           t == [s1 EXCEPT !.mm = mm]
           hit == \E i \in DOMAIN s.mm.mmap : start < s.mm.mmap[i].end /\ s.mm.mmap[i].start < end
<1>1. u = IF hit THEN Fail(s, "E_INVAL") ELSE IF Ok(s1) THEN t ELSE s1
  BY DEF mm_map, Then
<1>2. /\ s \in Machine /\ s.mm \in MM /\ s.mm.mmap \in Seq(Area) /\ Len(s.mm.mmap) \in Nat
      /\ DOMAIN s.mm.mmap = 1..Len(s.mm.mmap) /\ "vma" \in Kind /\ "E_INVAL" \in Error
  BY Fields, MMFields, LenProperties DEF Sound, Kind, Error
<1>3. vma \in Area /\ vma.start = start /\ vma.end = end /\ start \in Nat /\ end \in Nat
  BY DEF Area, Va, VmmAssumption
<1>4. pos \in 1..(Len(s.mm.mmap) + 1)
  <2>1. IsFiniteSet(DOMAIN s.mm.mmap) /\ Cardinality(DOMAIN s.mm.mmap) = Len(s.mm.mmap)
    <3>1. IsFiniteSet(1..Len(s.mm.mmap))
          /\ Cardinality(1..Len(s.mm.mmap))
                = IF 1 > Len(s.mm.mmap) THEN 0 ELSE Len(s.mm.mmap) - 1 + 1
      <4>1. 1 \in Int /\ Len(s.mm.mmap) \in Int
        BY <1>2
      <4> QED BY <4>1, FS_Interval
    <3> QED BY <1>2, <3>1
  <2>2. before \in SUBSET DOMAIN s.mm.mmap
    OBVIOUS
  <2> HIDE DEF before
  <2>3. IsFiniteSet(before) /\ Cardinality(before) <= Cardinality(DOMAIN s.mm.mmap)
    BY <2>1, <2>2, FS_Subset
  <2>4. Cardinality(before) \in Nat
    BY <2>3, FS_CardinalityType
  <2> QED BY <1>2, <2>1, <2>3, <2>4
<1> HIDE DEF pos
<1>5. CASE hit
  <2>1. u = Fail(s, "E_INVAL")
    BY <1>1, <1>5
  <2>2. Alike(s, u) /\ u.err = "E_INVAL" /\ u.tlb = s.tlb
    BY <1>2, <2>1, FailFields
  <2>3. PICK i \in DOMAIN s.mm.mmap : start < s.mm.mmap[i].end /\ s.mm.mmap[i].start < end
    BY <1>5
  <2>4. s.mm.mmap[i] \in Range(s.mm.mmap)
    BY DEF Range
  <2>5. s.mm.mmap[i] \in Area
    BY <1>2, ElementOfSeq
  <2>6. s.mm.mmap[i].start \in Nat /\ s.mm.mmap[i].end \in Nat
    <3>1. s.mm.mmap[i].start \in Va /\ s.mm.mmap[i].end \in 0..NVA
      BY <2>5 DEF Area
    <3> QED BY <3>1 DEF Va, VmmAssumption
  <2>7. ~Clear(s.mm.mmap[i], vma)
    BY <1>3, <2>3, <2>6 DEF Clear
  <2> HIDE DEF u
  <2>8. AreaRefused(s, vma, u)
    BY <2>2, <2>4, <2>7 DEF AreaRefused
  <2> QED BY <2>8 DEF u
<1>6. CASE ~hit /\ ~Ok(s1)
  <2>1. u = s1
    BY <1>1, <1>6
  <2>2. \/ Charged(s, "vma", 1, s1)
        \/ Alike(s, s1) /\ s1.tlb = s.tlb /\ s1.err = "E_NO_MEM"
    BY <1>2, KMalloc
  <2> HIDE DEF s1, u
  <2>3. ~Charged(s, "vma", 1, s1)
    BY <1>6 DEF Charged, Ok
  <2>4. AreaRefused(s, vma, u)
    BY <2>1, <2>2, <2>3 DEF AreaRefused
  <2> QED BY <2>4 DEF u
<1>7. CASE ~hit /\ Ok(s1)
  <2>1. u = t
    BY <1>1, <1>7
  <2>2. Charged(s, "vma", 1, s1)
    <3>1. \/ Charged(s, "vma", 1, s1)
          \/ Alike(s, s1) /\ s1.tlb = s.tlb /\ s1.err = "E_NO_MEM"
      BY <1>2, KMalloc
    <3> QED BY <1>7, <3>1 DEF Ok
  <2> HIDE DEF s1, u
  <2>3. /\ s1 \in Machine /\ s1.err = s.err
        /\ s1.free = s.free /\ s1.ref = s.ref /\ s1.page = s.page /\ s1.mm = s.mm
        /\ s1.tlb = s.tlb /\ s1.index = s.index /\ s1.kstack = s.kstack
        /\ \A k \in Kind : s1.kmem[k] = s.kmem[k] + (IF k = "vma" THEN 1 ELSE 0)
    BY <2>2 DEF Charged
  <2>4. \A a \in Range(s.mm.mmap) : a \in Area /\ Clear(a, vma)
    <3> SUFFICES ASSUME NEW i \in DOMAIN s.mm.mmap
                 PROVE  s.mm.mmap[i] \in Area /\ Clear(s.mm.mmap[i], vma)
      BY DEF Range
    <3>1. s.mm.mmap[i] \in Area
      BY <1>2, ElementOfSeq
    <3>2. s.mm.mmap[i].start \in Nat /\ s.mm.mmap[i].end \in Nat
      <4>1. s.mm.mmap[i].start \in Va /\ s.mm.mmap[i].end \in 0..NVA
        BY <3>1 DEF Area
      <4> QED BY <4>1 DEF Va, VmmAssumption
    <3>3. ~(start < s.mm.mmap[i].end /\ s.mm.mmap[i].start < end)
      BY <1>7
    <3> QED BY <1>3, <3>1, <3>2, <3>3 DEF Clear
  <2>5. vma \notin Range(s.mm.mmap)
    <3>1. ~Clear(vma, vma)
      BY <1>3 DEF Clear
    <3> QED BY <2>4, <3>1
  <2>6. /\ mmap \in Seq(Area) /\ Len(mmap) = Len(s.mm.mmap) + 1
        /\ Range(mmap) = Range(s.mm.mmap) \cup {vma} /\ IsInjective(mmap)
    <3> HIDE DEF mmap
    <3>1. IsInjective(s.mm.mmap)
      BY DEF Separate
    <3>2. /\ InsertAt(s.mm.mmap, pos, vma) \in Seq(Area)
          /\ Len(InsertAt(s.mm.mmap, pos, vma)) = Len(s.mm.mmap) + 1
          /\ Range(InsertAt(s.mm.mmap, pos, vma)) = Range(s.mm.mmap) \union {vma}
          /\ IsInjective(s.mm.mmap) /\ vma \notin Range(s.mm.mmap)
                => IsInjective(InsertAt(s.mm.mmap, pos, vma))
      BY <1>2, <1>3, <1>4, InsertAtElements
    <3> QED BY <2>5, <3>1, <3>2 DEF mmap
  <2>7. mm = [s.mm EXCEPT !.mmap = mmap]
    BY <2>3
  <2> HIDE DEF mm, mmap
  <2>8. /\ mm \in MM /\ mm.mmap = mmap /\ mm.pt = s.mm.pt /\ mm.pte = s.mm.pte
        /\ mm.pgdir = s.mm.pgdir
    <3> HIDE DEF Area
    <3> QED BY <1>2, <2>6, <2>7 DEF MM
  <2>9. /\ t \in Machine /\ t.err = s.err
        /\ t.free = s.free /\ t.ref = s.ref /\ t.page = s.page /\ t.mm = mm
        /\ t.tlb = s.tlb /\ t.index = s.index /\ t.kstack = s.kstack /\ t.kmem = s1.kmem
    BY <2>3, <2>8 DEF Machine
  <2> HIDE DEF t
  <2>10. Parts(mm) = Parts(s.mm)
    BY <2>8 DEF Parts, TablesOf, PagesOf
  <2>11. Apart(mm)
    <3>1. Apart(s.mm) /\ TablesOf(mm) = TablesOf(s.mm) /\ PagesOf(mm) = PagesOf(s.mm)
      BY <2>8 DEF Sound, TablesOf, PagesOf
    <3> QED BY <2>8, <3>1 DEF Apart
  <2>12. \A n \in DOMAIN s.mm.mmap : \E m \in DOMAIN mmap : mmap[m] = s.mm.mmap[n]
    <3> SUFFICES ASSUME NEW n \in DOMAIN s.mm.mmap
                 PROVE  \E m \in DOMAIN mmap : mmap[m] = s.mm.mmap[n]
      OBVIOUS
    <3>1. s.mm.mmap[n] \in Range(mmap)
      BY <2>6 DEF Range
    <3> QED BY <3>1 DEF Range
  <2>13. Placed(mm)
    <3>1. Placed(s.mm)
      BY DEF Sound
    <3>2. ASSUME NEW la \in Va, mm.pte[la] # NoMap PROVE mm.pt[PDX(la)] # None /\ Covered(mm, la)
      <4>1. s.mm.pt[PDX(la)] # None /\ Covered(s.mm, la)
        BY <2>8, <3>1, <3>2 DEF Placed
      <4>2. PICK n \in DOMAIN s.mm.mmap : Holds(s.mm.mmap[n], la)
        BY <4>1 DEF Covered
      <4>3. PICK m \in DOMAIN mmap : mmap[m] = s.mm.mmap[n]
        BY <2>12
      <4> QED BY <2>8, <4>1, <4>2, <4>3 DEF Covered
    <3>3. ASSUME NEW i \in Table, mm.pt[i] # None
          PROVE  \E n \in DOMAIN mm.mmap : i \in PDX(mm.mmap[n].start)..PDX(mm.mmap[n].end - 1)
      <4>1. PICK n \in DOMAIN s.mm.mmap :
                    i \in PDX(s.mm.mmap[n].start)..PDX(s.mm.mmap[n].end - 1)
        BY <2>8, <3>1, <3>3 DEF Placed
      <4>2. PICK m \in DOMAIN mmap : mmap[m] = s.mm.mmap[n]
        BY <2>12
      <4> QED BY <2>8, <4>1, <4>2
    <3> QED BY <3>2, <3>3 DEF Placed
  <2>14. Sound(t, others)
    BY <2>8, <2>9, <2>10, <2>11, <2>13 DEF Sound
  <2>15. Kept(s, t, others)
    <3>1. \A k \in Kind \ {"vma"} : t.kmem[k] = s.kmem[k]
      <4>1. s.kmem \in Objects
        BY <1>2, Fields
      <4> QED BY <2>3, <2>9, <4>1 DEF Objects
    <3>2. t.kmem["vma"] - Len(t.mm.mmap) = s.kmem["vma"] - Len(s.mm.mmap)
      <4>1. s.kmem["vma"] \in Int
        BY <1>2, Fields DEF Objects
      <4>2. t.kmem["vma"] = s.kmem["vma"] + 1
        BY <1>2, <2>3, <2>9
      <4>3. t.mm.mmap = mmap
        BY <2>8, <2>9
      <4>4. Len(mmap) = Len(s.mm.mmap) + 1
        BY <2>6
      <4>5. Len(s.mm.mmap) \in Int
        BY <1>2
      <4>6. t.kmem["vma"] - Len(mmap) = s.kmem["vma"] - Len(s.mm.mmap)
        <5>1. (s.kmem["vma"] + 1) - (Len(s.mm.mmap) + 1) = s.kmem["vma"] - Len(s.mm.mmap)
          BY SMTT(40), <4>1, <4>5
        <5> QED BY <5>1, <4>2, <4>4
      <4> QED BY <4>3, <4>6
    <3> QED BY <2>8, <2>9, <3>1, <3>2 DEF Kept
  <2>16. Separate(t.mm)
    <3>1. ASSUME NEW a \in Range(mmap), NEW b \in Range(mmap), a # b PROVE Clear(a, b)
      <4>1. CASE a = vma
        <5>1. b \in Range(s.mm.mmap)
          BY <2>6, <3>1, <4>1
        <5> QED BY <2>4, <4>1, <5>1 DEF Clear
      <4>2. CASE b = vma
        <5>1. a \in Range(s.mm.mmap)
          BY <2>6, <3>1, <4>2
        <5> QED BY <2>4, <4>2, <5>1
      <4>3. CASE a # vma /\ b # vma
        <5>1. a \in Range(s.mm.mmap) /\ b \in Range(s.mm.mmap)
          BY <2>6, <4>3
        <5> QED BY <3>1, <5>1 DEF Separate
      <4> QED BY <4>1, <4>2, <4>3
    <3> QED BY <2>6, <2>8, <2>9, <3>1 DEF Separate
  <2>17. AreaMapped(s, vma, others, t)
    BY <2>6, <2>8, <2>9, <2>14, <2>15, <2>16 DEF AreaMapped
  <2> QED BY <2>1, <2>17 DEF u
<1> QED BY <1>5, <1>6, <1>7

-----------------------------------------------------------------------------
(* The copy of an address space.                                           *)

\* The pages of the range that copy_range has come to are what they are in the
\* address space from, the others are as they were.
RangeCopied(s, from, start, n, others, t) ==
    /\ Sound(t, others) /\ Kept(s, t, others) /\ t.mm.mmap = s.mm.mmap
    /\ t.err \in {"", "E_NO_MEM", "assert"}
    /\ \A lb \in Va : ~(start <= lb /\ lb < start + n) =>
          /\ t.mm.pte[lb] = s.mm.pte[lb]
          /\ s.mm.pte[lb] # NoMap => t.page[s.mm.pte[lb].frame] = s.page[s.mm.pte[lb].frame]
    /\ t.err = "" => \A lb \in Va : start <= lb /\ lb < start + n => SamePage(from, lb, s.page, t)
\* No page between where copy_range is and where it goes on is mapped.
Cursor(s, from, start, end, i, others, x) ==
    /\ x.next >= start + i
    /\ \A lb \in Va : start + i <= lb /\ lb < x.next /\ lb < end => from.pte[lb] = NoMap
    /\ RangeCopied(s, from, start, i, others, x.mem)

\* What copy_range is called with: its pages are not mapped yet, those of from are
\* in frames of others, and where from has no table it has no page for PTSIZE pages.
Copyable(s, from, start, end, others) ==
    /\ \A la \in Va : start <= la /\ la < end => Covered(s.mm, la) /\ s.mm.pte[la] = NoMap
    /\ \A la \in Va : from.pte[la] # NoMap => from.pte[la].frame \in others
    /\ \A la, lb \in Va :
          start <= la /\ la <= lb /\ lb < la + PTSIZE /\ lb < end /\ from.pt[PDX(la)] = None
             => from.pte[lb] = NoMap

CopyTurn(x, from, la) ==
    CASE la # x.next -> x
      [] la = x.next /\ from.pt[PDX(la)] = None -> [x EXCEPT !.next = la + PTSIZE]
      [] OTHER -> [mem  |-> Then(x.mem, LAMBDA u : copy_page(u, from, la)), next |-> la + 1]

\* One turn of copy_range: the pages before the cursor are copied, and the ones it steps
\* over when a page table is absent have nothing to copy.
LEMMA CopyRangePage ==
    ASSUME VmmAssumption, NEW others, NEW s, Sound(s, others), NEW from \in MM,
           NEW start \in Nat, NEW end \in 0..NVA, Copyable(s, from, start, end, others),
           NEW i \in 1..(end - start), NEW la \in Va, la = start + i - 1,
           NEW x \in [mem : Machine, next : Nat], Cursor(s, from, start, end, i - 1, others, x)
    PROVE  /\ Cursor(s, from, start, end, i, others, CopyTurn(x, from, la))
           /\ CopyTurn(x, from, la) \in [mem : Machine, next : Nat]
<1> DEFINE t == x.mem
<1>0. /\ i \in Nat /\ la \in Nat /\ start <= la /\ la < end /\ x.next \in Nat /\ PTSIZE \in Nat
      /\ end \in Nat /\ PTSIZE > 0 /\ i > 0
  BY DEF Va, VmmAssumption
<1>1. /\ x.next >= start + (i - 1)
      /\ \A lb \in Va : start + (i - 1) <= lb /\ lb < x.next /\ lb < end => from.pte[lb] = NoMap
      /\ RangeCopied(s, from, start, i - 1, others, t)
  BY DEF Cursor
<1>2. /\ Sound(t, others) /\ Kept(s, t, others) /\ t.mm.mmap = s.mm.mmap
      /\ t.err \in {"", "E_NO_MEM", "assert"} /\ t \in Machine
      /\ \A lb \in Va : ~(start <= lb /\ lb < start + (i - 1)) =>
            /\ t.mm.pte[lb] = s.mm.pte[lb]
            /\ s.mm.pte[lb] # NoMap => t.page[s.mm.pte[lb].frame] = s.page[s.mm.pte[lb].frame]
      /\ t.err = "" => \A lb \in Va : start <= lb /\ lb < start + (i - 1)
                          => SamePage(from, lb, s.page, t)
  BY <1>1 DEF RangeCopied, Sound
<1> HIDE DEF t
<1>3. Covered(s.mm, la) /\ s.mm.pte[la] = NoMap
  BY <1>0 DEF Copyable
<1>4. t.mm.pte[la] = NoMap /\ Covered(t.mm, la)
  <2>1. ~(la < start + (i - 1))
    BY <1>0
  <2> QED BY <1>2, <1>3, <2>1 DEF Covered
<1>5. \A lb \in Va : lb # la => (lb < start + i <=> lb < start + (i - 1))
  BY SMTT(40), <1>0 DEF Va, VmmAssumption
<1>6. ASSUME from.pte[la] = NoMap PROVE RangeCopied(s, from, start, i, others, t)
  <2>1. ASSUME NEW lb \in Va, ~(start <= lb /\ lb < start + i)
        PROVE  ~(start <= lb /\ lb < start + (i - 1))
    BY SMTT(40), <1>0, <2>1 DEF Va, VmmAssumption
  <2>2. ASSUME t.err = "", NEW lb \in Va, start <= lb, lb < start + i
        PROVE  SamePage(from, lb, s.page, t)
    <3>1. CASE lb = la
      BY <1>4, <1>6, <3>1 DEF SamePage
    <3>2. CASE lb # la
      <4>1. lb < start + (i - 1)
        BY <1>5, <2>2, <3>2
      <4> QED BY <1>2, <2>2, <4>1
    <3> QED BY <3>1, <3>2
  <2>3. \A lb \in Va : ~(start <= lb /\ lb < start + i) =>
            /\ t.mm.pte[lb] = s.mm.pte[lb]
            /\ s.mm.pte[lb] # NoMap => t.page[s.mm.pte[lb].frame] = s.page[s.mm.pte[lb].frame]
    BY <1>2, <2>1
  <2>4. t.err = "" => \A lb \in Va : start <= lb /\ lb < start + i => SamePage(from, lb, s.page, t)
    BY <2>2
  <2> QED BY <1>2, <2>3, <2>4 DEF RangeCopied
<1>7. CASE la # x.next
  <2>1. x.next >= start + i /\ la < x.next /\ start + (i - 1) <= la
    BY <1>0, <1>1, <1>7
  <2>2. from.pte[la] = NoMap
    BY <1>0, <1>1, <2>1
  <2>3. \A lb \in Va : start + i <= lb /\ lb < x.next /\ lb < end => from.pte[lb] = NoMap
    <3>1. \A lb \in Va : start + i <= lb => start + (i - 1) <= lb
      BY <1>0 DEF Va, VmmAssumption
    <3> QED BY <1>1, <3>1
  <2>4. CopyTurn(x, from, la) = x
    BY <1>7 DEF CopyTurn
  <2>5. RangeCopied(s, from, start, i, others, x.mem)
    BY <1>6, <2>2 DEF t
  <2> QED BY <2>1, <2>3, <2>4, <2>5 DEF Cursor
<1>8. CASE la = x.next /\ from.pt[PDX(la)] = None
  <2> DEFINE y == [x EXCEPT !.next = la + PTSIZE]
  <2>1. CopyTurn(x, from, la) = y
    BY <1>8 DEF CopyTurn
  <2>2. y.mem = t /\ y.next = la + PTSIZE /\ y \in [mem : Machine, next : Nat]
    <3>1. la + PTSIZE \in Nat
      BY <1>0, NatSum
    <3> HIDE DEF t
    <3>2. y.next = la + PTSIZE /\ y.mem = x.mem /\ y \in [mem : Machine, next : Nat]
      BY <3>1
    <3> QED BY <3>2 DEF t
  <2> HIDE DEF y
  <2>3. \A lb \in Va : la <= lb /\ lb < la + PTSIZE /\ lb < end => from.pte[lb] = NoMap
    BY <1>0, <1>8 DEF Copyable
  <2>4. from.pte[la] = NoMap
    <3>1. la <= la /\ la < la + PTSIZE
      BY <1>0
    <3> QED BY <1>0, <2>3, <3>1
  <2>5. \A lb \in Va : start + i <= lb /\ lb < y.next /\ lb < end => from.pte[lb] = NoMap
    <3>1. \A lb \in Va : start + i <= lb => la <= lb
      BY <1>0 DEF Va, VmmAssumption
    <3> QED BY <2>2, <2>3, <3>1
  <2>6. y.next >= start + i
    BY <1>0, <2>2
  <2>7. RangeCopied(s, from, start, i, others, y.mem)
    BY <1>6, <2>2, <2>4
  <2> QED BY <2>1, <2>2, <2>5, <2>6, <2>7 DEF Cursor
<1>9. CASE la = x.next /\ from.pt[PDX(la)] # None
  <2> DEFINE u == IF Ok(t) THEN copy_page(t, from, la) ELSE t
             y == [mem |-> u, next |-> la + 1]
  <2>1. CopyTurn(x, from, la) = y
    <3>1. CopyTurn(x, from, la)
             = [mem |-> Then(x.mem, LAMBDA v : copy_page(v, from, la)), next |-> la + 1]
      BY <1>9 DEF CopyTurn
    <3>2. Then(x.mem, LAMBDA v : copy_page(v, from, la)) = u
      BY DEF Then, t
    <3> QED BY <3>1, <3>2
  <2>2. RangeCopied(s, from, start, i, others, u)
    <3>1. CASE ~Ok(t)
      <4>1. u = t /\ t.err # ""
        BY <3>1 DEF Ok
      <4>2. ASSUME NEW lb \in Va, ~(start <= lb /\ lb < start + i)
            PROVE  ~(start <= lb /\ lb < start + (i - 1))
        BY SMTT(40), <1>0, <4>2 DEF Va, VmmAssumption
      <4>3. \A lb \in Va : ~(start <= lb /\ lb < start + i) =>
               /\ t.mm.pte[lb] = s.mm.pte[lb]
               /\ s.mm.pte[lb] # NoMap => t.page[s.mm.pte[lb].frame] = s.page[s.mm.pte[lb].frame]
        BY <1>2, <4>2
      <4> QED BY <1>2, <4>1, <4>3 DEF RangeCopied
    <3>2. CASE Ok(t)
      <4>0. u = copy_page(t, from, la)
        BY <3>2
      <4>1. PageCopied(t, from, la, others, u)
        BY <1>2, <1>4, <3>2, <4>0, CopyPage
      <4> HIDE DEF u
      <4>2. /\ Sound(u, others) /\ Kept(t, u, others) /\ u.mm.mmap = t.mm.mmap
            /\ u.err \in {"", "E_NO_MEM", "assert"}
            /\ u.err = "" => SamePage(from, la, t.page, u)
            /\ \A lb \in Va : lb # la =>
                  /\ u.mm.pte[lb] = t.mm.pte[lb]
                  /\ t.mm.pte[lb] # NoMap
                        => u.page[t.mm.pte[lb].frame] = t.page[t.mm.pte[lb].frame]
        BY <4>1 DEF PageCopied, OtherPages
      <4>3. Kept(s, u, others)
        BY <1>2, <4>2, KeptTwice
      <4>4. ASSUME NEW lb \in Va, ~(start <= lb /\ lb < start + i)
            PROVE  /\ u.mm.pte[lb] = s.mm.pte[lb]
                   /\ s.mm.pte[lb] # NoMap
                         => u.page[s.mm.pte[lb].frame] = s.page[s.mm.pte[lb].frame]
        <5>1. ~(start <= lb /\ lb < start + (i - 1)) /\ lb # la
          BY <1>0, <4>4 DEF Va, VmmAssumption
        <5>2. /\ t.mm.pte[lb] = s.mm.pte[lb]
              /\ s.mm.pte[lb] # NoMap => t.page[s.mm.pte[lb].frame] = s.page[s.mm.pte[lb].frame]
          BY <1>2, <5>1
        <5> QED BY <4>2, <5>1, <5>2
      <4>5. \A lb \in Va : from.pte[lb] # NoMap =>
                t.page[from.pte[lb].frame] = s.page[from.pte[lb].frame]
        <5>1. \A lb \in Va : from.pte[lb] # NoMap => from.pte[lb].frame \in others
          BY DEF Copyable
        <5> QED BY <1>2, <5>1 DEF Kept
      <4>6. ASSUME u.err = "", NEW lb \in Va, start <= lb, lb < start + i
            PROVE  SamePage(from, lb, s.page, u)
        <5>1. CASE lb = la
          <6>1. SamePage(from, la, t.page, u)
            BY <4>2, <4>6
          <6> QED BY <4>5, <5>1, <6>1 DEF SamePage
        <5>2. CASE lb # la
          <6>1. lb < start + (i - 1)
            BY <1>5, <4>6, <5>2
          <6>2. SamePage(from, lb, s.page, t)
            BY <1>2, <3>2, <4>6, <6>1 DEF Ok
          <6>3. /\ u.mm.pte[lb] = t.mm.pte[lb]
                /\ t.mm.pte[lb] # NoMap => u.page[t.mm.pte[lb].frame] = t.page[t.mm.pte[lb].frame]
            BY <4>2, <5>2
          <6> QED BY <6>2, <6>3 DEF SamePage
        <5> QED BY <5>1, <5>2
      <4>7. \A lb \in Va : ~(start <= lb /\ lb < start + i) =>
               /\ u.mm.pte[lb] = s.mm.pte[lb]
               /\ s.mm.pte[lb] # NoMap => u.page[s.mm.pte[lb].frame] = s.page[s.mm.pte[lb].frame]
        BY <4>4
      <4>8. u.err = "" => \A lb \in Va : start <= lb /\ lb < start + i
                             => SamePage(from, lb, s.page, u)
        BY <4>6
      <4>9. u.mm.mmap = s.mm.mmap
        BY <1>2, <4>2
      <4> QED BY <4>2, <4>3, <4>7, <4>8, <4>9 DEF RangeCopied
    <3> QED BY <3>1, <3>2
  <2> HIDE DEF u
  <2>3. u \in Machine
    BY <2>2 DEF RangeCopied, Sound
  <2>4. y.mem = u /\ y.next = la + 1 /\ y \in [mem : Machine, next : Nat]
    BY <1>0, <2>3
  <2> HIDE DEF y
  <2>5. \A lb \in Va : ~(start + i <= lb /\ lb < y.next)
    BY SMTT(40), <1>0, <2>4 DEF Va, VmmAssumption
  <2>6. y.next >= start + i
    BY <1>0, <2>4
  <2> QED BY <2>1, <2>2, <2>4, <2>5, <2>6 DEF Cursor
<1> QED BY <1>7, <1>8, <1>9

\* copy_range copies every page of the range that is mapped, or fails.
LEMMA CopyRange ==
    ASSUME VmmAssumption, NEW others, NEW s, Sound(s, others), Ok(s), NEW from \in MM,
           NEW start \in Nat, NEW end \in 0..NVA, start <= end,
           Copyable(s, from, start, end, others)
    PROVE  RangeCopied(s, from, start, end - start, others, copy_range(s, from, start, end))
<1> DEFINE n == end - start
           Turn(t, i) == CopyTurn(t, from, start + i - 1)
           R == {x \in [mem : Machine, next : Nat] \X (0..n) : Cursor(s, from, start, end, x[2], others, x[1])}
           next == [x \in R |-> Turn(x[1], x[2] + 1)]
           after == CHOOSE g : g = [i \in 0..n |-> IF i = 0 THEN [mem |-> s, next |-> start] ELSE Turn(g[i - 1], i)]
<1>1. copy_range(s, from, start, end) = after[n].mem
  BY DEF copy_range, Loop, CopyTurn
<1>2. n \in Nat
  BY DEF VmmAssumption
<1>3. <<[mem |-> s, next |-> start], 0>> \in R
  <2> DEFINE x == [mem |-> s, next |-> start]
  <2>1. Kept(s, s, others) /\ s \in Machine
    BY KeptSame DEF Sound
  <2>2. \A lb \in Va : ~(start <= lb /\ lb < start + 0)
    BY DEF Va, VmmAssumption
  <2>3. RangeCopied(s, from, start, 0, others, s)
    BY <2>1, <2>2 DEF RangeCopied, Ok
  <2>4. x.mem = s /\ x.next = start /\ x \in [mem : Machine, next : Nat]
    BY <2>1
  <2>5. \A lb \in Va : ~(start + 0 <= lb /\ lb < start)
    BY DEF Va, VmmAssumption
  <2> HIDE DEF x
  <2>6. Cursor(s, from, start, end, 0, others, x)
    BY <2>3, <2>4, <2>5 DEF Cursor
  <2> QED BY <1>2, <2>4, <2>6 DEF x
<1>4. ASSUME NEW i \in 1..n, NEW t, <<t, i - 1>> \in R
      PROVE  <<Turn(t, i), i>> \in R
  <2>1. Cursor(s, from, start, end, i - 1, others, t) /\ t \in [mem : Machine, next : Nat]
    BY <1>4
  <2>2. start + i - 1 \in Va /\ i \in 1..(end - start)
    BY <1>2 DEF Va, VmmAssumption
  <2>3. /\ Cursor(s, from, start, end, i, others, Turn(t, i))
        /\ Turn(t, i) \in [mem : Machine, next : Nat]
    BY <2>1, <2>2, CopyRangePage
  <2> HIDE DEF Turn
  <2> QED BY <1>2, <2>3
<1>5. \A i \in 1..n : \A t : <<t, i - 1>> \in R => next[<<t, i - 1>>] = Turn(t, i)
  <2> SUFFICES ASSUME NEW i \in 1..n, NEW t, <<t, i - 1>> \in R
               PROVE  next[<<t, i - 1>>] = Turn(t, i)
    OBVIOUS
  <2>1. (i - 1) + 1 = i
    BY <1>2
  <2> HIDE DEF Turn, R
  <2> QED BY <2>1
<1> HIDE DEF Turn, R, next, n
<1>6. Turning(n, R, next)
  BY <1>4, <1>5 DEF Turning
<1>7. PICK g : Looped(g, n, [mem |-> s, next |-> start], next) /\ StaysIn(g, n, R)
  <2> HIDE DEF after
  <2> QED BY <1>2, <1>3, <1>6, LoopExists
<1>8. g = [i \in 0..n |-> IF i = 0 THEN [mem |-> s, next |-> start] ELSE Turn(g[i - 1], i)]
  <2>1. \A i \in 0..n : i # 0 => i \in 1..n /\ i - 1 \in 0..n
    BY <1>2
  <2>2. \A i \in 0..n : i # 0 => next[<<g[i - 1], i - 1>>] = Turn(g[i - 1], i)
    BY <1>5, <1>7, <2>1 DEF StaysIn
  <2> QED BY <1>7, <2>2 DEF Looped
<1>9. after = [i \in 0..n |-> IF i = 0 THEN [mem |-> s, next |-> start] ELSE Turn(after[i - 1], i)]
  BY <1>8
<1> HIDE DEF after
<1>10. <<after[n], n>> \in R
  <2>1. <<after[0], 0>> \in R
    BY <1>2, <1>3, <1>9
  <2>2. \A i \in 1..n : <<after[i - 1], i - 1>> \in R => <<after[i], i>> \in R
    BY <1>2, <1>4, <1>9
  <2> QED BY <1>2, <2>1, <2>2, LastTurn
<1> QED BY <1>1, <1>10 DEF R, n, Cursor

\* An area is the stack or has all its pages.
Filled(mm) ==
    \A a \in Range(mm.mmap) :
        IF "STACK" \in a.flags THEN a.start = NVA - USTACKPAGE /\ a.end = NVA
        ELSE \A la \in Va : Holds(a, la) => mm.pte[la] # NoMap

\* An mm_struct without areas.
LEMMA NoAreas ==
    ASSUME NEW mm, mm.mmap = << >>
    PROVE  Separate(mm) /\ Filled(mm)
<1>1. Range(mm.mmap) = {}
  BY DEF Range
<1>2. IsInjective(mm.mmap)
  BY DEF IsInjective
<1> QED BY <1>1, <1>2 DEF Separate, Filled

\* A page is covered when an area holds it.
LEMMA CoveredRange ==
    ASSUME NEW mm, NEW la
    PROVE  Covered(mm, la) <=> \E a \in Range(mm.mmap) : Holds(a, la)
BY DEF Covered, Range

\* Areas that both hold a page are not clear of each other.
LEMMA BothHold ==
    ASSUME VmmAssumption, NEW a \in Area, NEW b \in Area, NEW la \in Va, Holds(a, la), Holds(b, la)
    PROVE  ~Clear(a, b)
<1>1. a.start \in Nat /\ b.start \in Nat /\ a.end \in Nat /\ b.end \in Nat /\ la \in Nat
  BY DEF Area, Va, VmmAssumption
<1> QED BY <1>1 DEF Holds, Clear

\* The areas of an mm_struct are areas.
LEMMA RangeAreas ==
    ASSUME NEW mm \in MM, NEW a \in Range(mm.mmap)
    PROVE  a \in Area
<1>1. PICK i \in DOMAIN mm.mmap : a = mm.mmap[i]
  BY DEF Range
<1>2. mm.mmap \in Seq(Area)
  BY MMFields
<1> QED BY <1>1, <1>2, ElementOfSeq, LenProperties

\* The stack has one page table.
LEMMA StackTable ==
    ASSUME VmmAssumption, NEW la \in Va, la >= NVA - USTACKPAGE
    PROVE  PDX(la) = PDX(NVA - 1)
<1> DEFINE q == NVA \div PTSIZE
           d == la \div PTSIZE
           e == (NVA - 1) \div PTSIZE
<1>0. NVA \in Nat /\ PTSIZE \in Nat \ {0} /\ NVA % PTSIZE = 0 /\ USTACKPAGE \in Nat
      /\ USTACKPAGE <= PTSIZE /\ la \in Nat /\ la <= NVA - 1 /\ NVA - 1 \in Nat
      /\ la >= NVA - PTSIZE
  BY DEF VmmAssumption, Va
<1>1. NVA = PTSIZE * q /\ q \in Nat
  <2>1. NVA = PTSIZE * q + (NVA % PTSIZE) /\ q \in Nat
    BY <1>0, Divide
  <2>2. PTSIZE * q \in Nat
    BY <1>0, <2>1
  <2> HIDE DEF q
  <2> QED BY <1>0, <2>1, <2>2
<1>2. la = PTSIZE * d + (la % PTSIZE) /\ la % PTSIZE \in 0..(PTSIZE - 1) /\ d \in Nat
  BY <1>0, Divide
<1>3. NVA - 1 = PTSIZE * e + ((NVA - 1) % PTSIZE) /\ (NVA - 1) % PTSIZE \in 0..(PTSIZE - 1)
      /\ e \in Nat
  BY <1>0, Divide
<1> HIDE DEF q, d, e
<1>4. \A x, y \in Nat : x <= y => PTSIZE * x <= PTSIZE * y
  <2> SUFFICES ASSUME NEW x \in Nat, NEW y \in Nat, x <= y PROVE PTSIZE * x <= PTSIZE * y
    OBVIOUS
  <2>1. y - x \in Nat /\ PTSIZE * (y - x) \in Nat
    BY <1>0
  <2>2. PTSIZE * y = PTSIZE * x + PTSIZE * (y - x)
    BY <1>0
  <2>3. PTSIZE * x \in Nat /\ PTSIZE * y \in Nat
    BY <1>0
  <2> QED BY <2>1, <2>2, <2>3
<1>5. \A x \in Nat : PTSIZE * (x + 1) = PTSIZE * x + PTSIZE /\ PTSIZE * x \in Nat
  BY <1>0
<1>6. ASSUME NEW x \in Nat, NEW r \in 0..(PTSIZE - 1), PTSIZE * x + r <= NVA - 1,
             PTSIZE * x + r >= NVA - PTSIZE
      PROVE  x + 1 = q
  <2>1. PTSIZE * x \in Nat /\ PTSIZE * (x + 1) \in Nat /\ PTSIZE * q \in Nat
        /\ PTSIZE * (x + 1) = PTSIZE * x + PTSIZE
    BY <1>1, <1>5
  <2>2. ~(q <= x)
    <3>1. q <= x => PTSIZE * q <= PTSIZE * x
      BY <1>1, <1>4
    <3> QED BY <1>0, <1>1, <1>6, <2>1, <3>1
  <2>3. ~(x + 2 <= q)
    <3>1. x + 2 <= q => PTSIZE * (x + 2) <= PTSIZE * q
      BY <1>1, <1>4
    <3>2. PTSIZE * (x + 2) = PTSIZE * (x + 1) + PTSIZE
      BY <1>0
    <3> QED BY <1>0, <1>1, <1>6, <2>1, <3>1, <3>2
  <2> QED BY <1>1, <2>2, <2>3
<1>7. d + 1 = q
  BY <1>0, <1>2, <1>6
<1>8. e + 1 = q
  <2> DEFINE r == (NVA - 1) % PTSIZE
  <2>1. r \in 0..(PTSIZE - 1) /\ NVA - 1 = PTSIZE * e + r /\ e \in Nat
    BY <1>3
  <2> HIDE DEF r
  <2>2. PTSIZE * e \in Nat
    BY <1>5, <2>1
  <2>3. PTSIZE * e + r <= NVA - 1 /\ PTSIZE * e + r >= NVA - PTSIZE
    BY <1>0, <2>1, <2>2
  <2> QED BY <1>6, <2>1, <2>3
<1>9. d = e
  BY <1>1, <1>2, <1>3, <1>7, <1>8
<1> QED BY <1>9 DEF PDX, d, e

\* What fork copies: an address space of the others'.
Original(old, others) ==
    /\ old \in MM /\ Separate(old) /\ Placed(old) /\ Filled(old)
    /\ \A la \in Va : old.pte[la] # NoMap => old.pte[la].frame \in others

\* dup_mmap, when it has come to area n of old.
Dupped(s, old, n, others, t) ==
    /\ Sound(t, others) /\ Kept(s, t, others) /\ t.err \in {"", "E_NO_MEM", "assert"}
    /\ t.err = "" =>
          /\ Separate(t.mm)
          /\ Range(t.mm.mmap) = {old.mmap[j] : j \in n..Len(old.mmap)}
          /\ \A la \in Va : Covered(t.mm, la) => SamePage(old, la, s.page, t)

\* Where an area of the original has no page table, it has no page.
LEMMA Skippable ==
    ASSUME VmmAssumption, NEW old \in MM, Placed(old), Filled(old), NEW vma \in Range(old.mmap),
           NEW la \in Va, NEW lb \in Va, vma.start <= la, la <= lb, lb < vma.end,
           old.pt[PDX(la)] = None
    PROVE  old.pte[lb] = NoMap
<1>0. vma \in Area
  BY RangeAreas
<1>1. CASE "STACK" \in vma.flags
  <2>1. vma.start = NVA - USTACKPAGE
    BY <1>1 DEF Filled
  <2>2. la >= NVA - USTACKPAGE /\ lb >= NVA - USTACKPAGE
    BY <2>1 DEF Va, VmmAssumption
  <2>3. PDX(la) = PDX(lb)
    <3>1. PDX(la) = PDX(NVA - 1)
      BY <2>2, StackTable
    <3>2. PDX(lb) = PDX(NVA - 1)
      BY <2>2, StackTable
    <3> QED BY <3>1, <3>2
  <2> QED BY <2>3 DEF Placed
<1>2. CASE "STACK" \notin vma.flags
  <2>1. Holds(vma, la)
    BY <1>0 DEF Holds, Area, Va, VmmAssumption
  <2>2. old.pte[la] # NoMap
    BY <1>2, <2>1 DEF Filled
  <2> QED BY <2>2 DEF Placed
<1> QED BY <1>1, <1>2

DupTurn(t, old, vma) ==
    Then(Then(t, LAMBDA u : mm_map(u, vma.start, vma.end, vma.flags)),
         LAMBDA u : copy_range(u, old, vma.start, vma.end))

\* One turn of dup_mmap: the areas from k on are in the copy, with their pages.
LEMMA DupArea ==
    ASSUME VmmAssumption, NEW others, NEW s, NEW old, Original(old, others),
           NEW k \in 1..Len(old.mmap), NEW t, Dupped(s, old, k + 1, others, t)
    PROVE  Dupped(s, old, k, others, DupTurn(t, old, old.mmap[k]))
<1> DEFINE vma == old.mmap[k]
           u == mm_map(t, vma.start, vma.end, vma.flags)
           v == copy_range(u, old, vma.start, vma.end)
           end == DupTurn(t, old, vma)
<1>1. /\ Sound(t, others) /\ Kept(s, t, others) /\ t.err \in {"", "E_NO_MEM", "assert"}
      /\ t \in Machine /\ t.mm \in MM
  BY Fields DEF Dupped, Sound
<1>2. /\ old \in MM /\ Separate(old) /\ Placed(old) /\ Filled(old)
      /\ \A la \in Va : old.pte[la] # NoMap => old.pte[la].frame \in others
  BY DEF Original
<1>3. old.mmap \in Seq(Area) /\ DOMAIN old.mmap = 1..Len(old.mmap) /\ Len(old.mmap) \in Nat
  BY <1>2, MMFields, LenProperties
<1>4. vma \in Area /\ vma \in Range(old.mmap)
  BY <1>3, ElementOfSeq DEF Range
<1>5. end = IF ~Ok(t) THEN t ELSE IF ~Ok(u) THEN u ELSE v
  BY DEF DupTurn, Then
<1> HIDE DEF v, u, end
<1>6. CASE ~Ok(t)
  <2>1. end = t
    BY <1>5, <1>6
  <2> QED BY <1>1, <1>6, <2>1 DEF Dupped, Ok, end
<1>7. CASE Ok(t)
  <2>1. /\ Separate(t.mm)
        /\ Range(t.mm.mmap) = {old.mmap[j] : j \in (k + 1)..Len(old.mmap)}
        /\ \A la \in Va : Covered(t.mm, la) => SamePage(old, la, s.page, t)
    BY <1>7 DEF Dupped, Ok
  <2>2. \A a \in Range(t.mm.mmap) : a \in Area /\ Clear(a, vma)
    <3> SUFFICES ASSUME NEW a \in Range(t.mm.mmap) PROVE a \in Area /\ Clear(a, vma)
      OBVIOUS
    <3>1. PICK j \in (k + 1)..Len(old.mmap) : a = old.mmap[j]
      BY <2>1
    <3>2. j \in DOMAIN old.mmap /\ k \in DOMAIN old.mmap /\ j # k
      BY <1>3
    <3>3. a # vma
      BY <1>2, <3>1, <3>2 DEF Separate, IsInjective
    <3>4. a \in Range(old.mmap)
      BY <3>1, <3>2 DEF Range
    <3>5. Clear(a, vma)
      BY <1>2, <1>4, <3>3, <3>4 DEF Separate
    <3> QED BY <1>1, <3>5, RangeAreas
  <2>3. \/ AreaMapped(t, vma, others, u)
        \/ AreaRefused(t, vma, u)
    <3>1. /\ vma.start \in Va /\ vma.end \in 0..NVA /\ vma.start < vma.end
          /\ vma.flags \in SUBSET VmFlag
      BY <1>4 DEF Area
    <3>2. vma = [start |-> vma.start, end |-> vma.end, flags |-> vma.flags]
      BY <1>4 DEF Area
    <3> HIDE DEF vma
    <3>3. \/ AreaMapped(t, vma, others, mm_map(t, vma.start, vma.end, vma.flags))
          \/ AreaRefused(t, vma, mm_map(t, vma.start, vma.end, vma.flags))
      BY <1>1, <1>7, <2>1, <3>1, <3>2, MMMap
    <3> QED BY <3>3 DEF u
  <2> HIDE DEF vma
  <2>4. CASE AreaRefused(t, vma, u)
    <3>1. u.err = "E_NO_MEM" /\ Alike(t, u) /\ u.tlb = t.tlb
      BY <2>2, <2>4 DEF AreaRefused
    <3>2. Sound(u, others) /\ Kept(t, u, others)
      BY <1>1, <3>1, AlikeSound
    <3>3. Kept(s, u, others)
      BY <1>1, <3>2, KeptTwice
    <3>4. end = u
      BY <1>5, <1>7, <3>1 DEF Ok
    <3>5. Dupped(s, old, k, others, end)
      BY <3>1, <3>2, <3>3, <3>4 DEF Dupped
    <3> QED BY <3>5 DEF end, vma
  <2>5. CASE AreaMapped(t, vma, others, u)
    <3>1. /\ Sound(u, others) /\ Kept(t, u, others) /\ u.err = t.err
          /\ u.mm.pte = t.mm.pte /\ u.mm.pt = t.mm.pt /\ u.page = t.page
          /\ Range(u.mm.mmap) = Range(t.mm.mmap) \cup {vma}
          /\ Separate(u.mm)
      BY <2>5 DEF AreaMapped
    <3>2. end = v /\ Ok(u)
      BY <1>5, <1>7, <3>1 DEF Ok
    <3>3. /\ vma.start \in Nat /\ vma.end \in 0..NVA /\ vma.start <= vma.end
          /\ vma.end \in Nat /\ vma.start \in Int /\ vma.end \in Int
      BY <1>4 DEF Area, Va, VmmAssumption
    <3>4. \A la \in Va : Holds(vma, la) => t.mm.pte[la] = NoMap
      <4> SUFFICES ASSUME NEW la \in Va, Holds(vma, la), t.mm.pte[la] # NoMap PROVE FALSE
        OBVIOUS
      <4>1. Covered(t.mm, la)
        BY <1>1 DEF Sound, Placed
      <4>2. PICK a \in Range(t.mm.mmap) : Holds(a, la)
        BY <4>1, CoveredRange
      <4>3. a \in Area /\ Clear(a, vma)
        BY <2>2
      <4> QED BY <1>4, <4>2, <4>3, BothHold
    <3>5. Copyable(u, old, vma.start, vma.end, others)
      <4>1. ASSUME NEW la \in Va, vma.start <= la, la < vma.end
            PROVE  Covered(u.mm, la) /\ u.mm.pte[la] = NoMap
        <5>1. Holds(vma, la)
          BY <4>1 DEF Holds
        <5>2. vma \in Range(u.mm.mmap)
          BY <3>1
        <5> QED BY <3>1, <3>4, <5>1, <5>2, CoveredRange
      <4>2. ASSUME NEW la \in Va, NEW lb \in Va, vma.start <= la, la <= lb, lb < la + PTSIZE,
                   lb < vma.end, old.pt[PDX(la)] = None
            PROVE  old.pte[lb] = NoMap
        BY <1>2, <1>4, <4>2, Skippable
      <4> QED BY <1>2, <4>1, <4>2 DEF Copyable
    <3>6. RangeCopied(u, old, vma.start, vma.end - vma.start, others, v)
      BY <1>2, <3>1, <3>2, <3>3, <3>5, CopyRange DEF v
    <3>7. /\ Sound(v, others) /\ Kept(u, v, others) /\ v.mm.mmap = u.mm.mmap
          /\ v.err \in {"", "E_NO_MEM", "assert"}
      BY <3>6 DEF RangeCopied
    <3>8. \A la \in Va : Holds(vma, la) <=>
              vma.start <= la /\ la < vma.start + (vma.end - vma.start)
      BY <3>3 DEF Holds, Va, VmmAssumption
    <3>9. \A la \in Va : ~Holds(vma, la) =>
              /\ v.mm.pte[la] = u.mm.pte[la]
              /\ u.mm.pte[la] # NoMap => v.page[u.mm.pte[la].frame] = u.page[u.mm.pte[la].frame]
      BY <3>6, <3>8 DEF RangeCopied
    <3>10. v.err = "" => \A la \in Va : Holds(vma, la) => SamePage(old, la, u.page, v)
      BY <3>6, <3>8 DEF RangeCopied
    <3>11. Kept(s, v, others)
      <4>1. Kept(s, u, others)
        BY <1>1, <3>1, KeptTwice
      <4> QED BY <3>7, <4>1, KeptTwice
    <3>12. Separate(v.mm)
      BY <3>1, <3>7 DEF Separate
    <3>13. Range(v.mm.mmap) = {old.mmap[j] : j \in k..Len(old.mmap)}
      <4>1. k..Len(old.mmap) = {k} \cup ((k + 1)..Len(old.mmap))
        BY <1>3
      <4>2. Range(v.mm.mmap) = {old.mmap[j] : j \in (k + 1)..Len(old.mmap)} \cup {old.mmap[k]}
        BY <2>1, <3>1, <3>7 DEF vma
      <4> QED BY <4>1, <4>2
    <3>14. \A la \in Va : old.pte[la] # NoMap =>
               u.page[old.pte[la].frame] = s.page[old.pte[la].frame]
      <4>1. \A f \in others : u.page[f] = t.page[f]
        BY <3>1 DEF Kept
      <4>2. \A f \in others : t.page[f] = s.page[f]
        BY <1>1 DEF Kept
      <4>3. \A la \in Va : old.pte[la] # NoMap => old.pte[la].frame \in others
        BY <1>2
      <4> QED BY <4>1, <4>2, <4>3
    <3>15. ASSUME v.err = "", NEW la \in Va, Covered(v.mm, la)
           PROVE  SamePage(old, la, s.page, v)
      <4>1. CASE Holds(vma, la)
        <5>1. SamePage(old, la, u.page, v)
          BY <3>10, <3>15, <4>1
        <5> QED BY <3>14, <5>1 DEF SamePage
      <4>2. CASE ~Holds(vma, la)
        <5>1. PICK a \in Range(v.mm.mmap) : Holds(a, la)
          BY <3>15, CoveredRange
        <5>2. a \in Range(t.mm.mmap)
          BY <3>1, <3>7, <4>2, <5>1
        <5>3. SamePage(old, la, s.page, t)
          BY <2>1, <5>1, <5>2, CoveredRange
        <5>4. v.mm.pte[la] = t.mm.pte[la]
              /\ (t.mm.pte[la] # NoMap => v.page[t.mm.pte[la].frame] = t.page[t.mm.pte[la].frame])
          BY <3>1, <3>9, <4>2
        <5> QED BY <5>3, <5>4 DEF SamePage
      <4> QED BY <4>1, <4>2
    <3>16. Dupped(s, old, k, others, v)
      BY <3>7, <3>11, <3>12, <3>13, <3>15 DEF Dupped
    <3> QED BY <3>2, <3>16 DEF end, vma
  <2> QED BY <2>3, <2>4, <2>5
<1> QED BY <1>6, <1>7 DEF end, vma

\* The loop of dup_mmap, from the last area to the first.
LEMMA DupAreas ==
    ASSUME VmmAssumption, NEW others, NEW s, Sound(s, others), Ok(s), s.mm.mmap = << >>,
           NEW old, Original(old, others)
    PROVE  Dupped(s, old, 1, others, dup_mmap(s, old))
<1> DEFINE n == Len(old.mmap)
           Turn(t, i) == DupTurn(t, old, old.mmap[n + 1 - i])
           R == {x \in Machine \X (0..n) : Dupped(s, old, n + 1 - x[2], others, x[1])}
           next == [x \in R |-> Turn(x[1], x[2] + 1)]
           after == CHOOSE g : g = [i \in 0..n |-> IF i = 0 THEN s ELSE Turn(g[i - 1], i)]
<1>1. dup_mmap(s, old) = after[n]
  BY DEF dup_mmap, Loop, DupTurn
<1>2. n \in Nat
  BY MMFields, LenProperties DEF Original
<1>3. <<s, 0>> \in R
  <2>1. Kept(s, s, others) /\ s \in Machine
    BY KeptSame DEF Sound
  <2>2. Separate(s.mm) /\ Range(s.mm.mmap) = {}
    BY DEF Separate, Range, IsInjective
  <2>3. \A la \in Va : ~Covered(s.mm, la)
    BY DEF Covered
  <2>4. (n + 1 - 0)..Len(old.mmap) = {}
    BY <1>2
  <2>5. {old.mmap[j] : j \in (n + 1 - 0)..Len(old.mmap)} = {}
    BY <2>4
  <2>6. Dupped(s, old, n + 1 - 0, others, s)
    BY <2>1, <2>2, <2>3, <2>5 DEF Dupped, Ok
  <2> QED BY <1>2, <2>1, <2>6
<1>4. ASSUME NEW i \in 1..n, NEW t, <<t, i - 1>> \in R
      PROVE  <<Turn(t, i), i>> \in R
  <2>1. Dupped(s, old, n + 1 - (i - 1), others, t)
    BY <1>4
  <2>2. n + 1 - (i - 1) = (n + 1 - i) + 1 /\ n + 1 - i \in 1..Len(old.mmap)
    BY <1>2
  <2> DEFINE k == n + 1 - i
  <2>3. Dupped(s, old, k + 1, others, t) /\ k \in 1..Len(old.mmap)
    BY <2>1, <2>2
  <2> HIDE DEF k
  <2>4. Dupped(s, old, k, others, DupTurn(t, old, old.mmap[k]))
    BY <2>3, DupArea
  <2>5. Dupped(s, old, n + 1 - i, others, Turn(t, i))
    BY <2>4 DEF k
  <2> HIDE DEF Turn
  <2>6. Turn(t, i) \in Machine
    BY <2>5 DEF Dupped, Sound
  <2> QED BY <1>2, <2>5, <2>6
<1>5. \A i \in 1..n : \A t : <<t, i - 1>> \in R => next[<<t, i - 1>>] = Turn(t, i)
  <2> SUFFICES ASSUME NEW i \in 1..n, NEW t, <<t, i - 1>> \in R
               PROVE  next[<<t, i - 1>>] = Turn(t, i)
    OBVIOUS
  <2>1. (i - 1) + 1 = i
    BY <1>2
  <2> HIDE DEF Turn, R
  <2> QED BY <2>1
<1> HIDE DEF Turn, R, next, n
<1>6. Turning(n, R, next)
  BY <1>4, <1>5 DEF Turning
<1>7. PICK g : Looped(g, n, s, next) /\ StaysIn(g, n, R)
  <2> HIDE DEF after
  <2> QED BY <1>2, <1>3, <1>6, LoopExists
<1>8. g = [i \in 0..n |-> IF i = 0 THEN s ELSE Turn(g[i - 1], i)]
  <2>1. \A i \in 0..n : i # 0 => i \in 1..n /\ i - 1 \in 0..n
    BY <1>2
  <2>2. \A i \in 0..n : i # 0 => next[<<g[i - 1], i - 1>>] = Turn(g[i - 1], i)
    BY <1>5, <1>7, <2>1 DEF StaysIn
  <2> QED BY <1>7, <2>2 DEF Looped
<1>9. after = [i \in 0..n |-> IF i = 0 THEN s ELSE Turn(after[i - 1], i)]
  BY <1>8
<1> HIDE DEF after
<1>10. <<after[n], n>> \in R
  <2>1. <<after[0], 0>> \in R
    BY <1>2, <1>3, <1>9
  <2>2. \A i \in 1..n : <<after[i - 1], i - 1>> \in R => <<after[i], i>> \in R
    BY <1>2, <1>4, <1>9
  <2> QED BY <1>2, <2>1, <2>2, LastTurn
<1>11. n + 1 - n = 1
  BY <1>2
<1> QED BY <1>1, <1>10, <1>11 DEF R

\* The original, whole: after dup_mmap without an error.
DupDone(s, old, others, t) ==
    /\ Sound(t, others) /\ Kept(s, t, others) /\ t.err \in {"", "E_NO_MEM", "assert"}
    /\ t.err = "" =>
          /\ Separate(t.mm) /\ Filled(t.mm)
          /\ \A la \in Va : SamePage(old, la, s.page, t)

\* dup_mmap gives the copy the areas and the pages of the original, or fails with what it
\* has copied in the mm_struct.
LEMMA DupMmap ==
    ASSUME VmmAssumption, NEW others, NEW s, Sound(s, others), Ok(s), s.mm.mmap = << >>,
           NEW old, Original(old, others)
    PROVE  DupDone(s, old, others, dup_mmap(s, old))
<1> SUFFICES ASSUME NEW t, t = dup_mmap(s, old)
             PROVE  DupDone(s, old, others, t)
  OBVIOUS
<1>1. Dupped(s, old, 1, others, t)
  BY DupAreas
<1>2. /\ Sound(t, others) /\ Kept(s, t, others) /\ t.err \in {"", "E_NO_MEM", "assert"}
  BY <1>1 DEF Dupped
<1>3. ASSUME t.err = ""
      PROVE  /\ Separate(t.mm) /\ Filled(t.mm)
             /\ \A la \in Va : SamePage(old, la, s.page, t)
  <2>1. /\ Separate(t.mm)
        /\ Range(t.mm.mmap) = {old.mmap[j] : j \in 1..Len(old.mmap)}
        /\ \A la \in Va : Covered(t.mm, la) => SamePage(old, la, s.page, t)
    BY <1>1, <1>3 DEF Dupped
  <2>2. old \in MM /\ Placed(old) /\ Filled(old)
    BY DEF Original
  <2>3. DOMAIN old.mmap = 1..Len(old.mmap)
    BY <2>2, MMFields, LenProperties
  <2>4. Range(t.mm.mmap) = Range(old.mmap)
    BY <2>1, <2>3 DEF Range
  <2>5. ASSUME NEW la \in Va PROVE SamePage(old, la, s.page, t)
    <3>1. CASE Covered(t.mm, la)
      BY <2>1, <3>1
    <3>2. CASE ~Covered(t.mm, la)
      <4>1. t.mm.pte[la] = NoMap
        BY <1>2, <3>2 DEF Sound, Placed
      <4>2. ~Covered(old, la)
        BY <2>4, <3>2, CoveredRange
      <4>3. old.pte[la] = NoMap
        BY <2>2, <4>2 DEF Placed
      <4> QED BY <4>1, <4>3 DEF SamePage
    <3> QED BY <3>1, <3>2
  <2>6. Filled(t.mm)
    <3> SUFFICES ASSUME NEW a \in Range(t.mm.mmap)
                 PROVE  IF "STACK" \in a.flags THEN a.start = NVA - USTACKPAGE /\ a.end = NVA
                        ELSE \A la \in Va : Holds(a, la) => t.mm.pte[la] # NoMap
      BY DEF Filled
    <3>1. a \in Range(old.mmap)
      BY <2>4
    <3>2. IF "STACK" \in a.flags THEN a.start = NVA - USTACKPAGE /\ a.end = NVA
          ELSE \A la \in Va : Holds(a, la) => old.pte[la] # NoMap
      BY <2>2, <3>1 DEF Filled
    <3>3. \A la \in Va : old.pte[la] # NoMap => t.mm.pte[la] # NoMap
      BY <2>5 DEF SamePage
    <3> QED BY <3>2, <3>3
  <2> QED BY <2>1, <2>5, <2>6
<1> QED BY <1>2, <1>3 DEF DupDone

\* setup_pgdir where there is no address space yet.
PgdirMade(s, others, t) ==
    /\ Sound(t, others) /\ Left(s, t, others) /\ t.err = s.err /\ t.kmem = s.kmem
    /\ t.mm.pgdir # None /\ t.mm.mmap = << >>
    /\ \A la \in Va : t.mm.pte[la] = NoMap
    /\ \A i \in Table : t.mm.pt[i] = None

\* setup_pgdir takes a frame for the page directory, or fails and changes nothing.
LEMMA SetupPgdir ==
    ASSUME VmmAssumption, NEW others, NEW s, Sound(s, others), s.mm = NoMM
    PROVE  \/ PgdirMade(s, others, setup_pgdir(s))
           \/ /\ Alike(s, setup_pgdir(s)) /\ setup_pgdir(s).tlb = s.tlb
              /\ setup_pgdir(s).err = "E_NO_MEM"
<1> DEFINE t == setup_pgdir(s)
           f == NextFrame(s)
           mm == [s.mm EXCEPT !.pgdir = f]
           s1 == [s EXCEPT !.free = s.free \ {f}, !.mm = mm]
<1>1. s \in Machine /\ s.mm \in MM /\ "E_NO_MEM" \in Error /\ s.free \in SUBSET Frame
  BY Fields DEF Sound, Error, Frames
<1>2. CASE s.free = {}
  <2>1. t = Fail(s, "E_NO_MEM")
    BY <1>2 DEF setup_pgdir
  <2>2. Alike(s, t) /\ t.err = "E_NO_MEM" /\ t.tlb = s.tlb
    BY <1>1, <2>1, FailFields
  <2> HIDE DEF t
  <2> QED BY <2>2 DEF t
<1>3. CASE s.free # {}
  <2>1. t = s1
    BY <1>3 DEF setup_pgdir
  <2>2. f \in s.free /\ f \in Frame /\ f # None
    BY <1>1, <1>3, NextFree
  <2> HIDE DEF f, t
  <2>3. /\ mm \in MM /\ mm.pgdir = f /\ mm.mmap = s.mm.mmap /\ mm.pt = s.mm.pt
        /\ mm.pte = s.mm.pte
    BY <1>1, <2>2 DEF MM
  <2> HIDE DEF mm
  <2>4. s.free \ {f} \in Frames
    BY <1>1 DEF Frames
  <2>5. /\ s1 \in Machine /\ s1.err = s.err
        /\ s1.free = s.free \ {f} /\ s1.ref = s.ref /\ s1.page = s.page /\ s1.mm = mm
        /\ s1.tlb = s.tlb /\ s1.index = s.index /\ s1.kstack = s.kstack /\ s1.kmem = s.kmem
    BY <1>1, <2>3, <2>4 DEF Machine
  <2> HIDE DEF s1
  <2>6. /\ s.mm.mmap = << >> /\ \A la \in Va : s.mm.pte[la] = NoMap
        /\ \A i \in Table : s.mm.pt[i] = None
        /\ s.mm.pgdir = None
    BY NoMMFields
  <2>7. TablesOf(s.mm) = {} /\ PagesOf(s.mm) = {} /\ TablesOf(mm) = {} /\ PagesOf(mm) = {}
    BY <2>3, <2>6 DEF TablesOf, PagesOf, NoMap
  <2>8. Parts(s.mm) = {} /\ Parts(mm) = {f}
    BY <2>2, <2>3, <2>6, <2>7 DEF Parts
  <2>9. /\ s1.free \cap others = {} /\ s1.free \cap Parts(s1.mm) = {}
        /\ others \cap Parts(s1.mm) = {} /\ others \in Frames
        /\ Frame = s1.free \cup others \cup Parts(s1.mm)
    <3>1. s.free \cap others = {} /\ others \in Frames /\ Frame = s.free \cup others
      BY <2>8 DEF Sound
    <3> QED BY <2>2, <2>5, <2>8, <3>1
  <2>10. \A g \in s1.free : s1.ref[g] = 0
    BY <2>5 DEF Sound
  <2>11. Apart(s1.mm) /\ Placed(s1.mm)
    BY <2>3, <2>5, <2>6, <2>7 DEF Apart, Placed
  <2>12. Sound(s1, others)
    BY <2>3, <2>5, <2>6, <2>9, <2>10, <2>11 DEF Sound
  <2>13. Left(s, s1, others)
    BY <2>3, <2>5 DEF Left
  <2>14. PgdirMade(s, others, s1)
    BY <2>2, <2>3, <2>5, <2>6, <2>12, <2>13 DEF PgdirMade
  <2> QED BY <2>1, <2>14 DEF t
<1> QED BY <1>2, <1>3

\* An mm_struct is allocated for the process, or there is no address space as before.
\* kmalloc and setup_pgdir, with what fork and exec do if one fails.
MMMade(s, others, t) ==
    /\ Sound(t, others) /\ Left(s, t, others) /\ Balanced(s, t) /\ t.err = s.err
    /\ t.mm.pgdir # None /\ t.mm.mmap = << >>
    /\ \A la \in Va : t.mm.pte[la] = NoMap
    /\ \A i \in Table : t.mm.pt[i] = None
NoMMMade(s, others, t) ==
    /\ Sound(t, others) /\ Left(s, t, others) /\ Balanced(s, t) /\ t.err = "E_NO_MEM"
    /\ t.mm = NoMM

\* The start of copy_mm and of load_icode: an mm_struct and a page directory, or neither.
LEMMA MakeMM ==
    ASSUME VmmAssumption, NEW others, NEW s, Sound(s, others), Ok(s), s.mm = NoMM
    PROVE  \/ ~Ok(kmalloc(s, "mm")) /\ NoMMMade(s, others, kmalloc(s, "mm"))
           \/ /\ Ok(kmalloc(s, "mm")) /\ ~Ok(setup_pgdir(kmalloc(s, "mm")))
              /\ NoMMMade(s, others, mm_destroy(setup_pgdir(kmalloc(s, "mm"))))
           \/ /\ Ok(kmalloc(s, "mm")) /\ Ok(setup_pgdir(kmalloc(s, "mm")))
              /\ MMMade(s, others, setup_pgdir(kmalloc(s, "mm")))
<1> DEFINE s1 == kmalloc(s, "mm")
           s2 == setup_pgdir(s1)
           t == mm_destroy(s2)
<1>0. s \in Machine /\ "mm" \in Kind /\ s.kmem \in Objects
  BY Fields DEF Sound, Kind
<1>1. \/ Charged(s, "mm", 1, s1)
      \/ Alike(s, s1) /\ s1.tlb = s.tlb /\ s1.err = "E_NO_MEM"
  BY <1>0, KMalloc
<1> HIDE DEF s1
<1>2. CASE Alike(s, s1) /\ s1.tlb = s.tlb /\ s1.err = "E_NO_MEM"
  <2>1. Sound(s1, others) /\ Left(s, s1, others) /\ Balanced(s, s1)
    BY <1>2, AlikeSound
  <2>2. s1.mm = NoMM
    BY <1>2 DEF Alike
  <2>3. ~Ok(s1) /\ NoMMMade(s, others, s1)
    BY <1>2, <2>1, <2>2 DEF NoMMMade, Ok
  <2> QED BY <2>3 DEF s1
<1>3. CASE Charged(s, "mm", 1, s1)
  <2>1. Sound(s1, others) /\ Left(s, s1, others)
    BY <1>3, ChargedSound
  <2>2. s1.mm = NoMM /\ s1.err = s.err /\ Ok(s1) /\ s1 \in Machine
        /\ \A k \in Kind : s1.kmem[k] = s.kmem[k] + (IF k = "mm" THEN 1 ELSE 0)
    BY <1>3 DEF Charged, Ok
  <2>3. \/ PgdirMade(s1, others, s2)
        \/ Alike(s1, s2) /\ s2.tlb = s1.tlb /\ s2.err = "E_NO_MEM"
    BY <2>1, <2>2, SetupPgdir
  <2>4. \A k \in Kind : s.kmem[k] \in Int /\ Needs(s.mm, k) = 0 /\ Needs(NoMM, k) = 0
    BY <1>0, NoMMFields DEF Objects, Needs
  <2> HIDE DEF s2
  <2>5. CASE PgdirMade(s1, others, s2)
    <3>1. /\ Sound(s2, others) /\ Left(s1, s2, others) /\ s2.err = s1.err /\ s2.kmem = s1.kmem
          /\ s2.mm.pgdir # None /\ s2.mm.mmap = << >>
          /\ \A la \in Va : s2.mm.pte[la] = NoMap
          /\ \A i \in Table : s2.mm.pt[i] = None
      BY <2>5 DEF PgdirMade
    <3>2. Left(s, s2, others)
      BY <2>1, <3>1, LeftTwice
    <3>3. Balanced(s, s2)
      <4>1. \A k \in Kind : Needs(s2.mm, k) = IF k = "mm" THEN 1 ELSE 0
        BY <3>1 DEF Needs
      <4>2. ASSUME NEW k \in Kind
            PROVE  s2.kmem[k] - Needs(s2.mm, k) = s.kmem[k] - Needs(s.mm, k)
        <5>1. s2.kmem[k] = s.kmem[k] + (IF k = "mm" THEN 1 ELSE 0)
          BY <2>2, <3>1
        <5>2. s.kmem[k] \in Int /\ Needs(s.mm, k) = 0
          BY <2>4
        <5>3. Needs(s2.mm, k) = IF k = "mm" THEN 1 ELSE 0
          BY <4>1
        <5> QED BY <5>1, <5>2, <5>3
      <4> QED BY <4>2 DEF Balanced
    <3>4. Ok(s1) /\ Ok(s2) /\ MMMade(s, others, s2)
      BY <2>2, <3>1, <3>2, <3>3 DEF MMMade, Ok
    <3> QED BY <3>4 DEF s1, s2
  <2>6. CASE Alike(s1, s2) /\ s2.tlb = s1.tlb /\ s2.err = "E_NO_MEM"
    <3>1. /\ s2 \in Machine /\ s2.mm = NoMM /\ s2.kmem = s1.kmem /\ s2.free = s1.free
          /\ s2.ref = s1.ref /\ s2.page = s1.page /\ s2.kstack = s1.kstack /\ s2.index = s1.index
          /\ s2.tlb = s1.tlb
      BY <2>2, <2>6 DEF Alike
    <3>2. Destroyed(s2, t)
      BY <3>1, MMDestroy
    <3> HIDE DEF t
    <3>3. t.mm = NoMM /\ t.mm \in MM
      <4>1. t.mm \in MM
        BY <3>2, Fields DEF Destroyed
      <4>2. /\ t.mm.mmap = << >> /\ t.mm.pgdir = NoMM.pgdir /\ t.mm.pt = NoMM.pt
            /\ t.mm.pte = NoMM.pte
        BY <3>1, <3>2 DEF Destroyed
      <4>3. /\ t.mm.pgdir = None /\ \A i \in Table : t.mm.pt[i] = None
            /\ \A la \in Va : t.mm.pte[la] = NoMap
        BY <4>2, NoMMFields
      <4> QED BY <4>1, <4>2, <4>3, IsNoMM
    <3>4. Sound(t, others) /\ Left(s1, t, others)
      BY <2>1, <2>2, <3>1, <3>2, <3>3 DEF Sound, Left, Destroyed
    <3>5. Left(s, t, others)
      BY <2>1, <3>4, LeftTwice
    <3>6. Balanced(s, t)
      <4>1. ASSUME NEW k \in Kind
            PROVE  t.kmem[k] - Needs(t.mm, k) = s.kmem[k] - Needs(s.mm, k)
        <5>1. s.kmem[k] \in Int /\ Needs(s.mm, k) = 0 /\ Needs(t.mm, k) = 0
          BY <2>4, <3>3
        <5>2. t.kmem[k] = s2.kmem[k] - (CASE k = "vma" -> 0 [] k = "mm" -> 1 [] OTHER -> 0)
          <6>1. Len(s2.mm.mmap) = 0
            BY <3>1, NoMMFields
          <6> QED BY <3>2, <6>1 DEF Destroyed
        <5>3. s2.kmem[k] = s.kmem[k] + (IF k = "mm" THEN 1 ELSE 0)
          BY <2>2, <3>1
        <5>4. CASE k = "mm"
          BY <5>1, <5>2, <5>3, <5>4
        <5>5. CASE k # "mm"
          BY <5>1, <5>2, <5>3, <5>5
        <5> QED BY <5>4, <5>5
      <4> QED BY <4>1 DEF Balanced
    <3>7. t.err = "E_NO_MEM"
      BY <2>6, <3>2 DEF Destroyed
    <3>8. Ok(s1) /\ ~Ok(s2) /\ NoMMMade(s, others, t)
      BY <2>2, <2>6, <3>3, <3>4, <3>5, <3>6, <3>7 DEF NoMMMade, Ok
    <3> QED BY <3>8 DEF s1, s2, t
  <2> QED BY <2>3, <2>5, <2>6
<1> QED BY <1>1, <1>2, <1>3

\* copy_mm: a copy of old, or nothing is left of it.
MMCopied(s, old, others, t) ==
    /\ Sound(t, others) /\ Left(s, t, others) /\ Balanced(s, t)
    /\ t.err \in {"", "E_NO_MEM", "assert"}
    /\ t.err = "E_NO_MEM" => t.mm = NoMM
    /\ t.err = "" =>
          /\ t.mm.pgdir = None => t.mm = NoMM
          /\ t.mm = NoMM <=> old = NoMM
          /\ Separate(t.mm) /\ Filled(t.mm)
          /\ \A la \in Va : SamePage(old, la, s.page, t)

\* copy_mm gives a whole copy, or gives back all it had taken.
LEMMA CopyMM ==
    ASSUME VmmAssumption, NEW others, NEW s, Sound(s, others), Ok(s), s.mm = NoMM,
           NEW old, Original(old, others)
    PROVE  MMCopied(s, old, others, copy_mm(s, old))
<1> DEFINE s1 == kmalloc(s, "mm")
           s2 == setup_pgdir(s1)
           s3 == dup_mmap(s2, old)
           t == copy_mm(s, old)
<1>1. CASE old = NoMM
  <2>1. t = s
    BY <1>1 DEF copy_mm
  <2>2. /\ Left(s, s, others) /\ Balanced(s, s)
    BY DEF Left, Balanced
  <2>3. Separate(NoMM) /\ Filled(NoMM)
    <3>1. Range(NoMM.mmap) = {}
      BY NoMMFields DEF Range
    <3> QED BY <3>1, NoMMFields DEF Separate, Filled, IsInjective
  <2>4. \A la \in Va : SamePage(old, la, s.page, s)
    BY <1>1, NoMMFields DEF SamePage
  <2> HIDE DEF t
  <2>5. MMCopied(s, old, others, t)
    BY <1>1, <2>1, <2>2, <2>3, <2>4 DEF MMCopied, Ok
  <2> QED BY <2>5 DEF t
<1>2. CASE old # NoMM
  <2>1. t = IF ~Ok(s1) THEN s1 ELSE IF ~Ok(s2) THEN mm_destroy(s2)
            ELSE IF s3.err = "E_NO_MEM" THEN free_mm(s3) ELSE s3
    BY <1>2 DEF copy_mm
  <2>2. \/ ~Ok(s1) /\ NoMMMade(s, others, s1)
        \/ Ok(s1) /\ ~Ok(s2) /\ NoMMMade(s, others, mm_destroy(s2))
        \/ Ok(s1) /\ Ok(s2) /\ MMMade(s, others, s2)
    BY MakeMM
  <2> HIDE DEF s1, s2, s3, t
  <2>3. CASE \/ ~Ok(s1) /\ NoMMMade(s, others, s1)
             \/ Ok(s1) /\ ~Ok(s2) /\ NoMMMade(s, others, mm_destroy(s2))
    <3>1. NoMMMade(s, others, t)
      BY <2>1, <2>3
    <3>2. MMCopied(s, old, others, t)
      BY <3>1 DEF NoMMMade, MMCopied
    <3> QED BY <3>2 DEF t
  <2>4. CASE Ok(s1) /\ Ok(s2) /\ MMMade(s, others, s2)
    <3>1. /\ Sound(s2, others) /\ Left(s, s2, others) /\ Balanced(s, s2)
          /\ s2.mm.pgdir # None /\ s2.mm.mmap = << >> /\ s2 \in Machine
      BY <2>4 DEF MMMade, Sound
    <3>2. DupDone(s2, old, others, s3)
      BY <2>4, <3>1, DupMmap DEF s3
    <3>3. /\ Sound(s3, others) /\ Kept(s2, s3, others) /\ s3.err \in {"", "E_NO_MEM", "assert"}
          /\ s3 \in Machine
      BY <3>2 DEF DupDone, Sound
    <3>4. Left(s2, s3, others) /\ Balanced(s2, s3) /\ s3.mm.pgdir # None
      <4>1. s3.mm.pgdir = s2.mm.pgdir
        BY <3>3 DEF Kept
      <4> QED BY <3>1, <3>3, <4>1, KeptLeft
    <3>5. Left(s, s3, others)
      BY <3>1, <3>4, LeftTwice
    <3>6. Balanced(s, s3)
      BY <3>1, <3>4, BalancedTwice
    <3>7. CASE s3.err = "E_NO_MEM"
      <4>1. t = free_mm(s3)
        BY <2>1, <2>4, <3>7
      <4>2. MMFreed(s3, others, t)
        BY <3>3, <3>4, <4>1, FreeMM
      <4>3. /\ Sound(t, others) /\ Left(s3, t, others) /\ Balanced(s3, t)
            /\ t.err = "E_NO_MEM" /\ t.mm = NoMM
        BY <3>7, <4>2 DEF MMFreed
      <4>4. Left(s, t, others)
        BY <3>5, <4>3, LeftTwice
      <4>5. Balanced(s, t)
        BY <3>6, <4>3, BalancedTwice
      <4>6. MMCopied(s, old, others, t)
        BY <4>3, <4>4, <4>5 DEF MMCopied
      <4> QED BY <4>6 DEF t
    <3>8. CASE s3.err # "E_NO_MEM"
      <4>1. t = s3
        BY <2>1, <2>4, <3>8
      <4>2. t.mm # NoMM
        BY <3>4, <4>1, NoMMFields
      <4>3. ASSUME t.err = ""
            PROVE  /\ Separate(t.mm) /\ Filled(t.mm)
                   /\ \A la \in Va : SamePage(old, la, s.page, t)
        <5>1. /\ Separate(t.mm) /\ Filled(t.mm)
              /\ \A la \in Va : SamePage(old, la, s2.page, t)
          BY <3>2, <4>1, <4>3 DEF DupDone
        <5>2. \A la \in Va : old.pte[la] # NoMap =>
                  s2.page[old.pte[la].frame] = s.page[old.pte[la].frame]
          BY <3>1 DEF Original, Left
        <5> QED BY <5>1, <5>2 DEF SamePage
      <4>4. MMCopied(s, old, others, t)
        BY <1>2, <3>3, <3>4, <3>5, <3>6, <3>8, <4>1, <4>2, <4>3 DEF MMCopied
      <4> QED BY <4>4 DEF t
    <3> QED BY <3>7, <3>8
  <2> QED BY <2>2, <2>3, <2>4
<1> QED BY <1>1, <1>2

-----------------------------------------------------------------------------
(* Page faults and the TLB.                                                *)

\* do_pgfault: the page is there, or nothing has changed but the page tables.
FaultDone(s, la, others, t) ==
    /\ Sound(t, others) /\ Kept(s, t, others) /\ t.mm.mmap = s.mm.mmap
    /\ t.err \in {"", "E_NO_MEM", "E_INVAL"}
    /\ \A lb \in Va : lb # la => t.mm.pte[lb] = s.mm.pte[lb]
    /\ s.mm.pte[la] # NoMap => t.mm.pte[la] # NoMap
    /\ t.err = "" => t.mm.pte[la] # NoMap
    /\ t.err # "" => t.mm.pte = s.mm.pte

\* do_pgfault maps a fresh page where an area holds the address, or fails.
LEMMA DoPgfault ==
    ASSUME VmmAssumption, NEW others, NEW s, Sound(s, others), Ok(s), NEW la \in Va,
           NEW write \in BOOLEAN
    PROVE  FaultDone(s, la, others, do_pgfault(s, la, write))
<1> DEFINE area == AreaOf(s.mm, la)
           w == \A vma \in area : "WRITE" \in vma.flags
           allowed == IF write THEN {"WRITE"} ELSE {"READ", "EXEC"}
           refused == \E vma \in area : vma.flags \cap allowed = {}
           g == get_pte(s, la)
           u == pgdir_alloc_page(g, la, w)
           t == do_pgfault(s, la, write)
<1>0. s \in Machine /\ "E_INVAL" \in Error
  BY DEF Sound, Error
<1>1. t = IF area = {} \/ refused THEN Fail(s, "E_INVAL") ELSE IF Ok(g) THEN u ELSE g
  BY DEF do_pgfault, Then
<1>2. w \in BOOLEAN
  OBVIOUS
<1>3. area # {} => Covered(s.mm, la)
  BY DEF AreaOf, Covered
<1> HIDE DEF area, w, t, refused
<1>4. CASE area = {} \/ refused
  <2>1. t = Fail(s, "E_INVAL")
    BY <1>1, <1>4
  <2>2. Alike(s, t) /\ t.err = "E_INVAL" /\ t.tlb = s.tlb
    BY <1>0, <2>1, FailFields
  <2>3. Sound(t, others) /\ Kept(s, t, others) /\ t.mm = s.mm
    BY <2>2, AlikeSound DEF Alike
  <2>4. FaultDone(s, la, others, t)
    BY <2>2, <2>3 DEF FaultDone
  <2> QED BY <2>4 DEF t
<1>5. CASE ~(area = {} \/ refused)
  <2>0. t = IF Ok(g) THEN u ELSE g
    BY <1>1, <1>5
  <2>1. TableGot(s, la, others, g)
    BY <1>3, <1>5, GetPte
  <2> HIDE DEF g, u
  <2>2. /\ Sound(g, others) /\ Kept(s, g, others)
        /\ g.mm.pte = s.mm.pte /\ g.mm.mmap = s.mm.mmap
        /\ \/ g.err = s.err
           \/ g.err = "E_NO_MEM"
    BY <2>1 DEF TableGot
  <2>3. CASE ~Ok(g)
    <3>1. t = g /\ g.err = "E_NO_MEM"
      BY <2>0, <2>2, <2>3 DEF Ok
    <3>2. FaultDone(s, la, others, t)
      BY <2>2, <3>1 DEF FaultDone
    <3> QED BY <3>2 DEF t
  <2>4. CASE Ok(g)
    <3>1. t = u
      BY <2>0, <2>4
    <3>2. Covered(g.mm, la)
      BY <1>3, <1>5, <2>2 DEF Covered
    <3>3. \/ PageAdded(g, la, w, others, t)
          \/ PageRefused(g, others, t)
      BY <1>2, <2>2, <2>4, <3>1, <3>2, PgdirAllocPage DEF u
    <3>4. /\ Sound(t, others) /\ Kept(g, t, others) /\ t.mm.mmap = g.mm.mmap
          /\ t.err \in {"", "E_NO_MEM", "E_INVAL"}
          /\ \A lb \in Va : lb # la => t.mm.pte[lb] = g.mm.pte[lb]
          /\ g.mm.pte[la] # NoMap => t.mm.pte[la] # NoMap
          /\ t.err = "" => t.mm.pte[la] # NoMap
          /\ t.err # "" => t.mm.pte = g.mm.pte
      BY <3>3 DEF PageAdded, PageRefused
    <3>5. Kept(s, t, others)
      BY <2>2, <3>4, KeptTwice
    <3>6. FaultDone(s, la, others, t)
      BY <2>2, <3>4, <3>5 DEF FaultDone
    <3> QED BY <3>6 DEF t
  <2> QED BY <2>3, <2>4
<1> QED BY <1>4, <1>5

\* The TLB holds pairs of page table entries of pte, each pair once.
Coherent(tlb, pte) ==
    /\ \A j \in Slot : tlb[j].vpn2 # -1 =>
          /\ 2 * tlb[j].vpn2 \in Va /\ 2 * tlb[j].vpn2 + 1 \in Va
          /\ tlb[j].lo = <<pte[2 * tlb[j].vpn2], pte[2 * tlb[j].vpn2 + 1]>>
    /\ \A j, k \in Slot : j # k /\ tlb[j].vpn2 # -1 => tlb[j].vpn2 # tlb[k].vpn2

\* An empty TLB is coherent with any page table.
LEMMA NoTlbCoherent ==
    ASSUME NEW pte
    PROVE  Coherent(NoTlb, pte)
<1>1. \A j \in Slot : NoTlb[j].vpn2 = -1
  BY DEF NoTlb, NoEntry, Slot
<1> QED BY <1>1 DEF Coherent

\* A TLB that agreed with the page table still does when a step leaves only entries that
\* do.
LEMMA LeftCoherent ==
    ASSUME NEW s, NEW t, NEW others, Left(s, t, others), Coherent(s.tlb, s.mm.pte)
    PROVE  Coherent(t.tlb, t.mm.pte)
<1>1. CASE t.tlb = NoTlb
  BY <1>1, NoTlbCoherent
<1>2. CASE t.tlb = s.tlb /\ t.mm.pte = s.mm.pte
  BY <1>2
<1> QED BY <1>1, <1>2 DEF Left

\* Left, where the TLB may also be refilled.
Safe(s, t, others) ==
    /\ t.kstack = s.kstack
    /\ \A f \in others : t.ref[f] = s.ref[f] /\ t.page[f] = s.page[f]
    /\ Coherent(s.tlb, s.mm.pte) => Coherent(t.tlb, t.mm.pte)

\* What leaves the others alone is safe for them.
LEMMA LeftSafe ==
    ASSUME NEW s, NEW t, NEW others, Left(s, t, others)
    PROVE  Safe(s, t, others)
<1>1. Coherent(s.tlb, s.mm.pte) => Coherent(t.tlb, t.mm.pte)
  BY LeftCoherent
<1> QED BY <1>1 DEF Left, Safe

\* Two steps that are safe for the others.
LEMMA SafeTwice ==
    ASSUME NEW s, NEW t, NEW u, NEW others, Safe(s, t, others), Safe(t, u, others)
    PROVE  Safe(s, u, others)
BY DEF Safe

\* The pair of entries that a page belongs to.
LEMMA Pair ==
    ASSUME VmmAssumption, NEW la \in Va
    PROVE  /\ la - (la % 2) = 2 * (la \div 2) /\ la \div 2 \in Nat
           /\ 2 * (la \div 2) \in Va /\ 2 * (la \div 2) + 1 \in Va
           /\ la % 2 = 0 => la = 2 * (la \div 2)
           /\ la % 2 # 0 => la % 2 = 1 /\ la = 2 * (la \div 2) + 1
<1> DEFINE d == la \div 2
           m == la % 2
<1>1. la \in Nat /\ NVA \in Nat /\ la <= NVA - 1
  BY DEF Va, VmmAssumption
<1>2. la = 2 * d + m /\ m \in 0..1 /\ d \in Nat
  BY <1>1
<1>3. PICK h \in Nat : NVA = 2 * h
  <2>1. NVA % 2 = 0
    BY EvenSpace
  <2>2. NVA = 2 * (NVA \div 2) + (NVA % 2) /\ NVA \div 2 \in Nat
    BY <1>1
  <2> QED BY <2>1, <2>2
<1> HIDE DEF d, m
<1>4. 2 * d + 1 <= NVA - 1
  BY <1>1, <1>2, <1>3
<1>5. la - m = 2 * d
  BY <1>1, <1>2
<1>6. 2 * d \in Va /\ 2 * d + 1 \in Va
  BY <1>1, <1>2, <1>4 DEF Va
<1>7. /\ m = 0 => la = 2 * d
      /\ m # 0 => m = 1 /\ la = 2 * d + 1
  BY <1>1, <1>2
<1> QED BY <1>2, <1>5, <1>6, <1>7 DEF d, m

\* tlb_refill for a page that has no hit.
Refilled(s, others, t) ==
    /\ Sound(t, others) /\ Safe(s, t, others)
    /\ t.mm = s.mm /\ t.kmem = s.kmem /\ t.err = s.err /\ t.page = s.page

\* tlb_refill puts the pair of entries of the page table in a slot; the TLB stays coherent.
LEMMA TlbRefill ==
    ASSUME VmmAssumption, NEW others, NEW s, Sound(s, others), NEW la \in Va,
           s.mm.pte[la] # NoMap, Hits(s, la) = {}
    PROVE  Refilled(s, others, tlb_refill(s, la))
<1> DEFINE t == tlb_refill(s, la)
           x == 2 * (la \div 2)
           entry == [vpn2 |-> la \div 2, lo |-> <<s.mm.pte[x], s.mm.pte[x + 1]>>]
           tlb == [s.tlb EXCEPT ![s.index] = entry]
           index == (s.index + 1) % NTLB
<1>1. /\ s \in Machine /\ s.tlb \in Tlb /\ s.index \in Slot /\ s.mm.pte \in Ptes
  BY Fields, MMFields DEF Sound
<1>2. /\ la - (la % 2) = x /\ la \div 2 \in Nat /\ x \in Va /\ x + 1 \in Va
      /\ la % 2 = 0 => la = x
      /\ la % 2 # 0 => la % 2 = 1 /\ la = x + 1
  BY Pair
<1>3. t = [s EXCEPT !.tlb = tlb, !.index = index]
  BY <1>2 DEF tlb_refill
<1>4. index \in Slot
  <2>1. s.index + 1 \in Nat /\ NTLB \in Nat \ {0}
    BY <1>1 DEF Slot, VmmAssumption
  <2>2. index \in 0..(NTLB - 1)
    BY <2>1, Divide
  <2> QED BY <2>2 DEF Slot
<1>5. entry \in Entry /\ entry.vpn2 = la \div 2 /\ entry.lo = <<s.mm.pte[x], s.mm.pte[x + 1]>>
  <2>1. s.mm.pte[x] \in Map /\ s.mm.pte[x + 1] \in Map
    BY <1>1, <1>2 DEF Ptes
  <2> QED BY <1>2, <2>1 DEF Entry
<1> HIDE DEF x, entry, index
<1>6. /\ tlb \in Tlb /\ tlb[s.index] = entry
      /\ \A j \in Slot : j # s.index => tlb[j] = s.tlb[j]
  BY <1>1, <1>5 DEF Tlb
<1> HIDE DEF tlb, t
<1>7. /\ t \in Machine /\ t.free = s.free /\ t.ref = s.ref /\ t.mm = s.mm /\ t.page = s.page
      /\ t.kmem = s.kmem /\ t.tlb = tlb /\ t.index = index /\ t.err = s.err
      /\ t.kstack = s.kstack
  BY <1>1, <1>3, <1>4, <1>6 DEF Machine
<1>8. Sound(t, others)
  BY <1>7 DEF Sound
<1>9. ASSUME Coherent(s.tlb, s.mm.pte) PROVE Coherent(tlb, s.mm.pte)
  <2>1. ASSUME NEW j \in Slot, tlb[j].vpn2 # -1
        PROVE  /\ 2 * tlb[j].vpn2 \in Va /\ 2 * tlb[j].vpn2 + 1 \in Va
               /\ tlb[j].lo = <<s.mm.pte[2 * tlb[j].vpn2], s.mm.pte[2 * tlb[j].vpn2 + 1]>>
    <3>1. CASE j = s.index
      BY <1>2, <1>5, <1>6, <3>1 DEF x
    <3>2. CASE j # s.index
      <4>1. tlb[j] = s.tlb[j]
        BY <1>6, <3>2
      <4> QED BY <1>9, <2>1, <4>1 DEF Coherent
    <3> QED BY <3>1, <3>2
  <2>2. ASSUME NEW j \in Slot, s.tlb[j].vpn2 = la \div 2 PROVE FALSE
    <3>1. s.tlb[j].vpn2 # -1
      BY <1>2, <2>2
    <3>2. s.tlb[j].lo = <<s.mm.pte[x], s.mm.pte[x + 1]>>
      BY <1>9, <2>2, <3>1 DEF Coherent, x
    <3>3. s.tlb[j].lo[1 + (la % 2)] = s.mm.pte[la]
      <4>1. CASE la % 2 = 0
        <5>1. s.tlb[j].lo[1 + (la % 2)] = s.tlb[j].lo[1]
          BY <4>1
        <5>2. s.tlb[j].lo[1] = s.mm.pte[x]
          BY <3>2
        <5> QED BY <1>2, <4>1, <5>1, <5>2
      <4>2. CASE la % 2 # 0
        <5>1. s.tlb[j].lo[1 + (la % 2)] = s.tlb[j].lo[2]
          BY <1>2, <4>2
        <5>2. s.tlb[j].lo[2] = s.mm.pte[x + 1]
          BY <3>2
        <5> QED BY <1>2, <4>2, <5>1, <5>2
      <4> QED BY <4>1, <4>2
    <3>4. j \in DOMAIN s.tlb
      BY <1>1 DEF Tlb
    <3> QED BY <2>2, <3>3, <3>4 DEF Hits
  <2>3. ASSUME NEW j \in Slot, NEW k \in Slot, j # k, tlb[j].vpn2 # -1
        PROVE  tlb[j].vpn2 # tlb[k].vpn2
    <3>1. CASE j = s.index
      <4>1. tlb[k] = s.tlb[k] /\ tlb[j].vpn2 = la \div 2
        BY <1>5, <1>6, <2>3, <3>1
      <4> QED BY <2>2, <4>1
    <3>2. CASE k = s.index
      <4>1. tlb[j] = s.tlb[j] /\ tlb[k].vpn2 = la \div 2
        BY <1>5, <1>6, <2>3, <3>2
      <4> QED BY <2>2, <4>1
    <3>3. CASE j # s.index /\ k # s.index
      <4>1. tlb[j] = s.tlb[j] /\ tlb[k] = s.tlb[k]
        BY <1>6, <3>3
      <4> QED BY <1>9, <2>3, <4>1 DEF Coherent
    <3> QED BY <3>1, <3>2, <3>3
  <2> QED BY <2>1, <2>3 DEF Coherent
<1>10. Safe(s, t, others)
  BY <1>7, <1>9 DEF Safe
<1>11. Refilled(s, others, t)
  BY <1>7, <1>8, <1>10 DEF Refilled
<1> QED BY <1>11 DEF t

\* A mapped page gets new contents.
Write(s, la, c) == [s EXCEPT !.page = [s.page EXCEPT ![s.mm.pte[la].frame] = c]]
Written(s, la, others, t) ==
    /\ Sound(t, others) /\ Kept(s, t, others) /\ t.tlb = s.tlb
    /\ t.mm = s.mm /\ t.kmem = s.kmem /\ t.err = s.err

\* A store to a mapped page changes the contents of its frame, which is no other process's.
LEMMA WritePage ==
    ASSUME NEW others, NEW s, Sound(s, others), NEW la \in Va, s.mm.pte[la] # NoMap,
           NEW c \in Content
    PROVE  Written(s, la, others, Write(s, la, c))
<1> DEFINE f == s.mm.pte[la].frame
           page == [s.page EXCEPT ![f] = c]
           t == Write(s, la, c)
<1>1. s \in Machine /\ s.page \in Pages /\ f \in Frame /\ f \notin others
  BY EntryFrame, Fields DEF Sound
<1> HIDE DEF f
<1>2. page \in Pages /\ \A g \in others : page[g] = s.page[g]
  <2>1. others \in SUBSET Frame
    BY DEF Sound, Frames
  <2> QED BY <1>1, <2>1 DEF Pages
<1>3. t = [s EXCEPT !.page = page]
  BY DEF Write, f
<1> HIDE DEF page, t
<1>4. /\ t \in Machine /\ t.free = s.free /\ t.ref = s.ref /\ t.mm = s.mm /\ t.page = page
      /\ t.kmem = s.kmem /\ t.tlb = s.tlb /\ t.index = s.index /\ t.err = s.err
      /\ t.kstack = s.kstack
  BY <1>1, <1>2, <1>3 DEF Machine
<1>5. Sound(t, others)
  BY <1>4 DEF Sound
<1>6. Kept(s, t, others)
  BY <1>2, <1>4 DEF Kept
<1>7. Written(s, la, others, t)
  BY <1>4, <1>5, <1>6 DEF Written
<1> QED BY <1>7 DEF t

\* kernel_touch.
Touched(s, others, t) ==
    /\ Sound(t, others) /\ Safe(s, t, others) /\ Balanced(s, t)
    /\ t.mm.pgdir = s.mm.pgdir /\ t.mm.mmap = s.mm.mmap
    /\ \A lb \in Va : s.mm.pte[lb] # NoMap => t.mm.pte[lb] # NoMap
    /\ t.err \in {"", "unhandled pgfault"}

\* A kernel access to a user page: a hit, a refill or a page fault first, then the access.
LEMMA KernelTouch ==
    ASSUME VmmAssumption, NEW others, NEW s, Sound(s, others), Ok(s), NEW la \in Va,
           NEW write \in BOOLEAN
    PROVE  Touched(s, others, kernel_touch(s, la, write))
<1> DEFINE p == do_pgfault(s, la, write)
           m == IF s.mm.pte[la] = NoMap THEN p ELSE s
           l == IF Hits(m, la) = {} THEN tlb_refill(m, la) ELSE m
           t == kernel_touch(s, la, write)
<1>1. t = IF ~Ok(m) THEN Fail(m, "unhandled pgfault") ELSE IF write THEN Write(l, la, "user") ELSE l
  BY DEF kernel_touch, Write
<1>2. FaultDone(s, la, others, m) \/ (m = s /\ s.mm.pte[la] # NoMap)
  <2>1. FaultDone(s, la, others, p)
    BY DoPgfault
  <2> HIDE DEF p
  <2> QED BY <2>1
<1> HIDE DEF p
<1> HIDE DEF m
<1>3. /\ Sound(m, others) /\ Kept(s, m, others) /\ m.mm.mmap = s.mm.mmap /\ m \in Machine
      /\ \A lb \in Va : s.mm.pte[lb] # NoMap => m.mm.pte[lb] # NoMap
      /\ m.err = "" => m.mm.pte[la] # NoMap
  <2>1. Kept(s, s, others)
    BY KeptSame
  <2> QED BY <1>2, <2>1 DEF FaultDone, Sound
<1>4. Safe(s, m, others) /\ Balanced(s, m) /\ m.mm.pgdir = s.mm.pgdir
  <2>1. s \in Machine
    BY DEF Sound
  <2>2. Left(s, m, others) /\ Balanced(s, m)
    BY <1>3, <2>1, KeptLeft
  <2> QED BY <1>3, <2>2, LeftSafe DEF Kept
<1>5. CASE ~Ok(m)
  <2>1. t = Fail(m, "unhandled pgfault") /\ "unhandled pgfault" \in Error
    BY <1>1, <1>5 DEF Error
  <2> HIDE DEF t
  <2>2. Alike(m, t) /\ t.err = "unhandled pgfault" /\ t.tlb = m.tlb
    <3>1. /\ Alike(m, Fail(m, "unhandled pgfault"))
          /\ Fail(m, "unhandled pgfault").err = "unhandled pgfault"
          /\ Fail(m, "unhandled pgfault").tlb = m.tlb
      BY <1>3, <2>1, FailFields
    <3> QED BY <2>1, <3>1
  <2>3. Sound(t, others) /\ Left(m, t, others) /\ Balanced(m, t) /\ t.mm = m.mm
    BY <1>3, <2>2, AlikeSound DEF Alike
  <2>4. Safe(s, t, others)
    BY <1>4, <2>3, LeftSafe, SafeTwice
  <2>5. Balanced(s, t)
    BY <1>4, <2>3, BalancedTwice
  <2>6. Touched(s, others, t)
    BY <1>3, <1>4, <2>2, <2>3, <2>4, <2>5 DEF Touched
  <2> QED BY <2>6 DEF t
<1>6. CASE Ok(m)
  <2>1. m.mm.pte[la] # NoMap /\ m.err = ""
    BY <1>3, <1>6 DEF Ok
  <2>2. Refilled(m, others, l)
    <3>1. CASE Hits(m, la) = {}
      BY <1>3, <2>1, <3>1, TlbRefill
    <3>2. CASE Hits(m, la) # {}
      <4>1. Safe(m, m, others)
        BY DEF Safe
      <4>2. l = m
        BY <3>2
      <4> HIDE DEF l
      <4> QED BY <1>3, <4>1, <4>2 DEF Refilled
    <3> QED BY <3>1, <3>2
  <2> HIDE DEF l, t
  <2>3. /\ Sound(l, others) /\ Safe(m, l, others)
        /\ l.mm = m.mm /\ l.kmem = m.kmem /\ l.err = ""
    BY <2>1, <2>2 DEF Refilled
  <2>4. /\ Sound(t, others) /\ Safe(l, t, others)
        /\ t.mm = l.mm /\ t.kmem = l.kmem /\ t.err = ""
    <3>1. CASE write
      <4>1. t = Write(l, la, "user") /\ "user" \in Content
        BY <1>1, <1>6, <3>1 DEF Content
      <4>2. Written(l, la, others, t)
        BY <2>1, <2>3, <4>1, WritePage
      <4>3. /\ Sound(t, others) /\ Kept(l, t, others)
            /\ t.mm = l.mm /\ t.kmem = l.kmem /\ t.err = l.err /\ t.tlb = l.tlb
        BY <4>2 DEF Written
      <4>4. Safe(l, t, others)
        BY <4>3 DEF Kept, Safe
      <4> QED BY <2>3, <4>3, <4>4
    <3>2. CASE ~write
      <4>1. t = l
        BY <1>1, <1>6, <3>2
      <4>2. Safe(l, l, others)
        BY DEF Safe
      <4> QED BY <2>3, <4>1, <4>2
    <3> QED BY <3>1, <3>2
  <2>5. Safe(s, t, others)
    BY <1>4, <2>3, <2>4, SafeTwice
  <2>6. Balanced(s, t)
    BY <1>4, <2>3, <2>4 DEF Balanced
  <2>7. Touched(s, others, t)
    BY <1>3, <1>4, <2>3, <2>4, <2>5, <2>6 DEF Touched
  <2> QED BY <2>7 DEF t
<1> QED BY <1>5, <1>6

-----------------------------------------------------------------------------
(* Loading a program.                                                      *)

\* load_icode_read: nothing changes but err and the count of reads.
ReadDone(s, t) ==
    /\ t \in Machine
    /\ t.err = "" => s.err = ""
    /\ t.free = s.free /\ t.ref = s.ref /\ t.page = s.page /\ t.kmem = s.kmem /\ t.mm = s.mm
    /\ t.tlb = s.tlb /\ t.index = s.index /\ t.kstack = s.kstack

\* load_icode_read may fail and changes only the countdown.
LEMMA IcodeRead ==
    ASSUME NEW s \in Machine
    PROVE  ReadDone(s, load_icode_read(s))
<1> DEFINE t == load_icode_read(s)
           rleft == IF s.rleft = 0 THEN 0 ELSE s.rleft - 1
<1>1. s.rleft \in Nat /\ "E_IO" \in Error
  BY Fields DEF Error
<1>2. CASE s.rleft = 1
  <2>1. t = Fail(s, "E_IO")
    BY <1>2 DEF load_icode_read
  <2> HIDE DEF t
  <2>2. Alike(s, t) /\ t.err = "E_IO" /\ t.tlb = s.tlb
    <3>1. /\ Alike(s, Fail(s, "E_IO")) /\ Fail(s, "E_IO").err = "E_IO"
          /\ Fail(s, "E_IO").tlb = s.tlb
      BY <1>1, FailFields
    <3> QED BY <2>1, <3>1
  <2>3. ReadDone(s, t)
    BY <2>2 DEF Alike, ReadDone
  <2> QED BY <2>3 DEF t
<1>3. CASE s.rleft # 1
  <2>1. t = [s EXCEPT !.rleft = rleft]
    BY <1>3 DEF load_icode_read
  <2>2. rleft \in Nat
    BY <1>1
  <2> HIDE DEF rleft, t
  <2>3. /\ t \in Machine /\ t.err = s.err
        /\ t.free = s.free /\ t.ref = s.ref /\ t.page = s.page /\ t.kmem = s.kmem
        /\ t.mm = s.mm /\ t.tlb = s.tlb /\ t.index = s.index /\ t.kstack = s.kstack
    BY <2>1, <2>2 DEF Machine
  <2>4. ReadDone(s, t)
    BY <2>3 DEF ReadDone
  <2> QED BY <2>4 DEF t
<1> QED BY <1>2, <1>3

\* load_icode_read leaves the memory sound.
LEMMA ReadSound ==
    ASSUME NEW others, NEW s, Sound(s, others), NEW t, ReadDone(s, t)
    PROVE  /\ Sound(t, others) /\ Kept(s, t, others) /\ t.mm = s.mm
           /\ t.err = "" => s.err = ""
<1>1. Sound(t, others)
  <2>1. /\ t \in Machine /\ t.free = s.free /\ t.ref = s.ref /\ t.mm = s.mm
    BY DEF ReadDone
  <2> QED BY <2>1 DEF Sound
<1>2. Kept(s, t, others)
  <2>1. /\ t.ref = s.ref /\ t.page = s.page /\ t.kmem = s.kmem /\ t.mm = s.mm
        /\ t.tlb = s.tlb /\ t.index = s.index /\ t.kstack = s.kstack
    BY DEF ReadDone
  <2> QED BY <2>1 DEF Kept
<1> QED BY <1>1, <1>2 DEF ReadDone

\* A segment, when its pages have been loaded up to page n, from memory s with its area.
Loading(s, start, n, others, t) ==
    /\ Sound(t, others) /\ Kept(s, t, others) /\ t.mm.mmap = s.mm.mmap
    /\ t.err = "" => s.err = ""
    /\ \A lb \in Va : s.mm.pte[lb] # NoMap => t.mm.pte[lb] # NoMap
    /\ t.err = "" => \A lb \in Va : start <= lb /\ lb < start + n => t.mm.pte[lb] # NoMap

LoadPage(t, la, bound, w) ==
    LET inFile == la < bound
        t1 == Then(t, LAMBDA u : pgdir_alloc_page(u, la, w))
        t2 == IF inFile THEN Then(t1, load_icode_read) ELSE t1
        c == IF inFile THEN "file" ELSE "zero"
    IN  IF Ok(t2) THEN [t2 EXCEPT !.page[t2.mm.pte[la].frame] = c] ELSE t2

\* One turn of the page loop of load_icode: the pages up to i are mapped, or it failed.
LEMMA LoadOnePage ==
    ASSUME VmmAssumption, NEW others, NEW s, NEW start \in Nat, NEW i \in Nat \ {0}, NEW bound,
           NEW la \in Va, la = start + i - 1, NEW w \in BOOLEAN,
           Ok(s) => Covered(s.mm, la),
           NEW t, Loading(s, start, i - 1, others, t)
    PROVE  Loading(s, start, i, others, LoadPage(t, la, bound, w))
<1> DEFINE inFile == la < bound
           p == pgdir_alloc_page(t, la, w)
           t1 == IF Ok(t) THEN p ELSE t
           r == load_icode_read(t1)
           t2 == IF inFile /\ Ok(t1) THEN r ELSE t1
           c == IF inFile THEN "file" ELSE "zero"
           e == LoadPage(t, la, bound, w)
<1>1. e = IF Ok(t2) THEN Write(t2, la, c) ELSE t2
  <2>1. Then(t, LAMBDA u : pgdir_alloc_page(u, la, w)) = t1
    BY DEF Then
  <2>2. (IF inFile THEN Then(t1, load_icode_read) ELSE t1) = t2
    BY DEF Then
  <2>3. e = LET q2 == IF inFile THEN Then(Then(t, LAMBDA u : pgdir_alloc_page(u, la, w)), load_icode_read)
                      ELSE Then(t, LAMBDA u : pgdir_alloc_page(u, la, w))
            IN  IF Ok(q2) THEN [q2 EXCEPT !.page[q2.mm.pte[la].frame] = c] ELSE q2
    BY DEF LoadPage
  <2> HIDE DEF t1, e, inFile, c
  <2>4. e = LET q2 == IF inFile THEN Then(t1, load_icode_read) ELSE t1
            IN  IF Ok(q2) THEN [q2 EXCEPT !.page[q2.mm.pte[la].frame] = c] ELSE q2
    BY <2>1, <2>3
  <2> HIDE DEF t2
  <2>5. e = IF Ok(t2) THEN [t2 EXCEPT !.page[t2.mm.pte[la].frame] = c] ELSE t2
    BY <2>2, <2>4
  <2> QED BY <2>5 DEF Write
<1>2. c \in Content
  BY DEF Content
<1> HIDE DEF e, inFile, c
<1>3. /\ Sound(t, others) /\ Kept(s, t, others) /\ t.mm.mmap = s.mm.mmap
      /\ t.err = "" => s.err = ""
      /\ \A lb \in Va : s.mm.pte[lb] # NoMap => t.mm.pte[lb] # NoMap
      /\ t.err = "" => \A lb \in Va : start <= lb /\ lb < start + (i - 1) => t.mm.pte[lb] # NoMap
  BY DEF Loading
<1>4. /\ Sound(t1, others) /\ Kept(s, t1, others) /\ t1.mm.mmap = s.mm.mmap
      /\ t1.err = "" => s.err = ""
      /\ \A lb \in Va : s.mm.pte[lb] # NoMap => t1.mm.pte[lb] # NoMap
      /\ t1.err = "" => \A lb \in Va : start <= lb /\ lb < start + i => t1.mm.pte[lb] # NoMap
  <2>1. CASE ~Ok(t)
    <3>1. t1 = t /\ t.err # ""
      BY <2>1 DEF Ok
    <3> HIDE DEF t1
    <3> QED BY <1>3, <3>1
  <2>2. CASE Ok(t)
    <3>1. t1 = p /\ t.err = ""
      BY <2>2 DEF Ok
    <3>2. Covered(t.mm, la)
      BY <1>3, <3>1 DEF Covered, Ok
    <3> HIDE DEF t1
    <3>3. \/ PageAdded(t, la, w, others, p)
          \/ PageRefused(t, others, p)
      BY <1>3, <2>2, <3>2, PgdirAllocPage
    <3> HIDE DEF p
    <3>4. /\ Sound(p, others) /\ Kept(t, p, others) /\ p.mm.mmap = t.mm.mmap
          /\ \A lb \in Va : lb # la => p.mm.pte[lb] = t.mm.pte[lb]
          /\ t.mm.pte[la] # NoMap => p.mm.pte[la] # NoMap
          /\ p.err = "" => p.mm.pte[la] # NoMap
      BY <3>3 DEF PageAdded, PageRefused
    <3>5. Kept(s, p, others)
      BY <1>3, <3>4, KeptTwice
    <3>6. \A lb \in Va : s.mm.pte[lb] # NoMap => p.mm.pte[lb] # NoMap
      BY <1>3, <3>4
    <3>7. ASSUME Ok(p), NEW lb \in Va, start <= lb, lb < start + i
          PROVE  p.mm.pte[lb] # NoMap
      <4>1. CASE lb = la
        BY <3>4, <3>7, <4>1 DEF Ok
      <4>2. CASE lb # la
        <5>1. lb < start + (i - 1)
          BY <3>7, <4>2 DEF Va, VmmAssumption
        <5> QED BY <1>3, <3>1, <3>4, <3>7, <4>2, <5>1
      <4> QED BY <4>1, <4>2
    <3> QED BY <1>3, <3>1, <3>4, <3>5, <3>6, <3>7 DEF Ok
  <2> QED BY <2>1, <2>2
<1> HIDE DEF t1
<1>5. /\ Sound(t2, others) /\ Kept(s, t2, others) /\ t2.mm = t1.mm
      /\ t2.err = "" => t1.err = ""
  <2>1. CASE inFile /\ Ok(t1)
    <3>1. t2 = r
      BY <2>1
    <3>2. ReadDone(t1, r)
      <4>1. t1 \in Machine
        BY <1>4 DEF Sound
      <4> QED BY <4>1, IcodeRead
    <3> HIDE DEF r, t2
    <3>3. Sound(r, others) /\ Kept(t1, r, others) /\ r.mm = t1.mm /\ (r.err = "" => t1.err = "")
      BY <1>4, <3>2, ReadSound
    <3>4. Kept(s, r, others)
      BY <1>4, <3>3, KeptTwice
    <3> QED BY <3>1, <3>3, <3>4
  <2>2. CASE ~(inFile /\ Ok(t1))
    <3>1. t2 = t1
      BY <2>2
    <3> HIDE DEF t2
    <3> QED BY <1>4, <3>1
  <2> QED BY <2>1, <2>2
<1> HIDE DEF t2
<1>6. /\ Sound(e, others) /\ Kept(s, e, others) /\ e.mm = t1.mm
      /\ e.err = "" => t1.err = ""
  <2>1. CASE Ok(t2)
    <3>1. e = Write(t2, la, c)
      BY <1>1, <2>1
    <3>2. t2.mm.pte[la] # NoMap
      <4>1. t1.err = ""
        BY <1>5, <2>1 DEF Ok
      <4>2. start <= la /\ la < start + i
        BY DEF Va, VmmAssumption
      <4> QED BY <1>4, <1>5, <4>1, <4>2
    <3>3. Written(t2, la, others, e)
      BY <1>2, <1>5, <3>1, <3>2, WritePage
    <3>4. /\ Sound(e, others) /\ Kept(t2, e, others) /\ e.mm = t2.mm /\ e.err = t2.err
      BY <3>3 DEF Written
    <3>5. Kept(s, e, others)
      BY <1>5, <3>4, KeptTwice
    <3> QED BY <1>5, <3>4, <3>5
  <2>2. CASE ~Ok(t2)
    <3>1. e = t2
      BY <1>1, <2>2
    <3> QED BY <1>5, <3>1
  <2> QED BY <2>1, <2>2
<1>7. Loading(s, start, i, others, e)
  BY <1>4, <1>6 DEF Loading
<1> QED BY <1>7 DEF e

LoadPages(s, start, n, bound, w) ==
    Loop(s, n, LAMBDA t, i : LoadPage(t, start + i - 1, bound, w))

\* The page loop of load_icode.
LEMMA LoadAllPages ==
    ASSUME VmmAssumption, NEW others, NEW s, Sound(s, others), NEW start \in Nat,
           NEW length \in Nat, start + length <= NVA, NEW bound, NEW w \in BOOLEAN,
           Ok(s) => \A la \in Va : start <= la /\ la < start + length => Covered(s.mm, la)
    PROVE  Loading(s, start, length, others, LoadPages(s, start, length, bound, w))
<1> DEFINE n == length
           Turn(t, i) == LoadPage(t, start + i - 1, bound, w)
           R == {x \in Machine \X (0..n) : Loading(s, start, x[2], others, x[1])}
           next == [x \in R |-> Turn(x[1], x[2] + 1)]
           after == CHOOSE g : g = [i \in 0..n |-> IF i = 0 THEN s ELSE Turn(g[i - 1], i)]
<1>1. LoadPages(s, start, length, bound, w) = after[n]
  BY DEF LoadPages, Loop
<1>2. n \in Nat
  OBVIOUS
<1>3. <<s, 0>> \in R
  <2>1. Kept(s, s, others) /\ s \in Machine
    BY KeptSame DEF Sound
  <2>2. \A lb \in Va : ~(start <= lb /\ lb < start + 0)
    BY DEF Va, VmmAssumption
  <2>3. Loading(s, start, 0, others, s)
    BY <2>1, <2>2 DEF Loading
  <2> QED BY <1>2, <2>1, <2>3
<1>4. ASSUME NEW i \in 1..n, NEW t, <<t, i - 1>> \in R
      PROVE  <<Turn(t, i), i>> \in R
  <2>1. Loading(s, start, i - 1, others, t)
    BY <1>4
  <2>2. start + i - 1 \in Va /\ i \in Nat \ {0}
    BY <1>2 DEF Va, VmmAssumption
  <2>3. Ok(s) => Covered(s.mm, start + i - 1)
    <3>1. start <= start + i - 1 /\ start + i - 1 < start + length
      BY <1>2
    <3> QED BY <2>2, <3>1
  <2>4. Loading(s, start, i, others, Turn(t, i))
    BY <2>1, <2>2, <2>3, LoadOnePage
  <2> HIDE DEF Turn
  <2>5. Turn(t, i) \in Machine
    BY <2>4 DEF Loading, Sound
  <2> QED BY <1>2, <2>4, <2>5
<1>5. \A i \in 1..n : \A t : <<t, i - 1>> \in R => next[<<t, i - 1>>] = Turn(t, i)
  <2> SUFFICES ASSUME NEW i \in 1..n, NEW t, <<t, i - 1>> \in R
               PROVE  next[<<t, i - 1>>] = Turn(t, i)
    OBVIOUS
  <2>1. (i - 1) + 1 = i
    BY <1>2
  <2> HIDE DEF Turn, R
  <2> QED BY <2>1
<1> HIDE DEF Turn, R, next, n
<1>6. Turning(n, R, next)
  BY <1>4, <1>5 DEF Turning
<1>7. PICK g : Looped(g, n, s, next) /\ StaysIn(g, n, R)
  <2> HIDE DEF after
  <2> QED BY <1>2, <1>3, <1>6, LoopExists
<1>8. g = [i \in 0..n |-> IF i = 0 THEN s ELSE Turn(g[i - 1], i)]
  <2>1. \A i \in 0..n : i # 0 => i \in 1..n /\ i - 1 \in 0..n
    BY <1>2
  <2>2. \A i \in 0..n : i # 0 => next[<<g[i - 1], i - 1>>] = Turn(g[i - 1], i)
    BY <1>5, <1>7, <2>1 DEF StaysIn
  <2> QED BY <1>7, <2>2 DEF Looped
<1>9. after = [i \in 0..n |-> IF i = 0 THEN s ELSE Turn(after[i - 1], i)]
  BY <1>8
<1> HIDE DEF after
<1>10. <<after[n], n>> \in R
  <2>1. <<after[0], 0>> \in R
    BY <1>2, <1>3, <1>9
  <2>2. \A i \in 1..n : <<after[i - 1], i - 1>> \in R => <<after[i], i>> \in R
    BY <1>2, <1>4, <1>9
  <2> QED BY <1>2, <2>1, <2>2, LastTurn
<1> QED BY <1>1, <1>10 DEF R, n

\* The area of a segment: its header has been read and is right, and there is room.
SegmentArea(s, seg) ==
    LET Check(t) == IF seg.file > seg.end - seg.start THEN Fail(t, "E_INVAL_ELF") ELSE t
    IN  Then(Then(Then(s, load_icode_read), Check),
             LAMBDA t : mm_map(t, seg.start, seg.end, seg.flags))
AreaMade(s, vma, others, t) ==
    /\ Sound(t, others) /\ Kept(s, t, others)
    /\ t.err = "" => s.err = ""
    /\ t.mm.pte = s.mm.pte
    /\ t.err = "" => Separate(t.mm) /\ Range(t.mm.mmap) = Range(s.mm.mmap) \cup {vma}

\* load_icode checks a segment and maps its area before it loads the pages.
LEMMA MakeSegmentArea ==
    ASSUME VmmAssumption, NEW others, NEW s, Sound(s, others), Ok(s) => Separate(s.mm),
           NEW seg, seg.start \in Va, seg.end \in 0..NVA, seg.start < seg.end,
           seg.flags \in SUBSET VmFlag,
           NEW vma, vma = [start |-> seg.start, end |-> seg.end, flags |-> seg.flags]
    PROVE  AreaMade(s, vma, others, SegmentArea(s, seg))
<1> DEFINE long == seg.file > seg.end - seg.start
           a1 == IF Ok(s) THEN load_icode_read(s) ELSE s
           a2 == IF Ok(a1) /\ long THEN Fail(a1, "E_INVAL_ELF") ELSE a1
           m == mm_map(a2, seg.start, seg.end, seg.flags)
           a3 == IF Ok(a2) THEN m ELSE a2
<1>1. SegmentArea(s, seg) = a3
  <2> DEFINE Check(t) == IF long THEN Fail(t, "E_INVAL_ELF") ELSE t
  <2>1. Then(s, load_icode_read) = a1
    BY DEF Then
  <2>2. Then(a1, Check) = a2
    BY DEF Then
  <2>3. Then(a2, LAMBDA t : mm_map(t, seg.start, seg.end, seg.flags)) = a3
    BY DEF Then
  <2>4. SegmentArea(s, seg) = Then(Then(Then(s, load_icode_read), Check),
                                   LAMBDA t : mm_map(t, seg.start, seg.end, seg.flags))
    BY DEF SegmentArea
  <2> HIDE DEF a1, a2, a3, long
  <2> QED BY <2>1, <2>2, <2>3, <2>4
<1> HIDE DEF a3, long
<1>2. /\ Sound(a1, others) /\ Kept(s, a1, others) /\ a1.mm = s.mm
      /\ a1.err = "" => s.err = ""
  <2>1. CASE Ok(s)
    <3>1. a1 = load_icode_read(s)
      BY <2>1
    <3> HIDE DEF a1
    <3>2. ReadDone(s, load_icode_read(s))
      BY IcodeRead DEF Sound
    <3>3. ReadDone(s, a1)
      BY <3>1, <3>2
    <3> QED BY <3>3, ReadSound
  <2>2. CASE ~Ok(s)
    <3>1. a1 = s
      BY <2>2
    <3> HIDE DEF a1
    <3> QED BY <3>1, KeptSame
  <2> QED BY <2>1, <2>2
<1> HIDE DEF a1
<1>3. /\ Sound(a2, others) /\ Kept(s, a2, others) /\ a2.mm = s.mm
      /\ a2.err = "" => s.err = ""
  <2>1. CASE Ok(a1) /\ long
    <3>1. a2 = Fail(a1, "E_INVAL_ELF")
      BY <2>1
    <3> HIDE DEF a2
    <3>2. /\ Alike(a1, Fail(a1, "E_INVAL_ELF")) /\ Fail(a1, "E_INVAL_ELF").tlb = a1.tlb
          /\ Fail(a1, "E_INVAL_ELF").err = "E_INVAL_ELF"
      BY <1>2, FailFields DEF Error, Sound
    <3>3. Alike(a1, a2) /\ a2.tlb = a1.tlb /\ a2.err # ""
      BY <3>1, <3>2
    <3>4. Sound(a2, others) /\ Kept(a1, a2, others)
      BY <1>2, <3>3, AlikeSound
    <3>5. Kept(s, a2, others)
      BY <1>2, <3>4, KeptTwice
    <3> QED BY <1>2, <3>3, <3>4, <3>5 DEF Alike
  <2>2. CASE ~(Ok(a1) /\ long)
    <3>1. a2 = a1
      BY <2>2
    <3> HIDE DEF a2
    <3> QED BY <1>2, <3>1
  <2> QED BY <2>1, <2>2
<1> HIDE DEF a2
<1>4. CASE Ok(a2)
  <2>1. a3 = m
    BY <1>4 DEF a3
  <2>2. Separate(a2.mm)
    BY <1>3, <1>4 DEF Ok
  <2>3. \/ AreaMapped(a2, vma, others, m)
        \/ AreaRefused(a2, vma, m)
    BY <1>3, <1>4, <2>2, MMMap
  <2> HIDE DEF m
  <2>4. CASE AreaMapped(a2, vma, others, m)
    <3>1. /\ Sound(m, others) /\ Kept(a2, m, others) /\ m.err = a2.err /\ m.mm.pte = a2.mm.pte
          /\ Range(m.mm.mmap) = Range(a2.mm.mmap) \cup {vma} /\ Separate(m.mm)
      BY <2>4 DEF AreaMapped
    <3>2. Kept(s, m, others)
      BY <1>3, <3>1, KeptTwice
    <3>3. AreaMade(s, vma, others, a3)
      BY <1>3, <2>1, <3>1, <3>2 DEF AreaMade
    <3> QED BY <1>1, <3>3
  <2>5. CASE AreaRefused(a2, vma, m)
    <3>1. Alike(a2, m) /\ m.tlb = a2.tlb /\ m.err # "" /\ m.mm = a2.mm
      BY <2>5 DEF AreaRefused, Alike
    <3>2. Sound(m, others) /\ Kept(a2, m, others)
      BY <1>3, <3>1, AlikeSound
    <3>3. Kept(s, m, others)
      BY <1>3, <3>2, KeptTwice
    <3>4. AreaMade(s, vma, others, a3)
      BY <1>3, <2>1, <3>1, <3>2, <3>3 DEF AreaMade
    <3> QED BY <1>1, <3>4
  <2> QED BY <2>3, <2>4, <2>5
<1>5. CASE ~Ok(a2)
  <2>1. a3 = a2 /\ a2.err # ""
    BY <1>5 DEF a3, Ok
  <2>2. AreaMade(s, vma, others, a3)
    BY <1>3, <2>1 DEF AreaMade
  <2> QED BY <1>1, <2>2
<1> QED BY <1>4, <1>5

\* load_segment: the area has all its pages.
SegmentLoaded(s, others, t) ==
    /\ Sound(t, others) /\ Kept(s, t, others)
    /\ t.err = "" => s.err = "" /\ Separate(t.mm) /\ Filled(t.mm)

\* A segment of load_icode: its area has all its pages afterwards, or it failed.
LEMMA LoadSegment ==
    ASSUME VmmAssumption, NEW others, NEW s, Sound(s, others),
           Ok(s) => Separate(s.mm) /\ Filled(s.mm),
           NEW seg, seg.start \in Nat, seg.end \in 0..NVA, seg.start < seg.end,
           seg.flags \in SUBSET SegmentFlag, NEW w \in BOOLEAN
    PROVE  SegmentLoaded(s, others, load_segment(s, seg, w))
<1> DEFINE a == SegmentArea(s, seg)
           vma == [start |-> seg.start, end |-> seg.end, flags |-> seg.flags]
           n == seg.end - seg.start
           t == LoadPages(a, seg.start, n, seg.start + seg.file, w)
<1>1. load_segment(s, seg, w) = t
  BY DEF load_segment, SegmentArea, LoadPages, LoadPage
<1>2. /\ seg.start \in Va /\ n \in Nat /\ seg.start + n = seg.end /\ seg.start + n <= NVA
  BY DEF Va, VmmAssumption
<1>3. /\ vma.start = seg.start /\ vma.end = seg.start + n /\ "STACK" \notin vma.flags
  BY <1>2 DEF SegmentFlag
<1>4. AreaMade(s, vma, others, a)
  <2>1. seg.flags \in SUBSET VmFlag
    BY DEF VmFlag
  <2> QED BY <1>2, <2>1, MakeSegmentArea
<1> HIDE DEF a, vma, n
<1>5. /\ Sound(a, others) /\ Kept(s, a, others) /\ a.mm.pte = s.mm.pte
      /\ a.err = "" => /\ s.err = "" /\ Separate(a.mm)
                       /\ Range(a.mm.mmap) = Range(s.mm.mmap) \cup {vma}
  BY <1>4 DEF AreaMade
<1>6. Ok(a) => \A la \in Va : seg.start <= la /\ la < seg.start + n => Covered(a.mm, la)
  <2> SUFFICES ASSUME Ok(a), NEW la \in Va, seg.start <= la, la < seg.start + n
               PROVE  Covered(a.mm, la)
    OBVIOUS
  <2>1. Holds(vma, la)
    BY <1>3 DEF Holds
  <2>2. vma \in Range(a.mm.mmap)
    BY <1>5 DEF Ok
  <2> QED BY <2>1, <2>2, CoveredRange
<1>7. Loading(a, seg.start, n, others, t)
  BY <1>2, <1>5, <1>6, LoadAllPages
<1> HIDE DEF t
<1>8. /\ Sound(t, others) /\ Kept(a, t, others) /\ t.mm.mmap = a.mm.mmap
      /\ t.err = "" => a.err = ""
      /\ \A lb \in Va : a.mm.pte[lb] # NoMap => t.mm.pte[lb] # NoMap
      /\ t.err = "" => \A lb \in Va : seg.start <= lb /\ lb < seg.start + n => t.mm.pte[lb] # NoMap
  BY <1>7 DEF Loading
<1>9. Kept(s, t, others)
  BY <1>5, <1>8, KeptTwice
<1>10. ASSUME Ok(t) PROVE Separate(t.mm) /\ Filled(t.mm)
  <2>1. a.err = "" /\ s.err = ""
    BY <1>5, <1>8, <1>10 DEF Ok
  <2>2. Separate(t.mm)
    BY <1>5, <1>8, <2>1 DEF Separate
  <2>3. Filled(s.mm)
    BY <2>1 DEF Ok
  <2>4. Range(t.mm.mmap) = Range(s.mm.mmap) \cup {vma}
    BY <1>5, <1>8, <2>1
  <2>5. ASSUME NEW b \in Range(t.mm.mmap)
        PROVE  IF "STACK" \in b.flags THEN b.start = NVA - USTACKPAGE /\ b.end = NVA
               ELSE \A la \in Va : Holds(b, la) => t.mm.pte[la] # NoMap
    <3>1. CASE b \in Range(s.mm.mmap)
      <4>1. IF "STACK" \in b.flags THEN b.start = NVA - USTACKPAGE /\ b.end = NVA
            ELSE \A la \in Va : Holds(b, la) => s.mm.pte[la] # NoMap
        BY <2>3, <3>1 DEF Filled
      <4>2. \A la \in Va : s.mm.pte[la] # NoMap => t.mm.pte[la] # NoMap
        BY <1>5, <1>8
      <4> QED BY <4>1, <4>2
    <3>2. CASE b = vma
      <4>1. ASSUME NEW la \in Va, Holds(b, la) PROVE t.mm.pte[la] # NoMap
        <5>1. seg.start <= la /\ la < seg.start + n
          BY <1>3, <3>2, <4>1 DEF Holds
        <5> QED BY <1>8, <1>10, <5>1 DEF Ok
      <4>2. "STACK" \notin b.flags
        BY <1>3, <3>2
      <4> QED BY <4>1, <4>2
    <3> QED BY <2>4, <3>1, <3>2
  <2>6. Filled(t.mm)
    BY <2>5 DEF Filled
  <2> QED BY <2>2, <2>6
<1>11. SegmentLoaded(s, others, t)
  BY <1>5, <1>8, <1>9, <1>10 DEF SegmentLoaded, Ok
<1> QED BY <1>1, <1>11

\* The segments of a program.
Segments(prog) ==
    /\ prog \in Seq(Segment)
    /\ \A i \in DOMAIN prog : prog[i].start < prog[i].end

\* The segments of a program.
LEMMA ProgramSegments ==
    ASSUME VmmAssumption, NEW prog \in Program
    PROVE  Segments(prog)
BY DEF VmmAssumption, Segments

\* The fields of each segment.
LEMMA OneSegment ==
    ASSUME NEW prog, Segments(prog)
    PROVE  /\ Len(prog) \in Nat
           /\ \A i \in 1..Len(prog) :
                 /\ prog[i].start \in Nat /\ prog[i].end \in 0..NVA
                 /\ prog[i].start < prog[i].end /\ prog[i].flags \in SUBSET SegmentFlag
<1>1. prog \in Seq(Segment)
  BY DEF Segments
<1>2. Len(prog) \in Nat /\ DOMAIN prog = 1..Len(prog)
  BY <1>1, LenProperties
<1>3. ASSUME NEW i \in 1..Len(prog)
      PROVE  /\ prog[i].start \in Nat /\ prog[i].end \in 0..NVA
             /\ prog[i].start < prog[i].end /\ prog[i].flags \in SUBSET SegmentFlag
  <2>1. prog[i] \in Segment
    BY <1>1, <1>2, ElementOfSeq
  <2>2. prog[i].start < prog[i].end
    BY <1>2 DEF Segments
  <2> QED BY <2>1, <2>2 DEF Segment
<1> QED BY <1>2, <1>3

LoadTurn(t, prog, i) == load_segment(t, prog[i], \E j \in 1..i : "WRITE" \in prog[j].flags)

\* One segment after the others.
LEMMA LoadNext ==
    ASSUME VmmAssumption, NEW others, NEW s, NEW prog, Segments(prog),
           NEW i \in 1..Len(prog), NEW t, SegmentLoaded(s, others, t)
    PROVE  SegmentLoaded(s, others, LoadTurn(t, prog, i))
<1> DEFINE w == \E j \in 1..i : "WRITE" \in prog[j].flags
           u == load_segment(t, prog[i], w)
<1>1. /\ Sound(t, others) /\ Kept(s, t, others)
      /\ t.err = "" => s.err = "" /\ Separate(t.mm) /\ Filled(t.mm)
  BY DEF SegmentLoaded
<1>2. /\ prog[i].start \in Nat /\ prog[i].end \in 0..NVA
      /\ prog[i].start < prog[i].end /\ prog[i].flags \in SUBSET SegmentFlag
  BY OneSegment
<1>3. w \in BOOLEAN
  OBVIOUS
<1> HIDE DEF w
<1>4. Ok(t) => Separate(t.mm) /\ Filled(t.mm)
  BY <1>1 DEF Ok
<1>5. SegmentLoaded(t, others, u)
  BY <1>1, <1>2, <1>3, <1>4, LoadSegment
<1> HIDE DEF u
<1>6. /\ Sound(u, others) /\ Kept(t, u, others)
      /\ u.err = "" => t.err = "" /\ Separate(u.mm) /\ Filled(u.mm)
  BY <1>5 DEF SegmentLoaded
<1>7. Kept(s, u, others)
  BY <1>1, <1>6, KeptTwice
<1>8. SegmentLoaded(s, others, u)
  BY <1>1, <1>6, <1>7 DEF SegmentLoaded
<1> QED BY <1>8 DEF LoadTurn, u, w

LoadSegments(s, prog) == Loop(s, Len(prog), LAMBDA t, i : LoadTurn(t, prog, i))

\* The segment loop of load_icode.
LEMMA LoadAllSegments ==
    ASSUME VmmAssumption, NEW others, NEW s, Sound(s, others),
           Ok(s) => Separate(s.mm) /\ Filled(s.mm), NEW prog, Segments(prog)
    PROVE  SegmentLoaded(s, others, LoadSegments(s, prog))
<1> DEFINE n == Len(prog)
           Turn(t, i) == LoadTurn(t, prog, i)
           R == {x \in Machine \X (0..n) : SegmentLoaded(s, others, x[1])}
           next == [x \in R |-> Turn(x[1], x[2] + 1)]
           after == CHOOSE g : g = [i \in 0..n |-> IF i = 0 THEN s ELSE Turn(g[i - 1], i)]
<1>1. LoadSegments(s, prog) = after[n]
  BY DEF LoadSegments, Loop
<1>2. n \in Nat
  BY OneSegment
<1>3. <<s, 0>> \in R
  <2>1. Kept(s, s, others) /\ s \in Machine
    BY KeptSame DEF Sound
  <2>2. SegmentLoaded(s, others, s)
    BY <2>1 DEF SegmentLoaded, Ok
  <2> QED BY <1>2, <2>1, <2>2
<1>4. ASSUME NEW i \in 1..n, NEW t, <<t, i - 1>> \in R
      PROVE  <<Turn(t, i), i>> \in R
  <2>1. SegmentLoaded(s, others, t)
    BY <1>4
  <2>2. SegmentLoaded(s, others, Turn(t, i))
    BY <2>1, LoadNext
  <2> HIDE DEF Turn
  <2>3. Turn(t, i) \in Machine
    BY <2>2 DEF SegmentLoaded, Sound
  <2> QED BY <1>2, <2>2, <2>3
<1>5. \A i \in 1..n : \A t : <<t, i - 1>> \in R => next[<<t, i - 1>>] = Turn(t, i)
  <2> SUFFICES ASSUME NEW i \in 1..n, NEW t, <<t, i - 1>> \in R
               PROVE  next[<<t, i - 1>>] = Turn(t, i)
    OBVIOUS
  <2>1. (i - 1) + 1 = i
    BY <1>2
  <2> HIDE DEF Turn, R
  <2> QED BY <2>1
<1> HIDE DEF Turn, R, next, n
<1>6. Turning(n, R, next)
  BY <1>4, <1>5 DEF Turning
<1>7. PICK g : Looped(g, n, s, next) /\ StaysIn(g, n, R)
  <2> HIDE DEF after
  <2> QED BY <1>2, <1>3, <1>6, LoopExists
<1>8. g = [i \in 0..n |-> IF i = 0 THEN s ELSE Turn(g[i - 1], i)]
  <2>1. \A i \in 0..n : i # 0 => i \in 1..n /\ i - 1 \in 0..n
    BY <1>2
  <2>2. \A i \in 0..n : i # 0 => next[<<g[i - 1], i - 1>>] = Turn(g[i - 1], i)
    BY <1>5, <1>7, <2>1 DEF StaysIn
  <2> QED BY <1>7, <2>2 DEF Looped
<1>9. after = [i \in 0..n |-> IF i = 0 THEN s ELSE Turn(after[i - 1], i)]
  BY <1>8
<1> HIDE DEF after
<1>10. <<after[n], n>> \in R
  <2>1. <<after[0], 0>> \in R
    BY <1>2, <1>3, <1>9
  <2>2. \A i \in 1..n : <<after[i - 1], i - 1>> \in R => <<after[i], i>> \in R
    BY <1>2, <1>4, <1>9
  <2> QED BY <1>2, <2>1, <2>2, LastTurn
<1> QED BY <1>1, <1>10 DEF R, n


\* The stack, an area without pages.
MakeStack(s) == Then(s, LAMBDA t : mm_map(t, NVA - USTACKPAGE, NVA, {"READ", "WRITE", "STACK"}))

\* load_icode's stack area and the pages of it that are allocated at once.
LEMMA StackMade ==
    ASSUME VmmAssumption, NEW others, NEW s, Sound(s, others),
           Ok(s) => Separate(s.mm) /\ Filled(s.mm)
    PROVE  SegmentLoaded(s, others, MakeStack(s))
<1> DEFINE start == NVA - USTACKPAGE
           flags == {"READ", "WRITE", "STACK"}
           vma == [start |-> start, end |-> NVA, flags |-> flags]
           m == mm_map(s, start, NVA, flags)
           t == MakeStack(s)
<1>1. t = IF Ok(s) THEN m ELSE s
  BY DEF MakeStack, Then
<1>2. start \in Va /\ start < NVA /\ NVA \in 0..NVA
  BY DEF VmmAssumption, Va
<1>3. vma.start = start /\ vma.end = NVA /\ "STACK" \in vma.flags
  OBVIOUS
<1>6. flags \in SUBSET VmFlag
  BY DEF VmFlag, SegmentFlag
<1> HIDE DEF t
<1>4. CASE Ok(s)
  <2>1. t = m
    BY <1>1, <1>4
  <2> HIDE DEF start, flags
  <2>2. \/ AreaMapped(s, vma, others, m)
        \/ AreaRefused(s, vma, m)
    BY <1>2, <1>4, <1>6, MMMap
  <2> HIDE DEF m, vma
  <2>3. CASE AreaMapped(s, vma, others, m)
    <3>1. /\ Sound(m, others) /\ Kept(s, m, others) /\ m.err = s.err /\ m.mm.pte = s.mm.pte
          /\ Range(m.mm.mmap) = Range(s.mm.mmap) \cup {vma} /\ Separate(m.mm)
      BY <2>3 DEF AreaMapped
    <3>2. Filled(s.mm)
      BY <1>4
    <3>3. Filled(m.mm)
      <4>1. ASSUME NEW b \in Range(m.mm.mmap)
            PROVE  IF "STACK" \in b.flags THEN b.start = NVA - USTACKPAGE /\ b.end = NVA
                   ELSE \A la \in Va : Holds(b, la) => m.mm.pte[la] # NoMap
        <5>1. CASE b \in Range(s.mm.mmap)
          <6>1. IF "STACK" \in b.flags THEN b.start = NVA - USTACKPAGE /\ b.end = NVA
                ELSE \A la \in Va : Holds(b, la) => s.mm.pte[la] # NoMap
            BY <3>2, <5>1 DEF Filled
          <6> QED BY <3>1, <6>1
        <5>2. CASE b = vma
          BY <1>3, <5>2 DEF start
        <5> QED BY <3>1, <5>1, <5>2
      <4> QED BY <4>1 DEF Filled
    <3>4. SegmentLoaded(s, others, m)
      BY <3>1, <3>3 DEF SegmentLoaded
    <3> QED BY <2>1, <3>4 DEF t
  <2>4. CASE AreaRefused(s, vma, m)
    <3>1. Alike(s, m) /\ m.tlb = s.tlb /\ m.err # ""
      BY <2>4 DEF AreaRefused
    <3>2. Sound(m, others) /\ Kept(s, m, others)
      BY <3>1, AlikeSound
    <3>3. SegmentLoaded(s, others, m)
      BY <3>1, <3>2 DEF SegmentLoaded
    <3> QED BY <2>1, <3>3 DEF t
  <2> QED BY <2>2, <2>3, <2>4
<1>5. CASE ~Ok(s)
  <2>1. t = s /\ s.err # ""
    BY <1>1, <1>5 DEF Ok
  <2>2. SegmentLoaded(s, others, s)
    BY <2>1, KeptSame DEF SegmentLoaded
  <2> QED BY <2>1, <2>2 DEF t
<1> QED BY <1>4, <1>5

\* load_icode: a new address space, or nothing is left of it.
IcodeLoaded(s, others, t) ==
    /\ Sound(t, others) /\ Safe(s, t, others) /\ Balanced(s, t)
    /\ t.err = "" => Separate(t.mm) /\ Filled(t.mm) /\ t.mm.pgdir # None
    /\ t.err \notin {"", "unhandled pgfault"} => t.mm = NoMM

\* A store of the kernel to a new address space.
LEMMA TouchLoaded ==
    ASSUME VmmAssumption, NEW others, NEW s, Sound(s, others), NEW la \in Va,
           s.err = "" \/ s.err = "unhandled pgfault",
           s.err = "" => Separate(s.mm) /\ Filled(s.mm) /\ s.mm.pgdir # None,
           NEW t, t = Then(s, LAMBDA u : kernel_touch(u, la, TRUE))
    PROVE  /\ Sound(t, others) /\ Safe(s, t, others) /\ Balanced(s, t)
           /\ t.err = "" \/ t.err = "unhandled pgfault"
           /\ t.err = "" => Separate(t.mm) /\ Filled(t.mm) /\ t.mm.pgdir # None
<1>1. t = IF Ok(s) THEN kernel_touch(s, la, TRUE) ELSE s
  BY DEF Then
<1>2. CASE Ok(s)
  <2>1. s.err = ""
    BY <1>2 DEF Ok
  <2>2. Touched(s, others, kernel_touch(s, la, TRUE))
    BY <1>2, KernelTouch
  <2>3. Touched(s, others, t)
    BY <1>1, <1>2, <2>2
  <2>4. /\ Sound(t, others) /\ Safe(s, t, others) /\ Balanced(s, t)
        /\ t.mm.pgdir = s.mm.pgdir /\ t.mm.mmap = s.mm.mmap
        /\ \A lb \in Va : s.mm.pte[lb] # NoMap => t.mm.pte[lb] # NoMap
        /\ t.err = "" \/ t.err = "unhandled pgfault"
    BY <2>3 DEF Touched
  <2>5. Separate(t.mm)
    BY <2>1, <2>4 DEF Separate
  <2>6. Filled(t.mm)
    BY <2>1, <2>4 DEF Filled
  <2> QED BY <2>1, <2>4, <2>5, <2>6
<1>3. CASE ~Ok(s)
  <2>1. t = s /\ s.err # ""
    BY <1>1, <1>3 DEF Ok
  <2>2. Balanced(s, s)
    BY DEF Balanced
  <2>3. Safe(s, s, others)
    BY DEF Safe
  <2> QED BY <2>1, <2>2, <2>3
<1> QED BY <1>2, <1>3

\* load_icode makes a whole address space, or frees all that it had made of one.
LEMMA LoadIcode ==
    ASSUME VmmAssumption, NEW others, NEW s, Sound(s, others), Ok(s), s.mm = NoMM,
           NEW prog, Segments(prog)
    PROVE  IcodeLoaded(s, others, load_icode(s, prog))
<1> DEFINE s1 == kmalloc(s, "mm")
           s2 == setup_pgdir(s1)
           s3 == Then(s2, load_icode_read)
           s4 == LoadSegments(s3, prog)
           s5 == MakeStack(s4)
           s6 == Then(s5, LAMBDA t : kernel_touch(t, NVA - 1, TRUE))
           s7 == Then(s6, LAMBDA t : kernel_touch(t, NVA - 2, TRUE))
           t == load_icode(s, prog)
<1>1. t = CASE ~Ok(s1) -> s1
            [] Ok(s1) /\ ~Ok(s2) -> mm_destroy(s2)
            [] Ok(s1) /\ Ok(s2) /\ ~Ok(s5) -> free_mm(s5)
            [] OTHER -> Then(kernel_touch(s5, NVA - 1, TRUE), LAMBDA u : kernel_touch(u, NVA - 2, TRUE))
  BY DEF load_icode, LoadSegments, LoadTurn, MakeStack
<1>2. Then(s5, LAMBDA u : kernel_touch(u, NVA - 1, TRUE)) =
         IF Ok(s5) THEN kernel_touch(s5, NVA - 1, TRUE) ELSE s5
  BY DEF Then
<1> HIDE DEF s5
<1>3. Ok(s1) /\ Ok(s2) /\ Ok(s5) => t = s7
  <2> SUFFICES ASSUME Ok(s1), Ok(s2), Ok(s5) PROVE t = s7
    OBVIOUS
  <2>1. t = Then(kernel_touch(s5, NVA - 1, TRUE), LAMBDA u : kernel_touch(u, NVA - 2, TRUE))
    BY <1>1
  <2>2. kernel_touch(s5, NVA - 1, TRUE) = s6
    BY <1>2
  <2> HIDE DEF s6
  <2> QED BY <2>1, <2>2
<1>4. NVA - 1 \in Va /\ NVA - 2 \in Va
  BY DEF VmmAssumption, Va
<1> HIDE DEF t, s7
<1>5. \/ ~Ok(s1) /\ NoMMMade(s, others, s1)
      \/ Ok(s1) /\ ~Ok(s2) /\ NoMMMade(s, others, mm_destroy(s2))
      \/ Ok(s1) /\ Ok(s2) /\ MMMade(s, others, s2)
  BY MakeMM
<1> HIDE DEF s1, s2
<1>6. ASSUME NoMMMade(s, others, t) PROVE IcodeLoaded(s, others, t)
  <2>1. /\ Sound(t, others) /\ Left(s, t, others) /\ Balanced(s, t) /\ t.err = "E_NO_MEM"
        /\ t.mm = NoMM
    BY <1>6 DEF NoMMMade
  <2>2. Safe(s, t, others)
    BY <2>1, LeftSafe
  <2> QED BY <2>1, <2>2 DEF IcodeLoaded
<1>7. CASE ~Ok(s1) /\ NoMMMade(s, others, s1)
  BY <1>1, <1>6, <1>7 DEF t
<1>8. CASE Ok(s1) /\ ~Ok(s2) /\ NoMMMade(s, others, mm_destroy(s2))
  <2>1. t = mm_destroy(s2)
    BY <1>1, <1>8
  <2>2. IcodeLoaded(s, others, t)
    BY <1>6, <1>8, <2>1
  <2> QED BY <2>2 DEF t
<1>9. CASE Ok(s1) /\ Ok(s2) /\ MMMade(s, others, s2)
  <2>1. /\ Sound(s2, others) /\ Left(s, s2, others) /\ Balanced(s, s2) /\ s2.err = ""
        /\ s2.mm.pgdir # None /\ s2.mm.mmap = << >>
    BY <1>9 DEF MMMade, Ok
  <2>2. s3 = load_icode_read(s2)
    BY <1>9 DEF Then
  <2>3. ReadDone(s2, load_icode_read(s2))
    BY <2>1, IcodeRead DEF Sound
  <2> HIDE DEF s3
  <2>4. ReadDone(s2, s3)
    BY <2>2, <2>3
  <2>5. Sound(s3, others) /\ Kept(s2, s3, others) /\ s3.mm = s2.mm
    BY <2>1, <2>4, ReadSound
  <2>6. Separate(s3.mm) /\ Filled(s3.mm)
    <3>1. s3.mm.mmap = << >>
      BY <2>1, <2>5
    <3> QED BY <3>1, NoAreas
  <2>7. SegmentLoaded(s3, others, s4)
    BY <2>5, <2>6, LoadAllSegments
  <2> HIDE DEF s4
  <2>8. /\ Sound(s4, others) /\ Kept(s3, s4, others)
        /\ Ok(s4) => Separate(s4.mm) /\ Filled(s4.mm)
    BY <2>7 DEF SegmentLoaded, Ok
  <2>9. SegmentLoaded(s4, others, MakeStack(s4))
    BY <2>8, StackMade
  <2>10. /\ Sound(s5, others) /\ Kept(s4, s5, others)
         /\ s5.err = "" => Separate(s5.mm) /\ Filled(s5.mm)
    BY <2>9 DEF SegmentLoaded, s5
  <2>11. Kept(s2, s5, others)
    <3>1. Kept(s2, s4, others)
      BY <2>5, <2>8, KeptTwice
    <3> QED BY <2>10, <3>1, KeptTwice
  <2>12. Left(s, s5, others) /\ Balanced(s, s5) /\ s5.mm.pgdir # None
    <3>1. Left(s2, s5, others) /\ Balanced(s2, s5)
      <4>1. s2 \in Machine /\ s5 \in Machine
        BY <2>1, <2>10 DEF Sound
      <4> QED BY <2>11, <4>1, KeptLeft
    <3>2. Left(s, s5, others)
      BY <2>1, <3>1, LeftTwice
    <3>3. Balanced(s, s5)
      <4>1. s \in Machine /\ s2 \in Machine /\ s5 \in Machine
        BY <2>1, <2>10 DEF Sound
      <4> QED BY <2>1, <3>1, <4>1, BalancedTwice
    <3> QED BY <2>1, <2>11, <3>2, <3>3 DEF Kept
  <2>13. CASE ~Ok(s5)
    <3>1. t = free_mm(s5) /\ s5.err # ""
      BY <1>1, <1>9, <2>13 DEF Ok
    <3>2. MMFreed(s5, others, free_mm(s5))
      BY <2>10, <2>12, FreeMM
    <3>3. /\ Sound(t, others) /\ Left(s5, t, others) /\ Balanced(s5, t)
          /\ t.err = s5.err /\ t.mm = NoMM
      BY <3>1, <3>2 DEF MMFreed
    <3>4. Left(s, t, others)
      BY <2>12, <3>3, LeftTwice
    <3>5. Safe(s, t, others)
      BY <3>4, LeftSafe
    <3>6. Balanced(s, t)
      <4>1. s \in Machine /\ t \in Machine /\ s5 \in Machine
        BY <2>10, <3>3 DEF Sound
      <4> QED BY <2>12, <3>3, <4>1, BalancedTwice
    <3>7. IcodeLoaded(s, others, t)
      BY <3>1, <3>3, <3>5, <3>6 DEF IcodeLoaded
    <3> QED BY <3>7 DEF t
  <2>14. CASE Ok(s5)
    <3>1. t = s7 /\ s5.err = ""
      BY <1>3, <1>9, <2>14 DEF Ok
    <3>2. Safe(s, s5, others)
      BY <2>12, LeftSafe
    <3>3. /\ Sound(s6, others) /\ Safe(s5, s6, others) /\ Balanced(s5, s6)
          /\ s6.err = "" \/ s6.err = "unhandled pgfault"
          /\ s6.err = "" => Separate(s6.mm) /\ Filled(s6.mm) /\ s6.mm.pgdir # None
      BY <1>4, <2>10, <2>12, <3>1, TouchLoaded
    <3> HIDE DEF s6
    <3>4. /\ Sound(s7, others) /\ Safe(s6, s7, others) /\ Balanced(s6, s7)
          /\ s7.err = "" \/ s7.err = "unhandled pgfault"
          /\ s7.err = "" => Separate(s7.mm) /\ Filled(s7.mm) /\ s7.mm.pgdir # None
      BY <1>4, <3>3, TouchLoaded DEF s7
    <3>5. Safe(s, t, others)
      <4>1. Safe(s, s6, others)
        BY <3>2, <3>3, SafeTwice
      <4> QED BY <3>1, <3>4, <4>1, SafeTwice
    <3>6. Balanced(s, t)
      <4>1. Balanced(s, s6)
        BY <2>12, <3>3, BalancedTwice
      <4> QED BY <3>1, <3>4, <4>1, BalancedTwice
    <3>7. IcodeLoaded(s, others, t)
      BY <3>1, <3>4, <3>5, <3>6 DEF IcodeLoaded
    <3> QED BY <3>7 DEF t
  <2> QED BY <2>13, <2>14
<1> QED BY <1>5, <1>7, <1>8, <1>9

-----------------------------------------------------------------------------
(* All processes.                                                          *)

State == {"none", "live", "zombie"}
Process == [state : State, kstack : Frames, mm : MM]
Memory == [free : Frames, ref : Refs, page : Pages, kmem : Objects, tlb : Tlb, index : Slot]

\* The frames of a process, and those of all but one.
Held(x) == x.kstack \cup Parts(x.mm)
Rest(procs, p) == UNION {Held(procs[q]) : q \in Proc \ {p}}

\* A process by itself.
Whole(x) ==
    /\ x \in Process
    /\ x.state = "none" => x.kstack = {}
    /\ x.state # "live" => x.mm = NoMM
    /\ x.mm.pgdir = None => x.mm = NoMM
    /\ x.kstack \cap Parts(x.mm) = {}
    /\ Apart(x.mm) /\ Placed(x.mm) /\ Separate(x.mm) /\ Filled(x.mm)

\* The objects of a process, and of all of them.
Uses(x, k) ==
    CASE k = "proc" -> IF x.state = "none" THEN 0 ELSE 1
      [] k = "fs" -> IF x.state = "live" THEN 1 ELSE 0
      [] OTHER -> Needs(x.mm, k)
Users(procs, k) == {p \in Proc : Uses(procs[p], k) # 0}
AreasOf(procs, S) == UNION {{p} \X DOMAIN procs[p].mm.mmap : p \in S}
Total(procs, k) ==
    IF k = "vma" THEN Cardinality(AreasOf(procs, Proc)) ELSE Cardinality(Users(procs, k))

\* Each frame is free or has one owner, and each object belongs to a process.
Exact(m, procs) ==
    /\ m \in Memory
    /\ procs \in [Proc -> Process]
    /\ \A p \in Proc : Whole(procs[p])
    /\ \A p \in Proc : m.free \cap Held(procs[p]) = {}
    /\ \A p, q \in Proc : p # q => Held(procs[p]) \cap Held(procs[q]) = {}
    /\ Frame = m.free \cup UNION {Held(procs[p]) : p \in Proc}
    /\ \A f \in m.free : m.ref[f] = 0
    /\ \A p \in Proc : \A la \in Va :
          procs[p].mm.pte[la] # NoMap => m.ref[procs[p].mm.pte[la].frame] = 1
    /\ \A k \in Kind : m.kmem[k] = Total(procs, k)

\* The counts of two sets that differ in one element.
LEMMA CountOne ==
    ASSUME NEW S, IsFiniteSet(S), NEW T, IsFiniteSet(T), NEW p, S \ {p} = T \ {p}
    PROVE  /\ Cardinality(S) \in Nat /\ Cardinality(T) \in Nat
           /\ Cardinality(T) - (IF p \in T THEN 1 ELSE 0) = Cardinality(S) - (IF p \in S THEN 1 ELSE 0)
<1> DEFINE c == Cardinality(S \ {p})
           a == Cardinality(S)
           b == Cardinality(T)
<1>1. a \in Nat /\ b \in Nat
  BY FS_CardinalityType
<1>2. c = IF p \in S THEN a - 1 ELSE a
  BY FS_RemoveElement
<1>3. Cardinality(T \ {p}) = IF p \in T THEN b - 1 ELSE b
  BY FS_RemoveElement
<1>4. c = IF p \in T THEN b - 1 ELSE b
  BY <1>3
<1> HIDE DEF a, b, c
<1>5. b - (IF p \in T THEN 1 ELSE 0) = a - (IF p \in S THEN 1 ELSE 0)
  BY <1>1, <1>2, <1>4
<1> QED BY <1>1, <1>5 DEF a, b

\* The areas of one process among all.
LEMMA AreasSplit ==
    ASSUME IsFiniteSet(Proc), NEW procs \in [Proc -> Process], NEW p \in Proc
    PROVE  /\ Cardinality(AreasOf(procs, Proc)) =
                 Cardinality(AreasOf(procs, Proc \ {p})) + Len(procs[p].mm.mmap)
           /\ Cardinality(AreasOf(procs, Proc \ {p})) \in Nat
           /\ Len(procs[p].mm.mmap) \in Nat
<1> DEFINE Dom(q) == DOMAIN procs[q].mm.mmap
           mine == {p} \X Dom(p)
           rest == AreasOf(procs, Proc \ {p})
           n == Len(procs[p].mm.mmap)
<1>1. \A q \in Proc : /\ Len(procs[q].mm.mmap) \in Nat
                      /\ Dom(q) = 1..Len(procs[q].mm.mmap)
  <2> TAKE q \in Proc
  <2>1. procs[q].mm.mmap \in Seq(Area)
    BY MMFields DEF Process
  <2> QED BY <2>1, LenProperties
<1>2. \A q \in Proc : IsFiniteSet({q} \X Dom(q))
  <2> TAKE q \in Proc
  <2>1. IsFiniteSet(1..Len(procs[q].mm.mmap))
    BY <1>1, FS_Interval
  <2>2. IsFiniteSet(Dom(q))
    BY <1>1, <2>1
  <2>3. IsFiniteSet({q})
    BY FS_Singleton
  <2> QED BY <2>2, <2>3, FS_Product
<1>3. IsFiniteSet(rest)
  <2> DEFINE F == {{q} \X Dom(q) : q \in Proc \ {p}}
  <2>1. IsFiniteSet(Proc \ {p})
    BY FS_RemoveElement
  <2>2. IsFiniteSet(F)
    <3> DEFINE f == [q \in Proc \ {p} |-> {q} \X Dom(q)]
    <3>1. f \in Surjection(Proc \ {p}, F)
      BY DEF Surjection
    <3> QED BY <2>1, <3>1, FS_Surjection
  <2>3. \A T \in F : IsFiniteSet(T)
    BY <1>2
  <2> HIDE DEF F
  <2>4. IsFiniteSet(UNION F)
    BY <2>2, <2>3, FS_UNION
  <2> QED BY <2>4 DEF F, AreasOf
<1>4. AreasOf(procs, Proc) = rest \cup mine
  BY DEF AreasOf
<1>5. rest \cap mine = {}
  BY DEF AreasOf
<1>6. Cardinality(mine) = n
  <2>1. n \in Nat /\ Dom(p) = 1..n
    BY <1>1
  <2> HIDE DEF n
  <2>2. Cardinality(1..n) = n /\ IsFiniteSet(1..n)
    <3>1. Cardinality(1..n) = IF 1 > n THEN 0 ELSE n - 1 + 1
      BY <2>1, FS_Interval
    <3>2. IsFiniteSet(1..n)
      BY <2>1, FS_Interval
    <3> QED BY <2>1, <3>1, <3>2
  <2>3. Cardinality({p}) = 1 /\ IsFiniteSet({p})
    BY FS_Singleton
  <2>4. Cardinality({p} \X (1..n)) = Cardinality({p}) * Cardinality(1..n)
    BY <2>2, <2>3, FS_Product
  <2>5. Cardinality({p} \X (1..n)) = n
    BY <2>1, <2>2, <2>3, <2>4
  <2> QED BY <2>1, <2>5
<1> HIDE DEF rest, mine
<1>7. Cardinality(rest \cup mine) = Cardinality(rest) + Cardinality(mine) - Cardinality(rest \cap mine)
  <2>1. IsFiniteSet(mine)
    BY <1>2 DEF mine
  <2> QED BY <1>3, <2>1, FS_Union
<1>8. Cardinality(rest \cap mine) = 0
  BY <1>5, FS_EmptySet
<1>9. Cardinality(rest) \in Nat
  BY <1>3, FS_CardinalityType
<1>10. n \in Nat
  BY <1>1
<1> HIDE DEF n
<1>11. Cardinality(rest) + Cardinality(mine) - Cardinality(rest \cap mine) = Cardinality(rest) + n
  BY <1>6, <1>8, <1>9, <1>10
<1>12. Cardinality(AreasOf(procs, Proc)) = Cardinality(rest) + n
  BY <1>4, <1>7, <1>11
<1> QED BY <1>9, <1>10, <1>12 DEF rest, n

\* How many kernel objects of a kind a process holds.
LEMMA UsesNat ==
    ASSUME NEW x \in Process, NEW k \in Kind
    PROVE  /\ Uses(x, k) \in Nat
           /\ k # "vma" => Uses(x, k) \in {0, 1}
           /\ k = "vma" => Uses(x, k) = Len(x.mm.mmap)
<1>1. Len(x.mm.mmap) \in Nat
  BY MMFields, LenProperties DEF Process
<1>2. CASE k = "vma"
  BY <1>1, <1>2 DEF Uses, Needs
<1>3. CASE k # "vma"
  <2>1. Uses(x, k) \in {0, 1}
    BY <1>3 DEF Uses, Needs
  <2> QED BY <1>3, <2>1
<1> QED BY <1>2, <1>3

\* When one process changes, the totals change by what it uses more or less.
LEMMA TotalChange ==
    ASSUME IsFiniteSet(Proc), NEW procs \in [Proc -> Process], NEW p \in Proc, NEW x \in Process,
           NEW k \in Kind
    PROVE  /\ Total(procs, k) \in Nat /\ Total([procs EXCEPT ![p] = x], k) \in Nat
           /\ Total([procs EXCEPT ![p] = x], k) - Uses(x, k) = Total(procs, k) - Uses(procs[p], k)
<1> SUFFICES ASSUME NEW new, new = [procs EXCEPT ![p] = x]
             PROVE  /\ Total(procs, k) \in Nat /\ Total(new, k) \in Nat
                    /\ Total(new, k) - Uses(x, k) = Total(procs, k) - Uses(procs[p], k)
  OBVIOUS
<1>1. /\ new \in [Proc -> Process] /\ new[p] = x
      /\ \A q \in Proc : q # p => new[q] = procs[q]
  OBVIOUS
<1>2. CASE k = "vma"
  <2> DEFINE rest == Cardinality(AreasOf(procs, Proc \ {p}))
  <2>1. AreasOf(new, Proc \ {p}) = AreasOf(procs, Proc \ {p})
    BY <1>1 DEF AreasOf
  <2>2. /\ Cardinality(AreasOf(procs, Proc)) = rest + Len(procs[p].mm.mmap)
        /\ rest \in Nat /\ Len(procs[p].mm.mmap) \in Nat
    BY AreasSplit
  <2>3. /\ Cardinality(AreasOf(new, Proc)) = rest + Len(x.mm.mmap)
        /\ Len(x.mm.mmap) \in Nat
    <3>1. /\ Cardinality(AreasOf(new, Proc)) =
                Cardinality(AreasOf(new, Proc \ {p})) + Len(new[p].mm.mmap)
          /\ Len(new[p].mm.mmap) \in Nat
      BY <1>1, AreasSplit
    <3> QED BY <1>1, <2>1, <3>1
  <2>4. Uses(x, k) = Len(x.mm.mmap) /\ Uses(procs[p], k) = Len(procs[p].mm.mmap)
    BY <1>2, UsesNat
  <2>5. /\ Total(new, k) = Cardinality(AreasOf(new, Proc))
        /\ Total(procs, k) = Cardinality(AreasOf(procs, Proc))
    BY <1>2 DEF Total
  <2> HIDE DEF rest
  <2>6. Total(new, k) = rest + Uses(x, k) /\ Total(procs, k) = rest + Uses(procs[p], k)
    BY <2>2, <2>3, <2>4, <2>5
  <2>7. Uses(x, k) \in Nat /\ Uses(procs[p], k) \in Nat
    BY UsesNat
  <2> QED BY <2>2, <2>6, <2>7
<1>3. CASE k # "vma"
  <2> DEFINE S == Users(procs, k)
             T == Users(new, k)
  <2>1. IsFiniteSet(S) /\ IsFiniteSet(T)
    <3>1. S \in SUBSET Proc /\ T \in SUBSET Proc
      BY DEF Users
    <3> QED BY <3>1, FS_Subset
  <2>2. S \ {p} = T \ {p}
    BY <1>1 DEF Users
  <2>3. /\ Uses(x, k) = IF p \in T THEN 1 ELSE 0
        /\ Uses(procs[p], k) = IF p \in S THEN 1 ELSE 0
    <3>1. Uses(x, k) \in {0, 1} /\ Uses(procs[p], k) \in {0, 1}
      BY <1>3, UsesNat
    <3> QED BY <1>1, <3>1 DEF Users
  <2>4. Total(new, k) = Cardinality(T) /\ Total(procs, k) = Cardinality(S)
    BY <1>3 DEF Total
  <2> HIDE DEF S, T
  <2>5. /\ Cardinality(S) \in Nat /\ Cardinality(T) \in Nat
        /\ Cardinality(T) - (IF p \in T THEN 1 ELSE 0) = Cardinality(S) - (IF p \in S THEN 1 ELSE 0)
    BY <2>1, <2>2, CountOne
  <2> QED BY <2>3, <2>4, <2>5
<1> QED BY <1>2, <1>3

\* The frames that are not in the address space of process p nor free.
Others(procs, p) == Rest(procs, p) \cup procs[p].kstack

\* The frames held are those of one process and those of the rest.
LEMMA HeldSplit ==
    ASSUME NEW procs, NEW p \in Proc
    PROVE  UNION {Held(procs[q]) : q \in Proc} = Rest(procs, p) \cup Held(procs[p])
BY DEF Rest

\* The memory as process p works on it.
LEMMA SoundOf ==
    ASSUME NEW m, NEW procs, Exact(m, procs), NEW p \in Proc, NEW s \in Machine,
           s.free = m.free, s.ref = m.ref, s.mm = procs[p].mm
    PROVE  Sound(s, Others(procs, p))
<1> DEFINE mm == procs[p].mm
           others == Others(procs, p)
<1>1. /\ m.free \cap Held(procs[p]) = {}
      /\ \A q \in Proc : q # p => m.free \cap Held(procs[q]) = {}
      /\ \A q \in Proc : q # p => Held(procs[q]) \cap Held(procs[p]) = {}
      /\ Frame = m.free \cup UNION {Held(procs[q]) : q \in Proc}
      /\ \A f \in m.free : m.ref[f] = 0
      /\ \A la \in Va : procs[p].mm.pte[la] # NoMap => m.ref[procs[p].mm.pte[la].frame] = 1
      /\ Whole(procs[p])
  BY DEF Exact
<1>2. UNION {Held(procs[q]) : q \in Proc} = Rest(procs, p) \cup Held(procs[p])
  BY DEF Rest
<1>3. Held(procs[p]) = procs[p].kstack \cup Parts(mm) /\ procs[p].kstack \cap Parts(mm) = {}
  BY <1>1 DEF Held, Whole
<1>4. m.free \cap Rest(procs, p) = {} /\ Held(procs[p]) \cap Rest(procs, p) = {}
  BY <1>1 DEF Rest
<1>5. /\ m.free \cap others = {} /\ m.free \cap Parts(mm) = {} /\ others \cap Parts(mm) = {}
      /\ Frame = m.free \cup others \cup Parts(mm)
  BY <1>1, <1>2, <1>3, <1>4 DEF Others
<1>6. others \in Frames
  BY <1>5 DEF Frames
<1>7. Apart(mm) /\ Placed(mm)
  BY <1>1 DEF Whole
<1> HIDE DEF others
<1>8. Sound(s, others)
  BY <1>1, <1>5, <1>6, <1>7 DEF Sound
<1> QED BY <1>8 DEF others

\* What a step does: process p becomes x and the memory t, in which the other
\* processes' frames are as they were.
Changed(m, procs, p, x, t) ==
    /\ Whole(x) /\ t.mm = x.mm
    /\ x.kstack \cap Rest(procs, p) = {}
    /\ Sound(t, Rest(procs, p) \cup x.kstack)
    /\ \A f \in Rest(procs, p) : t.ref[f] = m.ref[f] /\ t.page[f] = m.page[f]
    /\ \A k \in Kind : t.kmem[k] - Uses(x, k) = m.kmem[k] - Uses(procs[p], k)

\* One process changes: when its new frames and objects account for what the step took and
\* gave back, and the rest keep theirs, the accounts are exact again.
LEMMA Replace ==
    ASSUME IsFiniteSet(Proc), NEW m, NEW procs, Exact(m, procs), NEW p \in Proc, NEW x, NEW t,
           Changed(m, procs, p, x, t)
    PROVE  Exact(Mem(t), [procs EXCEPT ![p] = x])
<1> DEFINE n == Mem(t)
           new == [procs EXCEPT ![p] = x]
           rest == Rest(procs, p)
<1>1. t \in Machine
  BY DEF Changed, Sound
<1>2. /\ n \in Memory /\ n.free = t.free /\ n.ref = t.ref /\ n.page = t.page /\ n.kmem = t.kmem
  BY <1>1, Fields DEF Mem, Memory
<1>3. x \in Process
  BY DEF Changed, Whole
<1>4. procs \in [Proc -> Process] /\ \A q \in Proc : Whole(procs[q])
  BY DEF Exact
<1>5. /\ new \in [Proc -> Process] /\ new[p] = x
      /\ \A q \in Proc : q # p => new[q] = procs[q]
  BY <1>3, <1>4
<1>6. /\ t.free \cap rest = {} /\ t.free \cap x.kstack = {} /\ t.free \cap Parts(x.mm) = {}
      /\ rest \cap Parts(x.mm) = {} /\ x.kstack \cap rest = {}
      /\ Frame = t.free \cup rest \cup x.kstack \cup Parts(x.mm)
      /\ \A f \in t.free : t.ref[f] = 0
      /\ \A la \in Va : x.mm.pte[la] # NoMap => t.ref[x.mm.pte[la].frame] = 1
      /\ \A f \in rest : t.ref[f] = m.ref[f]
  BY DEF Changed, Sound
<1>7. \A q \in Proc : q # p => Held(procs[q]) \in SUBSET rest
  BY DEF Rest
<1> HIDE DEF n, new, rest
<1>8. \A q \in Proc : Whole(new[q])
  BY <1>4, <1>5 DEF Changed
<1>9. \A q \in Proc : n.free \cap Held(new[q]) = {}
  <2>1. n.free \cap Held(x) = {}
    BY <1>2, <1>6 DEF Held
  <2>2. \A q \in Proc : q # p => n.free \cap Held(procs[q]) = {}
    BY <1>2, <1>6, <1>7
  <2> QED BY <1>5, <2>1, <2>2
<1>10. \A q, r \in Proc : q # r => Held(new[q]) \cap Held(new[r]) = {}
  <2>1. \A q \in Proc : q # p => Held(procs[q]) \cap Held(x) = {}
    BY <1>6, <1>7 DEF Held
  <2>2. \A q, r \in Proc : q # r => Held(procs[q]) \cap Held(procs[r]) = {}
    BY DEF Exact
  <2> QED BY <1>5, <2>1, <2>2
<1>11. Frame = n.free \cup UNION {Held(new[q]) : q \in Proc}
  <2>1. UNION {Held(new[q]) : q \in Proc} = Rest(new, p) \cup Held(new[p])
    BY HeldSplit
  <2>2. Rest(new, p) = rest
    BY <1>5 DEF Rest, rest
  <2>3. Held(new[p]) = x.kstack \cup Parts(x.mm)
    BY <1>5 DEF Held
  <2> QED BY <1>2, <1>6, <2>1, <2>2, <2>3
<1>12. \A f \in n.free : n.ref[f] = 0
  BY <1>2, <1>6
<1>13. \A q \in Proc : \A la \in Va :
          new[q].mm.pte[la] # NoMap => n.ref[new[q].mm.pte[la].frame] = 1
  <2>1. ASSUME NEW q \in Proc, q # p, NEW la \in Va, procs[q].mm.pte[la] # NoMap
        PROVE  t.ref[procs[q].mm.pte[la].frame] = 1
    <3>1. m.ref[procs[q].mm.pte[la].frame] = 1
      BY <2>1 DEF Exact
    <3>2. procs[q].mm.pte[la].frame # None
      <4>1. procs[q].mm.pte[la] \in Map
        BY <1>4, MMFields DEF Process, Ptes
      <4> QED BY <2>1, <4>1 DEF Map, Frame, None
    <3>3. procs[q].mm.pte[la].frame \in Held(procs[q])
      BY <3>2 DEF Held, Parts, PagesOf
    <3> QED BY <1>6, <1>7, <2>1, <3>1, <3>3
  <2> QED BY <1>2, <1>5, <1>6, <2>1
<1>14. ASSUME NEW k \in Kind PROVE n.kmem[k] = Total(new, k)
  <2>1. m.kmem[k] = Total(procs, k)
    BY DEF Exact
  <2>2. t.kmem[k] - Uses(x, k) = m.kmem[k] - Uses(procs[p], k)
    BY DEF Changed
  <2>3. /\ Total(procs, k) \in Nat /\ Total(new, k) \in Nat
        /\ Total(new, k) - Uses(x, k) = Total(procs, k) - Uses(procs[p], k)
    <3>1. /\ Total(procs, k) \in Nat /\ Total([procs EXCEPT ![p] = x], k) \in Nat
          /\ Total([procs EXCEPT ![p] = x], k) - Uses(x, k) = Total(procs, k) - Uses(procs[p], k)
      BY <1>3, <1>4, TotalChange
    <3> QED BY <3>1 DEF new
  <2>4. t.kmem[k] \in Int
    BY <1>1, Fields DEF Objects
  <2>5. Uses(x, k) \in Nat /\ Uses(procs[p], k) \in Nat
    BY <1>3, <1>4, UsesNat
  <2>6. t.kmem[k] = Total(new, k)
    BY <2>1, <2>2, <2>3, <2>4, <2>5
  <2> QED BY <1>2, <2>6
<1>15. Exact(n, new)
  BY <1>2, <1>5, <1>8, <1>9, <1>10, <1>11, <1>12, <1>13, <1>14 DEF Exact
<1> QED BY <1>15 DEF n, new

\* The memory as the functions take it.
MachineOf(m, mm, k, r) ==
    [free |-> m.free, ref |-> m.ref, page |-> m.page, kmem |-> m.kmem,
     tlb |-> m.tlb, index |-> m.index,
     err |-> "", kleft |-> k, rleft |-> r, mm |-> mm, kstack |-> {}]

\* The state a system call starts from.
LEMMA MachineFields ==
    ASSUME NEW m \in Memory, NEW mm \in MM, NEW k \in Nat, NEW r \in Nat
    PROVE  /\ MachineOf(m, mm, k, r) \in Machine
           /\ MachineOf(m, mm, k, r).free = m.free /\ MachineOf(m, mm, k, r).ref = m.ref
           /\ MachineOf(m, mm, k, r).page = m.page /\ MachineOf(m, mm, k, r).kmem = m.kmem
           /\ MachineOf(m, mm, k, r).tlb = m.tlb /\ MachineOf(m, mm, k, r).index = m.index
           /\ MachineOf(m, mm, k, r).mm = mm /\ MachineOf(m, mm, k, r).kstack = {}
           /\ Ok(MachineOf(m, mm, k, r))
<1>1. {} \in Frames /\ "" \in Error
  BY DEF Frames, Error
<1> QED BY <1>1 DEF MachineOf, Machine, Memory, Ok

\* The page table entries that the TLB is filled from: the running process's.
PtesOf(procs, c) == IF c = None THEN NoMM.pte ELSE procs[c].mm.pte

\* The inductive invariant.
VmmInv ==
    /\ Exact(mem, proc)
    /\ current \in Proc \cup {None}
    /\ current # None => proc[current].state = "live"
    /\ Coherent(mem.tlb, PtesOf(proc, current))

\* A step of the process that runs, or of one without an address space.
LEMMA IsolatedStep ==
    ASSUME NEW p \in Proc, NEW x, NEW t, Changed(mem, proc, p, x, t), Exact(mem, proc),
           p = current \/ proc[p].mm = NoMM, proc[p].state = "none" => x.state # "live",
           mem'.page = t.page, proc' = [proc EXCEPT ![p] = x]
    PROVE  Isolated
<1>1. ASSUME NEW q \in Proc, q # current, proc[q].mm # NoMM, NEW f \in Mapped(q)
      PROVE  mem'.page[f] = mem.page[f]
  <2>1. q # p
    BY <1>1
  <2>2. f \in Held(proc[q])
    BY <1>1 DEF Mapped, Held, Parts, PagesOf
  <2>3. f \in Rest(proc, p)
    BY <2>1, <2>2 DEF Rest
  <2> QED BY <2>3 DEF Changed
<1>2. \A q \in Proc : ~(proc[q].state = "none" /\ proc'[q].state = "live")
  <2>1. proc \in [Proc -> Process]
    BY DEF Exact
  <2>2. proc'[p] = x /\ \A q \in Proc : q # p => proc'[q] = proc[q]
    BY <2>1
  <2> QED BY <2>2
<1> QED BY <1>1, <1>2 DEF Isolated

\* The invariant after a step that has been found to be Changed.
LEMMA StepInv ==
    ASSUME VmmAssumption, VmmInv, NEW p \in Proc, NEW x, NEW t, Changed(mem, proc, p, x, t),
           mem' = Mem(t), proc' = [proc EXCEPT ![p] = x],
           current' \in Proc \cup {None}, current' # None => proc'[current'].state = "live",
           Coherent(t.tlb, PtesOf(proc', current'))
    PROVE  VmmInv'
<1>1. Exact(mem, proc)
  BY DEF VmmInv
<1>2. IsFiniteSet(Proc)
  BY DEF VmmAssumption
<1>3. Exact(Mem(t), [proc EXCEPT ![p] = x])
  BY <1>1, <1>2, Replace
<1>4. Exact(mem', proc')
  BY <1>3
<1>5. mem'.tlb = t.tlb
  BY DEF Mem
<1>6. Coherent(mem'.tlb, PtesOf(proc', current'))
  BY <1>5
<1> QED BY <1>4, <1>6 DEF VmmInv

\* A step that changes one process, keeps the TLB coherent and leaves the others alone
\* keeps the invariant, and touches the pages of no other process.
LEMMA StepDone ==
    ASSUME VmmAssumption, VmmInv, NEW p \in Proc, NEW x, NEW t, Changed(mem, proc, p, x, t),
           p = current \/ proc[p].mm = NoMM, proc[p].state = "none" => x.state # "live",
           mem' = Mem(t), proc' = [proc EXCEPT ![p] = x],
           current' \in Proc \cup {None}, current' # None => proc'[current'].state = "live",
           Coherent(t.tlb, PtesOf(proc', current'))
    PROVE  VmmInv' /\ Isolated
<1>1. Exact(mem, proc)
  BY DEF VmmInv
<1>2. mem'.page = t.page
  BY DEF Mem
<1>3. Isolated
  BY <1>1, <1>2, IsolatedStep
<1> QED BY <1>3, StepInv

-----------------------------------------------------------------------------
(* Calls of the process that runs.                                         *)

\* What a call of the running process may have made of its memory, with n copies
\* of the argument.
Work(t, n) ==
    /\ Sound(t, Others(proc, current))
    /\ \A f \in Rest(proc, current) : t.ref[f] = mem.ref[f] /\ t.page[f] = mem.page[f]
    /\ Coherent(t.tlb, t.mm.pte)
    /\ t.mm.pgdir = None => t.mm = NoMM
    /\ \A k \in Kind : t.kmem[k] - Needs(t.mm, k) =
                          mem.kmem[k] - Needs(proc[current].mm, k) + (IF k = "karg" THEN n ELSE 0)

\* What the invariant says of the process that runs.
LEMMA RunningProcess ==
    ASSUME VmmInv, current # None
    PROVE  /\ current \in Proc /\ proc[current].state = "live" /\ Whole(proc[current])
           /\ proc[current] \in Process /\ proc[current].mm \in MM
           /\ mem \in Memory /\ proc \in [Proc -> Process]
           /\ Coherent(mem.tlb, proc[current].mm.pte)
<1>1. /\ current \in Proc /\ proc[current].state = "live" /\ Exact(mem, proc)
      /\ Coherent(mem.tlb, PtesOf(proc, current))
  BY DEF VmmInv
<1>2. Whole(proc[current]) /\ mem \in Memory /\ proc \in [Proc -> Process]
  BY <1>1 DEF Exact
<1>3. proc[current] \in Process
  BY <1>1, <1>2
<1> QED BY <1>1, <1>2, <1>3 DEF Process, PtesOf

\* How many kernel objects an mm_struct needs.
LEMMA NeedsInt ==
    ASSUME NEW mm \in MM, NEW k
    PROVE  Needs(mm, k) \in Int
<1>1. Len(mm.mmap) \in Nat
  BY MMFields, LenProperties
<1> QED BY <1>1 DEF Needs

\* The current process at the start of a system call.
LEMMA WorkStart ==
    ASSUME VmmInv, current # None, NEW k \in Nat, NEW r \in Nat
    PROVE  Work(With(proc[current].mm, k, r), 0)
<1> DEFINE s == With(proc[current].mm, k, r)
<1>1. /\ current \in Proc /\ Whole(proc[current]) /\ proc[current].mm \in MM
      /\ mem \in Memory /\ Coherent(mem.tlb, proc[current].mm.pte) /\ Exact(mem, proc)
  BY RunningProcess DEF VmmInv
<1>2. /\ s \in Machine /\ s.free = mem.free /\ s.ref = mem.ref
      /\ s.page = mem.page /\ s.kmem = mem.kmem /\ s.tlb = mem.tlb /\ s.mm = proc[current].mm
  <2>1. s = MachineOf(mem, proc[current].mm, k, r)
    BY DEF With, MachineOf
  <2> HIDE DEF s
  <2> QED BY <1>1, <2>1, MachineFields
<1> HIDE DEF s
<1>3. Sound(s, Others(proc, current))
  BY <1>1, <1>2, SoundOf
<1>4. \A j \in Kind : s.kmem[j] - Needs(s.mm, j) =
          mem.kmem[j] - Needs(proc[current].mm, j) + (IF j = "karg" THEN 0 ELSE 0)
  <2> TAKE j \in Kind
  <2>1. s.kmem[j] \in Int
    BY <1>2, Fields DEF Objects
  <2>2. Needs(s.mm, j) \in Int
    BY <1>1, <1>2, NeedsInt
  <2> QED BY <1>2, <2>1, <2>2
<1>5. s.mm.pgdir = None => s.mm = NoMM
  BY <1>1, <1>2 DEF Whole
<1>6. Work(s, 0)
  BY <1>1, <1>2, <1>3, <1>4, <1>5 DEF Work
<1> QED BY <1>6 DEF s

\* Operations on the address space.
LEMMA WorkSafe ==
    ASSUME NEW s, NEW n, Work(s, n), NEW t, Sound(t, Others(proc, current)),
           Safe(s, t, Others(proc, current)), Balanced(s, t), t.mm.pgdir = None => t.mm = NoMM
    PROVE  Work(t, n)
<1>1. Rest(proc, current) \in SUBSET Others(proc, current)
  BY DEF Others
<1>2. \A f \in Rest(proc, current) : t.ref[f] = mem.ref[f] /\ t.page[f] = mem.page[f]
  BY <1>1 DEF Work, Safe
<1>3. Coherent(t.tlb, t.mm.pte)
  BY DEF Work, Safe
<1>4. \A k \in Kind : t.kmem[k] - Needs(t.mm, k) =
          mem.kmem[k] - Needs(proc[current].mm, k) + (IF k = "karg" THEN n ELSE 0)
  BY DEF Work, Balanced
<1> QED BY <1>2, <1>3, <1>4 DEF Work

\* A call that keeps the mm_struct and the others' frames keeps the accounts.
LEMMA WorkKept ==
    ASSUME NEW s, NEW n, Work(s, n), s.mm.pgdir # None, NEW t, Sound(t, Others(proc, current)),
           Kept(s, t, Others(proc, current))
    PROVE  Work(t, n) /\ t.mm.pgdir # None
<1>1. s \in Machine /\ t \in Machine
  BY DEF Work, Sound
<1>2. Left(s, t, Others(proc, current)) /\ Balanced(s, t)
  BY <1>1, KeptLeft
<1>3. Safe(s, t, Others(proc, current))
  BY <1>2, LeftSafe
<1>4. t.mm.pgdir # None
  BY DEF Kept
<1> QED BY <1>2, <1>3, <1>4, WorkSafe

\* kmalloc and kfree of the argument buffer in the accounts of the current process.
LEMMA WorkCharged ==
    ASSUME VmmInv, current # None, NEW n \in Int, NEW s, Work(s, n), NEW d \in Int, NEW t,
           Charged(s, "karg", d, t)
    PROVE  Work(t, n + d)
<1>1. Sound(s, Others(proc, current))
  BY DEF Work
<1>2. Sound(t, Others(proc, current)) /\ Left(s, t, Others(proc, current))
  BY <1>1, ChargedSound
<1>3. Safe(s, t, Others(proc, current)) /\ t.mm = s.mm
  BY <1>2, LeftSafe DEF Charged
<1>4. \A f \in Rest(proc, current) : t.ref[f] = mem.ref[f] /\ t.page[f] = mem.page[f]
  BY <1>3 DEF Work, Safe, Others
<1>5. Coherent(t.tlb, t.mm.pte)
  BY <1>3 DEF Work, Safe
<1>6. ASSUME NEW k \in Kind
      PROVE  t.kmem[k] - Needs(t.mm, k) =
                mem.kmem[k] - Needs(proc[current].mm, k) + (IF k = "karg" THEN n + d ELSE 0)
  <2> DEFINE a == t.kmem[k]
             b == s.kmem[k]
             c == mem.kmem[k]
             e == Needs(s.mm, k)
             g == Needs(proc[current].mm, k)
  <2>1. a = b + (IF k = "karg" THEN d ELSE 0) /\ Needs(t.mm, k) = e
    BY <1>3 DEF Charged
  <2>2. b - e = c - g + (IF k = "karg" THEN n ELSE 0)
    BY DEF Work
  <2>3. /\ b \in Int /\ c \in Int /\ e \in Int /\ g \in Int
    <3>1. b \in Int /\ s.mm \in MM
      BY <1>1, Fields DEF Sound, Objects
    <3>2. c \in Int /\ proc[current].mm \in MM
      BY RunningProcess DEF Memory, Objects
    <3> QED BY <3>1, <3>2, NeedsInt
  <2> HIDE DEF a, b, c, e, g
  <2>4. a - e = c - g + (IF k = "karg" THEN n + d ELSE 0)
    <3>1. CASE k = "karg"
      <4>1. a = b + d /\ b - e = c - g + n
        BY <2>1, <2>2, <3>1
      <4>2. a - e = c - g + (n + d)
        BY <2>3, <4>1
      <4> QED BY <3>1, <4>2
    <3>2. CASE k # "karg"
      <4>1. a = b + 0 /\ b - e = c - g + 0
        BY <2>1, <2>2, <3>2
      <4>2. a - e = c - g + 0
        BY <2>3, <4>1
      <4> QED BY <3>2, <4>2
    <3> QED BY <3>1, <3>2
  <2> QED BY <2>1, <2>4 DEF a, c, e, g
<1>7. t.mm.pgdir = None => t.mm = NoMM
  BY <1>3 DEF Work
<1> QED BY <1>2, <1>4, <1>5, <1>6, <1>7 DEF Work

\* The process goes on with the memory s.
LEMMA NowDone ==
    ASSUME VmmAssumption, VmmInv, Running, NEW s, Work(s, 0), Separate(s.mm), Filled(s.mm),
           mem' = Mem(s), proc' = [proc EXCEPT ![current].mm = s.mm], current' = current
    PROVE  VmmInv' /\ Isolated
<1> DEFINE x == [proc[current] EXCEPT !.mm = s.mm]
           p == current
<1>1. /\ p \in Proc /\ p # None /\ proc[p].state = "live" /\ Whole(proc[p])
      /\ proc[p] \in Process /\ proc \in [Proc -> Process] /\ mem \in Memory /\ Exact(mem, proc)
  BY RunningProcess DEF Running, VmmInv
<1>2. /\ Sound(s, Others(proc, p))
      /\ \A f \in Rest(proc, p) : s.ref[f] = mem.ref[f] /\ s.page[f] = mem.page[f]
      /\ Coherent(s.tlb, s.mm.pte)
      /\ s.mm.pgdir = None => s.mm = NoMM
  BY DEF Work
<1>3. s \in Machine /\ s.mm \in MM
  BY <1>2, Fields DEF Sound
<1>4. /\ x \in Process /\ x.state = "live" /\ x.kstack = proc[p].kstack /\ x.mm = s.mm
  BY <1>1, <1>3 DEF Process
<1>5. proc' = [proc EXCEPT ![p] = x]
  OBVIOUS
<1> HIDE DEF x, p
<1>6. Whole(x)
  <2>1. x.kstack \cap Parts(x.mm) = {} /\ Apart(x.mm) /\ Placed(x.mm)
    BY <1>2, <1>4 DEF Sound, Others
  <2> QED BY <1>2, <1>4, <2>1 DEF Whole
<1>7. x.kstack \cap Rest(proc, p) = {}
  BY <1>1, <1>4 DEF Exact, Rest, Held
<1>8. ASSUME NEW k \in Kind PROVE s.kmem[k] - Uses(x, k) = mem.kmem[k] - Uses(proc[p], k)
  <2>1. s.kmem[k] - Needs(s.mm, k) =
           mem.kmem[k] - Needs(proc[p].mm, k) + (IF k = "karg" THEN 0 ELSE 0)
    BY DEF Work, p
  <2>2. s.kmem[k] \in Int /\ mem.kmem[k] \in Int
    BY <1>1, <1>3, Fields DEF Memory, Objects
  <2>3. Needs(s.mm, k) \in Int /\ Needs(proc[p].mm, k) \in Int
    BY <1>1, <1>3, NeedsInt DEF Process
  <2>4. s.kmem[k] - Needs(s.mm, k) = mem.kmem[k] - Needs(proc[p].mm, k)
    BY <2>1, <2>2, <2>3
  <2>5. CASE k = "proc" \/ k = "fs"
    <3>1. Needs(s.mm, k) = 0 /\ Needs(proc[p].mm, k) = 0
      BY <2>5 DEF Needs
    <3>2. Uses(x, k) = 1 /\ Uses(proc[p], k) = 1
      BY <1>1, <1>4, <2>5 DEF Uses
    <3>3. s.kmem[k] = mem.kmem[k]
      BY <2>2, <2>4, <3>1
    <3> QED BY <3>2, <3>3
  <2>6. CASE k # "proc" /\ k # "fs"
    <3>1. Uses(x, k) = Needs(s.mm, k) /\ Uses(proc[p], k) = Needs(proc[p].mm, k)
      BY <1>4, <2>6 DEF Uses
    <3> QED BY <2>4, <3>1
  <2> QED BY <2>5, <2>6
<1>9. Changed(mem, proc, p, x, s)
  BY <1>2, <1>4, <1>6, <1>7, <1>8 DEF Changed, Others
<1>10. proc'[p] = x
  BY <1>1, <1>5
<1>11. current' = p
  BY DEF p
<1>12. Coherent(s.tlb, PtesOf(proc', current'))
  BY <1>1, <1>2, <1>4, <1>10, <1>11 DEF PtesOf
<1>13. current' \in Proc \cup {None} /\ (current' # None => proc'[current'].state = "live")
  BY <1>1, <1>4, <1>10, <1>11
<1> QED BY <1>1, <1>5, <1>9, <1>12, <1>13, StepDone DEF p

\* The process exits with the memory s, in which its mm is still its own.
LEMMA ExitsDone ==
    ASSUME VmmAssumption, VmmInv, Running, NEW s, Work(s, 0), exits(s)
    PROVE  VmmInv' /\ Isolated
<1> DEFINE p == current
           x == [proc[p] EXCEPT !.state = "zombie", !.mm = NoMM]
           u == free_mm(s)
           v == kfree(u, "fs", 1)
           t == tlb_invalidate_all(v)
           others == Others(proc, p)
<1>1. /\ p \in Proc /\ p # None /\ proc[p].state = "live" /\ Whole(proc[p])
      /\ proc[p] \in Process /\ proc \in [Proc -> Process] /\ mem \in Memory /\ Exact(mem, proc)
  BY RunningProcess DEF Running, VmmInv
<1>2. /\ Sound(s, others)
      /\ \A f \in Rest(proc, p) : s.ref[f] = mem.ref[f] /\ s.page[f] = mem.page[f]
      /\ s.mm.pgdir = None => s.mm = NoMM
  BY DEF Work
<1>3. PICK next \in Runnable \ {p} :
          /\ mem' = proc_run(v, next)
          /\ current' = next
  BY DEF exits
<1>4. mem' = Mem(t)
  BY <1>3 DEF proc_run
<1>5. proc' = [proc EXCEPT ![p] = x]
  BY DEF exits
<1>6. /\ x \in Process /\ x.state = "zombie" /\ x.kstack = proc[p].kstack /\ x.mm = NoMM
  BY <1>1, NoMMFields DEF Process, State
<1> HIDE DEF p, x, others
<1>7. MMFreed(s, others, u)
  BY <1>2, FreeMM
<1> HIDE DEF u
<1>8. /\ Sound(u, others) /\ Left(s, u, others) /\ Balanced(s, u) /\ u.mm = NoMM /\ u \in Machine
  BY <1>7 DEF MMFreed, Sound
<1>9. Charged(u, "fs", 0 - 1, v)
  <2>1. "fs" \in Kind /\ 1 \in Int
    BY DEF Kind
  <2>2. Charged(u, "fs", 0 - 1, kfree(u, "fs", 1))
    BY <1>8, <2>1, KFree
  <2> QED BY <2>2
<1> HIDE DEF v
<1>10. Sound(v, others) /\ Left(u, v, others) /\ v.mm = NoMM /\ v \in Machine
  <2>1. Sound(v, others) /\ Left(u, v, others)
    BY <1>8, <1>9, ChargedSound
  <2> QED BY <1>8, <1>9, <2>1 DEF Charged
<1>11. Alike(v, t) /\ t.tlb = NoTlb
  BY <1>10, Flush
<1> HIDE DEF t
<1>12. /\ t \in Machine /\ t.free = v.free /\ t.ref = v.ref /\ t.page = v.page /\ t.kmem = v.kmem
       /\ t.mm = NoMM
  BY <1>10, <1>11 DEF Alike
<1>13. Sound(t, others)
  BY <1>10, <1>12 DEF Sound
<1>14. \A f \in Rest(proc, p) : t.ref[f] = mem.ref[f] /\ t.page[f] = mem.page[f]
  BY <1>2, <1>8, <1>10, <1>12 DEF Left, Others, others
<1>15. Whole(x)
  <2>1. x.kstack \cap Parts(x.mm) = {} /\ Apart(x.mm) /\ Placed(x.mm)
    BY <1>6, <1>12, <1>13 DEF Sound, Others, others
  <2>2. Separate(x.mm) /\ Filled(x.mm)
    <3>1. x.mm.mmap = << >>
      BY <1>6, NoMMFields
    <3> QED BY <3>1, NoAreas
  <2> QED BY <1>6, <2>1, <2>2 DEF Whole
<1>16. x.kstack \cap Rest(proc, p) = {}
  BY <1>1, <1>6 DEF Exact, Rest, Held
<1>17. ASSUME NEW k \in Kind PROVE t.kmem[k] - Uses(x, k) = mem.kmem[k] - Uses(proc[p], k)
  <2> DEFINE a == t.kmem[k]
             b == u.kmem[k]
             c == s.kmem[k]
             d == mem.kmem[k]
             e == Needs(s.mm, k)
             g == Needs(proc[p].mm, k)
  <2>1. a = b + (IF k = "fs" THEN 0 - 1 ELSE 0)
    BY <1>9, <1>12 DEF Charged
  <2>2. b - 0 = c - e
    <3>1. Needs(u.mm, k) = 0
      BY <1>8, NoMMFields DEF Needs
    <3> QED BY <1>8, <3>1 DEF Balanced
  <2>3. c - e = d - g + (IF k = "karg" THEN 0 ELSE 0)
    BY DEF Work, p
  <2>4. /\ a \in Int /\ b \in Int /\ c \in Int /\ d \in Int /\ e \in Int /\ g \in Int
    <3>1. b \in Int /\ a \in Int
      BY <1>8, <1>12, Fields DEF Objects
    <3>2. c \in Int /\ s.mm \in MM
      BY <1>2, Fields DEF Sound, Objects
    <3>3. d \in Int /\ proc[p].mm \in MM
      BY <1>1 DEF Memory, Objects, Process
    <3> QED BY <3>1, <3>2, <3>3, NeedsInt
  <2> HIDE DEF a, b, c, d, e, g
  <2>5. b = d - g
    BY <2>2, <2>3, <2>4
  <2>6. CASE k = "proc"
    <3>1. g = 0 /\ Uses(x, k) = 1 /\ Uses(proc[p], k) = 1
      BY <1>1, <1>6, <2>6 DEF g, Needs, Uses
    <3>2. a = b + 0
      BY <2>1, <2>6
    <3>3. a - 1 = d - 1
      BY <2>4, <2>5, <3>1, <3>2
    <3> QED BY <3>1, <3>3 DEF a, d
  <2>7. CASE k = "fs"
    <3>1. g = 0 /\ Uses(x, k) = 0 /\ Uses(proc[p], k) = 1
      BY <1>1, <1>6, <2>7 DEF g, Needs, Uses
    <3>2. a = b + (0 - 1)
      BY <2>1, <2>7
    <3>3. a - 0 = d - 1
      BY <2>4, <2>5, <3>1, <3>2
    <3> QED BY <3>1, <3>3 DEF a, d
  <2>8. CASE k # "proc" /\ k # "fs"
    <3>1. Uses(x, k) = 0
      BY <1>6, <2>8, NoMMFields DEF Uses, Needs
    <3>2. Uses(proc[p], k) = g
      BY <2>8 DEF g, Uses
    <3>3. a = b + 0
      BY <2>1, <2>8
    <3>4. a - 0 = d - g
      BY <2>4, <2>5, <3>3
    <3> QED BY <3>1, <3>2, <3>4 DEF a, d
  <2> QED BY <2>6, <2>7, <2>8
<1>18. Changed(mem, proc, p, x, t)
  BY <1>6, <1>12, <1>13, <1>14, <1>15, <1>16, <1>17 DEF Changed, Others, others
<1>19. Coherent(t.tlb, PtesOf(proc', current'))
  BY <1>11, NoTlbCoherent
<1>20. current' \in Proc \cup {None} /\ (current' # None => proc'[current'].state = "live")
  <2>1. next \in {None} \cup {q \in Proc : proc[q].state = "live"}
    BY <1>3 DEF Runnable
  <2>2. next # p
    BY <1>3
  <2>3. next # None => proc'[next] = proc[next]
    BY <1>1, <1>5, <2>1, <2>2
  <2> QED BY <1>3, <2>1, <2>3
<1>21. p = current \/ proc[p].mm = NoMM
  BY DEF p
<1> QED BY <1>1, <1>4, <1>5, <1>18, <1>19, <1>20, <1>21, StepDone

\* A hit is the page table entry.
IsHit(s, pte, la, h) ==
    /\ h[2] = pte[la] /\ h[2] # NoMap
    /\ \E j \in Slot : h = <<j, pte[la]>> /\ s.tlb[j].vpn2 = la \div 2 /\ la \div 2 # -1

\* A TLB entry that matches a mapped page holds the page table's entry for it.
LEMMA HitEntry ==
    ASSUME VmmAssumption, NEW s, NEW pte, s.tlb \in Tlb, Coherent(s.tlb, pte), NEW la \in Va,
           NEW h \in Hits(s, la)
    PROVE  IsHit(s, pte, la, h)
<1> DEFINE v == la \div 2
<1>1. DOMAIN s.tlb = Slot
  BY DEF Tlb
<1>2. PICK j \in Slot : /\ h = <<j, s.tlb[j].lo[1 + (la % 2)]>>
                        /\ s.tlb[j].vpn2 = v /\ s.tlb[j].lo[1 + (la % 2)] # NoMap
  BY <1>1 DEF Hits
<1>3. /\ v \in Nat
      /\ la % 2 = 0 => la = 2 * v
      /\ la % 2 # 0 => la % 2 = 1 /\ la = 2 * v + 1
  BY Pair
<1> HIDE DEF v
<1>4. v # -1
  BY <1>3
<1>5. s.tlb[j].lo = <<pte[2 * v], pte[2 * v + 1]>>
  BY <1>2, <1>4 DEF Coherent
<1>6. s.tlb[j].lo[1 + (la % 2)] = pte[la]
  <2>1. CASE la % 2 = 0
    <3>1. s.tlb[j].lo[1 + (la % 2)] = s.tlb[j].lo[1]
      BY <2>1
    <3> QED BY <1>3, <1>5, <2>1, <3>1
  <2>2. CASE la % 2 # 0
    <3>1. s.tlb[j].lo[1 + (la % 2)] = s.tlb[j].lo[2]
      BY <1>3, <2>2
    <3> QED BY <1>3, <1>5, <2>2, <3>1
  <2> QED BY <2>1, <2>2
<1> QED BY <1>2, <1>4, <1>6 DEF v, IsHit

\* What holds of the memory a step of the running process starts from.
Started(s) ==
    /\ Work(s, 0) /\ Ok(s) /\ s.mm = proc[current].mm /\ s.tlb = mem.tlb
    /\ Sound(s, Others(proc, current)) /\ Coherent(s.tlb, s.mm.pte)
    /\ Separate(s.mm) /\ Filled(s.mm)
    /\ s \in Machine /\ s.tlb \in Tlb

\* The current process at the start of a call, field by field.
LEMMA StartFields ==
    ASSUME VmmInv, Running, NEW k \in Nat, NEW r \in Nat
    PROVE  Started(With(proc[current].mm, k, r))
<1> DEFINE s == With(proc[current].mm, k, r)
<1>1. current # None
  BY DEF Running
<1>2. Work(With(proc[current].mm, k, r), 0)
  BY <1>1, WorkStart
<1>3. Work(s, 0)
  BY <1>2
<1>4. Whole(proc[current])
  BY <1>1, RunningProcess
<1>5. Ok(s) /\ s.mm = proc[current].mm /\ s.tlb = mem.tlb
  BY DEF With, Ok
<1> HIDE DEF s
<1>6. Sound(s, Others(proc, current)) /\ Coherent(s.tlb, s.mm.pte)
  BY <1>3 DEF Work
<1>7. s \in Machine /\ s.tlb \in Tlb
  BY <1>6, Fields DEF Sound
<1>8. Started(s)
  BY <1>3, <1>4, <1>5, <1>6, <1>7 DEF Whole, Started
<1> QED BY <1>8 DEF s

\* do_exit frees the whole address space.
LEMMA DoExitStep ==
    ASSUME VmmAssumption, VmmInv, do_exit
    PROVE  VmmInv' /\ Isolated
<1> DEFINE s == With(proc[current].mm, 0, 0)
<1>1. Running /\ exits(s)
  BY DEF do_exit
<1>2. Work(s, 0)
  <2>1. 0 \in Nat
    OBVIOUS
  <2>2. Running
    BY <1>1
  <2>3. Started(s)
    BY <2>1, <2>2, StartFields, Zenon
  <2> QED BY <2>3 DEF Started
<1> HIDE DEF s
<1> QED BY <1>1, <1>2, ExitsDone

\* A panic, or a call that fails, changes nothing.
LEMMA NothingStep ==
    ASSUME VmmInv, UNCHANGED <<mem, proc, current>>
    PROVE  VmmInv' /\ Isolated
<1>1. VmmInv'
  BY DEF VmmInv
<1>2. mem'.page = mem.page /\ proc' = proc
  OBVIOUS
<1>3. Isolated
  <2>1. \A p \in Proc : proc'[p].state = proc[p].state
    BY <1>2
  <2>2. \A p \in Proc : ~(proc[p].state = "none" /\ proc'[p].state = "live")
    BY <2>1
  <2> QED BY <1>2, <2>2 DEF Isolated
<1> QED BY <1>1, <1>3

\* schedule flushes the TLB when it changes the page directory.
LEMMA ScheduleStep ==
    ASSUME VmmAssumption, VmmInv, NEW next \in Runnable, schedule(next)
    PROVE  VmmInv' /\ Isolated
<1> DEFINE s == With(NoMM, 0, 0)
           t == tlb_invalidate_all(s)
<1>1. /\ next # current /\ mem' = Mem(t) /\ current' = next /\ proc' = proc
  BY DEF schedule, proc_run
<1>2. Exact(mem, proc) /\ mem \in Memory
  BY DEF VmmInv, Exact
<1>3. /\ s \in Machine /\ s.free = mem.free /\ s.ref = mem.ref /\ s.page = mem.page
      /\ s.kmem = mem.kmem
  <2>1. s = MachineOf(mem, NoMM, 0, 0)
    BY DEF With, MachineOf
  <2> HIDE DEF s
  <2> QED BY <1>2, <2>1, MachineFields, NoMMFields
<1> HIDE DEF s
<1>4. Alike(s, t) /\ t.tlb = NoTlb
  BY <1>3, Flush
<1> HIDE DEF t
<1>5. /\ t \in Machine /\ t.free = mem.free /\ t.ref = mem.ref /\ t.page = mem.page
      /\ t.kmem = mem.kmem
  BY <1>3, <1>4 DEF Alike
<1>6. /\ mem' \in Memory /\ mem'.free = mem.free /\ mem'.ref = mem.ref /\ mem'.page = mem.page
      /\ mem'.kmem = mem.kmem /\ mem'.tlb = NoTlb
  <2>1. Mem(t) \in Memory
    BY <1>5, Fields DEF Mem, Memory
  <2> QED BY <1>1, <1>4, <1>5, <2>1 DEF Mem
<1>7. Exact(mem', proc)
  BY <1>2, <1>6 DEF Exact
<1>8. Coherent(mem'.tlb, PtesOf(proc', current'))
  BY <1>6, NoTlbCoherent
<1>9. current' \in Proc \cup {None} /\ (current' # None => proc'[current'].state = "live")
  BY <1>1 DEF Runnable
<1>10. VmmInv'
  <2>1. Exact(mem', proc')
    BY <1>1, <1>7
  <2> QED BY <1>8, <1>9, <2>1 DEF VmmInv
<1>11. Isolated
  <2>1. \A p \in Proc : ~(proc[p].state = "none" /\ proc'[p].state = "live")
    BY <1>1
  <2> QED BY <1>6, <2>1 DEF Isolated
<1> QED BY <1>10, <1>11

\* The two halves of user_access, and of user_copy.
LEMMA UserAccessStep ==
    ASSUME VmmAssumption, VmmInv, NEW la \in Va, NEW write \in BOOLEAN, user_access(la, write)
    PROVE  VmmInv' /\ Isolated
<1> DEFINE s == With(proc[current].mm, 0, 0)
           fault == do_pgfault(s, la, write)
           others == Others(proc, current)
<1>1. /\ Running /\ s.mm # NoMM
      /\ \/ /\ Hits(s, la) # {} /\ write
            /\ \E h \in Hits(s, la) :
                  IF h[2].w
                  THEN Now([s EXCEPT !.page[h[2].frame] = "user"])
                  ELSE Panic("Unhandled Exception") /\ UNCHANGED <<mem, proc, current>>
         \/ /\ Hits(s, la) = {} /\ s.mm.pte[la] = NoMap
            /\ IF Ok(fault) THEN Now(fault) ELSE exits(fault)
         \/ /\ Hits(s, la) = {} /\ s.mm.pte[la] # NoMap
            /\ IF write /\ ~s.mm.pte[la].w THEN exits(s) ELSE Now(tlb_refill(s, la))
  BY DEF user_access
<1>2. /\ Work(s, 0) /\ Ok(s) /\ s.mm = proc[current].mm
      /\ Sound(s, others) /\ Coherent(s.tlb, s.mm.pte)
      /\ Separate(s.mm) /\ Filled(s.mm)
      /\ s \in Machine /\ s.tlb \in Tlb
  <2>1. 0 \in Nat
    OBVIOUS
  <2>2. Running
    BY <1>1
  <2>3. Started(s)
    BY <2>1, <2>2, StartFields, Zenon
  <2> QED BY <2>3 DEF Started
<1> HIDE DEF s
<1>3. s.mm.pgdir # None
  BY <1>1, <1>2 DEF Work
<1>4. CASE /\ Hits(s, la) # {} /\ write
           /\ \E h \in Hits(s, la) :
                 IF h[2].w
                 THEN Now([s EXCEPT !.page[h[2].frame] = "user"])
                 ELSE Panic("Unhandled Exception") /\ UNCHANGED <<mem, proc, current>>
  <2>1. PICK h \in Hits(s, la) :
            IF h[2].w
            THEN Now([s EXCEPT !.page[h[2].frame] = "user"])
            ELSE Panic("Unhandled Exception") /\ UNCHANGED <<mem, proc, current>>
    BY <1>4
  <2>2. h[2] = s.mm.pte[la] /\ h[2] # NoMap
    <3>1. IsHit(s, s.mm.pte, la, h)
      BY <1>2, HitEntry
    <3> QED BY <3>1 DEF IsHit
  <2>3. CASE h[2].w
    <3> DEFINE t == Write(s, la, "user")
    <3>1. Now(t)
      BY <2>1, <2>2, <2>3 DEF Write
    <3>2. Written(s, la, others, t)
      <4>1. "user" \in Content
        BY DEF Content
      <4> QED BY <1>2, <2>2, <4>1, WritePage
    <3> HIDE DEF t
    <3>3. Sound(t, others) /\ Kept(s, t, others) /\ t.mm = s.mm
      BY <3>2 DEF Written
    <3>4. Work(t, 0)
      BY <1>2, <1>3, <3>3, WorkKept
    <3>5. /\ mem' = Mem(t) /\ proc' = [proc EXCEPT ![current].mm = t.mm] /\ current' = current
      BY <3>1 DEF Now
    <3> QED BY <1>1, <1>2, <3>3, <3>4, <3>5, NowDone
  <2>4. CASE ~h[2].w
    BY <2>1, <2>4, NothingStep
  <2> QED BY <2>3, <2>4
<1>5. CASE /\ Hits(s, la) = {} /\ s.mm.pte[la] = NoMap
           /\ IF Ok(fault) THEN Now(fault) ELSE exits(fault)
  <2>1. FaultDone(s, la, others, fault)
    BY <1>2, DoPgfault
  <2>2. IF Ok(fault) THEN Now(fault) ELSE exits(fault)
    BY <1>5
  <2> HIDE DEF fault
  <2>3. /\ Sound(fault, others) /\ Kept(s, fault, others) /\ fault.mm.mmap = s.mm.mmap
        /\ \A lb \in Va : lb # la => fault.mm.pte[lb] = s.mm.pte[lb]
        /\ s.mm.pte[la] # NoMap => fault.mm.pte[la] # NoMap
    BY <2>1 DEF FaultDone
  <2>4. Work(fault, 0)
    BY <1>2, <1>3, <2>3, WorkKept
  <2>5. CASE Ok(fault)
    <3>1. Separate(fault.mm)
      BY <1>2, <2>3 DEF Separate
    <3>2. Filled(fault.mm)
      <4>1. \A lb \in Va : s.mm.pte[lb] # NoMap => fault.mm.pte[lb] # NoMap
        BY <2>3
      <4> QED BY <1>2, <2>3, <4>1 DEF Filled
    <3>3. /\ mem' = Mem(fault) /\ proc' = [proc EXCEPT ![current].mm = fault.mm]
          /\ current' = current
      BY <2>2, <2>5 DEF Now
    <3> QED BY <1>1, <2>4, <3>1, <3>2, <3>3, NowDone
  <2>6. CASE ~Ok(fault)
    BY <1>1, <2>2, <2>4, <2>6, ExitsDone
  <2> QED BY <2>5, <2>6
<1>6. CASE /\ Hits(s, la) = {} /\ s.mm.pte[la] # NoMap
           /\ IF write /\ ~s.mm.pte[la].w THEN exits(s) ELSE Now(tlb_refill(s, la))
  <2>1. CASE write /\ ~s.mm.pte[la].w
    <3>1. exits(s)
      BY <1>6, <2>1
    <3> QED BY <1>1, <1>2, <3>1, ExitsDone
  <2>2. CASE ~(write /\ ~s.mm.pte[la].w)
    <3> DEFINE t == tlb_refill(s, la)
    <3>1. Now(t)
      BY <1>6, <2>2
    <3>2. Refilled(s, others, t)
      BY <1>2, <1>6, TlbRefill
    <3> HIDE DEF t
    <3>3. /\ Sound(t, others) /\ Safe(s, t, others) /\ t.mm = s.mm /\ t.kmem = s.kmem
      BY <3>2 DEF Refilled
    <3>4. Balanced(s, t)
      BY <3>3 DEF Balanced
    <3>5. t.mm.pgdir = None => t.mm = NoMM
      BY <1>3, <3>3
    <3>6. Work(t, 0)
      BY <1>2, <3>3, <3>4, <3>5, WorkSafe
    <3>7. /\ mem' = Mem(t) /\ proc' = [proc EXCEPT ![current].mm = t.mm] /\ current' = current
      BY <3>1 DEF Now
    <3> QED BY <1>1, <1>2, <3>3, <3>6, <3>7, NowDone
  <2> QED BY <2>1, <2>2
<1> QED BY <1>1, <1>4, <1>5, <1>6

\* A store through a kernel segment changes what a page holds and nothing else.
LEMMA KsegStoreStep ==
    ASSUME VmmInv, NEW f \in STRAYS, kseg_store(f)
    PROVE  VmmInv' /\ Isolated
<1>1. proc' = proc /\ current' = current
  BY DEF kseg_store
<1>2. CASE mem' = [mem EXCEPT !.page[f] = "stray"]
  <2>1. Exact(mem, proc) /\ mem \in Memory /\ "stray" \in Content
    BY DEF VmmInv, Exact, Content
  <2>2. /\ mem' \in Memory /\ mem'.free = mem.free /\ mem'.ref = mem.ref
        /\ mem'.kmem = mem.kmem /\ mem'.tlb = mem.tlb
    BY <1>2, <2>1 DEF Memory, Pages
  <2>3. Exact(mem', proc)
    BY <2>1, <2>2 DEF Exact
  <2>4. Exact(mem', proc')
    BY <1>1, <2>3
  <2>5. VmmInv'
    BY <1>1, <2>2, <2>4 DEF VmmInv
  <2>6. \A g \in Frame : mem'.page[g] \in {mem.page[g], "stray"}
    BY <1>2, <2>1 DEF Memory, Pages
  <2>7. \A p \in Proc : Mapped(p) \subseteq Frame
    <3> SUFFICES ASSUME NEW p \in Proc, NEW la \in Va, proc[p].mm.pte[la].frame # None
                 PROVE  proc[p].mm.pte[la].frame \in Frame
      BY DEF Mapped
    <3>1. proc[p].mm \in MM
      BY <2>1 DEF Exact, Process
    <3>2. proc[p].mm.pte[la] \in Map
      BY <3>1, MMFields DEF Ptes
    <3> QED BY <3>2 DEF Map, NoMap
  <2>8. \A p \in Proc : ~(proc[p].state = "none" /\ proc'[p].state = "live")
    BY <1>1
  <2>9. Isolated
    BY <2>6, <2>7, <2>8 DEF Isolated
  <2> QED BY <2>5, <2>9
<1>3. CASE UNCHANGED mem
  BY <1>1, <1>3, NothingStep
<1> QED BY <1>2, <1>3 DEF kseg_store

\* copy_from_user and copy_to_user touch a page of the current process, or panic.
LEMMA UserCopyStep ==
    ASSUME VmmAssumption, VmmInv, NEW la \in Va, NEW write \in BOOLEAN, user_copy(la, write)
    PROVE  VmmInv' /\ Isolated
<1> DEFINE s == With(proc[current].mm, 0, 0)
           t == kernel_touch(s, la, write)
           others == Others(proc, current)
<1>1. /\ Running /\ user_mem_check(proc[current].mm, la, write)
      /\ IF Ok(t) THEN Now(t) ELSE Panic(t.err) /\ UNCHANGED <<mem, proc, current>>
  BY DEF user_copy
<1>2. /\ Work(s, 0) /\ Ok(s) /\ s.mm = proc[current].mm
      /\ Sound(s, others) /\ Separate(s.mm) /\ Filled(s.mm)
  <2>1. 0 \in Nat
    OBVIOUS
  <2>2. Running
    BY <1>1
  <2>3. Started(s)
    BY <2>1, <2>2, StartFields, Zenon
  <2> QED BY <2>3 DEF Started
<1> HIDE DEF s
<1>3. s.mm.pgdir # None
  <2>1. AreaOf(s.mm, la) # {}
    BY <1>1, <1>2 DEF user_mem_check
  <2>2. s.mm # NoMM
    <3>1. DOMAIN NoMM.mmap = {}
      BY NoMMFields
    <3> QED BY <2>1, <3>1 DEF AreaOf
  <2> QED BY <1>2, <2>2 DEF Work
<1>4. Touched(s, others, t)
  BY <1>2, KernelTouch
<1> HIDE DEF t
<1>5. /\ Sound(t, others) /\ Safe(s, t, others) /\ Balanced(s, t)
      /\ t.mm.pgdir = s.mm.pgdir /\ t.mm.mmap = s.mm.mmap
      /\ \A lb \in Va : s.mm.pte[lb] # NoMap => t.mm.pte[lb] # NoMap
  BY <1>4 DEF Touched
<1>6. Work(t, 0)
  BY <1>2, <1>3, <1>5, WorkSafe
<1>7. CASE Ok(t)
  <2>1. Separate(t.mm)
    BY <1>2, <1>5 DEF Separate
  <2>2. Filled(t.mm)
    BY <1>2, <1>5 DEF Filled
  <2>3. /\ mem' = Mem(t) /\ proc' = [proc EXCEPT ![current].mm = t.mm] /\ current' = current
    BY <1>1, <1>7 DEF Now
  <2> QED BY <1>1, <1>6, <2>1, <2>2, <2>3, NowDone
<1>8. CASE ~Ok(t)
  BY <1>1, <1>8, NothingStep
<1> QED BY <1>7, <1>8

\* Setting an empty mm_struct to empty changes nothing.
LEMMA SameMM ==
    ASSUME NEW s \in Machine, s.mm = NoMM
    PROVE  [s EXCEPT !.mm = NoMM] = s
BY DEF Machine

\* The argument is freed.
LEMMA FreeArgument ==
    ASSUME VmmInv, current # None, NEW s, Work(s, 1)
    PROVE  Work(kfree(s, "karg", 1), 0) /\ kfree(s, "karg", 1).mm = s.mm
<1>1. s \in Machine
  BY DEF Work, Sound
<1>2. "karg" \in Kind
  BY DEF Kind
<1>3. Charged(s, "karg", 0 - 1, kfree(s, "karg", 1))
  BY <1>1, <1>2, KFree
<1>4. Work(kfree(s, "karg", 1), 1 + (0 - 1))
  BY <1>3, WorkCharged
<1>5. 1 + (0 - 1) = 0
  OBVIOUS
<1>6. kfree(s, "karg", 1).mm = s.mm
  BY <1>3 DEF Charged
<1>7. Work(kfree(s, "karg", 1), 0)
  BY <1>4, <1>5
<1> QED BY <1>6, <1>7

\* do_execve frees the old address space and loads the new one, or the process exits.
LEMMA DoExecveStep ==
    ASSUME VmmAssumption, VmmInv, NEW prog \in Program, NEW open \in BOOLEAN,
           NEW k \in Nat, NEW r \in Nat, do_execve(prog, open, k, r)
    PROVE  VmmInv' /\ Isolated
<1> DEFINE s == With(proc[current].mm, k, r)
           s1 == kmalloc(s, "karg")
           u == free_mm(s1)
           s2 == [u EXCEPT !.mm = NoMM]
           s3 == load_icode(s2, prog)
           others == Others(proc, current)
<1>1. Running /\ current # None
  BY DEF do_execve, Running
<1>2. \/ ~Ok(s1) /\ UNCHANGED vars
      \/ Ok(s1) /\ ~open /\ exits(kfree(s1, "karg", 1))
      \/ Ok(s1) /\ open /\ Ok(s3) /\ Now(kfree(s3, "karg", 1))
      \/ /\ Ok(s1) /\ open /\ s3.err = "unhandled pgfault"
         /\ Panic(s3.err)
         /\ UNCHANGED <<mem, proc, current>>
      \/ /\ Ok(s1) /\ open /\ s3.err \notin {"", "unhandled pgfault"}
         /\ exits([kfree(s3, "karg", 1) EXCEPT !.mm = NoMM])
  BY DEF do_execve
<1>3. /\ Work(s, 0) /\ Ok(s) /\ Sound(s, others) /\ s \in Machine
  <2>1. Started(s)
    BY <1>1, StartFields
  <2> QED BY <2>1 DEF Started
<1> HIDE DEF s
<1>4. CASE ~Ok(s1)
  <2>1. UNCHANGED vars
    BY <1>2, <1>4
  <2>2. UNCHANGED <<mem, proc, current>>
    BY <2>1 DEF vars
  <2> QED BY <2>2, NothingStep
<1>5. CASE Ok(s1)
  <2>1. Charged(s, "karg", 1, s1)
    <3>1. "karg" \in Kind
      BY DEF Kind
    <3>2. \/ Charged(s, "karg", 1, s1)
          \/ s1.err = "E_NO_MEM"
      BY <1>3, <3>1, KMalloc
    <3>3. s1.err = ""
      BY <1>5 DEF Ok
    <3> HIDE DEF s1
    <3> QED BY <3>2, <3>3
  <2> HIDE DEF s1
  <2>2. Work(s1, 1)
    <3>1. Work(s1, 0 + 1)
      BY <1>1, <1>3, <2>1, WorkCharged
    <3>2. 0 + 1 = 1
      OBVIOUS
    <3> QED BY <3>1, <3>2
  <2>3. CASE ~open
    <3> DEFINE t == kfree(s1, "karg", 1)
    <3>1. exits(t)
      BY <1>2, <1>5, <2>3
    <3>2. Work(t, 0)
      BY <1>1, <2>2, FreeArgument
    <3> HIDE DEF t
    <3> QED BY <1>1, <3>1, <3>2, ExitsDone
  <2>4. CASE open
    <3>1. Sound(s1, others) /\ (s1.mm.pgdir = None => s1.mm = NoMM) /\ s1.err = ""
      BY <1>5, <2>2 DEF Work, Ok
    <3>2. MMFreed(s1, others, u)
      BY <3>1, FreeMM
    <3>3. /\ Sound(u, others) /\ Left(s1, u, others) /\ Balanced(s1, u) /\ u.err = ""
          /\ u.mm = NoMM /\ u \in Machine
      BY <3>1, <3>2 DEF MMFreed, Sound
    <3>4. s2 = u
      BY <3>3, SameMM
    <3> HIDE DEF u
    <3>5. Work(u, 1)
      <4>1. Safe(s1, u, others)
        BY <3>3, LeftSafe
      <4> QED BY <2>2, <3>3, <4>1, WorkSafe
    <3>6. IcodeLoaded(u, others, s3)
      <4>1. Segments(prog) /\ Ok(u)
        BY <3>3, ProgramSegments DEF Ok
      <4>2. IcodeLoaded(u, others, load_icode(u, prog))
        BY <3>3, <4>1, LoadIcode
      <4> QED BY <3>4, <4>2
    <3> HIDE DEF s3
    <3>7. /\ Sound(s3, others) /\ Safe(u, s3, others) /\ Balanced(u, s3)
          /\ s3.err = "" => Separate(s3.mm) /\ Filled(s3.mm) /\ s3.mm.pgdir # None
          /\ s3.err = "" \/ s3.err = "unhandled pgfault" \/ s3.mm = NoMM
      BY <3>6 DEF IcodeLoaded
    <3> DEFINE t == kfree(s3, "karg", 1)
    <3>8. CASE s3.err = "unhandled pgfault"
      <4>1. ~Ok(s3)
        BY <3>8 DEF Ok
      <4>2. UNCHANGED <<mem, proc, current>>
        BY <1>2, <1>5, <2>4, <3>8, <4>1
      <4> QED BY <4>2, NothingStep
    <3>9. CASE s3.err = ""
      <4>1. Ok(s3)
        BY <3>9 DEF Ok
      <4>2. Now(t)
        BY <1>2, <1>5, <2>4, <3>9, <4>1
      <4>3. Work(s3, 1)
        BY <3>5, <3>7, <3>9, WorkSafe
      <4>4. Work(t, 0) /\ t.mm = s3.mm
        BY <1>1, <4>3, FreeArgument
      <4> HIDE DEF t
      <4>5. Separate(t.mm) /\ Filled(t.mm)
        BY <3>7, <3>9, <4>4
      <4>6. /\ mem' = Mem(t) /\ proc' = [proc EXCEPT ![current].mm = t.mm] /\ current' = current
        BY <4>2 DEF Now
      <4> QED BY <1>1, <4>4, <4>5, <4>6, NowDone
    <3>10. CASE s3.err # "" /\ s3.err # "unhandled pgfault"
      <4>1. ~Ok(s3)
        BY <3>10 DEF Ok
      <4>2. exits([t EXCEPT !.mm = NoMM])
        BY <1>2, <1>5, <2>4, <3>10, <4>1
      <4>3. s3.mm = NoMM
        BY <3>7, <3>10
      <4>4. Work(s3, 1)
        BY <3>5, <3>7, <4>3, WorkSafe
      <4>5. Work(t, 0) /\ t.mm = NoMM
        BY <1>1, <4>3, <4>4, FreeArgument
      <4> HIDE DEF t
      <4>6. [t EXCEPT !.mm = NoMM] = t
        BY <4>5, SameMM DEF Work, Sound
      <4>7. exits(t)
        BY <4>2, <4>6
      <4> QED BY <1>1, <4>5, <4>7, ExitsDone
    <3> QED BY <3>8, <3>9, <3>10
  <2> QED BY <2>3, <2>4
<1> QED BY <1>4, <1>5

\* The end of do_wait gives back what the zombie still holds.
LEMMA DoWaitStep ==
    ASSUME VmmAssumption, VmmInv, NEW p \in Proc, do_wait(p)
    PROVE  VmmInv' /\ Isolated
<1> DEFINE s == With(NoMM, 0, 0)
           fs == proc[p].kstack
           u == free_pages(s, fs)
           t == kfree(u, "proc", 1)
           rest == Rest(proc, p)
<1>1. /\ Running /\ p # current /\ proc[p].state = "zombie" /\ mem' = Mem(t)
      /\ proc' = [proc EXCEPT ![p] = NoProc] /\ current' = current
  BY DEF do_wait
<1>2. /\ current # None /\ current \in Proc /\ proc[current].state = "live"
      /\ Exact(mem, proc) /\ Coherent(mem.tlb, PtesOf(proc, current))
  BY <1>1 DEF Running, VmmInv
<1>3. /\ mem \in Memory /\ proc \in [Proc -> Process] /\ Whole(proc[p])
  BY <1>2 DEF Exact
<1>4. proc[p].mm = NoMM /\ proc[p] \in Process /\ fs \in SUBSET Frame
  <2>1. proc[p].mm = NoMM
    BY <1>1, <1>3 DEF Whole
  <2> QED BY <1>3, <2>1 DEF Process, Frames
<1>5. /\ s \in Machine /\ s.free = mem.free /\ s.ref = mem.ref /\ s.page = mem.page
      /\ s.kmem = mem.kmem /\ s.tlb = mem.tlb /\ s.mm = NoMM
  <2>1. s = MachineOf(mem, NoMM, 0, 0)
    BY DEF With, MachineOf
  <2>2. NoMM \in MM
    BY NoMMFields
  <2> DEFINE m == MachineOf(mem, NoMM, 0, 0)
  <2>3. s = m
    BY <2>1
  <2>4. /\ m \in Machine /\ m.free = mem.free /\ m.ref = mem.ref /\ m.page = mem.page
        /\ m.kmem = mem.kmem /\ m.tlb = mem.tlb /\ m.mm = NoMM
    <3>1. mem \in Memory /\ 0 \in Nat
      BY <1>3
    <3> HIDE DEF s, fs, u, t, rest
    <3> QED BY <3>1, <2>2, MachineFields
  <2> HIDE DEF s, fs, u, t, rest, m
  <2> QED BY <2>3, <2>4
<1> HIDE DEF s
<1>6. Sound(s, Others(proc, p))
  <2>1. s.mm = proc[p].mm
    BY <1>4, <1>5
  <2> QED BY <1>2, <1>5, <2>1, SoundOf
<1>7. Freed(s, fs, u)
  BY <1>4, <1>5, FreePages
<1> HIDE DEF u
<1>8. fs \cap rest = {}
  BY <1>2 DEF Exact, Rest, Held
<1>9. Others(proc, p) \ fs = rest /\ fs \in SUBSET Others(proc, p)
  BY <1>8 DEF Others
<1>10. Sound(u, rest) /\ Kept(s, u, rest)
  <2>1. Sound(u, Others(proc, p) \ fs) /\ Kept(s, u, Others(proc, p) \ fs)
    BY <1>6, <1>7, <1>9, GiveBack
  <2> QED BY <1>9, <2>1
<1>11. u \in Machine /\ u.kmem = s.kmem /\ u.tlb = s.tlb /\ u.mm = s.mm
  BY <1>7 DEF Freed
<1>12. Charged(u, "proc", 0 - 1, t)
  <2>1. "proc" \in Kind
    BY DEF Kind
  <2> QED BY <1>11, <2>1, KFree
<1> HIDE DEF t
<1>13. Sound(t, rest) /\ Left(u, t, rest)
  BY <1>10, <1>12, ChargedSound
<1>14. /\ t.mm = NoMM /\ t.tlb = mem.tlb /\ t \in Machine
       /\ \A k \in Kind : t.kmem[k] = mem.kmem[k] + (IF k = "proc" THEN 0 - 1 ELSE 0)
  BY <1>5, <1>11, <1>12 DEF Charged
<1>15. \A f \in rest : t.ref[f] = mem.ref[f] /\ t.page[f] = mem.page[f]
  BY <1>5, <1>10, <1>13 DEF Kept, Left
<1>16. /\ NoProc.state = "none" /\ NoProc.kstack = {} /\ NoProc.mm = NoMM /\ NoProc \in Process
  BY NoMMFields DEF NoProc, Process, State, Frames
<1>17. Whole(NoProc)
  <2>1. Apart(NoMM) /\ Placed(NoMM)
    BY <1>13, <1>14 DEF Sound
  <2>2. Separate(NoMM) /\ Filled(NoMM)
    BY NoMMFields, NoAreas
  <2> QED BY <1>16, <2>1, <2>2 DEF Whole
<1>18. ASSUME NEW k \in Kind PROVE t.kmem[k] - Uses(NoProc, k) = mem.kmem[k] - Uses(proc[p], k)
  <2> DEFINE a == t.kmem[k]
             d == mem.kmem[k]
  <2>1. a = d + (IF k = "proc" THEN 0 - 1 ELSE 0)
    BY <1>14
  <2>2. d \in Int
    BY <1>3 DEF Memory, Objects
  <2>3. Uses(NoProc, k) = 0
    BY <1>16, NoMMFields DEF Uses, Needs
  <2>4. Uses(proc[p], k) = IF k = "proc" THEN 1 ELSE 0
    BY <1>1, <1>4, NoMMFields DEF Uses, Needs
  <2> HIDE DEF a, d
  <2>5. a - 0 = d - (IF k = "proc" THEN 1 ELSE 0)
    <3>1. CASE k = "proc"
      BY <2>1, <2>2, <3>1
    <3>2. CASE k # "proc"
      BY <2>1, <2>2, <3>2
    <3> QED BY <3>1, <3>2
  <2> QED BY <2>3, <2>4, <2>5 DEF a, d
<1>19. Changed(mem, proc, p, NoProc, t)
  <2>1. rest \cup NoProc.kstack = rest /\ NoProc.kstack \cap rest = {}
    BY <1>16
  <2> QED BY <1>13, <1>14, <1>15, <1>16, <1>17, <1>18, <2>1 DEF Changed
<1>20. /\ proc'[current'] = proc[current]
  BY <1>1, <1>2, <1>3
<1>21. Coherent(t.tlb, PtesOf(proc', current'))
  BY <1>1, <1>2, <1>14, <1>20 DEF PtesOf
<1>22. current' \in Proc \cup {None} /\ (current' # None => proc'[current'].state = "live")
  BY <1>1, <1>2, <1>20
<1>23. proc[p].state = "none" => NoProc.state # "live"
  BY <1>1
<1> QED BY <1>1, <1>4, <1>19, <1>21, <1>22, <1>23, StepDone

-----------------------------------------------------------------------------
(* fork.                                                                   *)

\* A finite set of numbers has its n lowest.
LEMMA Lowest ==
    ASSUME NEW S \in SUBSET Nat, IsFiniteSet(S), NEW n \in 0..Cardinality(S)
    PROVE  \E fs \in SUBSET S : Cardinality(fs) = n /\ \A f \in fs : \A g \in S \ fs : f < g
<1> DEFINE Low(fs, m) == /\ fs \in SUBSET S /\ Cardinality(fs) = m
                         /\ \A f \in fs : \A g \in S \ fs : f < g
           T == {m \in 0..n : \E fs : Low(fs, m)}
<1>0. Cardinality(S) \in Nat /\ n \in Nat
  BY FS_CardinalityType
<1>1. 0 \in T
  <2>1. Cardinality({}) = 0
    BY FS_EmptySet
  <2>2. Low({}, 0)
    BY <2>1
  <2> HIDE DEF Low
  <2> QED BY <1>0, <2>2
<1>2. ASSUME NEW m \in 1..n, m - 1 \in T PROVE m \in T
  <2>1. PICK fs : Low(fs, m - 1)
    BY <1>2
  <2>2. fs \in SUBSET S /\ IsFiniteSet(fs) /\ Cardinality(fs) = m - 1
    BY <2>1, FS_Subset
  <2>3. S \ fs # {}
    <3>1. m - 1 < Cardinality(S)
      BY <1>0
    <3>2. fs # S
      BY <1>0, <2>2, <3>1
    <3> QED BY <2>2, <3>2
  <2>4. PICK x \in S \ fs : \A g \in S \ fs : x <= g
    <3>1. S \ fs \in SUBSET Nat
      OBVIOUS
    <3> QED BY <2>3, <3>1, LeastNatural
  <2>5. Cardinality(fs \cup {x}) = m
    <3>1. Cardinality(fs \cup {x}) = Cardinality(fs) + 1
      BY <2>2, <2>4, FS_AddElement
    <3> QED BY <2>2, <3>1
  <2>6. ASSUME NEW f \in fs \cup {x}, NEW g \in S \ (fs \cup {x}) PROVE f < g
    <3>1. CASE f \in fs
      <4>1. g \in S \ fs
        OBVIOUS
      <4> QED BY <2>1, <3>1, <4>1
    <3>2. CASE f = x
      <4>1. x <= g /\ x # g /\ x \in Nat /\ g \in Nat
        BY <2>4
      <4> QED BY <3>2, <4>1
    <3> QED BY <3>1, <3>2
  <2>7. Low(fs \cup {x}, m)
    BY <2>2, <2>4, <2>5, <2>6
  <2> HIDE DEF Low
  <2>8. m \in 0..n
    OBVIOUS
  <2> QED BY <2>7, <2>8
<1>3. n \in T
  <2> HIDE DEF T
  <2>1. \A i \in 1..n : i - 1 \in T => i \in T
    BY <1>2
  <2>2. \A i \in 0..n : i \in T
    BY <1>0, <1>1, <2>1, Turns
  <2>3. n \in 0..n
    BY <1>0
  <2> QED BY <2>2, <2>3
<1> QED BY <1>3

\* The frames of a kernel stack.
StackTaken(s, fs, others, t) ==
    /\ fs \in SUBSET s.free /\ fs \cap others = {} /\ Sound(t, others \cup fs)
    /\ t.kstack = fs /\ t.ref = s.ref /\ t.page = s.page /\ t.kmem = s.kmem
    /\ t.tlb = s.tlb /\ t.mm = s.mm /\ t.err = s.err

\* The frames of a kernel stack are no one else's.
LEMMA TakeFrames ==
    ASSUME NEW others, NEW s, Sound(s, others), NEW fs \in SUBSET s.free
    PROVE  StackTaken(s, fs, others, [s EXCEPT !.free = @ \ fs, !.kstack = fs])
<1> DEFINE t == [s EXCEPT !.free = @ \ fs, !.kstack = fs]
<1>1. s \in Machine /\ s.free \in SUBSET Frame /\ others \in SUBSET Frame
  BY Fields DEF Sound, Frames
<1>2. s.free \ fs \in Frames /\ fs \in Frames
  BY <1>1 DEF Frames
<1>3. /\ t \in Machine /\ t.free = s.free \ fs /\ t.ref = s.ref /\ t.mm = s.mm /\ t.page = s.page
      /\ t.kmem = s.kmem /\ t.tlb = s.tlb /\ t.err = s.err /\ t.kstack = fs
  BY <1>1, <1>2 DEF Machine
<1> HIDE DEF t
<1>4. /\ s.free \cap others = {} /\ s.free \cap Parts(s.mm) = {}
      /\ others \cap Parts(s.mm) = {} /\ Frame = s.free \cup others \cup Parts(s.mm)
  BY DEF Sound
<1>5. /\ (s.free \ fs) \cap (others \cup fs) = {} /\ (s.free \ fs) \cap Parts(s.mm) = {}
      /\ (others \cup fs) \cap Parts(s.mm) = {}
      /\ Frame = (s.free \ fs) \cup (others \cup fs) \cup Parts(s.mm)
      /\ fs \cap others = {} /\ others \cup fs \in Frames
  BY <1>1, <1>4 DEF Frames
<1>6. \A g \in s.free \ fs : s.ref[g] = 0
  BY DEF Sound
<1>7. Sound(t, others \cup fs)
  BY <1>3, <1>5, <1>6 DEF Sound
<1>8. StackTaken(s, fs, others, t)
  BY <1>3, <1>5, <1>7 DEF StackTaken
<1> QED BY <1>8 DEF t

\* setup_kstack takes the frames of a kernel stack, or fails and changes nothing.
LEMMA SetupKstack ==
    ASSUME VmmAssumption, NEW others, NEW s, Sound(s, others)
    PROVE  \/ \E fs : StackTaken(s, fs, others, setup_kstack(s))
           \/ /\ Alike(s, setup_kstack(s)) /\ setup_kstack(s).tlb = s.tlb
              /\ setup_kstack(s).err = "E_NO_MEM"
<1>1. s \in Machine /\ s.free \in SUBSET Frame
  BY Fields DEF Sound, Frames
<1>2. CASE Cardinality(s.free) < KSTACKPAGE
  <2>1. setup_kstack(s) = Fail(s, "E_NO_MEM")
    BY <1>2 DEF setup_kstack
  <2>2. "E_NO_MEM" \in Error
    BY DEF Error
  <2>3. /\ Alike(s, Fail(s, "E_NO_MEM")) /\ Fail(s, "E_NO_MEM").tlb = s.tlb
        /\ Fail(s, "E_NO_MEM").err = "E_NO_MEM"
    BY <1>1, <2>2, FailFields
  <2> QED BY <2>1, <2>3
<1>3. CASE ~(Cardinality(s.free) < KSTACKPAGE)
  <2> DEFINE Low(fs) == /\ Cardinality(fs) = KSTACKPAGE
                        /\ \A f \in fs : \A g \in s.free \ fs : f < g
             fs == CHOOSE fs \in SUBSET s.free : Low(fs)
  <2>1. IsFiniteSet(s.free)
    <3>1. NFRAME \in Nat
      BY DEF VmmAssumption
    <3>2. IsFiniteSet(Frame)
      BY <3>1, FS_Interval DEF Frame
    <3> QED BY <1>1, <3>2, FS_Subset
  <2>2. KSTACKPAGE \in 0..Cardinality(s.free)
    <3>1. Cardinality(s.free) \in Nat
      BY <2>1, FS_CardinalityType
    <3>2. KSTACKPAGE \in Nat
      BY DEF VmmAssumption
    <3> QED BY <1>3, <3>1, <3>2
  <2>3. \E gs \in SUBSET s.free : Low(gs)
    <3>1. s.free \in SUBSET Nat
      BY <1>1 DEF Frame
    <3> QED BY <2>1, <2>2, <3>1, Lowest
  <2>4. setup_kstack(s) = [s EXCEPT !.free = @ \ fs, !.kstack = fs]
    BY <1>3 DEF setup_kstack
  <2>5. fs \in SUBSET s.free
    <3> HIDE DEF Low
    <3> QED BY <2>3
  <2> HIDE DEF fs
  <2>6. StackTaken(s, fs, others, setup_kstack(s))
    <3>1. StackTaken(s, fs, others, [s EXCEPT !.free = @ \ fs, !.kstack = fs])
      BY <2>5, TakeFrames
    <3> QED BY <2>4, <3>1
  <2> QED BY <2>6
<1> QED BY <1>2, <1>3

\* The number of the step of do_fork that failed.
LEMMA StageOf ==
    ASSUME NEW S \in SUBSET {1, 2, 3}, 2 \in S => 1 \in S, 3 \in S => 2 \in S
    PROVE  /\ 1 \notin S => Cardinality(S) + 1 = 1
           /\ 1 \in S /\ 2 \notin S => Cardinality(S) + 1 = 2
           /\ 2 \in S /\ 3 \notin S => Cardinality(S) + 1 = 3
           /\ 3 \in S => Cardinality(S) + 1 = 4
<1>1. \A n \in Nat : Cardinality(1..n) = n
  <2> TAKE n \in Nat
  <2>1. Cardinality(1..n) = IF 1 > n THEN 0 ELSE n - 1 + 1
    BY FS_Interval
  <2> QED BY <2>1
<1>2. CASE 1 \notin S
  <2>1. S = 1..0
    BY <1>2
  <2> QED BY <1>1, <1>2, <2>1
<1>3. CASE 1 \in S /\ 2 \notin S
  <2>1. S = 1..1
    <3>1. S = {1}
      BY <1>3
    <3>2. 1..1 = {1}
      OBVIOUS
    <3> QED BY <3>1, <3>2
  <2>2. Cardinality(S) = 1
    BY <1>1, <2>1
  <2> QED BY <1>3, <2>2
<1>4. CASE 2 \in S /\ 3 \notin S
  <2>1. S = 1..2
    <3>1. S = {1, 2}
      BY <1>4
    <3>2. 1..2 = {1, 2}
      OBVIOUS
    <3> QED BY <3>1, <3>2
  <2>2. Cardinality(S) = 2
    BY <1>1, <2>1
  <2> QED BY <1>4, <2>2
<1>5. CASE 3 \in S
  <2>1. S = 1..3
    <3>1. S = {1, 2, 3}
      BY <1>5
    <3>2. 1..3 = {1, 2, 3}
      OBVIOUS
    <3> QED BY <3>1, <3>2
  <2>2. Cardinality(S) = 3
    BY <1>1, <2>1
  <2> QED BY <1>5, <2>2
<1> QED BY <1>2, <1>3, <1>4, <1>5

\* What do_fork may have made of the memory: fs is the child's kernel stack, and
\* the child has a objects proc and b objects fs.
Forking(s, child, fs, a, b) ==
    /\ Sound(s, Rest(proc, child) \cup fs)
    /\ fs \cap Rest(proc, child) = {}
    /\ \A f \in Rest(proc, child) : s.ref[f] = mem.ref[f] /\ s.page[f] = mem.page[f]
    /\ s.tlb \in {NoTlb, mem.tlb}
    /\ \A k \in Kind : s.kmem[k] - Needs(s.mm, k) =
          mem.kmem[k] + (IF k = "proc" THEN a ELSE IF k = "fs" THEN b ELSE 0)

\* The child's objects are handed out and freed.
LEMMA ForkingCharged ==
    ASSUME mem \in Memory, NEW child, NEW fs, NEW a \in Int, NEW b \in Int, NEW s,
           Forking(s, child, fs, a, b), NEW kind, NEW n \in Int, NEW t, Charged(s, kind, n, t)
    PROVE  /\ kind = "proc" => Forking(t, child, fs, a + n, b)
           /\ kind = "fs" => Forking(t, child, fs, a, b + n)
<1> DEFINE others == Rest(proc, child) \cup fs
<1>1. Sound(s, others)
  BY DEF Forking
<1>2. Sound(t, others) /\ Left(s, t, others) /\ t.mm = s.mm
  BY <1>1, ChargedSound DEF Charged
<1>3. \A f \in Rest(proc, child) : t.ref[f] = mem.ref[f] /\ t.page[f] = mem.page[f]
  BY <1>2 DEF Forking, Left
<1>4. t.tlb \in {NoTlb, mem.tlb} /\ fs \cap Rest(proc, child) = {}
  BY DEF Charged, Forking
<1>5. ASSUME NEW k \in Kind
      PROVE  t.kmem[k] - Needs(t.mm, k) =
                mem.kmem[k] + (IF k = "proc" THEN a ELSE IF k = "fs" THEN b ELSE 0)
                + (IF k = kind THEN n ELSE 0)
  <2> DEFINE x == t.kmem[k]
             y == s.kmem[k]
             z == mem.kmem[k]
             e == Needs(s.mm, k)
             c == IF k = "proc" THEN a ELSE IF k = "fs" THEN b ELSE 0
             d == IF k = kind THEN n ELSE 0
  <2>1. x = y + d /\ Needs(t.mm, k) = e
    BY <1>2 DEF Charged
  <2>2. y - e = z + c
    BY DEF Forking
  <2>3. y \in Int /\ z \in Int /\ e \in Int
    <3>1. y \in Int /\ s.mm \in MM
      BY <1>1, Fields DEF Sound, Objects
    <3>2. z \in Int
      BY DEF Memory, Objects
    <3> QED BY <3>1, <3>2, NeedsInt
  <2>4. c \in Int /\ d \in Int
    OBVIOUS
  <2> HIDE DEF x, y, z, e, c, d
  <2>5. x - e = z + c + d
    BY <2>1, <2>2, <2>3, <2>4
  <2> QED BY <2>1, <2>5 DEF x, z, e, c, d
<1>6. \A k \in Kind : mem.kmem[k] \in Int
  BY DEF Memory, Objects
<1>7. ASSUME kind = "proc" PROVE Forking(t, child, fs, a + n, b)
  <2>1. ASSUME NEW k \in Kind
        PROVE  t.kmem[k] - Needs(t.mm, k) =
                  mem.kmem[k] + (IF k = "proc" THEN a + n ELSE IF k = "fs" THEN b ELSE 0)
    <3> DEFINE x == t.kmem[k] - Needs(t.mm, k)
               z == mem.kmem[k]
    <3>1. x = z + (IF k = "proc" THEN a ELSE IF k = "fs" THEN b ELSE 0)
                + (IF k = "proc" THEN n ELSE 0) /\ z \in Int
      BY <1>5, <1>6, <1>7
    <3> HIDE DEF x, z
    <3>2. x = z + (IF k = "proc" THEN a + n ELSE IF k = "fs" THEN b ELSE 0)
      <4>1. CASE k = "proc"
        BY <3>1, <4>1
      <4>2. CASE k = "fs"
        BY <3>1, <4>2
      <4>3. CASE k # "proc" /\ k # "fs"
        BY <3>1, <4>3
      <4> QED BY <4>1, <4>2, <4>3
    <3> QED BY <3>2 DEF x, z
  <2> QED BY <1>2, <1>3, <1>4, <2>1 DEF Forking
<1>8. ASSUME kind = "fs" PROVE Forking(t, child, fs, a, b + n)
  <2>1. ASSUME NEW k \in Kind
        PROVE  t.kmem[k] - Needs(t.mm, k) =
                  mem.kmem[k] + (IF k = "proc" THEN a ELSE IF k = "fs" THEN b + n ELSE 0)
    <3> DEFINE x == t.kmem[k] - Needs(t.mm, k)
               z == mem.kmem[k]
    <3>1. x = z + (IF k = "proc" THEN a ELSE IF k = "fs" THEN b ELSE 0)
                + (IF k = "fs" THEN n ELSE 0) /\ z \in Int
      BY <1>5, <1>6, <1>8
    <3> HIDE DEF x, z
    <3>2. x = z + (IF k = "proc" THEN a ELSE IF k = "fs" THEN b + n ELSE 0)
      <4>1. CASE k = "proc"
        BY <3>1, <4>1
      <4>2. CASE k = "fs"
        BY <3>1, <4>2
      <4>3. CASE k # "proc" /\ k # "fs"
        BY <3>1, <4>3
      <4> QED BY <4>1, <4>2, <4>3
    <3> QED BY <3>2 DEF x, z
  <2> QED BY <1>2, <1>3, <1>4, <2>1 DEF Forking
<1> QED BY <1>7, <1>8

\* Operations on the child's address space, and those that only fail.
LEMMA ForkingLeft ==
    ASSUME NEW child, NEW fs, NEW a, NEW b, NEW s, Forking(s, child, fs, a, b), NEW t,
           Sound(t, Rest(proc, child) \cup fs), Left(s, t, Rest(proc, child) \cup fs),
           Balanced(s, t)
    PROVE  Forking(t, child, fs, a, b)
BY DEF Forking, Left, Balanced

\* The kernel stack is freed.
LEMMA ForkingFreed ==
    ASSUME NEW child, NEW fs, NEW a, NEW b, NEW s, Forking(s, child, fs, a, b)
    PROVE  /\ Forking(free_pages(s, fs), child, {}, a, b)
           /\ free_pages(s, fs).mm = s.mm
<1> DEFINE rest == Rest(proc, child)
           t == free_pages(s, fs)
<1>1. Sound(s, rest \cup fs) /\ fs \cap rest = {}
  BY DEF Forking
<1>2. s \in Machine /\ fs \in SUBSET Frame
  BY <1>1 DEF Sound, Frames
<1>3. Freed(s, fs, t)
  BY <1>2, FreePages
<1> HIDE DEF t
<1>4. (rest \cup fs) \ fs = rest /\ fs \in SUBSET (rest \cup fs)
  BY <1>1
<1>5. Sound(t, rest) /\ Kept(s, t, rest)
  <2>1. Sound(t, (rest \cup fs) \ fs) /\ Kept(s, t, (rest \cup fs) \ fs)
    BY <1>1, <1>3, <1>4, GiveBack
  <2> QED BY <1>4, <2>1
<1>6. t.mm = s.mm /\ t.kmem = s.kmem /\ t.tlb = s.tlb
  BY <1>3 DEF Freed
<1>7. rest \cup {} = rest /\ {} \cap rest = {}
  OBVIOUS
<1>8. \A f \in rest : t.ref[f] = mem.ref[f] /\ t.page[f] = mem.page[f]
  BY <1>5 DEF Forking, Kept
<1>9. Forking(t, child, {}, a, b)
  BY <1>5, <1>6, <1>7, <1>8 DEF Forking
<1> QED BY <1>6, <1>9 DEF t

\* The labels of do_fork.
LEMMA ForkCleanup ==
    ASSUME mem \in Memory, NEW child, NEW fs, NEW s, s.mm = NoMM, s.kstack = fs
    PROVE  /\ Forking(s, child, {}, 0, 0) =>
                 Forking(fork_cleanup(s, 1), child, {}, 0, 0) /\ fork_cleanup(s, 1).mm = NoMM
           /\ Forking(s, child, {}, 1, 0) =>
                 Forking(fork_cleanup(s, 2), child, {}, 0, 0) /\ fork_cleanup(s, 2).mm = NoMM
           /\ Forking(s, child, fs, 1, 0) =>
                 Forking(fork_cleanup(s, 3), child, {}, 0, 0) /\ fork_cleanup(s, 3).mm = NoMM
           /\ Forking(s, child, fs, 1, 1) =>
                 Forking(fork_cleanup(s, 4), child, {}, 0, 0) /\ fork_cleanup(s, 4).mm = NoMM
<1>1. "proc" \in Kind /\ "fs" \in Kind
  BY DEF Kind
<1>2. 1 + (0 - 1) = 0 /\ 0 - 1 \in Int /\ 0 \in Int /\ 1 \in Int
  OBVIOUS
<1>3. ASSUME NEW t, NEW gs, Forking(t, child, gs, 1, 0), t.mm = NoMM
      PROVE  Forking(kfree(t, "proc", 1), child, gs, 0, 0) /\ kfree(t, "proc", 1).mm = NoMM
  <2> DEFINE u == kfree(t, "proc", 1)
  <2>1. t \in Machine
    BY <1>3 DEF Forking, Sound
  <2>2. Charged(t, "proc", 0 - 1, u)
    BY <1>1, <2>1, KFree
  <2> HIDE DEF u
  <2>3. Forking(u, child, gs, 1 + (0 - 1), 0)
    BY <1>2, <1>3, <2>2, ForkingCharged
  <2>4. u.mm = NoMM
    BY <1>3, <2>2 DEF Charged
  <2>5. Forking(u, child, gs, 0, 0)
    BY <1>2, <2>3
  <2> QED BY <2>4, <2>5 DEF u
<1>4. ASSUME NEW t, Forking(t, child, fs, 1, 0), t.mm = NoMM
      PROVE  /\ Forking(kfree(free_pages(t, fs), "proc", 1), child, {}, 0, 0)
             /\ kfree(free_pages(t, fs), "proc", 1).mm = NoMM
  <2>1. Forking(free_pages(t, fs), child, {}, 1, 0) /\ free_pages(t, fs).mm = NoMM
    BY <1>4, ForkingFreed
  <2> QED BY <1>3, <2>1
<1>5. ASSUME Forking(s, child, {}, 0, 0)
      PROVE  Forking(fork_cleanup(s, 1), child, {}, 0, 0) /\ fork_cleanup(s, 1).mm = NoMM
  <2>1. fork_cleanup(s, 1) = s
    BY DEF fork_cleanup
  <2> QED BY <1>5, <2>1
<1>6. ASSUME Forking(s, child, {}, 1, 0)
      PROVE  Forking(fork_cleanup(s, 2), child, {}, 0, 0) /\ fork_cleanup(s, 2).mm = NoMM
  <2>1. fork_cleanup(s, 2) = kfree(s, "proc", 1)
    BY DEF fork_cleanup
  <2> QED BY <1>3, <1>6, <2>1
<1>7. ASSUME Forking(s, child, fs, 1, 0)
      PROVE  Forking(fork_cleanup(s, 3), child, {}, 0, 0) /\ fork_cleanup(s, 3).mm = NoMM
  <2>1. fork_cleanup(s, 3) = kfree(free_pages(s, fs), "proc", 1)
    BY DEF fork_cleanup
  <2> QED BY <1>4, <1>7, <2>1
<1>8. ASSUME Forking(s, child, fs, 1, 1)
      PROVE  Forking(fork_cleanup(s, 4), child, {}, 0, 0) /\ fork_cleanup(s, 4).mm = NoMM
  <2> DEFINE u == kfree(s, "fs", 1)
  <2>1. fork_cleanup(s, 4) = kfree(free_pages(u, fs), "proc", 1)
    BY DEF fork_cleanup
  <2>2. s \in Machine
    BY <1>8 DEF Forking, Sound
  <2>3. Charged(s, "fs", 0 - 1, u)
    BY <1>1, <2>2, KFree
  <2> HIDE DEF u
  <2>4. Forking(u, child, fs, 1, 1 + (0 - 1))
    BY <1>2, <1>8, <2>3, ForkingCharged
  <2>5. u.mm = NoMM
    BY <2>3 DEF Charged
  <2>6. Forking(u, child, fs, 1, 0)
    BY <1>2, <2>4
  <2> QED BY <1>4, <2>1, <2>5, <2>6
<1> QED BY <1>5, <1>6, <1>7, <1>8

\* The child and its parent.
LEMMA ForkingChild ==
    ASSUME VmmInv, Running, NEW child \in Proc, proc[child].state = "none"
    PROVE  /\ child # current /\ current \in Proc /\ current # None
           /\ mem \in Memory /\ proc \in [Proc -> Process]
           /\ Whole(proc[child]) /\ proc[child].kstack = {} /\ proc[child].mm = NoMM
           /\ \A q \in Proc : q # child => Held(proc[q]) \in SUBSET Rest(proc, child)
           /\ Original(proc[current].mm, Rest(proc, child))
<1>1. /\ current # None /\ current \in Proc /\ proc[current].state = "live" /\ Exact(mem, proc)
  BY DEF Running, VmmInv
<1>2. /\ mem \in Memory /\ proc \in [Proc -> Process]
      /\ Whole(proc[child]) /\ Whole(proc[current])
  BY <1>1 DEF Exact
<1>3. proc[child].kstack = {} /\ proc[child].mm = NoMM
  BY <1>2 DEF Whole
<1>4. child # current
  BY <1>1
<1>5. \A q \in Proc : q # child => Held(proc[q]) \in SUBSET Rest(proc, child)
  BY DEF Rest
<1>6. proc[current].mm \in MM
  BY <1>1, <1>2 DEF Process
<1>7. ASSUME NEW la \in Va, proc[current].mm.pte[la] # NoMap
      PROVE  proc[current].mm.pte[la].frame \in Rest(proc, child)
  <2>1. proc[current].mm.pte[la].frame # None
    <3>1. proc[current].mm.pte[la] \in Map
      BY <1>6, MMFields DEF Ptes
    <3> QED BY <1>7, <3>1 DEF Map, Frame, None
  <2>2. proc[current].mm.pte[la].frame \in Held(proc[current])
    BY <2>1 DEF Held, Parts, PagesOf
  <2> QED BY <1>1, <1>4, <1>5, <2>2
<1>8. Original(proc[current].mm, Rest(proc, child))
  BY <1>2, <1>6, <1>7 DEF Original, Whole
<1> QED BY <1>1, <1>2, <1>3, <1>4, <1>5, <1>8

\* fork has failed: all that it took is given back.
LEMMA ForkFailed ==
    ASSUME VmmAssumption, VmmInv, Running, NEW child \in Proc, proc[child].state = "none",
           NEW t, Forking(t, child, {}, 0, 0), t.mm = NoMM,
           mem' = Mem(t), UNCHANGED <<proc, current>>
    PROVE  VmmInv' /\ Isolated
<1> DEFINE x == proc[child]
<1>1. /\ child # current /\ current \in Proc /\ current # None /\ mem \in Memory
      /\ proc \in [Proc -> Process] /\ Whole(x) /\ x.kstack = {} /\ x.mm = NoMM
  BY ForkingChild
<1>2. /\ Sound(t, Rest(proc, child))
      /\ \A f \in Rest(proc, child) : t.ref[f] = mem.ref[f] /\ t.page[f] = mem.page[f]
      /\ t.tlb \in {NoTlb, mem.tlb}
  <2>1. Rest(proc, child) \cup {} = Rest(proc, child)
    OBVIOUS
  <2> QED BY <2>1 DEF Forking
<1>3. ASSUME NEW k \in Kind PROVE t.kmem[k] - Uses(x, k) = mem.kmem[k] - Uses(proc[child], k)
  <2>1. t.kmem[k] - Needs(t.mm, k) = mem.kmem[k] + 0
    BY DEF Forking
  <2>2. Needs(t.mm, k) = 0
    BY NoMMFields DEF Needs
  <2>3. t.kmem[k] \in Int /\ mem.kmem[k] \in Int
    BY <1>1, <1>2, Fields DEF Sound, Objects, Memory
  <2>4. t.kmem[k] = mem.kmem[k]
    BY <2>1, <2>2, <2>3
  <2> QED BY <2>4
<1>4. proc' = [proc EXCEPT ![child] = x] /\ proc' = proc /\ current' = current
  BY <1>1
<1>5. Changed(mem, proc, child, x, t)
  <2>1. Rest(proc, child) \cup x.kstack = Rest(proc, child) /\ x.kstack \cap Rest(proc, child) = {}
    BY <1>1
  <2> QED BY <1>1, <1>2, <1>3, <2>1 DEF Changed
<1>6. Coherent(t.tlb, PtesOf(proc', current'))
  <2>1. Coherent(mem.tlb, PtesOf(proc, current))
    BY DEF VmmInv
  <2> QED BY <1>2, <1>4, <2>1, NoTlbCoherent
<1>7. current' \in Proc \cup {None} /\ (current' # None => proc'[current'].state = "live")
  BY <1>4 DEF VmmInv
<1>8. proc[child].mm = NoMM /\ (proc[child].state = "none" => x.state # "live")
  BY <1>1
<1> HIDE DEF x
<1> QED BY <1>4, <1>5, <1>6, <1>7, <1>8, StepDone

\* fork has made a child with a copy of the parent's pages.
LEMMA ForkDone ==
    ASSUME VmmAssumption, VmmInv, Running, NEW child \in Proc, proc[child].state = "none",
           NEW fs, NEW t, Forking(t, child, fs, 1, 1), t.mm.pgdir = None => t.mm = NoMM,
           Separate(t.mm), Filled(t.mm),
           \A la \in Va : SamePage(proc[current].mm, la, mem.page, t),
           mem' = Mem(t), current' = current,
           proc' = [proc EXCEPT ![child] = [state |-> "live", kstack |-> fs, mm |-> t.mm]]
    PROVE  VmmInv' /\ Isolated
<1> DEFINE x == [state |-> "live", kstack |-> fs, mm |-> t.mm]
<1>1. /\ child # current /\ current \in Proc /\ current # None /\ mem \in Memory
      /\ proc \in [Proc -> Process] /\ proc[child].mm = NoMM
      /\ \A q \in Proc : q # child => Held(proc[q]) \in SUBSET Rest(proc, child)
  BY ForkingChild
<1>2. /\ Sound(t, Rest(proc, child) \cup fs) /\ fs \cap Rest(proc, child) = {}
      /\ \A f \in Rest(proc, child) : t.ref[f] = mem.ref[f] /\ t.page[f] = mem.page[f]
      /\ t.tlb \in {NoTlb, mem.tlb}
  BY DEF Forking
<1>3. /\ x.state = "live" /\ x.kstack = fs /\ x.mm = t.mm
  OBVIOUS
<1>4. x \in Process
  <2>1. t.mm \in MM /\ fs \in Frames
    BY <1>2, Fields DEF Sound, Frames
  <2> QED BY <2>1 DEF Process, State
<1>5. proc' = [proc EXCEPT ![child] = x]
  OBVIOUS
<1> HIDE DEF x
<1>6. Whole(x)
  <2>1. x.kstack \cap Parts(x.mm) = {} /\ Apart(x.mm) /\ Placed(x.mm)
    BY <1>2, <1>3 DEF Sound
  <2> QED BY <1>3, <1>4, <2>1 DEF Whole
<1>7. ASSUME NEW k \in Kind PROVE t.kmem[k] - Uses(x, k) = mem.kmem[k] - Uses(proc[child], k)
  <2> DEFINE a == t.kmem[k]
             d == mem.kmem[k]
             e == Needs(t.mm, k)
  <2>1. a - e = d + (IF k = "proc" THEN 1 ELSE IF k = "fs" THEN 1 ELSE 0)
    BY DEF Forking
  <2>2. a \in Int /\ d \in Int /\ e \in Int
    <3>1. a \in Int /\ t.mm \in MM
      BY <1>2, Fields DEF Sound, Objects
    <3>2. d \in Int
      BY <1>1 DEF Memory, Objects
    <3> QED BY <3>1, <3>2, NeedsInt
  <2>3. Uses(proc[child], k) = 0
    BY <1>1, NoMMFields DEF Uses, Needs
  <2>4. /\ (k = "proc" \/ k = "fs") => Uses(x, k) = 1 /\ e = 0
        /\ k # "proc" /\ k # "fs" => Uses(x, k) = e
    BY <1>3 DEF Uses, Needs
  <2> HIDE DEF a, d, e
  <2>5. CASE k = "proc" \/ k = "fs"
    <3>1. a - e = d + 1
      BY <2>1, <2>5
    <3>2. a - 1 = d - 0
      BY <2>2, <2>4, <2>5, <3>1
    <3> QED BY <2>3, <2>4, <2>5, <3>2 DEF a, d
  <2>6. CASE k # "proc" /\ k # "fs"
    <3>1. a - e = d + 0
      BY <2>1, <2>6
    <3>2. a - e = d - 0
      BY <2>2, <3>1
    <3> QED BY <2>3, <2>4, <2>6, <3>2 DEF a, d
  <2> QED BY <2>5, <2>6
<1>8. Changed(mem, proc, child, x, t)
  BY <1>2, <1>3, <1>6, <1>7 DEF Changed
<1>9. proc'[child] = x /\ \A q \in Proc : q # child => proc'[q] = proc[q]
  BY <1>1, <1>5
<1>10. Coherent(t.tlb, PtesOf(proc', current'))
  <2>1. Coherent(mem.tlb, PtesOf(proc, current))
    BY DEF VmmInv
  <2>2. PtesOf(proc', current') = PtesOf(proc, current)
    BY <1>1, <1>9 DEF PtesOf
  <2> QED BY <1>2, <2>1, <2>2, NoTlbCoherent
<1>11. current' \in Proc \cup {None} /\ (current' # None => proc'[current'].state = "live")
  BY <1>1, <1>9 DEF VmmInv
<1>12. VmmInv'
  BY <1>5, <1>8, <1>10, <1>11, StepInv
<1>13. mem'.page = t.page
  BY DEF Mem
<1>14. ASSUME NEW q \in Proc, q # current, proc[q].mm # NoMM, NEW f \in Mapped(q)
       PROVE  mem'.page[f] = mem.page[f]
  <2>1. q # child
    BY <1>1, <1>14
  <2>2. f \in Held(proc[q])
    BY <1>14 DEF Mapped, Held, Parts, PagesOf
  <2> QED BY <1>1, <1>2, <1>13, <2>1, <2>2
<1>15. ASSUME NEW q \in Proc, proc[q].state = "none", proc'[q].state = "live", NEW la \in Va
       PROVE  LET old == proc[current].mm.pte[la]
                  new == proc'[q].mm.pte[la]
              IN  /\ old = NoMap <=> new = NoMap
                  /\ old # NoMap => new.w = old.w /\ mem'.page[new.frame] = mem.page[old.frame]
  <2>1. q = child
    BY <1>9, <1>15
  <2>2. proc'[q].mm = t.mm
    BY <1>3, <1>9, <2>1
  <2>3. SamePage(proc[current].mm, la, mem.page, t)
    OBVIOUS
  <2> QED BY <1>13, <2>2, <2>3 DEF SamePage
<1>16. Isolated
  BY <1>14, <1>15 DEF Isolated
<1> QED BY <1>12, <1>16

\* do_fork starts with nothing for the child.
LEMMA ForkStart ==
    ASSUME VmmInv, Running, NEW child \in Proc, proc[child].state = "none", NEW k \in Nat
    PROVE  /\ Forking(With(NoMM, k, 0), child, {}, 0, 0) /\ Ok(With(NoMM, k, 0))
           /\ With(NoMM, k, 0).mm = NoMM /\ With(NoMM, k, 0).kstack = {}
<1> DEFINE s == With(NoMM, k, 0)
<1>1. /\ mem \in Memory /\ proc[child].kstack = {} /\ proc[child].mm = NoMM
  BY ForkingChild
<1>2. Exact(mem, proc)
  BY DEF VmmInv
<1>3. /\ s \in Machine /\ s.free = mem.free /\ s.ref = mem.ref /\ s.page = mem.page
      /\ s.kmem = mem.kmem /\ s.tlb = mem.tlb /\ s.mm = NoMM /\ s.kstack = {} /\ Ok(s)
  <2>1. s = MachineOf(mem, NoMM, k, 0)
    BY DEF With, MachineOf
  <2> HIDE DEF s
  <2>2. NoMM \in MM /\ 0 \in Nat
    BY NoMMFields
  <2> QED BY <1>1, <2>1, <2>2, MachineFields
<1> HIDE DEF s
<1>4. Sound(s, Rest(proc, child) \cup {})
  <2>1. s.mm = proc[child].mm
    BY <1>1, <1>3
  <2>2. Sound(s, Others(proc, child))
    BY <1>2, <1>3, <2>1, SoundOf
  <2> QED BY <1>1, <2>2 DEF Others
<1>5. ASSUME NEW j \in Kind
      PROVE  s.kmem[j] - Needs(s.mm, j) =
                mem.kmem[j] + (IF j = "proc" THEN 0 ELSE IF j = "fs" THEN 0 ELSE 0)
  <2>1. mem.kmem[j] \in Int
    BY <1>1 DEF Memory, Objects
  <2>2. Needs(s.mm, j) = 0
    BY <1>3, NoMMFields DEF Needs
  <2> QED BY <1>3, <2>1, <2>2
<1>6. {} \cap Rest(proc, child) = {}
  OBVIOUS
<1>7. Forking(s, child, {}, 0, 0)
  BY <1>3, <1>4, <1>5, <1>6 DEF Forking
<1> QED BY <1>3, <1>7 DEF s

\* A step of do_fork that cannot have what it asks for.
LEMMA ForkRefused ==
    ASSUME NEW child, NEW fs, NEW a, NEW b, NEW s, Forking(s, child, fs, a, b), NEW t,
           Alike(s, t), t.tlb = s.tlb
    PROVE  Forking(t, child, fs, a, b) /\ t.mm = s.mm /\ t.kstack = s.kstack
<1>1. Sound(s, Rest(proc, child) \cup fs)
  BY DEF Forking
<1>2. /\ Sound(t, Rest(proc, child) \cup fs) /\ Left(s, t, Rest(proc, child) \cup fs)
      /\ Balanced(s, t)
  BY <1>1, AlikeSound
<1> QED BY <1>2, ForkingLeft DEF Alike

\* do_fork makes a whole child, or gives back at its cleanup labels all it had taken.
LEMMA DoForkStep ==
    ASSUME VmmAssumption, VmmInv, NEW child \in Proc, NEW k \in Nat, do_fork(child, k)
    PROVE  VmmInv' /\ Isolated
<1> DEFINE old == proc[current].mm
           rest == Rest(proc, child)
           s0 == With(NoMM, k, 0)
           s1 == kmalloc(s0, "proc")
           s2 == Then(s1, setup_kstack)
           s3 == Then(s2, LAMBDA s : kmalloc(s, "fs"))
           s4 == Then(s3, LAMBDA s : copy_mm(s, old))
           stages == {s \in {1, 2, 3} : Ok(<<s1, s2, s3>>[s])}
           undone == fork_cleanup(s4, Cardinality(stages) + 1)
<1>1. /\ Running /\ proc[child].state = "none"
      /\ \/ /\ s4.err = ""
            /\ mem' = Mem(s4)
            /\ proc' = [proc EXCEPT ![child] =
                          [state |-> "live", kstack |-> s4.kstack, mm |-> s4.mm]]
            /\ UNCHANGED <<current, panicked>>
         \/ /\ s4.err = "E_NO_MEM"
            /\ mem' = Mem(undone)
            /\ UNCHANGED <<proc, current, panicked>>
         \/ /\ s4.err = "assert"
            /\ Panic("assert")
            /\ UNCHANGED <<mem, proc, current>>
  BY DEF do_fork
<1>2. /\ s2 = IF Ok(s1) THEN setup_kstack(s1) ELSE s1
      /\ s3 = IF Ok(s2) THEN kmalloc(s2, "fs") ELSE s2
      /\ s4 = IF Ok(s3) THEN copy_mm(s3, old) ELSE s3
  BY DEF Then
<1>3. /\ stages \in SUBSET {1, 2, 3}
      /\ 1 \in stages <=> Ok(s1)
      /\ 2 \in stages <=> Ok(s2)
      /\ 3 \in stages <=> Ok(s3)
  <2> HIDE DEF s1, s2, s3
  <2>1. <<s1, s2, s3>>[1] = s1 /\ <<s1, s2, s3>>[2] = s2 /\ <<s1, s2, s3>>[3] = s3
    OBVIOUS
  <2> QED BY <2>1
<1>4. /\ mem \in Memory /\ Original(old, rest)
  BY <1>1, ForkingChild
<1>5. Forking(s0, child, {}, 0, 0) /\ Ok(s0) /\ s0.mm = NoMM /\ s0.kstack = {}
  BY <1>1, ForkStart
<1>6. /\ \A s : Ok(s) <=> s.err = ""
      /\ 0 \in Int /\ 1 \in Int /\ 0 + 1 = 1 /\ "proc" \in Kind /\ "fs" \in Kind
  BY DEF Ok, Kind
<1>7. \/ Charged(s0, "proc", 1, s1)
      \/ Alike(s0, s1) /\ s1.tlb = s0.tlb /\ s1.err = "E_NO_MEM"
  <2>1. s0 \in Machine
    BY <1>5 DEF Forking, Sound
  <2> HIDE DEF s0
  <2> QED BY <1>6, <2>1, KMalloc
<1> HIDE DEF s0, s1, s2, s3, s4, stages
\* What has failed is undone.
<1>8. ASSUME s4.err = "E_NO_MEM", Forking(undone, child, {}, 0, 0), undone.mm = NoMM
      PROVE  VmmInv' /\ Isolated
  <2>1. mem' = Mem(undone) /\ UNCHANGED <<proc, current>>
    <3>1. s4.err # "" /\ s4.err # "assert"
      BY <1>8
    <3> QED BY <1>1, <3>1
  <2> HIDE DEF undone
  <2> QED BY <1>1, <1>8, <2>1, ForkFailed
<1>9. CASE Alike(s0, s1) /\ s1.tlb = s0.tlb /\ s1.err = "E_NO_MEM"
  <2>1. ~Ok(s1)
    BY <1>6, <1>9
  <2>2. s4 = s1 /\ ~Ok(s2)
    BY <1>2, <2>1
  <2>3. Forking(s1, child, {}, 0, 0) /\ s1.mm = NoMM /\ s1.kstack = {}
    <3>1. Alike(s0, s1) /\ s1.tlb = s0.tlb
      BY <1>9
    <3>2. Forking(s1, child, {}, 0, 0) /\ s1.mm = s0.mm /\ s1.kstack = s0.kstack
      BY <1>5, <3>1, ForkRefused
    <3> QED BY <1>5, <3>2
  <2>4. Cardinality(stages) + 1 = 1
    <3>1. ~Ok(s3)
      BY <1>2, <2>2
    <3> QED BY <1>3, <2>1, <2>2, <3>1, StageOf
  <2>5. Forking(fork_cleanup(s1, 1), child, {}, 0, 0) /\ fork_cleanup(s1, 1).mm = NoMM
    BY <1>4, <2>3, ForkCleanup
  <2>6. Forking(undone, child, {}, 0, 0) /\ undone.mm = NoMM
    BY <2>2, <2>4, <2>5
  <2> HIDE DEF undone
  <2>7. s4.err = "E_NO_MEM"
    BY <1>9, <2>2
  <2> QED BY <1>8, <2>6, <2>7
<1>10. CASE Charged(s0, "proc", 1, s1)
  <2>1. Ok(s1) /\ s1.mm = NoMM /\ s1.kstack = {}
    BY <1>5, <1>6, <1>10 DEF Charged
  <2>2. Forking(s1, child, {}, 1, 0)
    <3>1. Forking(s1, child, {}, 0 + 1, 0)
      BY <1>4, <1>5, <1>6, <1>10, ForkingCharged
    <3> QED BY <1>6, <3>1
  <2>3. s2 = setup_kstack(s1)
    BY <1>2, <2>1
  <2>4. Sound(s1, rest)
    <3>1. rest \cup {} = rest
      OBVIOUS
    <3> QED BY <2>2, <3>1 DEF Forking
  <2>5. \/ \E fs : StackTaken(s1, fs, rest, s2)
        \/ Alike(s1, s2) /\ s2.tlb = s1.tlb /\ s2.err = "E_NO_MEM"
    BY <2>3, <2>4, SetupKstack
  <2>6. CASE Alike(s1, s2) /\ s2.tlb = s1.tlb /\ s2.err = "E_NO_MEM"
    <3>1. ~Ok(s2)
      BY <1>6, <2>6
    <3>2. s4 = s2 /\ ~Ok(s3)
      BY <1>2, <3>1
    <3>3. Forking(s2, child, {}, 1, 0) /\ s2.mm = NoMM /\ s2.kstack = {}
      <4>1. Alike(s1, s2) /\ s2.tlb = s1.tlb
        BY <2>6
      <4>2. Forking(s2, child, {}, 1, 0) /\ s2.mm = s1.mm /\ s2.kstack = s1.kstack
        BY <2>2, <4>1, ForkRefused
      <4> QED BY <2>1, <4>2
    <3>4. Cardinality(stages) + 1 = 2
      BY <1>3, <2>1, <3>1, <3>2, StageOf
    <3>5. Forking(fork_cleanup(s2, 2), child, {}, 0, 0) /\ fork_cleanup(s2, 2).mm = NoMM
      BY <1>4, <3>3, ForkCleanup
    <3>6. Forking(undone, child, {}, 0, 0) /\ undone.mm = NoMM
      BY <3>2, <3>4, <3>5
    <3> HIDE DEF undone
    <3>7. s4.err = "E_NO_MEM"
      BY <2>6, <3>2
    <3> QED BY <1>8, <3>6, <3>7
  <2>7. ASSUME NEW fs, StackTaken(s1, fs, rest, s2) PROVE VmmInv' /\ Isolated
    <3>1. /\ fs \cap rest = {} /\ Sound(s2, rest \cup fs)
          /\ s2.kstack = fs /\ s2.ref = s1.ref /\ s2.page = s1.page /\ s2.kmem = s1.kmem
          /\ s2.tlb = s1.tlb /\ s2.mm = NoMM /\ s2.err = s1.err
      BY <2>1, <2>7 DEF StackTaken
    <3>2. Forking(s2, child, fs, 1, 0)
      BY <2>1, <2>2, <3>1 DEF Forking
    <3>3. Ok(s2) /\ s3 = kmalloc(s2, "fs")
      BY <1>2, <1>6, <2>1, <3>1
    <3>4. \/ Charged(s2, "fs", 1, s3)
          \/ Alike(s2, s3) /\ s3.tlb = s2.tlb /\ s3.err = "E_NO_MEM"
      <4>1. s2 \in Machine
        BY <3>1 DEF Sound
      <4> QED BY <1>6, <3>3, <4>1, KMalloc
    <3>5. CASE Alike(s2, s3) /\ s3.tlb = s2.tlb /\ s3.err = "E_NO_MEM"
      <4>1. ~Ok(s3)
        BY <1>6, <3>5
      <4>2. s4 = s3
        BY <1>2, <4>1
      <4>3. Forking(s3, child, fs, 1, 0) /\ s3.mm = NoMM /\ s3.kstack = fs
        <5>1. Alike(s2, s3) /\ s3.tlb = s2.tlb
          BY <3>5
        <5>2. Forking(s3, child, fs, 1, 0) /\ s3.mm = s2.mm /\ s3.kstack = s2.kstack
          BY <3>2, <5>1, ForkRefused
        <5> QED BY <3>1, <5>2
      <4>4. Cardinality(stages) + 1 = 3
        BY <1>3, <2>1, <3>3, <4>1, StageOf
      <4>5. Forking(fork_cleanup(s3, 3), child, {}, 0, 0) /\ fork_cleanup(s3, 3).mm = NoMM
        BY <1>4, <4>3, ForkCleanup
      <4>6. Forking(undone, child, {}, 0, 0) /\ undone.mm = NoMM
        BY <4>2, <4>4, <4>5
      <4> HIDE DEF undone
      <4>7. s4.err = "E_NO_MEM"
        BY <3>5, <4>2
      <4> QED BY <1>8, <4>6, <4>7
    <3>6. CASE Charged(s2, "fs", 1, s3)
      <4>1. Ok(s3) /\ s3.mm = NoMM /\ s3.kstack = fs
        BY <1>6, <3>1, <3>3, <3>6 DEF Charged
      <4>2. Forking(s3, child, fs, 1, 1)
        <5>1. Forking(s3, child, fs, 1, 0 + 1)
          BY <1>4, <1>6, <3>2, <3>6, ForkingCharged
        <5> QED BY <1>6, <5>1
      <4>3. s4 = copy_mm(s3, old)
        BY <1>2, <4>1
      <4>4. MMCopied(s3, old, rest \cup fs, s4)
        <5>1. Original(old, rest \cup fs)
          BY <1>4 DEF Original
        <5>2. Sound(s3, rest \cup fs)
          BY <4>2 DEF Forking
        <5> HIDE DEF old, rest
        <5> QED BY <4>1, <4>3, <5>1, <5>2, CopyMM
      <4>5. /\ Sound(s4, rest \cup fs) /\ Left(s3, s4, rest \cup fs) /\ Balanced(s3, s4)
            /\ s4.err \in {"", "E_NO_MEM", "assert"}
        BY <4>4 DEF MMCopied
      <4>6. Forking(s4, child, fs, 1, 1)
        BY <4>2, <4>5, ForkingLeft
      <4>7. s4.kstack = fs
        BY <4>1, <4>5 DEF Left
      <4>8. CASE s4.err = "E_NO_MEM"
        <5>1. s4.mm = NoMM
          BY <4>4, <4>8 DEF MMCopied
        <5>2. Cardinality(stages) + 1 = 4
          BY <1>3, <2>1, <3>3, <4>1, StageOf
        <5>3. Forking(fork_cleanup(s4, 4), child, {}, 0, 0) /\ fork_cleanup(s4, 4).mm = NoMM
          BY <1>4, <4>6, <4>7, <5>1, ForkCleanup
        <5>4. Forking(undone, child, {}, 0, 0) /\ undone.mm = NoMM
          BY <5>2, <5>3
        <5> HIDE DEF undone
        <5> QED BY <1>8, <4>8, <5>4
      <4>9. CASE s4.err = ""
        <5>1. /\ mem' = Mem(s4) /\ current' = current
              /\ proc' = [proc EXCEPT ![child] =
                            [state |-> "live", kstack |-> s4.kstack, mm |-> s4.mm]]
          <6> HIDE DEF undone
          <6>1. s4.err # "E_NO_MEM" /\ s4.err # "assert"
            BY <4>9
          <6> QED BY <1>1, <6>1
        <5>2. /\ s4.mm.pgdir = None => s4.mm = NoMM
              /\ Separate(s4.mm) /\ Filled(s4.mm)
              /\ \A la \in Va : SamePage(old, la, s3.page, s4)
          BY <4>4, <4>9 DEF MMCopied
        <5>3. \A la \in Va : SamePage(proc[current].mm, la, mem.page, s4)
          <6>1. \A f \in rest : s3.page[f] = mem.page[f]
            BY <4>2 DEF Forking
          <6>2. \A la \in Va : old.pte[la] # NoMap => old.pte[la].frame \in rest
            BY <1>4 DEF Original
          <6> HIDE DEF rest
          <6> QED BY <5>2, <6>1, <6>2 DEF SamePage
        <5>4. proc' = [proc EXCEPT ![child] = [state |-> "live", kstack |-> fs, mm |-> s4.mm]]
          BY <4>7, <5>1
        <5>5. Running /\ proc[child].state = "none"
          BY <1>1
        <5> QED BY <4>6, <5>1, <5>2, <5>3, <5>4, <5>5, ForkDone
      <4>10. CASE s4.err = "assert"
        <5>1. UNCHANGED <<mem, proc, current>>
          <6> HIDE DEF undone
          <6>1. s4.err # "E_NO_MEM" /\ s4.err # ""
            BY <4>10
          <6> QED BY <1>1, <6>1
        <5> QED BY <5>1, NothingStep
      <4> QED BY <4>5, <4>8, <4>9, <4>10
    <3> QED BY <3>4, <3>5, <3>6
  <2> QED BY <2>5, <2>6, <2>7
<1> QED BY <1>7, <1>9, <1>10

-----------------------------------------------------------------------------
(* The specification.                                                      *)

\* The first process after the kernel has set up memory.
LEMMA InitInv ==
    ASSUME VmmAssumption, Init
    PROVE  VmmInv
<1> DEFINE x == [NoProc EXCEPT !.state = "live", !.kstack = 1..KSTACKPAGE]
<1>1. PICK p \in Proc : current = p /\ proc = [q \in Proc |-> IF q = p THEN x ELSE NoProc]
  BY DEF Init
<1>2. /\ mem.free = (KSTACKPAGE + 1)..NFRAME /\ mem.ref = [f \in Frame |-> 0]
      /\ mem.page = [f \in Frame |-> "stale"] /\ mem.tlb = NoTlb
      /\ mem.kmem = [k \in Kind |-> IF k \in {"proc", "fs"} THEN 1 ELSE 0]
      /\ mem = [free |-> mem.free, ref |-> mem.ref, page |-> mem.page, kmem |-> mem.kmem,
                tlb |-> mem.tlb, index |-> 0]
  BY DEF Init
<1>3. KSTACKPAGE \in 1..NFRAME /\ NFRAME \in Nat /\ NTLB \in Nat \ {0} /\ IsFiniteSet(Proc)
      /\ None \notin Proc
  BY DEF VmmAssumption
<1>4. /\ mem.free \in SUBSET Frame /\ 1..KSTACKPAGE \in SUBSET Frame
      /\ mem.free \cap (1..KSTACKPAGE) = {} /\ Frame = mem.free \cup (1..KSTACKPAGE)
  BY <1>2, <1>3 DEF Frame
<1>5. mem \in Memory
  <2>1. mem.tlb \in Tlb
    <3>1. NoEntry \in Entry
      BY DEF NoEntry, Entry, Map
    <3> QED BY <1>2, <3>1 DEF NoTlb, Tlb, Slot
  <2>2. 0 \in Slot
    BY <1>3 DEF Slot
  <2>3. mem.ref \in Refs /\ mem.page \in Pages /\ mem.kmem \in Objects /\ mem.free \in Frames
    BY <1>2, <1>4 DEF Refs, Pages, Content, Objects, Frames
  <2>4. [free |-> mem.free, ref |-> mem.ref, page |-> mem.page, kmem |-> mem.kmem,
         tlb |-> mem.tlb, index |-> 0] \in Memory
    BY <2>1, <2>2, <2>3 DEF Memory
  <2>5. mem = [free |-> mem.free, ref |-> mem.ref, page |-> mem.page, kmem |-> mem.kmem,
               tlb |-> mem.tlb, index |-> 0]
    BY <1>2
  <2> QED BY <2>4, <2>5
<1>6. /\ x.state = "live" /\ x.kstack = 1..KSTACKPAGE /\ x.mm = NoMM /\ x \in Process
      /\ NoProc.state = "none" /\ NoProc.kstack = {} /\ NoProc.mm = NoMM /\ NoProc \in Process
  BY <1>4, NoMMFields DEF NoProc, Process, State, Frames
<1> HIDE DEF x
<1>7. /\ proc \in [Proc -> Process] /\ proc[p] = x /\ \A q \in Proc : q # p => proc[q] = NoProc
      /\ \A q \in Proc : proc[q].mm = NoMM
  BY <1>1, <1>6
<1>8. Parts(NoMM) = {}
  <2>1. NoMap.frame = None
    BY DEF NoMap
  <2> QED BY <2>1, NoMMFields DEF Parts, TablesOf, PagesOf
<1>9. Apart(NoMM) /\ Placed(NoMM) /\ Separate(NoMM) /\ Filled(NoMM)
  <2>1. Apart(NoMM) /\ Placed(NoMM)
    BY NoMMFields DEF Apart, Placed
  <2> QED BY <2>1, NoMMFields, NoAreas
<1>10. Whole(x) /\ Whole(NoProc)
  BY <1>6, <1>8, <1>9 DEF Whole
<1>11. Held(x) = 1..KSTACKPAGE /\ Held(NoProc) = {}
  BY <1>6, <1>8 DEF Held
<1>12. UNION {Held(proc[q]) : q \in Proc} = 1..KSTACKPAGE
  <2>1. Rest(proc, p) = {}
    BY <1>7, <1>11 DEF Rest
  <2> QED BY <1>7, <1>11, <2>1, HeldSplit
<1>13. \A q, r \in Proc : q # r => Held(proc[q]) \cap Held(proc[r]) = {}
  BY <1>7, <1>11
<1>14. \A q \in Proc : mem.free \cap Held(proc[q]) = {}
  BY <1>4, <1>7, <1>11
<1>15. ASSUME NEW k \in Kind PROVE mem.kmem[k] = Total(proc, k)
  <2>1. \A q \in Proc : \A j : Needs(proc[q].mm, j) = 0
    BY <1>7, NoMMFields DEF Needs
  <2>2. mem.kmem[k] = IF k \in {"proc", "fs"} THEN 1 ELSE 0
    BY <1>2
  <2>3. CASE k = "vma"
    <3>1. AreasOf(proc, Proc) = {}
      BY <1>7, NoMMFields DEF AreasOf
    <3>2. Cardinality(AreasOf(proc, Proc)) = 0
      BY <3>1, FS_EmptySet
    <3> QED BY <2>2, <2>3, <3>2 DEF Total
  <2>4. CASE k = "proc" \/ k = "fs"
    <3>1. Users(proc, k) = {p}
      BY <1>6, <1>7, <2>4 DEF Users, Uses
    <3>2. Cardinality(Users(proc, k)) = 1
      BY <3>1, FS_Singleton
    <3> QED BY <2>2, <2>4, <3>2 DEF Total
  <2>5. CASE k \notin {"vma", "proc", "fs"}
    <3>1. Users(proc, k) = {}
      BY <2>1, <2>5 DEF Users, Uses
    <3>2. Cardinality(Users(proc, k)) = 0
      BY <3>1, FS_EmptySet
    <3> QED BY <2>2, <2>5, <3>2 DEF Total
  <2> QED BY <2>3, <2>4, <2>5
<1>16. /\ \A q \in Proc : Whole(proc[q])
       /\ \A f \in mem.free : mem.ref[f] = 0
       /\ \A q \in Proc : \A la \in Va : proc[q].mm.pte[la] = NoMap
  BY <1>2, <1>4, <1>7, <1>10, NoMMFields
<1>17. Exact(mem, proc)
  BY <1>4, <1>5, <1>7, <1>12, <1>13, <1>14, <1>15, <1>16 DEF Exact
<1>18. Coherent(mem.tlb, PtesOf(proc, current))
  BY <1>2, NoTlbCoherent
<1> QED BY <1>1, <1>6, <1>7, <1>17, <1>18 DEF VmmInv

\* A step.
LEMMA NextStep ==
    ASSUME VmmAssumption, VmmInv, [Next]_vars
    PROVE  VmmInv' /\ [Isolated]_vars
<1>1. CASE UNCHANGED vars
  <2>1. UNCHANGED <<mem, proc, current>>
    BY <1>1 DEF vars
  <2> QED BY <1>1, <2>1, NothingStep
<1>2. ASSUME NEW next \in Runnable, schedule(next) PROVE VmmInv' /\ Isolated
  BY <1>2, ScheduleStep
<1>3. ASSUME do_exit PROVE VmmInv' /\ Isolated
  BY <1>3, DoExitStep
<1>4. ASSUME NEW p \in Proc, do_wait(p) PROVE VmmInv' /\ Isolated
  BY <1>4, DoWaitStep
<1>5. ASSUME NEW child \in Proc, NEW k \in 0..MAX_STEPS, do_fork(child, k)
      PROVE  VmmInv' /\ Isolated
  <2>1. k \in Nat
    OBVIOUS
  <2> QED BY <1>5, <2>1, DoForkStep
<1>6. ASSUME NEW prog \in Program, NEW open \in BOOLEAN, NEW x \in Faults,
             do_execve(prog, open, x[1], x[2])
      PROVE  VmmInv' /\ Isolated
  <2>1. x[1] \in Nat /\ x[2] \in Nat
    BY DEF Faults
  <2> QED BY <1>6, <2>1, DoExecveStep
<1>7. ASSUME NEW la \in Va, NEW write \in BOOLEAN, user_access(la, write)
      PROVE  VmmInv' /\ Isolated
  BY <1>7, UserAccessStep
<1>8. ASSUME NEW la \in Va, NEW write \in BOOLEAN, user_copy(la, write)
      PROVE  VmmInv' /\ Isolated
  BY <1>8, UserCopyStep
<1>9. ASSUME NEW f \in STRAYS, kseg_store(f) PROVE VmmInv' /\ Isolated
  BY <1>9, KsegStoreStep
<1>10. CASE Next
  BY <1>2, <1>3, <1>4, <1>5, <1>6, <1>7, <1>8, <1>9, <1>10 DEF Next
<1> QED BY <1>1, <1>10

\* A page of the running process is hit at most once, by its entry.
LEMMA InvTlb == ASSUME VmmAssumption, VmmInv PROVE TlbCoherent
<1> SUFFICES ASSUME NEW la \in Va
             PROVE  /\ Cardinality(Hits(mem, la)) <= 1
                    /\ \A h \in Hits(mem, la) : current # None /\ h[2] = proc[current].mm.pte[la]
  BY DEF TlbCoherent
<1> DEFINE pte == PtesOf(proc, current)
<1>1. mem.tlb \in Tlb /\ Coherent(mem.tlb, pte)
  BY DEF VmmInv, Exact, Memory
<1> HIDE DEF pte
<1>2. \A h \in Hits(mem, la) : IsHit(mem, pte, la, h)
  BY <1>1, HitEntry
<1>3. ASSUME NEW h \in Hits(mem, la) PROVE current # None /\ h[2] = proc[current].mm.pte[la]
  <2>1. h[2] = pte[la] /\ h[2] # NoMap
    BY <1>2 DEF IsHit
  <2> QED BY <2>1, NoMMFields DEF pte, PtesOf
<1>4. ASSUME NEW g \in Hits(mem, la), NEW h \in Hits(mem, la) PROVE g = h
  <2>1. PICK i \in Slot : /\ g = <<i, pte[la]>> /\ mem.tlb[i].vpn2 = la \div 2
                          /\ la \div 2 # -1
    BY <1>2 DEF IsHit
  <2>2. PICK j \in Slot : h = <<j, pte[la]>> /\ mem.tlb[j].vpn2 = la \div 2
    BY <1>2 DEF IsHit
  <2>3. i = j
    BY <1>1, <2>1, <2>2 DEF Coherent
  <2> QED BY <2>1, <2>2, <2>3
<1>5. Cardinality(Hits(mem, la)) <= 1
  <2>1. CASE Hits(mem, la) = {}
    BY <2>1, FS_EmptySet
  <2>2. ASSUME NEW h \in Hits(mem, la) PROVE Cardinality(Hits(mem, la)) <= 1
    <3>1. Hits(mem, la) = {h}
      BY <1>4
    <3>2. Cardinality({h}) = 1
      BY FS_Singleton
    <3> QED BY <3>1, <3>2
  <2> QED BY <2>1, <2>2
<1> QED BY <1>3, <1>5

\* The invariant in the terms of the model.
LEMMA InvFrames == ASSUME VmmInv PROVE FramesExact
<1>1. /\ proc \in [Proc -> Process] /\ \A p \in Proc : Whole(proc[p])
      /\ \A p \in Proc : mem.free \cap Held(proc[p]) = {}
      /\ \A p, q \in Proc : p # q => Held(proc[p]) \cap Held(proc[q]) = {}
      /\ Frame = mem.free \cup UNION {Held(proc[p]) : p \in Proc}
      /\ \A p \in Proc : \A la \in Va :
            proc[p].mm.pte[la] # NoMap => mem.ref[proc[p].mm.pte[la].frame] = 1
      /\ \A k \in Kind : mem.kmem[k] = Total(proc, k)
  BY DEF VmmInv, Exact
<1>2. \A p \in Proc : proc[p].mm \in MM /\ DOMAIN proc[p].mm.pt = Table
  <2> TAKE p \in Proc
  <2>1. proc[p].mm \in MM
    BY <1>1 DEF Process
  <2>2. proc[p].mm.pt \in Tabs
    BY <2>1, MMFields
  <2> QED BY <2>1, <2>2 DEF Tabs
<1>3. \A p \in Proc : Owned(p) = Held(proc[p])
  BY <1>2 DEF Owned, Tables, Mapped, Held, Parts, TablesOf, PagesOf
<1>4. mem.free = Frame \ UNION {Owned(p) : p \in Proc}
  <2>1. UNION {Owned(p) : p \in Proc} = UNION {Held(proc[p]) : p \in Proc}
    BY <1>3
  <2>2. mem.free \cap UNION {Held(proc[p]) : p \in Proc} = {}
    BY <1>1
  <2> QED BY <1>1, <2>1, <2>2
<1>5. \A p, q \in Proc : p # q => Owned(p) \cap Owned(q) = {}
  BY <1>1, <1>3
<1>6. ASSUME NEW p \in Proc
      PROVE  /\ \A la, lb \in Va : la # lb /\ proc[p].mm.pte[la] # NoMap
                   => proc[p].mm.pte[la].frame # proc[p].mm.pte[lb].frame
             /\ \A la \in Va : proc[p].mm.pte[la] # NoMap =>
                   /\ mem.ref[proc[p].mm.pte[la].frame] = 1
                   /\ proc[p].mm.pt[PDX(la)] # None
                   /\ AreaOf(proc[p].mm, la) # {}
  <2>1. Apart(proc[p].mm) /\ Placed(proc[p].mm)
    BY <1>1 DEF Whole
  <2>2. ASSUME NEW la \in Va, proc[p].mm.pte[la] # NoMap
        PROVE  proc[p].mm.pt[PDX(la)] # None /\ AreaOf(proc[p].mm, la) # {}
    <3>1. proc[p].mm.pt[PDX(la)] # None /\ Covered(proc[p].mm, la)
      BY <2>1, <2>2 DEF Placed
    <3> QED BY <3>1 DEF Covered, AreaOf
  <2> QED BY <1>1, <2>1, <2>2 DEF Apart
<1>7. mem.kmem["proc"] = Cardinality(Procs({"live", "zombie"}))
  <2>1. mem.kmem["proc"] = Cardinality(Users(proc, "proc"))
    BY <1>1 DEF Kind, Total
  <2>2. \A p \in Proc : proc[p].state \in State
    BY <1>1 DEF Process
  <2>3. Users(proc, "proc") = Procs({"live", "zombie"})
    BY <2>2 DEF Users, Uses, Procs, State
  <2> QED BY <2>1, <2>3
<1>8. mem.kmem["fs"] = Cardinality(Procs({"live"}))
  <2>1. mem.kmem["fs"] = Cardinality(Users(proc, "fs"))
    BY <1>1 DEF Kind, Total
  <2>2. Users(proc, "fs") = Procs({"live"})
    BY DEF Users, Uses, Procs
  <2> QED BY <2>1, <2>2
<1>9. mem.kmem["mm"] = Cardinality({p \in Proc : proc[p].mm # NoMM})
  <2>1. mem.kmem["mm"] = Cardinality(Users(proc, "mm"))
    BY <1>1 DEF Kind, Total
  <2>2. \A p \in Proc : proc[p].mm = NoMM <=> proc[p].mm.pgdir = None
    BY <1>1, NoMMFields DEF Whole
  <2>3. Users(proc, "mm") = {p \in Proc : proc[p].mm # NoMM}
    BY <2>2 DEF Users, Uses, Needs
  <2> QED BY <2>1, <2>3
<1>10. mem.kmem["vma"] = Cardinality(UNION {Areas(p) : p \in Proc})
  <2>1. mem.kmem["vma"] = Cardinality(AreasOf(proc, Proc))
    BY <1>1 DEF Kind, Total
  <2>2. AreasOf(proc, Proc) = UNION {Areas(p) : p \in Proc}
    BY DEF AreasOf, Areas
  <2> QED BY <2>1, <2>2
<1>11. mem.kmem["karg"] = 0
  <2>1. mem.kmem["karg"] = Cardinality(Users(proc, "karg"))
    BY <1>1 DEF Kind, Total
  <2>2. Users(proc, "karg") = {}
    BY DEF Users, Uses, Needs
  <2> QED BY <2>1, <2>2, FS_EmptySet
<1> QED BY <1>4, <1>5, <1>6, <1>7, <1>8, <1>9, <1>10, <1>11 DEF FramesExact

\* The accounts are exact, the current process is live and the TLB is coherent in every
\* reachable state, whatever allocations and reads fail on the way through do_fork,
\* do_execve, do_exit, page faults and user copies.
THEOREM VmmInvariant == Spec => []VmmInv
<1>1. Init => VmmInv
  BY VmmAssumption, InitInv
<1>2. VmmInv /\ [Next]_vars => VmmInv'
  BY VmmAssumption, NextStep
<1> QED BY <1>1, <1>2, PTL DEF Spec

\* No frame is leaked, freed while it is mapped or freed twice: every frame is free or held
\* by one process, page->ref is 1 exactly for the mapped ones, and the kernel objects are
\* those the processes need, after any sequence of do_fork with its cleanup labels,
\* do_execve, do_exit, page faults and unmapping (pmm.c, vmm.c, proc.c).
THEOREM FramesCorrect == Spec => []FramesExact
<1>1. VmmInv => FramesExact
  BY InvFrames
<1> QED BY <1>1, VmmInvariant, PTL

\* The TLB holds no entry that the page table of the current process does not hold,
\* though entries come in pairs, from refills at any time, and go only where pmm.c, proc.c
\* and thumips_tlb.c flush.
THEOREM TlbCorrect == Spec => []TlbCoherent
<1>1. VmmInv => TlbCoherent
  BY VmmAssumption, InvTlb
<1> QED BY <1>1, VmmInvariant, PTL

\* No step of the kernel and no store to user space, through the TLB, writes a page of a
\* process that does not run, whatever memory fails: only a store through kseg0 or kseg1
\* does, which mmu.v lets a process make (what it leaves is "stray").  And fork's child
\* starts with the parent's pages, each in a frame of its own (copy_range, page_insert,
\* do_pgfault).
THEOREM IsolationCorrect == Spec => Isolation
<1>1. VmmInv /\ [Next]_vars => [Isolated]_vars
  BY VmmAssumption, NextStep
<1> QED BY <1>1, VmmInvariant, PTL DEF Spec, Isolation
============================================================================
