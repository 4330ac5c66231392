-------------------------------- MODULE Vmm --------------------------------
(***************************************************************************)
(* Virtual memory: page directories and page tables (kern/mm/pmm.c), areas *)
(* (kern/mm/vmm.c), the TLB (armcpu/src/mmu.v and thumips_tlb), the misses *)
(* (kern/trap/trap.c), and what fork, exec and exit do with them           *)
(* (kern/process/proc.c), with every way they run out of memory.           *)
(*                                                                         *)
(* Addresses count pages.  The functions take and return the machine's     *)
(* memory, a record: the free frames, the reference counts and contents of *)
(* the others, how many objects of each kind kmalloc has handed out, the   *)
(* TLB, and the mm_struct and kernel stack they work on.  err is what      *)
(* failed; kleft counts down to the kmalloc that fails and rleft to the    *)
(* read of the program file that does (0 for none), since what fills the   *)
(* slabs, or the disk, is not in this module.                              *)
(*                                                                         *)
(* A system call has the CPU to itself: the kernel is not preempted and    *)
(* nobody sleeps with mm_sem held, so a whole call is a step.  Frames are  *)
(* handed out lowest first; which one the allocator picks makes no         *)
(* difference here.                                                        *)
(***************************************************************************)
EXTENDS Integers, SequencesExt

CONSTANTS
    Proc,           \* processes
    NFRAME,         \* physical pages
    NVA,            \* user pages; the stack ends at the last one
    PTSIZE,         \* pages that a page table maps
    USTACKPAGE,     \* pages of the stack area
    KSTACKPAGE,     \* pages of a kernel stack
    NTLB,           \* entries of the TLB
    MAX_STEPS,      \* kmallocs, and reads of the file, that a call makes at most
    TOUCHES,        \* <<page, write>>: what processes, and calls for them, touch
    STRAYS,         \* where processes store through a kernel segment
    Program         \* programs: sequences of segments [start, end, file, flags]

None == 0                       \* a null pointer, a page table entry of 0
SegmentFlag == {"READ", "WRITE", "EXEC"}        \* ELF_PF_R, ELF_PF_W, ELF_PF_X
VmFlag == SegmentFlag \cup {"STACK"}            \* vma->vm_flags
Segment == [start : Nat, end : 0..NVA, file : Nat, flags : SUBSET SegmentFlag]

ASSUME VmmAssumption ==
    /\ IsFiniteSet(Proc) /\ None \notin Proc
    /\ NFRAME \in Nat /\ NVA \in Nat /\ NTLB \in Nat \ {0}
    /\ PTSIZE \in Nat /\ PTSIZE % 2 = 0 /\ PTSIZE # 0
    /\ KSTACKPAGE \in 1..NFRAME
    \* The stack area has one page table: copy_range goes wrong where an area
    \* starts in the middle of a table that is absent and goes on in the next.
    /\ USTACKPAGE \in 2..PTSIZE /\ USTACKPAGE <= NVA /\ NVA % PTSIZE = 0
    \* The segments are pages of the user space (USER_ACCESS in mm_map refuses others).
    /\ \A prog \in Program :
          /\ prog \in Seq(Segment)
          /\ \A i \in DOMAIN prog : prog[i].start < prog[i].end

Frame == 1..NFRAME
Va == 0..(NVA - 1)
PDX(la) == la \div PTSIZE
Kind == {"proc", "fs", "mm", "vma", "karg"}
\* What a page holds; "stray" is what a process has stored through a kernel segment.
Content == {"file", "zero", "user", "stale", "stray"}

VARIABLES
    mem,            \* the memory, without err, kleft, rleft and mm
    proc,           \* for each process its state, kernel stack and mm
    current,        \* the process that runs; None for idleproc
    panicked        \* what the kernel panicked with

vars == <<mem, proc, current, panicked>>

NoMap == [frame |-> None, w |-> FALSE]
NoEntry == [vpn2 |-> -1, lo |-> <<NoMap, NoMap>>]
NoMM == [pgdir |-> None, mmap |-> << >>, pt |-> [i \in 0..PDX(NVA - 1) |-> None],
         pte |-> [la \in Va |-> NoMap]]
NoProc == [state |-> "none", kstack |-> {}, mm |-> NoMM]
NoTlb == [i \in 0..(NTLB - 1) |-> NoEntry]

-----------------------------------------------------------------------------
(* Allocation.                                                             *)

Ok(s) == s.err = ""
Fail(s, e) == [s EXCEPT !.err = e]
\* The statements that follow one that may have failed.
Then(s, Op(_)) == IF Ok(s) THEN Op(s) ELSE s
\* A loop: Body(s, 1), then Body of that and 2, and so on.
Loop(s, n, Body(_, _)) ==
    LET after[i \in 0..n] == IF i = 0 THEN s ELSE Body(after[i - 1], i)
    IN  after[n]

NextFrame(s) == CHOOSE f \in s.free : \A g \in s.free : f <= g
\* What a free frame still holds is not kept track of: it is stale.
free_pages(s, fs) ==
    [s EXCEPT !.free = @ \cup fs,
              !.ref  = [f \in Frame |-> IF f \in fs THEN 0 ELSE @[f]],
              !.page = [f \in Frame |-> IF f \in fs THEN "stale" ELSE @[f]]]

kmalloc(s, kind) ==
    IF s.kleft = 1
    THEN Fail(s, "E_NO_MEM")
    ELSE [s EXCEPT !.kmem[kind] = @ + 1, !.kleft = IF @ = 0 THEN 0 ELSE @ - 1]
kfree(s, kind, n) == [s EXCEPT !.kmem[kind] = @ - n]

tlb_invalidate_all(s) == [s EXCEPT !.tlb = NoTlb]

-----------------------------------------------------------------------------
(* Page tables, kern/mm/pmm.c, on s.mm.                                    *)

\* get_pte with create: allocate the page table if there is none.
get_pte(s, la) ==
    LET f == NextFrame(s)
    IN  CASE s.mm.pt[PDX(la)] # None -> s
          [] s.mm.pt[PDX(la)] = None /\ s.free = {} -> Fail(s, "E_NO_MEM")
          [] OTHER -> [s EXCEPT !.free = @ \ {f}, !.ref[f] = 1, !.mm.pt[PDX(la)] = f]

page_remove_pte(s, la) ==
    LET f == s.mm.pte[la].frame
        s1 == [s EXCEPT !.ref[f] = @ - 1, !.mm.pte[la] = NoMap]
    IN  tlb_invalidate_all(IF s1.ref[f] = 0 THEN free_pages(s1, {f}) ELSE s1)

\* Mutant: the TLB is not flushed.
page_insert_noflush(s, f, la, w) ==
    Then(get_pte(s, la),
         LAMBDA t : [t EXCEPT !.ref[f] = @ + 1, !.mm.pte[la] = [frame |-> f, w |-> w]])

page_insert(s, f, la, w) ==
    Then(get_pte(s, la),
         LAMBDA t : LET old == t.mm.pte[la].frame
                        s1 == [t EXCEPT !.ref[f] = @ + 1]
                        s2 == CASE old = None -> s1
                                [] old = f -> [s1 EXCEPT !.ref[f] = @ - 1]
                                [] OTHER -> page_remove_pte(s1, la)
                    IN  tlb_invalidate_all([s2 EXCEPT !.mm.pte[la] = [frame |-> f, w |-> w]]))

pgdir_alloc_page(s, la, w) ==
    LET f == NextFrame(s)
        s1 == page_insert([s EXCEPT !.free = @ \ {f}], f, la, w)
    IN  IF s.free = {} THEN Fail(s, "E_NO_MEM")
        ELSE IF Ok(s1) THEN s1 ELSE free_pages(s1, {f})

\* unmap_range: where there is no page table it goes on at the next one.
unmap_range(s, start, end) ==
    Loop(s, end - start,
         LAMBDA t, i : LET la == start + i - 1
                       IN  IF t.mm.pt[PDX(la)] = None \/ t.mm.pte[la] = NoMap THEN t
                           ELSE page_remove_pte(t, la))

exit_range(s, start, end) ==
    LET tables == PDX(start)..PDX(end - 1)
    IN  free_pages([s EXCEPT !.mm.pt = [i \in DOMAIN @ |-> IF i \in tables THEN None ELSE @[i]]],
                   {s.mm.pt[i] : i \in tables} \ {None})

\* Mutant: the pages are not copied but shared.
copy_range_share(s, from, start, end) ==
    Loop(s, end - start,
         LAMBDA t, i : LET la == start + i - 1
                       IN  IF from.pte[la] = NoMap THEN t
                           ELSE page_insert(t, from.pte[la].frame, la, from.pte[la].w))

\* A page of copy_range, which asserts that there is a frame for the copy.
copy_page(s, from, la) ==
    LET Copy(t) == LET f == NextFrame(t)
                   IN  page_insert([t EXCEPT !.free = @ \ {f},
                                             !.page[f] = t.page[from.pte[la].frame]],
                                   f, la, from.pte[la].w)
    IN  IF from.pte[la] = NoMap THEN s
        ELSE Then(get_pte(s, la), LAMBDA t : IF t.free = {} THEN Fail(t, "assert") ELSE Copy(t))

\* copy_range, with the page it has come to: where there is no page table it goes
\* on PTSIZE ahead.
copy_range(s, from, start, end) ==
    Loop([mem |-> s, next |-> start], end - start,
         LAMBDA t, i : LET la == start + i - 1
                       IN  CASE la # t.next -> t
                             [] la = t.next /\ from.pt[PDX(la)] = None ->
                                   [t EXCEPT !.next = la + PTSIZE]
                             [] OTHER ->
                                   [mem  |-> Then(t.mem, LAMBDA u : copy_page(u, from, la)),
                                    next |-> la + 1]).mem

-----------------------------------------------------------------------------
(* Areas, kern/mm/vmm.c, and the mm_struct, kern/process/proc.c.           *)

Holds(vma, la) == vma.start <= la /\ la < vma.end

\* The area find_vma(mm, la) returns, if it holds la.
AreaOf(mm, la) == {mm.mmap[i] : i \in {j \in DOMAIN mm.mmap : Holds(mm.mmap[j], la)}}

\* mm_map (vma_create, insert_vma_struct): no areas that overlap.
mm_map(s, start, end, flags) ==
    LET vma == [start |-> start, end |-> end, flags |-> flags]
        pos == Cardinality({i \in DOMAIN s.mm.mmap : s.mm.mmap[i].start < start})
    IN  IF \E i \in DOMAIN s.mm.mmap : start < s.mm.mmap[i].end /\ s.mm.mmap[i].start < end
        THEN Fail(s, "E_INVAL")
        ELSE Then(kmalloc(s, "vma"), LAMBDA t : [t EXCEPT !.mm.mmap = InsertAt(@, pos + 1, vma)])

setup_pgdir(s) ==
    LET f == NextFrame(s)
    IN  IF s.free = {} THEN Fail(s, "E_NO_MEM")
        ELSE [s EXCEPT !.free = @ \ {f}, !.mm.pgdir = f]

put_pgdir(s) == free_pages([s EXCEPT !.mm.pgdir = None], {s.mm.pgdir})
mm_destroy(s) ==
    kfree(kfree([s EXCEPT !.mm.mmap = << >>], "vma", Len(s.mm.mmap)), "mm", 1)

\* exit_mmap: the pages of all areas, then their page tables.
exit_mmap(s) ==
    LET n == Len(s.mm.mmap)
        vma(i) == s.mm.mmap[i]
        unmapped == Loop(s, n, LAMBDA t, i : unmap_range(t, vma(i).start, vma(i).end))
    IN  Loop(unmapped, n, LAMBDA t, i : exit_range(t, vma(i).start, vma(i).end))

free_mm(s) == IF s.mm = NoMM THEN s ELSE mm_destroy(put_pgdir(exit_mmap(s)))

\* dup_mmap: the areas from the last to the first.
dup_mmap(s, old) ==
    LET n == Len(old.mmap)
        Dup(t, vma) == Then(Then(t, LAMBDA u : mm_map(u, vma.start, vma.end, vma.flags)),
                            LAMBDA u : copy_range(u, old, vma.start, vma.end))
    IN  Loop(s, n, LAMBDA t, i : Dup(t, old.mmap[n + 1 - i]))

\* copy_mm of a process: the labels bad_dup_cleanup_mmap, bad_pgdir_cleanup_mm
\* and bad_mm undo what was done.
copy_mm(s, old) ==
    LET s1 == kmalloc(s, "mm")
        s2 == setup_pgdir(s1)
        s3 == dup_mmap(s2, old)
    IN  CASE old = NoMM -> s
          [] old # NoMM /\ ~Ok(s1) -> s1
          [] old # NoMM /\ Ok(s1) /\ ~Ok(s2) -> mm_destroy(s2)
          [] old # NoMM /\ Ok(s1) /\ Ok(s2) /\ s3.err = "E_NO_MEM" -> free_mm(s3)
          [] OTHER -> s3

-----------------------------------------------------------------------------
(* The TLB, armcpu/src/mmu.v and kern/include/thumips_tlb.h.               *)

\* The halves of TLB entries that hit a page (impl_tlb_hit_entry).
Hits(s, la) ==
    {<<i, s.tlb[i].lo[1 + (la % 2)]>> : i \in {j \in DOMAIN s.tlb :
        s.tlb[j].vpn2 = la \div 2 /\ s.tlb[j].lo[1 + (la % 2)] # NoMap}}

\* tlb_refill: the entry pair of the page goes into the next slot.
tlb_refill(s, la) ==
    LET even == la - (la % 2)
    IN  [s EXCEPT !.tlb[s.index] = [vpn2 |-> la \div 2,
                                    lo |-> <<s.mm.pte[even], s.mm.pte[even + 1]>>],
                  !.index = (@ + 1) % NTLB]

\* do_pgfault, for an address whose page table entry is 0.
do_pgfault(s, la, write) ==
    LET area == AreaOf(s.mm, la)
        w == \A vma \in area : "WRITE" \in vma.flags
        allowed == IF write THEN {"WRITE"} ELSE {"READ", "EXEC"}
    IN  IF area = {} \/ (\E vma \in area : vma.flags \cap allowed = {})
        THEN Fail(s, "E_INVAL")
        ELSE Then(get_pte(s, la), LAMBDA t : pgdir_alloc_page(t, la, w))

\* A load or store of the kernel at a user address, with the misses on the way:
\* what cannot be mapped is a panic (handle_tlbmiss, in_kernel).
kernel_touch(s, la, write) ==
    LET mapped == IF s.mm.pte[la] = NoMap THEN do_pgfault(s, la, write) ELSE s
        filled == IF Hits(mapped, la) = {} THEN tlb_refill(mapped, la) ELSE mapped
    IN  CASE ~Ok(mapped) -> Fail(mapped, "unhandled pgfault")
          [] Ok(mapped) /\ write -> [filled EXCEPT !.page[filled.mm.pte[la].frame] = "user"]
          [] OTHER -> filled

-----------------------------------------------------------------------------
(* load_icode, kern/process/proc.c.                                        *)

load_icode_read(s) ==
    IF s.rleft = 1 THEN Fail(s, "E_IO") ELSE [s EXCEPT !.rleft = IF @ = 0 THEN 0 ELSE @ - 1]

\* A segment: its header is read and its area is made; then the pages that have
\* something in the file are allocated and read, the others allocated and zeroed.
\* perm is not reset between segments (w).
load_segment(s, seg, w) ==
    LET Page(t, la) ==
            LET inFile == la < seg.start + seg.file
                t1 == Then(t, LAMBDA u : pgdir_alloc_page(u, la, w))
                t2 == IF inFile THEN Then(t1, load_icode_read) ELSE t1
                c == IF inFile THEN "file" ELSE "zero"
            IN  IF Ok(t2) THEN [t2 EXCEPT !.page[t2.mm.pte[la].frame] = c] ELSE t2
        Check(t) == IF seg.file > seg.end - seg.start THEN Fail(t, "E_INVAL_ELF") ELSE t
    IN  Loop(Then(Then(Then(s, load_icode_read), Check),
                  LAMBDA t : mm_map(t, seg.start, seg.end, seg.flags)),
             seg.end - seg.start,
             LAMBDA t, i : Page(t, seg.start + i - 1))

\* load_icode with one argument: the argument string goes to the last page of
\* the stack and the pointer to it to the page below, through the TLB.
load_icode(s, prog) ==
    LET W(i) == \E j \in 1..i : "WRITE" \in prog[j].flags
        s1 == kmalloc(s, "mm")
        s2 == setup_pgdir(s1)
        s3 == Then(s2, load_icode_read)
        s4 == Loop(s3, Len(prog), LAMBDA t, i : load_segment(t, prog[i], W(i)))
        s5 == Then(s4, LAMBDA t : mm_map(t, NVA - USTACKPAGE, NVA, {"READ", "WRITE", "STACK"}))
    IN  CASE ~Ok(s1) -> s1
          [] Ok(s1) /\ ~Ok(s2) -> mm_destroy(s2)
          [] Ok(s1) /\ Ok(s2) /\ ~Ok(s5) -> free_mm(s5)
          [] OTHER -> Then(kernel_touch(s5, NVA - 1, TRUE), LAMBDA t : kernel_touch(t, NVA - 2, TRUE))

-----------------------------------------------------------------------------
(* The steps.                                                              *)

\* The memory as the functions take it, with an mm.
With(mm, k, r) ==
    [free |-> mem.free, ref |-> mem.ref, page |-> mem.page, kmem |-> mem.kmem,
     tlb |-> mem.tlb, index |-> mem.index,
     err |-> "", kleft |-> k, rleft |-> r, mm |-> mm, kstack |-> {}]
Mem(s) == [free |-> s.free, ref |-> s.ref, page |-> s.page, kmem |-> s.kmem,
           tlb |-> s.tlb, index |-> s.index]

Running == current # None /\ panicked = ""
Panic(e) == panicked' = e

Init ==
    /\ \E p \in Proc :
          /\ current = p
          /\ proc = [q \in Proc |-> IF q = p THEN [NoProc EXCEPT !.state = "live",
                                                                 !.kstack = 1..KSTACKPAGE]
                                    ELSE NoProc]
    /\ mem = [free |-> KSTACKPAGE + 1..NFRAME, ref |-> [f \in Frame |-> 0],
              page |-> [f \in Frame |-> "stale"],
              kmem |-> [k \in Kind |-> IF k \in {"proc", "fs"} THEN 1 ELSE 0],
              tlb |-> NoTlb, index |-> 0]
    /\ panicked = ""

\* proc_run: the next page directory, an empty TLB.
proc_run(s, next) == IF next = current THEN Mem(s) ELSE Mem(tlb_invalidate_all(s))

Runnable == {None} \cup {p \in Proc : proc[p].state = "live"}

schedule(next) ==
    /\ panicked = ""
    /\ next # current
    /\ mem' = proc_run(With(NoMM, 0, 0), next)
    /\ current' = next
    /\ UNCHANGED <<proc, panicked>>

\* Mutant: bad_fork_cleanup_fs goes on without put_kstack.
fork_cleanup_kstack(s, stage) ==
    LET s1 == IF stage >= 4 THEN kfree(s, "fs", 1) ELSE s
    IN  IF stage >= 2 THEN kfree(s1, "proc", 1) ELSE s1

\* The labels bad_fork_cleanup_fs, _kstack and _proc, for the step that failed.
fork_cleanup(s, stage) ==
    LET s1 == IF stage >= 4 THEN kfree(s, "fs", 1) ELSE s
        s2 == IF stage >= 3 THEN free_pages(s1, s.kstack) ELSE s1
    IN  IF stage >= 2 THEN kfree(s2, "proc", 1) ELSE s2

setup_kstack(s) ==
    IF Cardinality(s.free) < KSTACKPAGE
    THEN Fail(s, "E_NO_MEM")
    ELSE LET fs == CHOOSE fs \in SUBSET s.free :
                       /\ Cardinality(fs) = KSTACKPAGE
                       /\ \A f \in fs : \A g \in s.free \ fs : f < g
         IN  [s EXCEPT !.free = @ \ fs, !.kstack = fs]

\* do_fork of the current process, as far as memory is concerned.
do_fork(child, k) ==
    LET s1 == kmalloc(With(NoMM, k, 0), "proc")
        s2 == Then(s1, setup_kstack)
        s3 == Then(s2, LAMBDA s : kmalloc(s, "fs"))
        s4 == Then(s3, LAMBDA s : copy_mm(s, proc[current].mm))
        stage == Cardinality({s \in {1, 2, 3} : Ok(<<s1, s2, s3>>[s])}) + 1
    IN  /\ Running
        /\ proc[child].state = "none"
        /\ \/ /\ s4.err = ""
              /\ mem' = Mem(s4)
              /\ proc' = [proc EXCEPT ![child] =
                            [state |-> "live", kstack |-> s4.kstack, mm |-> s4.mm]]
              /\ UNCHANGED <<current, panicked>>
           \/ /\ s4.err = "E_NO_MEM"
              /\ mem' = Mem(fork_cleanup(s4, stage))
              /\ UNCHANGED <<proc, current, panicked>>
           \/ /\ s4.err = "assert"
              /\ Panic("assert")
              /\ UNCHANGED <<mem, proc, current>>

\* do_exit of the current process in memory s, whose mm is still its own.
exits(s) ==
    /\ proc' = [proc EXCEPT ![current] = [@ EXCEPT !.state = "zombie", !.mm = NoMM]]
    /\ \E next \in Runnable \ {current} :
          /\ mem' = proc_run(kfree(free_mm(s), "fs", 1), next)
          /\ current' = next
    /\ UNCHANGED panicked

do_exit ==
    /\ Running
    /\ exits(With(proc[current].mm, 0, 0))

\* The end of do_wait, in any process.
do_wait(p) ==
    /\ Running
    /\ p # current /\ proc[p].state = "zombie"
    /\ mem' = Mem(kfree(free_pages(With(NoMM, 0, 0), proc[p].kstack), "proc", 1))
    /\ proc' = [proc EXCEPT ![p] = NoProc]
    /\ UNCHANGED <<current, panicked>>

\* The current process's memory after s.
Now(s) ==
    /\ mem' = Mem(s)
    /\ proc' = [proc EXCEPT ![current].mm = s.mm]
    /\ UNCHANGED <<current, panicked>>

\* do_execve with one argument: copy_kargv, then the old memory is given up and
\* the program is loaded; what fails after copy_kargv ends the process.
do_execve(prog, open, k, r) ==
    LET s1 == kmalloc(With(proc[current].mm, k, r), "karg")
        s2 == [free_mm(s1) EXCEPT !.mm = NoMM]
        s3 == load_icode(s2, prog)
    IN  /\ Running
        /\ \/ ~Ok(s1) /\ UNCHANGED vars
           \/ Ok(s1) /\ ~open /\ exits(kfree(s1, "karg", 1))
           \/ Ok(s1) /\ open /\ Ok(s3) /\ Now(kfree(s3, "karg", 1))
           \/ /\ Ok(s1) /\ open /\ s3.err = "unhandled pgfault"
              /\ Panic(s3.err)
              /\ UNCHANGED <<mem, proc, current>>
           \/ /\ Ok(s1) /\ open /\ s3.err \notin {"", "unhandled pgfault"}
              /\ exits([kfree(s3, "karg", 1) EXCEPT !.mm = NoMM])

\* The frames of the pages of process p.
Mapped(p) == {proc[p].mm.pte[la].frame : la \in Va} \ {None}

\* A load or store of the process in user space.  With a hit it is done; a store to a page that
\* is not writable is the TLB modified exception, which trap_dispatch does not
\* know.  A miss is handled, and the instruction starts over.
user_access(la, write) ==
    LET s == With(proc[current].mm, 0, 0)
        hits == Hits(s, la)
        fault == do_pgfault(s, la, write)
    IN  /\ Running
        /\ s.mm # NoMM
        /\ \/ /\ hits # {} /\ write
              /\ \E h \in hits :
                    IF h[2].w
                    THEN Now([s EXCEPT !.page[h[2].frame] = "user"])
                    ELSE Panic("Unhandled Exception") /\ UNCHANGED <<mem, proc, current>>
           \/ /\ hits = {} /\ s.mm.pte[la] = NoMap
              /\ IF Ok(fault) THEN Now(fault) ELSE exits(fault)
           \/ /\ hits = {} /\ s.mm.pte[la] # NoMap
              /\ IF write /\ ~s.mm.pte[la].w THEN exits(s) ELSE Now(tlb_refill(s, la))

\* A store of the process through kseg0 or kseg1 into frame f, or (None) into the
\* kernel's own memory: the MMU maps these segments straight to memory, in user mode
\* too.  What a free frame holds is not kept track of.  Once a page table, a kernel
\* stack or the kernel itself has been written over, anything can happen, and this
\* module ends.
kseg_store(f) ==
    /\ Running
    /\ proc[current].mm # NoMM
    /\ \/ /\ \E p \in Proc : f \in Mapped(p)
          /\ mem' = [mem EXCEPT !.page[f] = "stray"]
          /\ UNCHANGED panicked
       \/ /\ f \notin mem.free /\ \A p \in Proc : f \notin Mapped(p)
          /\ Panic("overwritten")
          /\ UNCHANGED mem
    /\ UNCHANGED <<proc, current>>

\* user_mem_check for one page: it must lie in an area that may be read or, when the
\* kernel is to write there, be written and is not the first page of the stack.
user_mem_check(mm, la, write) ==
    \E vma \in AreaOf(mm, la) :
        /\ (IF write THEN "WRITE" ELSE "READ") \in vma.flags
        /\ write /\ "STACK" \in vma.flags => la > vma.start

\* copy_to_user and copy_from_user (copy_string), page by page.
user_copy(la, write) ==
    LET s == kernel_touch(With(proc[current].mm, 0, 0), la, write)
    IN  /\ Running
        /\ user_mem_check(proc[current].mm, la, write)
        /\ IF Ok(s) THEN Now(s) ELSE Panic(s.err) /\ UNCHANGED <<mem, proc, current>>

\* Which kmalloc or which read of the file fails, if one does.
Faults == ((0..MAX_STEPS) \X {0}) \cup ({0} \X (0..MAX_STEPS))

Next ==
    \/ \E next \in Runnable : schedule(next)
    \/ do_exit
    \/ \E p \in Proc : do_wait(p)
    \/ \E child \in Proc, k \in 0..MAX_STEPS : do_fork(child, k)
    \/ \E prog \in Program, open \in BOOLEAN, x \in Faults : do_execve(prog, open, x[1], x[2])
    \/ \E la \in Va, write \in BOOLEAN :
          <<la, write>> \in TOUCHES /\ (user_access(la, write) \/ user_copy(la, write))
    \/ \E f \in STRAYS : kseg_store(f)

Spec == Init /\ [][Next]_vars

-----------------------------------------------------------------------------
Procs(S) == {p \in Proc : proc[p].state \in S}
Tables(p) == {proc[p].mm.pt[i] : i \in DOMAIN proc[p].mm.pt} \ {None}
Areas(p) == {p} \X DOMAIN proc[p].mm.mmap
Owned(p) == proc[p].kstack \cup ({proc[p].mm.pgdir} \ {None}) \cup Tables(p) \cup Mapped(p)

\* Every frame is free or has one owner: a kernel stack, a page directory, a page
\* table or one page of one process; nothing is lost on the ways out of fork and
\* exec, and the objects of kmalloc are those of the processes there are.
FramesExact ==
    panicked = "" =>
        /\ mem.free = Frame \ UNION {Owned(p) : p \in Proc}
        /\ \A p, q \in Proc : p # q => Owned(p) \cap Owned(q) = {}
        /\ \A p \in Proc :
              /\ \A la, lb \in Va : la # lb /\ proc[p].mm.pte[la] # NoMap
                    => proc[p].mm.pte[la].frame # proc[p].mm.pte[lb].frame
              /\ \A la \in Va : proc[p].mm.pte[la] # NoMap =>
                    /\ mem.ref[proc[p].mm.pte[la].frame] = 1
                    /\ proc[p].mm.pt[PDX(la)] # None
                    /\ AreaOf(proc[p].mm, la) # {}
        /\ mem.kmem["proc"] = Cardinality(Procs({"live", "zombie"}))
        /\ mem.kmem["fs"] = Cardinality(Procs({"live"}))
        /\ mem.kmem["mm"] = Cardinality({p \in Proc : proc[p].mm # NoMM})
        /\ mem.kmem["vma"] = Cardinality(UNION {Areas(p) : p \in Proc})
        /\ mem.kmem["karg"] = 0

\* What the TLB holds is what the running process's page tables say, and no page
\* is hit by two entries (mmu.v takes the OR of all hits).
TlbCoherent ==
    panicked = "" =>
        \A la \in Va :
            LET hits == Hits(mem, la)
            IN  /\ Cardinality(hits) <= 1
                /\ \A h \in hits : current # None /\ h[2] = proc[current].mm.pte[la]

\* Nothing changes a page of a process that does not run, neither a step of the
\* kernel nor a store to user space through the TLB, but for a store through a kernel
\* segment, which is what "stray" tells; and fork gives the child a copy of each page
\* of the parent.
Isolated ==
    /\ \A p \in Proc : p # current /\ proc[p].mm # NoMM =>
          \A f \in Mapped(p) : mem'.page[f] \in {mem.page[f], "stray"}
    /\ \A p \in Proc : proc[p].state = "none" /\ proc'[p].state = "live" =>
          \A la \in Va :
             LET old == proc[current].mm.pte[la]
                 new == proc'[p].mm.pte[la]
             IN  /\ old = NoMap <=> new = NoMap
                 /\ old # NoMap => new.w = old.w /\ mem'.page[new.frame] = mem.page[old.frame]
Isolation == [][Isolated]_vars

\* What the map of addresses in armcpu/note says, by which only the kernel reaches
\* kseg0 and kseg1: nothing at all changes a page of a process that does not run.
\* It is not so: mmu.v does not look at the mode.
KernelSegments ==
    [][\A p \in Proc : p # current /\ proc[p].mm # NoMM =>
          \A f \in Mapped(p) : mem'.page[f] = mem.page[f]]_vars
=============================================================================
