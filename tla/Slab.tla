-------------------------------- MODULE Slab --------------------------------
(***************************************************************************)
(* The slab allocator, kern/mm/kmalloc.c, on the buddy allocator.  A cache *)
(* serves the objects of one size from slabs of a power of two of pages; a *)
(* slab keeps its control part (slab_t and the bufctl chain) at its start, *)
(* or, off_slab, in an object of a smaller cache, which is not off_slab.   *)
(*                                                                         *)
(* A slab is named by its first page, an object by its slab and number.    *)
(* The functions take and return the state, kmem.  Nothing else allocates  *)
(* while one of them runs: interrupt handlers do not, and the kernel is    *)
(* not preempted.                                                          *)
(***************************************************************************)
EXTENDS Buddy

CONSTANTS
    Cache,          \* slab_cache[]
    num,            \* objects per slab, for each cache
    page_order,     \* pages per slab
    slab_cachep,    \* where the control parts are allocated; itself when in the slab
    Sizes,          \* the n with which other code calls alloc_pages
    MAX_HELD        \* bound: objects and blocks held at a time

\* getorder panics when n is more than the largest block.
ASSUME SlabAssumption ==
    /\ NoPage \notin Cache
    /\ num \in [Cache -> Nat \ {0}]
    /\ page_order \in [Cache -> Order]
    /\ slab_cachep \in [Cache -> Cache]
    /\ \A c \in Cache : slab_cachep[slab_cachep[c]] = slab_cachep[c]
    /\ Sizes \subseteq 1..order_size[MAX_ORDER]

VARIABLES
    kmem,           \* the buddy's record, the slabs and the caches' lists of them
    objs,           \* the objects kmalloc has handed out and kfree has not got back
    blocks,         \* the blocks of pages held by the callers of alloc_pages: <<base, n>>
    failed          \* n when the last step was a call of alloc_pages(n) that returned NULL

vars == <<kmem, objs, blocks, failed>>

off_slab(c) == slab_cachep[c] # c

NoSlab == [cache |-> NoPage, free |-> << >>, ctl |-> <<NoPage, 0>>]
NoObject == <<NoPage, 0>>       \* a NULL object

Init ==
    /\ kmem = [mem  |-> InitMem,
               slab |-> [p \in Page |-> NoSlab],
               slabs_full    |-> [c \in Cache |-> << >>],
               slabs_notfull |-> [c \in Cache |-> << >>]]
    /\ objs = {}
    /\ blocks = {}
    /\ failed = 0

\* slabp->inuse
inuse(k, s) == num[k.slab[s].cache] - Len(k.slab[s].free)

\* kmem_cache_alloc_one from the first slab of slabs_notfull.
kmem_cache_alloc_one(k, c) ==
    LET s == Head(k.slabs_notfull[c])
        rest == Tail(k.slab[s].free)
        k1 == [k EXCEPT !.slab[s].free = rest]
    IN  [kmem |-> IF rest # << >> THEN k1
                  ELSE [k1 EXCEPT !.slabs_notfull[c] = Tail(@),
                                  !.slabs_full[c] = <<s>> \o @],
         obj |-> <<s, Head(k.slab[s].free)>>]

\* The end of kmem_cache_grow: the pages are marked, the chain is set up and the
\* slab is put on slabs_notfull.
new_slab(k, c, page, ctl) ==
    [k EXCEPT !.slab[page] = [cache |-> c,
                              free  |-> [i \in 1..num[c] |-> i - 1],
                              ctl   |-> ctl],
              !.slabs_notfull[c] = <<page>> \o @]

\* kmem_cache_alloc for a cache whose slabs hold their control part.
alloc_on_slab(k, c) ==
    LET r == alloc_pages(k.mem, order_size[page_order[c]])
    IN  CASE k.slabs_notfull[c] # << >> -> kmem_cache_alloc_one(k, c)
          [] k.slabs_notfull[c] = << >> /\ r.page = NoPage -> [kmem |-> k, obj |-> NoObject]
          [] OTHER -> kmem_cache_alloc_one(
                          new_slab([k EXCEPT !.mem = r.mem], c, r.page, NoObject), c)

\* Mutant: the pages are not given back when there is no room for the control part.
alloc_off_slab_leak(k, c) ==
    LET r == alloc_pages(k.mem, order_size[page_order[c]])
        ctl == alloc_on_slab([k EXCEPT !.mem = r.mem], slab_cachep[c])
    IN  CASE k.slabs_notfull[c] # << >> -> kmem_cache_alloc_one(k, c)
          [] k.slabs_notfull[c] = << >> /\ r.page = NoPage -> [kmem |-> k, obj |-> NoObject]
          [] OTHER -> IF ctl.obj = NoObject
                      THEN [kmem |-> [k EXCEPT !.mem = r.mem], obj |-> NoObject]
                      ELSE kmem_cache_alloc_one(new_slab(ctl.kmem, c, r.page, ctl.obj), c)

\* kmem_cache_alloc for the others: kmem_cache_slabmgmt allocates the control
\* part, and when it cannot the pages go back (the label oops).
alloc_off_slab(k, c) ==
    LET r == alloc_pages(k.mem, order_size[page_order[c]])
        ctl == alloc_on_slab([k EXCEPT !.mem = r.mem], slab_cachep[c])
    IN  CASE k.slabs_notfull[c] # << >> -> kmem_cache_alloc_one(k, c)
          [] k.slabs_notfull[c] = << >> /\ r.page = NoPage -> [kmem |-> k, obj |-> NoObject]
          [] OTHER -> IF ctl.obj = NoObject
                      THEN [kmem |-> [k EXCEPT !.mem = free_pages(r.mem, r.page, order_size[page_order[c]])],
                            obj |-> NoObject]
                      ELSE kmem_cache_alloc_one(new_slab(ctl.kmem, c, r.page, ctl.obj), c)

\* kmem_cache_free_one without the control part of a slab that was destroyed:
\* an empty slab is unlinked and its pages freed, one that was full is linked to
\* slabs_notfull again.
free_one(k, obj) ==
    LET s == obj[1]
        c == k.slab[s].cache
        k1 == [k EXCEPT !.slab[s].free = <<obj[2]>> \o @]
        unlinked == [k1 EXCEPT !.slabs_full[c] = RemoveFirst(@, s),
                               !.slabs_notfull[c] = RemoveFirst(@, s)]
    IN  CASE inuse(k1, s) = 0 ->
                [unlinked EXCEPT !.mem = free_pages(@, s, order_size[page_order[c]]), !.slab[s] = NoSlab]
          [] inuse(k1, s) = num[c] - 1 /\ inuse(k1, s) # 0 ->
                [unlinked EXCEPT !.slabs_notfull[c] = <<s>> \o @]
          [] OTHER -> k1

\* Mutant: the control part of a destroyed slab is forgotten.
kmem_cache_free_ctl(k, obj) == free_one(k, obj)

\* kmem_cache_free: with kmem_slab_destroy, which frees an off_slab control part.
kmem_cache_free(k, obj) ==
    LET k1 == free_one(k, obj)
        s == k.slab[obj[1]]
    IN  IF k1.slab[obj[1]] = NoSlab /\ off_slab(s.cache) THEN free_one(k1, s.ctl) ELSE k1

kmalloc(c) ==
    LET r == IF off_slab(c) THEN alloc_off_slab(kmem, c) ELSE alloc_on_slab(kmem, c)
    IN  /\ kmem' = r.kmem
        /\ objs' = objs \cup ({r.obj} \ {NoObject})
        /\ failed' = 0
        /\ UNCHANGED blocks

kfree(obj) ==
    /\ obj \in objs
    /\ kmem' = kmem_cache_free(kmem, obj)
    /\ objs' = objs \ {obj}
    /\ failed' = 0
    /\ UNCHANGED blocks

AllocPages(n) ==
    LET r == alloc_pages(kmem.mem, n)
    IN  /\ kmem' = [kmem EXCEPT !.mem = r.mem]
        /\ blocks' = blocks \cup {b \in {<<r.page, n>>} : r.page # NoPage}
        /\ failed' = IF r.page = NoPage THEN n ELSE 0
        /\ UNCHANGED objs

\* A caller may give back the first pages of its block, and keep the others
\* (buddy_check does).
FreeSome(b, n) ==
    /\ b \in blocks
    /\ n \in 1..b[2]
    /\ kmem' = [kmem EXCEPT !.mem = free_pages(@, b[1], n)]
    /\ blocks' = (blocks \ {b}) \cup {r \in {<<b[1] + n, b[2] - n>>} : r[2] > 0}
    /\ failed' = 0
    /\ UNCHANGED objs

Room == Cardinality(objs) + Cardinality(blocks) < MAX_HELD

Next ==
    \/ Room /\ \E c \in Cache : kmalloc(c)
    \/ \E obj \in objs : kfree(obj)
    \/ Room /\ \E n \in Sizes : AllocPages(n)
    \/ \E b \in blocks : \E n \in 1..b[2] : FreeSome(b, n)

Spec == Init /\ [][Next]_vars

-----------------------------------------------------------------------------
Slabs == {s \in Page : kmem.slab[s] # NoSlab}
PagesOf(s) == Block(s, order_size[page_order[kmem.slab[s].cache]])
SlabPages == UNION {PagesOf(s) : s \in Slabs}
HeldPages == UNION {Block(b[1], b[2]) : b \in blocks}

\* Every page is free, in a slab, or with a caller of alloc_pages: none is handed
\* out twice and none is lost, also when a request fails half way.
\* With it the allocator's own state is exact (MemExact).
PagesExact ==
    /\ MemExact(kmem.mem)
    /\ FreePages(kmem.mem) \cup SlabPages \cup HeldPages = Page
    /\ FreePages(kmem.mem) \cap (SlabPages \cup HeldPages) = {}
    /\ SlabPages \cap HeldPages = {}
    /\ \A s, t \in Slabs : s # t => PagesOf(s) \cap PagesOf(t) = {}
    /\ \A b, d \in blocks : b # d => Block(b[1], b[2]) \cap Block(d[1], d[2]) = {}

\* The objects of a slab that are not in its chain, and the control parts that are
\* such objects.
Used(k, s) == {s} \X ((0..(num[k.slab[s].cache] - 1)) \ Range(k.slab[s].free))
OffSlab == {s \in Slabs : off_slab(kmem.slab[s].cache)}

\* The caches' lists hold their slabs once, full ones apart from the others; a slab
\* without an object in use is gone; and the objects in use are those handed out
\* and the control parts of the off_slab slabs, none of them twice.
SlabsExact ==
    /\ \A s \in Slabs :
          /\ IsInjective(kmem.slab[s].free)
          /\ Range(kmem.slab[s].free) \subseteq 0..(num[kmem.slab[s].cache] - 1)
          /\ Used(kmem, s) # {}
    /\ \A c \in Cache :
          LET of == {s \in Slabs : kmem.slab[s].cache = c}
          IN  /\ Range(kmem.slabs_full[c]) = {s \in of : kmem.slab[s].free = << >>}
              /\ Range(kmem.slabs_notfull[c]) = {s \in of : kmem.slab[s].free # << >>}
              /\ IsInjective(kmem.slabs_full[c]) /\ IsInjective(kmem.slabs_notfull[c])
    /\ UNION {Used(kmem, s) : s \in Slabs} = objs \cup {kmem.slab[s].ctl : s \in OffSlab}
    /\ \A s \in OffSlab : kmem.slab[s].ctl \notin objs
    /\ \A s, t \in OffSlab : s # t => kmem.slab[s].ctl # kmem.slab[t].ctl

\* alloc_pages(n) returns NULL only when there is no aligned run of free pages of
\* the size that getorder gives: freeing has merged all that could be merged.
NullOnlyWhenNoRun ==
    [][failed' # 0 =>
        LET size == order_size[getorder(failed')]
        IN  ~\E p \in Page : /\ p % size = 0
                             /\ Block(p, size) \subseteq Page \ (SlabPages \cup HeldPages)]_vars
=============================================================================
