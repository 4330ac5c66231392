----------------------------- MODULE KmemCache -----------------------------
(***************************************************************************)
(* The geometry of the slab caches: what init_kmem_cache of                *)
(* kern/mm/kmalloc.c computes for each of the sizes 2^5 .. 2^17.           *)
(* A cache is the exponent of its object size, objsize_shift.              *)
(***************************************************************************)
EXTENDS Naturals

PGSIZE == 4096
MIN_SIZE_ORDER == 5
MAX_SIZE_ORDER == 17
KMALLOC_MAX_ORDER == 10
slab_cache == MIN_SIZE_ORDER..MAX_SIZE_ORDER

\* The least order of slab_cache that holds n bytes.
GetOrder(n) == CHOOSE s \in slab_cache : n <= 2^s /\ (s = MIN_SIZE_ORDER \/ 2^(s - 1) < n)

\* A slab_t of 24 bytes and a bufctl of 4 for each object, rounded up to 16.
slab_mgmt_size(n) == ((24 + 4 * n + 15) \div 16) * 16

\* One row, for slabs of one page.
slab_div_table == [s \in 5..8 |-> <<113, 59, 30, 15>>[s - 4]]

\* cache_estimate: how many objects a slab has; in_slab counts down from the
\* precomputed quotient until the control part fits too.
estimate_in_slab(order, shift) ==
    LET Fits(n) == slab_mgmt_size(n) + n * 2^shift <= PGSIZE * 2^order
    IN  CHOOSE n \in 0..slab_div_table[shift] :
            Fits(n) /\ \A k \in (n + 1)..slab_div_table[shift] : ~Fits(k)

cache_estimate(order, shift, off) ==
    LET n == IF off THEN (PGSIZE * 2^order) \div 2^shift ELSE estimate_in_slab(order, shift)
        mgmt_size == IF off THEN 0 ELSE slab_mgmt_size(n)
    IN  [num |-> n, remainder |-> PGSIZE * 2^order - n * 2^shift - mgmt_size]

\* calculate_slab_order: the least order that wastes at most an eighth.
calculate_slab_order(shift, off) ==
    LET Good(order) == LET e == cache_estimate(order, shift, off)
                       IN  e.num # 0 /\ e.remainder * 8 <= PGSIZE * 2^order
    IN  CHOOSE order \in 0..KMALLOC_MAX_ORDER :
            Good(order) /\ \A o \in 0..(order - 1) : ~Good(o)

init_kmem_cache(shift) ==
    LET large == 2^shift >= PGSIZE \div 8
        order == calculate_slab_order(shift, large)
        e == cache_estimate(order, shift, large)
        mgmt_size == slab_mgmt_size(e.num)
        off == large /\ e.remainder < mgmt_size
    IN  [num |-> e.num,
         page_order |-> order,
         slab_cachep |-> IF off THEN GetOrder(mgmt_size) ELSE shift,
         offset |-> IF off THEN 0 ELSE mgmt_size]

\* The objects of a slab lie inside its pages, behind a control part that is in
\* it, and an off_slab control part is an object of a cache that is not off_slab,
\* which is what SlabAssumption of module Slab asks.
ASSUME KmemCacheAssumption ==
    \A shift \in slab_cache :
        LET c == init_kmem_cache(shift) IN
        /\ c.num > 0
        /\ c.offset + c.num * 2^shift <= PGSIZE * 2^c.page_order
        /\ c.slab_cachep = shift => slab_mgmt_size(c.num) <= c.offset
        /\ slab_mgmt_size(c.num) <= 2^c.slab_cachep \/ c.slab_cachep = shift
        /\ init_kmem_cache(c.slab_cachep).slab_cachep = c.slab_cachep
=============================================================================
