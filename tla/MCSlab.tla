------------------------------- MODULE MCSlab -------------------------------
(***************************************************************************)
(* Two structures of linked records on small instances: one behaviour      *)
(* exercises the allocators, with a cache whose slabs hold their control   *)
(* part and one, of two pages a slab, whose control parts are objects of   *)
(* the first; one the family pointers.  They share no state, so the job is *)
(* chosen at the start.                                                    *)
(***************************************************************************)
EXTENDS Slab, KmemCache, Links

CONSTANTS u1, u2, u3, u4    \* the slots of the user processes

VARIABLES job

MCProc == {initproc, u1, u2, u3, u4}

MCCache == {0, 1}
MCnum == [c \in MCCache |-> 2]
MCpage_order == [c \in MCCache |-> c]
MCslab_cachep == [c \in MCCache |-> 0]

\* free_pages frees the range, in the largest blocks there are (MemExact).
ASSUME \A base \in Page, n \in 1..order_size[MAX_ORDER] : base + n <= NPAGE =>
    LET none == [InitMem EXCEPT !.free_list = [o \in Order |-> << >>],
                                !.nr_free = [o \in Order |-> 0],
                                !.property = [p \in Page |-> NoOrder]]
        freed == free_pages(none, base, n)
    IN  MemExact(freed) /\ FreePages(freed) = Block(base, n)

MCInit == Init /\ LinksInit /\ job \in {"memory", "family"}

MCNext ==
    /\ UNCHANGED job
    /\ \/ job = "memory" /\ Next /\ UNCHANGED linkvars
       \/ job = "family" /\ LinksNext /\ UNCHANGED vars

MCSpec == MCInit /\ [][MCNext]_<<vars, linkvars, job>>
=============================================================================
