------------------------------- MODULE Buddy -------------------------------
(***************************************************************************)
(* The buddy allocator of physical pages, kern/mm/buddy_pmm.c, as          *)
(* functions on its state: a record with the free lists, their counters    *)
(* and the PageProperty mark of each page.  Module Slab calls them.        *)
(*                                                                         *)
(* There is one zone; a page is its index in it, as page2idx gives it.     *)
(***************************************************************************)
EXTENDS Naturals, SequencesExt

CONSTANTS
    MAX_ORDER,      \* the largest block has 1 << MAX_ORDER pages
    NPAGE           \* pages of the zone

ASSUME BuddyAssumption == MAX_ORDER \in Nat /\ NPAGE \in Nat \ {0}

Page == 0..(NPAGE - 1)
Order == 0..MAX_ORDER
NoOrder == MAX_ORDER + 1        \* property of a page that heads no free block
NoPage == NPAGE                 \* a NULL struct Page *

Block(base, n) == base..(base + n - 1)

\* 1 << order
order_size[order \in 0..NoOrder] == IF order = 0 THEN 1 ELSE 2 * order_size[order - 1]

\* A loop of n turns.  A Turn behind the end of the code's loop changes nothing.
Loop(s, n, Turn(_)) ==
    LET after[i \in 0..n] == IF i = 0 THEN s ELSE Turn(after[i - 1])
    IN  after[n]

\* getorder: the least order whose blocks have n pages.
getorder(n) == CHOOSE o \in Order : n <= order_size[o] /\ \A q \in 0..(o - 1) : order_size[q] < n

\* list_add to a free list, SetPageProperty, nr_free++.
push(m, base, order) ==
    [m EXCEPT !.free_list[order] = <<base>> \o @,
              !.nr_free[order] = @ + 1,
              !.property[base] = order]

\* list_del from it, ClearPageProperty, nr_free--.
pull(m, base, order) ==
    [m EXCEPT !.free_list[order] = RemoveFirst(@, base),
              !.nr_free[order] = @ - 1,
              !.property[base] = NoOrder]

\* A turn of the loops that go through n pages from base on and cut off a block of
\* the order as long as there are the pages for one, then of the next lower order.
Cut(x, Use(_, _, _)) ==
    LET size == order_size[x.order]
    IN  CASE x.n = 0 -> x
          [] x.n > 0 /\ x.n < size -> [x EXCEPT !.order = @ - 1]
          [] OTHER -> [mem |-> Use(x.mem, x.base, x.order),
                       base |-> x.base + size, n |-> x.n - size, order |-> x.order]

\* No such loop takes more turns; the turns behind its end change nothing.
MAX_CUTS == NPAGE + NoOrder

\* buddy_init, then buddy_init_memmap of all pages.
InitMem ==
    LET empty == [free_list |-> [o \in Order |-> << >>],
                  nr_free   |-> [o \in Order |-> 0],
                  property  |-> [p \in Page |-> NoOrder]]
    IN  Loop([mem |-> empty, base |-> 0, n |-> NPAGE, order |-> MAX_ORDER],
             MAX_CUTS, LAMBDA x : Cut(x, push)).mem

\* Mutant: only a list of the wanted order serves the request.
alloc_pages_sub_nosplit(m, order) ==
    IF m.free_list[order] = << >>
    THEN [mem |-> m, page |-> NoPage]
    ELSE [mem |-> pull(m, Head(m.free_list[order]), order),
          page |-> Head(m.free_list[order])]

\* buddy_alloc_pages_sub: the first block of the smallest order that has one,
\* split down to the wanted order.
buddy_alloc_pages_sub(m, order) ==
    LET fit == {o \in order..MAX_ORDER : m.free_list[o] # << >>}
        cur_order == CHOOSE o \in fit : \A q \in fit : o <= q
        page == Head(m.free_list[cur_order])
        Split(x) == [mem |-> push(x.mem, page + order_size[x.order - 1], x.order - 1),
                     order |-> x.order - 1]
    IN  IF fit = {}
        THEN [mem |-> m, page |-> NoPage]
        ELSE [mem |-> Loop([mem |-> pull(m, page, cur_order), order |-> cur_order],
                           cur_order - order, Split).mem,
              page |-> page]

\* page_is_buddy
page_is_buddy(m, page, order) == page \in Page /\ m.property[page] = order

\* page_idx ^ (1 << order), for a page that starts a block of that order.
buddy_of(page, order) ==
    LET size == order_size[order]
    IN  IF (page \div size) % 2 = 0 THEN page + size ELSE page - size

\* A turn of buddy_free_pages_sub: the block is merged with its buddy if that is free.
Merge(x) ==
    LET buddy == buddy_of(x.page, x.order)
    IN  IF x.order < MAX_ORDER /\ page_is_buddy(x.mem, buddy, x.order)
        THEN [mem |-> pull(x.mem, buddy, x.order),
              page |-> IF buddy < x.page THEN buddy ELSE x.page,    \* page_idx & buddy_idx
              order |-> x.order + 1]
        ELSE x

buddy_free_pages_sub(m, base, order) ==
    LET x == Loop([mem |-> m, page |-> base, order |-> order], MAX_ORDER, Merge)
    IN  push(x.mem, x.page, x.order)

\* A turn of the first loop of buddy_free_pages: the blocks grow with the alignment
\* of base.
Grow(x) ==
    LET size == order_size[x.order]
    IN  CASE x.n < size -> x
          [] x.n >= size /\ (x.base \div size) % 2 = 1 ->
                [mem |-> buddy_free_pages_sub(x.mem, x.base, x.order),
                 base |-> x.base + size, n |-> x.n - size, order |-> x.order + 1]
          [] OTHER -> [x EXCEPT !.order = @ + 1]

\* buddy_free_pages (free_pages): in the second loop the blocks shrink with what is
\* left.
free_pages(m, base, n) ==
    LET grown == Loop([mem |-> m, base |-> base, n |-> n, order |-> 0], NoOrder, Grow)
    IN  Loop(grown, MAX_CUTS, LAMBDA x : Cut(x, buddy_free_pages_sub)).mem

\* buddy_alloc_pages (alloc_pages): what the block has beyond n pages is freed.
alloc_pages(m, n) ==
    LET r == buddy_alloc_pages_sub(m, getorder(n))
        rest == order_size[getorder(n)] - n
    IN  IF r.page = NoPage \/ rest = 0
        THEN r
        ELSE [r EXCEPT !.mem = free_pages(r.mem, r.page + n, rest)]

\* The pages on the free lists.
FreePages(m) == UNION {Block(p, order_size[m.property[p]]) : p \in {q \in Page : m.property[q] # NoOrder}}

\* The lists, the counters and the marks say the same; free blocks are aligned
\* and disjoint; and no block is free together with its buddy.
MemExact(m) ==
    /\ \A o \in Order :
          /\ Len(m.free_list[o]) = m.nr_free[o]
          /\ m.nr_free[o] = Cardinality({p \in Page : m.property[p] = o})
          /\ \A i \in DOMAIN m.free_list[o] : m.property[m.free_list[o][i]] = o
    /\ \A p, q \in Page :
          LET o == m.property[p] IN
          o # NoOrder =>
            /\ p % order_size[o] = 0
            /\ p # q /\ m.property[q] # NoOrder
                  => Block(p, order_size[o]) \cap Block(q, order_size[m.property[q]]) = {}
            /\ o < MAX_ORDER => ~page_is_buddy(m, buddy_of(p, o), o)
=============================================================================
