----------------------------- MODULE SlabProofs -----------------------------
(***************************************************************************)
(* Proofs about modules Buddy and Slab, for a zone of any size, blocks of  *)
(* any order and any caches.                                               *)
(*                                                                         *)
(* From the bottom: what multiples and aligned blocks are like; what each  *)
(* function of Buddy does to the set of free pages, its loops by what      *)
(* every turn keeps (Turns, LoopExists of SeqLemmas); the same for the     *)
(* functions of Slab, the pages held elsewhere being a parameter; and the  *)
(* invariant SlabInv, from which the properties follow.                    *)
(***************************************************************************)
EXTENDS Slab, SeqLemmas, FiniteSetTheorems, TLAPS

-----------------------------------------------------------------------------
(* The sizes of the orders.                                                *)

\* 1 << order is what its equation says.
LEMMA OrderSizes ==
    order_size = [order \in 0..NoOrder |->
                     IF order = 0 THEN 1 ELSE 2 * order_size[order - 1]]
<1> DEFINE R == Nat \X (0..NoOrder)
           next == [x \in R |-> 2 * x[1]]
<1>1. NoOrder \in Nat
  BY BuddyAssumption DEF NoOrder
<1>2. <<1, 0>> \in R
  BY <1>1
<1>3. \A i \in 1..NoOrder : \A t : <<t, i - 1>> \in R =>
         next[<<t, i - 1>>] = 2 * t /\ <<2 * t, i>> \in R
  <2> SUFFICES ASSUME NEW i \in 1..NoOrder, NEW t, <<t, i - 1>> \in R
               PROVE  next[<<t, i - 1>>] = 2 * t /\ <<2 * t, i>> \in R
    OBVIOUS
  <2>1. t \in Nat
    OBVIOUS
  <2>2. 2 * t \in Nat /\ i \in 0..NoOrder
    BY <1>1, <2>1
  <2> QED BY <2>2
<1> HIDE DEF next, R
<1>4. Turning(NoOrder, R, next)
  BY <1>3 DEF Turning
<1>5. PICK g : Looped(g, NoOrder, 1, next) /\ StaysIn(g, NoOrder, R)
  BY <1>1, <1>2, <1>4, LoopExists
<1>6. g = [i \in 0..NoOrder |-> IF i = 0 THEN 1 ELSE 2 * g[i - 1]]
  <2>1. \A i \in 0..NoOrder : i # 0 => i \in 1..NoOrder /\ i - 1 \in 0..NoOrder
    BY <1>1
  <2>2. \A i \in 0..NoOrder : i # 0 => next[<<g[i - 1], i - 1>>] = 2 * g[i - 1]
    BY <1>3, <1>5, <2>1 DEF StaysIn
  <2> QED BY <1>5, <2>2 DEF Looped
<1> QED BY <1>6 DEF order_size

\* Sizes are positive and double from order to order.
LEMMA SizeDoubles ==
    /\ order_size[0] = 1
    /\ \A o \in 0..NoOrder : order_size[o] \in Nat \ {0}
    /\ \A o \in Order : order_size[o + 1] = 2 * order_size[o]
<1>1. NoOrder \in Nat /\ MAX_ORDER \in Nat /\ NoOrder = MAX_ORDER + 1
  BY BuddyAssumption DEF NoOrder
<1>2. order_size[0] = 1 /\ \A o \in 1..NoOrder : order_size[o] = 2 * order_size[o - 1]
  BY <1>1, OrderSizes
<1> DEFINE T == {o \in 0..NoOrder : order_size[o] \in Nat \ {0}}
<1>3. 0 \in T
  BY <1>1, <1>2
<1>4. \A o \in 1..NoOrder : o - 1 \in T => o \in T
  BY <1>1, <1>2
<1> HIDE DEF T
<1>5. \A o \in 0..NoOrder : o \in T
  BY <1>1, <1>3, <1>4, Turns
<1>6. \A o \in Order : o + 1 \in 1..NoOrder /\ (o + 1) - 1 = o
  BY <1>1 DEF Order
<1> QED BY <1>2, <1>5, <1>6 DEF T

-----------------------------------------------------------------------------
(* Multiples.                                                              *)

\* What division gives.
LEMMA Divide ==
    ASSUME NEW a \in Nat, NEW d \in Nat \ {0}
    PROVE  a = d * (a \div d) + (a % d) /\ a % d \in 0..(d - 1) /\ a \div d \in Nat
OBVIOUS

\* Products grow with their factors.
LEMMA Products ==
    ASSUME NEW d \in Nat \ {0}, NEW j \in Nat, NEW k \in Nat
    PROVE  /\ d * j \in Nat
           /\ d * (j + 1) = d * j + d
           /\ j < k => d * j + d <= d * k
<1>1. d * j \in Nat /\ d * (j + 1) = d * j + d
  OBVIOUS
<1>2. ASSUME j < k PROVE d * j + d <= d * k
  <2> DEFINE e == k - (j + 1)
  <2>1. e \in Nat /\ k = (j + 1) + e
    BY <1>2
  <2> HIDE DEF e
  <2>2. d * k = d * (j + 1) + d * e /\ d * e \in Nat
    BY <2>1
  <2> QED BY <1>1, <2>2
<1> QED BY <1>1, <1>2

\* A product is divided by its factor.
LEMMA DivideProduct ==
    ASSUME NEW d \in Nat \ {0}, NEW k \in Nat, NEW r \in 0..(d - 1)
    PROVE  (d * k + r) % d = r /\ (d * k + r) \div d = k
<1> DEFINE a == d * k + r
           q == a \div d
<1>0. d * k \in Nat
  BY Products
<1>1. a = d * q + (a % d) /\ a % d \in 0..(d - 1) /\ q \in Nat /\ a \in Nat
  <2>1. a \in Nat
    BY <1>0
  <2> HIDE DEF a
  <2> QED BY <2>1, Divide
<1> HIDE DEF q
<1>2. d * q \in Nat
  BY <1>1, Products
<1>3. ~(q < k)
  <2> SUFFICES ASSUME q < k PROVE FALSE
    OBVIOUS
  <2>1. d * q + d <= d * k
    BY <1>1, Products
  <2> QED BY <1>0, <1>1, <1>2, <2>1
<1>4. ~(k < q)
  <2> SUFFICES ASSUME k < q PROVE FALSE
    OBVIOUS
  <2>1. d * k + d <= d * q
    BY <1>1, Products
  <2> QED BY <1>0, <1>1, <1>2, <2>1
<1>5. q = k
  BY <1>1, <1>3, <1>4
<1> QED BY <1>0, <1>1, <1>5 DEF q

\* A number is divided by d when it is d times something.
LEMMA Multiple ==
    ASSUME NEW d \in Nat \ {0}, NEW a \in Nat
    PROVE  /\ a % d = 0 => a = d * (a \div d) /\ a \div d \in Nat
           /\ \A k \in Nat : a = d * k => a % d = 0 /\ a \div d = k
<1>1. a % d = 0 => a = d * (a \div d) /\ a \div d \in Nat
  BY Divide
<1>2. ASSUME NEW k \in Nat, a = d * k PROVE a % d = 0 /\ a \div d = k
  <2>1. 0 \in 0..(d - 1) /\ d * k + 0 = a
    BY <1>2
  <2> QED BY <2>1, DivideProduct
<1> QED BY <1>1, <1>2

\* Between two multiples there is room for one more step.
LEMMA NextMultiple ==
    ASSUME NEW d \in Nat \ {0}, NEW a \in Nat, NEW b \in Nat, a % d = 0, b % d = 0, a < b
    PROVE  a + d <= b
<1> DEFINE j == a \div d
           k == b \div d
<1>1. a = d * j /\ b = d * k /\ j \in Nat /\ k \in Nat
  BY Multiple
<1> HIDE DEF j, k
<1>2. j < k
  <2> SUFFICES ASSUME ~(j < k) PROVE FALSE
    OBVIOUS
  <2>1. k < j => d * k + d <= d * j
    BY <1>1, Products
  <2>2. k < j \/ k = j
    BY <1>1
  <2> QED BY <1>1, <2>1, <2>2
<1> QED BY <1>1, <1>2, Products

\* A step on from a multiple, or back, is one.
LEMMA StepMultiple ==
    ASSUME NEW d \in Nat \ {0}, NEW a \in Nat, a % d = 0
    PROVE  /\ (a + d) % d = 0 /\ (a + d) \div d = (a \div d) + 1
           /\ a # 0 => /\ a >= d /\ (a - d) % d = 0
                       /\ (a - d) \div d = (a \div d) - 1
<1> DEFINE k == a \div d
<1>1. a = d * k /\ k \in Nat
  BY Multiple
<1> HIDE DEF k
<1>2. a + d = d * (k + 1) /\ a + d \in Nat /\ k + 1 \in Nat
  BY <1>1, Products
<1>3. (a + d) % d = 0 /\ (a + d) \div d = k + 1
  <2> DEFINE b == a + d
             j == k + 1
  <2>1. b = d * j /\ b \in Nat /\ j \in Nat
    BY <1>2
  <2> HIDE DEF b, j
  <2>2. b % d = 0 /\ b \div d = j
    BY <2>1, Multiple
  <2> QED BY <2>2 DEF b, j
<1>4. ASSUME a # 0 PROVE a >= d /\ (a - d) % d = 0 /\ (a - d) \div d = k - 1
  <2>1. k # 0
    BY <1>1, <1>4
  <2> DEFINE j == k - 1
  <2>2. j \in Nat /\ k = j + 1
    BY <1>1, <2>1
  <2> HIDE DEF j
  <2>3. a = d * j + d /\ d * j \in Nat
    BY <1>1, <2>2, Products
  <2>4. a - d = d * j /\ a - d \in Nat
    BY <2>3
  <2> QED BY <2>2, <2>3, <2>4, Multiple
<1> QED BY <1>3, <1>4 DEF k

\* Twice d divides a when d does, an even number of times.
LEMMA EvenMultiple ==
    ASSUME NEW d \in Nat \ {0}, NEW a \in Nat
    PROVE  a % (2 * d) = 0 <=> a % d = 0 /\ (a \div d) % 2 = 0
<1>0. 2 * d \in Nat \ {0}
  OBVIOUS
<1>1. ASSUME a % (2 * d) = 0 PROVE a % d = 0 /\ (a \div d) % 2 = 0
  <2> DEFINE k == a \div (2 * d)
  <2>1. a = (2 * d) * k /\ k \in Nat
    BY <1>0, <1>1, Multiple
  <2> HIDE DEF k
  <2>2. a = d * (2 * k) /\ 2 * k \in Nat
    BY <2>1
  <2>3. a % d = 0 /\ a \div d = 2 * k
    BY <2>2, Multiple
  <2> QED BY <2>1, <2>3
<1>2. ASSUME a % d = 0, (a \div d) % 2 = 0 PROVE a % (2 * d) = 0
  <2> DEFINE k == a \div d
  <2>1. a = d * k /\ k \in Nat
    BY <1>2, Multiple
  <2>2. k % 2 = 0
    BY <1>2
  <2> HIDE DEF k
  <2>3. k = 2 * (k \div 2) /\ k \div 2 \in Nat
    BY <2>1, <2>2
  <2> DEFINE h == k \div 2
  <2>4. k = 2 * h /\ h \in Nat
    BY <2>3
  <2> HIDE DEF h
  <2>5. a = (2 * d) * h
    BY <2>1, <2>4
  <2> QED BY <1>0, <2>4, <2>5, Multiple
<1> QED BY <1>1, <1>2

-----------------------------------------------------------------------------
(* Blocks.                                                                 *)

\* An order's size divides those of the orders above it, and is less.
LEMMA SizesDivide ==
    ASSUME NEW a \in 0..NoOrder, NEW b \in 0..NoOrder, a <= b
    PROVE  /\ order_size[b] % order_size[a] = 0
           /\ order_size[a] <= order_size[b]
           /\ a < b => order_size[a] < order_size[b]
<1> DEFINE d == order_size[a]
           T == {i \in 0..(NoOrder - a) :
                    /\ \E k \in Nat \ {0} : order_size[a + i] = d * k
                    /\ order_size[a + i] >= d + i}
<1>0. NoOrder \in Nat /\ a \in Nat /\ b \in Nat /\ NoOrder = MAX_ORDER + 1 /\ MAX_ORDER \in Nat
  BY BuddyAssumption DEF NoOrder
<1>1. d \in Nat \ {0}
  BY SizeDoubles
<1>2. 0 \in T
  <2>1. order_size[a + 0] = d * 1 /\ order_size[a + 0] >= d + 0
    BY <1>0, <1>1
  <2> QED BY <1>0, <2>1
<1>3. ASSUME NEW i \in 1..(NoOrder - a), i - 1 \in T PROVE i \in T
  <2>1. PICK k \in Nat \ {0} : order_size[a + (i - 1)] = d * k
    BY <1>3
  <2>2. a + (i - 1) \in Order /\ (a + (i - 1)) + 1 = a + i
    BY <1>0 DEF Order
  <2>3. order_size[a + i] = 2 * order_size[a + (i - 1)] /\ order_size[a + (i - 1)] \in Nat
    BY <1>0, <2>2, SizeDoubles DEF Order
  <2>4. order_size[a + i] = d * (2 * k) /\ 2 * k \in Nat \ {0}
    BY <1>1, <2>1, <2>3
  <2>5. order_size[a + (i - 1)] >= d + (i - 1)
    BY <1>3
  <2>6. order_size[a + i] >= d + i
    BY <1>0, <1>1, <2>3, <2>5
  <2>7. i \in 0..(NoOrder - a)
    BY <1>0
  <2> QED BY <2>4, <2>6, <2>7
<1> HIDE DEF T
<1>4. \A i \in 0..(NoOrder - a) : i \in T
  <2>1. NoOrder - a \in Nat
    BY <1>0
  <2> QED BY <1>2, <1>3, <2>1, Turns
<1>5. b - a \in T
  BY <1>0, <1>4
<1>6. PICK k \in Nat \ {0} : order_size[b] = d * k
  BY <1>0, <1>5 DEF T
<1>7. order_size[b] >= d + (b - a)
  BY <1>0, <1>5 DEF T
<1>8. order_size[b] \in Nat
  BY SizeDoubles
<1> HIDE DEF d
<1>9. order_size[b] % d = 0
  BY <1>1, <1>6, <1>8, Multiple
<1> QED BY <1>0, <1>1, <1>7, <1>8, <1>9 DEF d

\* A block that may be free: it starts at a multiple of its size.
Aligned(p, o) == p \in Page /\ o \in Order /\ p % order_size[o] = 0
BlockOf(p, o) == Block(p, order_size[o])

\* The pages of a block.
LEMMA BlockPages ==
    ASSUME NEW p \in Nat, NEW n \in Nat, NEW q \in Nat
    PROVE  q \in Block(p, n) <=> p <= q /\ q < p + n
BY DEF Block

\* What is aligned to an order is aligned to those below.
LEMMA AlignedBelow ==
    ASSUME NEW p \in Nat, NEW a \in 0..NoOrder, NEW b \in 0..NoOrder, a <= b,
           p % order_size[b] = 0
    PROVE  p % order_size[a] = 0
<1> DEFINE d == order_size[a]
           e == order_size[b]
           k == e \div d
           j == p \div e
<1>1. d \in Nat \ {0} /\ e \in Nat \ {0}
  BY SizeDoubles
<1>2. e % d = 0 /\ p % e = 0
  BY SizesDivide
<1> HIDE DEF d, e
<1>3. e = d * k /\ k \in Nat /\ p = e * j /\ j \in Nat
  BY <1>1, <1>2, Multiple
<1> HIDE DEF k, j
<1>4. p = d * (k * j) /\ k * j \in Nat
  <2>1. k * j \in Nat
    BY <1>3
  <2>2. (d * k) * j = d * (k * j)
    BY <1>1, <1>3
  <2> QED BY <1>3, <2>1, <2>2
<1> DEFINE m == k * j
<1>5. p = d * m /\ m \in Nat
  BY <1>4
<1> HIDE DEF m
<1> QED BY <1>1, <1>5, Multiple DEF d

\* Two aligned blocks are apart, or the smaller lies in the larger.
LEMMA NestedOrApart ==
    ASSUME NEW p \in Nat, NEW q \in Nat, NEW a \in Order, NEW b \in Order, a <= b,
           p % order_size[a] = 0, q % order_size[b] = 0
    PROVE  \/ BlockOf(p, a) \subseteq BlockOf(q, b)
           \/ p + order_size[a] <= q \/ q + order_size[b] <= p
<1> DEFINE d == order_size[a]
           e == order_size[b]
<1>1. a \in 0..NoOrder /\ b \in 0..NoOrder
  BY BuddyAssumption DEF Order, NoOrder
<1>2. d \in Nat \ {0} /\ e \in Nat \ {0}
  BY <1>1, SizeDoubles
<1>3. e % d = 0 /\ q % d = 0 /\ p % d = 0
  BY <1>1, SizesDivide, AlignedBelow
<1>4. (q + e) % d = 0
  <2>1. q = d * (q \div d) /\ e = d * (e \div d) /\ q \div d \in Nat /\ e \div d \in Nat
    <3> HIDE DEF d, e
    <3> QED BY <1>2, <1>3, Multiple
  <2> DEFINE j == q \div d
             k == e \div d
             m == j + k
             z == q + e
  <2>2. j \in Nat /\ k \in Nat /\ q = d * j /\ e = d * k
    BY <2>1
  <2> HIDE DEF d, e, j, k
  <2>3. z = d * m /\ m \in Nat /\ z \in Nat
    <3>1. d * (j + k) = d * j + d * k
      BY <1>2, <2>2
    <3> QED BY <1>2, <2>2, <3>1
  <2> HIDE DEF z, m
  <2>4. z % d = 0
    BY <1>2, <2>3, Multiple
  <2> QED BY <2>4 DEF z
<1>5. p < q => p + d <= q
  <2> HIDE DEF d
  <2> QED BY <1>2, <1>3, NextMultiple
<1>6. p < q + e => p + d <= q + e
  <2> DEFINE z == q + e
  <2>1. z \in Nat /\ z % d = 0
    BY <1>2, <1>4
  <2> HIDE DEF z, d
  <2>2. p < z => p + d <= z
    BY <1>2, <1>3, <2>1, NextMultiple
  <2> QED BY <2>2 DEF z
<1> HIDE DEF d, e
<1>7. CASE q <= p /\ p + d <= q + e
  <2>1. \A x \in Nat : p <= x /\ x < p + d => q <= x /\ x < q + e
    BY <1>2, <1>7
  <2>2. p..(p + d - 1) \subseteq q..(q + e - 1)
    BY <1>2, <1>7
  <2> QED BY <2>2 DEF BlockOf, Block, d, e
<1>8. CASE ~(q <= p /\ p + d <= q + e)
  <2>1. p + d <= q \/ q + e <= p
    BY <1>2, <1>5, <1>6, <1>8
  <2> QED BY <2>1 DEF d, e
<1> QED BY <1>7, <1>8

\* The two halves of a block are each other's buddies.
LEMMA Buddies ==
    ASSUME NEW o \in Order, NEW p \in Nat, p % order_size[o + 1] = 0
    PROVE  /\ p % order_size[o] = 0 /\ (p + order_size[o]) % order_size[o] = 0
           /\ buddy_of(p, o) = p + order_size[o]
           /\ buddy_of(p + order_size[o], o) = p
<1> DEFINE d == order_size[o]
           r == p + d
<1>1. d \in Nat \ {0} /\ order_size[o + 1] = 2 * d
  BY SizeDoubles, BuddyAssumption DEF Order, NoOrder
<1> HIDE DEF d
<1>2. p % d = 0 /\ (p \div d) % 2 = 0
  BY <1>1, EvenMultiple
<1>3. r % d = 0 /\ r \div d = (p \div d) + 1 /\ p \div d \in Nat
  BY <1>1, <1>2, StepMultiple, Divide
<1>4. (r \div d) % 2 # 0
  BY <1>2, <1>3
<1>5. buddy_of(p, o) = r
  BY <1>2 DEF buddy_of, d
<1>6. buddy_of(r, o) = r - d
  BY <1>4 DEF buddy_of, d
<1> QED BY <1>1, <1>2, <1>3, <1>5, <1>6 DEF d

\* Every aligned block but the largest is one half of a block.
LEMMA HalfOf ==
    ASSUME NEW o \in Order, NEW p \in Nat, p % order_size[o] = 0
    PROVE  \/ p % order_size[o + 1] = 0
           \/ /\ (p \div order_size[o]) % 2 = 1 /\ p >= order_size[o]
              /\ (p - order_size[o]) % order_size[o + 1] = 0
<1> DEFINE d == order_size[o]
<1>1. d \in Nat \ {0} /\ order_size[o + 1] = 2 * d
  BY SizeDoubles, BuddyAssumption DEF Order, NoOrder
<1>2. p % d = 0
  OBVIOUS
<1> HIDE DEF d
<1>3. CASE (p \div d) % 2 = 0
  BY <1>1, <1>2, <1>3, EvenMultiple DEF d
<1>4. CASE (p \div d) % 2 # 0
  <2>1. p \div d \in Nat
    BY <1>1, Divide
  <2>2. (p \div d) % 2 = 1
    BY <1>4, <2>1
  <2>3. p # 0
    <3>1. p = 0 => p = d * 0
      BY <1>1
    <3>2. p = 0 => p \div d = 0
      BY <1>1, <3>1, Multiple
    <3> QED BY <1>4, <3>2
  <2>4. p >= d /\ (p - d) % d = 0 /\ (p - d) \div d = (p \div d) - 1
    BY <1>1, <1>2, <2>3, StepMultiple
  <2> DEFINE q == p - d
  <2>5. q \in Nat /\ q % d = 0 /\ (q \div d) % 2 = 0
    BY <1>1, <2>1, <2>2, <2>4
  <2> HIDE DEF q
  <2>6. q % (2 * d) = 0
    BY <1>1, <2>5, EvenMultiple
  <2> QED BY <1>1, <2>2, <2>4, <2>6 DEF q, d
<1> QED BY <1>3, <1>4

-----------------------------------------------------------------------------
(* The buddy allocator's state.                                            *)

Mem == [free_list : [Order -> Seq(Page)], nr_free : [Order -> Int], property : [Page -> 0..NoOrder]]

\* The lists, the counters and the marks say the same, as sets of the lists' elements.
ListsExact(m) ==
    \A o \in Order : /\ IsInjective(m.free_list[o])
                     /\ Range(m.free_list[o]) = {p \in Page : m.property[p] = o}
                     /\ m.nr_free[o] = Len(m.free_list[o])
\* Free blocks are aligned and in the zone,
Placed(m) == \A p \in Page : m.property[p] # NoOrder =>
                /\ p % order_size[m.property[p]] = 0
                /\ p + order_size[m.property[p]] <= NPAGE
\* apart from each other,
Apart(m) == \A p, q \in Page : p < q /\ m.property[p] # NoOrder /\ m.property[q] # NoOrder
                => p + order_size[m.property[p]] <= q
\* and not free with their buddy.
Merged(m) == \A p \in Page : \A o \in Order : m.property[p] = o /\ o < MAX_ORDER
                => ~page_is_buddy(m, buddy_of(p, o), o)
MemOK(m) == m \in Mem /\ ListsExact(m) /\ Placed(m) /\ Apart(m) /\ Merged(m)

\* The fields of the state.
LEMMA MemFields ==
    ASSUME NEW m \in Mem
    PROVE  /\ m.free_list \in [Order -> Seq(Page)] /\ m.nr_free \in [Order -> Int]
           /\ m.property \in [Page -> 0..NoOrder]
           /\ m = [free_list |-> m.free_list, nr_free |-> m.nr_free, property |-> m.property]
BY DEF Mem

\* The numbers of a zone.
LEMMA Numbers ==
    /\ MAX_ORDER \in Nat /\ NoOrder \in Nat /\ NoOrder = MAX_ORDER + 1
    /\ Order = 0..MAX_ORDER /\ NoOrder \notin Order
    /\ NPAGE \in Nat \ {0} /\ Page = 0..(NPAGE - 1) /\ NoPage \notin Page
    /\ \A o \in 0..NoOrder : o # NoOrder <=> o \in Order
    /\ \A o \in Order : order_size[o] \in Nat \ {0}
BY SizeDoubles, BuddyAssumption DEF NoOrder, Order, Page, NoPage

\* A page is free when it lies in a free block.
LEMMA FreePage ==
    ASSUME NEW m \in Mem, NEW q
    PROVE  q \in FreePages(m) <=>
              \E p \in Page : m.property[p] \in Order /\ q \in BlockOf(p, m.property[p])
<1>1. \A p \in Page : m.property[p] # NoOrder <=> m.property[p] \in Order
  BY MemFields, Numbers
<1> QED BY <1>1 DEF FreePages, BlockOf

\* The first page of a block is in it; a block in the zone ends in it.
LEMMA BlockEnds ==
    ASSUME NEW p \in Page, NEW o \in Order
    PROVE  /\ p \in BlockOf(p, o) /\ BlockOf(p, o) # {}
           /\ BlockOf(p, o) \subseteq Page <=> p + order_size[o] <= NPAGE
           /\ \A q \in Nat : q \in BlockOf(p, o) <=> p <= q /\ q < p + order_size[o]
           /\ BlockOf(p, o) \subseteq Nat
<1> DEFINE d == order_size[o]
<1>1. d \in Nat \ {0} /\ p \in Nat /\ NPAGE \in Nat /\ p \in 0..(NPAGE - 1) /\ Page = 0..(NPAGE - 1)
  BY Numbers
<1> HIDE DEF d
<1>2. BlockOf(p, o) = p..(p + d - 1)
  BY DEF BlockOf, Block, d
<1>3. p \in BlockOf(p, o)
  BY <1>1, <1>2
<1>4. \A q \in Nat : q \in BlockOf(p, o) <=> p <= q /\ q < p + d
  BY <1>1, <1>2
<1>5. BlockOf(p, o) \subseteq Page <=> p + d <= NPAGE
  <2>1. (p + d - 1) \in BlockOf(p, o)
    BY <1>1, <1>2
  <2> QED BY <1>1, <1>2, <2>1
<1>6. BlockOf(p, o) \subseteq Nat
  BY <1>1, <1>2
<1> QED BY <1>3, <1>4, <1>5, <1>6 DEF d

\* The buddy of an aligned block is aligned, another block, and its buddy is the block;
\* and the two are the halves of the block that starts at the lower one.
LEMMA BuddyOf ==
    ASSUME NEW o \in Order, NEW p \in Nat, p % order_size[o] = 0
    PROVE  LET b == buddy_of(p, o)
               low == IF b < p THEN b ELSE p
           IN  /\ b \in Nat /\ b % order_size[o] = 0 /\ b # p /\ buddy_of(b, o) = p
               /\ low \in Nat /\ low % order_size[o + 1] = 0
               /\ {p, b} = {low, low + order_size[o]}
<1> DEFINE d == order_size[o]
<1>1. d \in Nat \ {0}
  BY Numbers
<1>2. CASE p % order_size[o + 1] = 0
  <2>1. buddy_of(p, o) = p + d /\ buddy_of(p + d, o) = p /\ (p + d) % d = 0
    BY <1>2, Buddies
  <2> HIDE DEF d
  <2>2. p + d \in Nat /\ p + d # p /\ ~(p + d < p)
    BY <1>1
  <2> QED BY <1>2, <2>1, <2>2 DEF d
<1>3. CASE p >= d /\ (p - d) % order_size[o + 1] = 0
  <2> DEFINE q == p - d
  <2>1. q \in Nat /\ q + d = p /\ q < p
    BY <1>1, <1>3
  <2>2. q % order_size[o + 1] = 0
    BY <1>3
  <2> HIDE DEF q
  <2>3. q % d = 0 /\ buddy_of(q, o) = q + d /\ buddy_of(q + d, o) = q
    BY <2>1, <2>2, Buddies
  <2> QED BY <2>1, <2>2, <2>3
<1> QED BY <1>2, <1>3, HalfOf

\* SetPageProperty and list_add: an aligned block of pages that are not free becomes
\* free, if its buddy is not.
LEMMA Push ==
    ASSUME NEW m, MemOK(m), NEW p \in Page, NEW o \in Order,
           p % order_size[o] = 0, BlockOf(p, o) \subseteq Page,
           BlockOf(p, o) \cap FreePages(m) = {},
           o < MAX_ORDER => ~page_is_buddy(m, buddy_of(p, o), o)
    PROVE  /\ MemOK(push(m, p, o))
           /\ FreePages(push(m, p, o)) = FreePages(m) \cup BlockOf(p, o)
<1> DEFINE t == push(m, p, o)
           list == <<p>> \o m.free_list[o]
<1>0. /\ m \in Mem /\ ListsExact(m) /\ Placed(m) /\ Apart(m) /\ Merged(m)
      /\ o \in 0..NoOrder /\ o # NoOrder
  BY Numbers DEF MemOK
<1>1. /\ m.free_list \in [Order -> Seq(Page)] /\ m.nr_free \in [Order -> Int]
      /\ m.property \in [Page -> 0..NoOrder]
  BY <1>0, MemFields
<1>2. m.property[p] = NoOrder
  <2> SUFFICES ASSUME m.property[p] # NoOrder PROVE FALSE
    OBVIOUS
  <2>1. m.property[p] \in Order
    BY <1>1, Numbers
  <2>2. p \in BlockOf(p, m.property[p]) /\ p \in BlockOf(p, o)
    BY <2>1, BlockEnds
  <2>3. p \in FreePages(m)
    BY <1>0, <2>1, <2>2, FreePage
  <2> QED BY <2>2, <2>3
<1>3. /\ t.free_list = [m.free_list EXCEPT ![o] = list]
      /\ t.nr_free = [m.nr_free EXCEPT ![o] = @ + 1]
      /\ t.property = [m.property EXCEPT ![p] = o]
      /\ t = [free_list |-> t.free_list, nr_free |-> t.nr_free, property |-> t.property]
  <2> DEFINE f == [m.free_list EXCEPT ![o] = list]
             n == [m.nr_free EXCEPT ![o] = @ + 1]
             r == [m.property EXCEPT ![p] = o]
  <2>1. t = [m EXCEPT !.free_list = f, !.nr_free = n, !.property = r]
    BY DEF push
  <2> HIDE DEF t, f, n, r
  <2>2. t.free_list = f /\ t.nr_free = n /\ t.property = r
    BY <1>0, <2>1 DEF Mem
  <2>3. t = [free_list |-> f, nr_free |-> n, property |-> r]
    BY <1>0, <2>1 DEF Mem
  <2> QED BY <2>2, <2>3 DEF f, n, r
<1>4. /\ m.free_list[o] \in Seq(Page) /\ list \in Seq(Page)
      /\ Range(list) = Range(m.free_list[o]) \cup {p}
      /\ IsInjective(list) /\ Len(list) = Len(m.free_list[o]) + 1
  <2>1. m.free_list[o] \in Seq(Page)
    BY <1>1
  <2>2. IsInjective(m.free_list[o]) /\ p \notin Range(m.free_list[o])
    BY <1>0, <1>2 DEF ListsExact
  <2>3. Len(list) = Len(m.free_list[o]) + 1
    BY <2>1
  <2> HIDE DEF list
  <2> QED BY <2>1, <2>2, <2>3, ConsElements DEF list
<1> HIDE DEF t, list
<1>5. t.free_list \in [Order -> Seq(Page)]
  BY <1>1, <1>3, <1>4
<1>6. t.nr_free \in [Order -> Int] /\ t.property \in [Page -> 0..NoOrder]
  BY <1>0, <1>1, <1>3
<1>7. t \in Mem
  BY <1>3, <1>5, <1>6 DEF Mem
<1>8. t.property[p] = o /\ \A q \in Page : q # p => t.property[q] = m.property[q]
  BY <1>1, <1>3
<1>9. ListsExact(t)
  <2> SUFFICES ASSUME NEW r \in Order
               PROVE  /\ IsInjective(t.free_list[r])
                      /\ Range(t.free_list[r]) = {q \in Page : t.property[q] = r}
                      /\ t.nr_free[r] = Len(t.free_list[r])
    BY DEF ListsExact
  <2>0. /\ IsInjective(m.free_list[r]) /\ m.nr_free[r] = Len(m.free_list[r])
        /\ Range(m.free_list[r]) = {q \in Page : m.property[q] = r}
    BY <1>0 DEF ListsExact
  <2>1. CASE r = o
    <3>1. t.free_list[r] = list /\ t.nr_free[r] = m.nr_free[r] + 1
      BY <1>1, <1>3, <2>1
    <3>2. {q \in Page : t.property[q] = r} = {q \in Page : m.property[q] = r} \cup {p}
      BY <1>8, <2>1
    <3> QED BY <1>4, <2>0, <2>1, <3>1, <3>2
  <2>2. CASE r # o
    <3>1. t.free_list[r] = m.free_list[r] /\ t.nr_free[r] = m.nr_free[r]
      BY <1>1, <1>3, <2>2
    <3>2. r # NoOrder
      BY Numbers
    <3>3. {q \in Page : t.property[q] = r} = {q \in Page : m.property[q] = r}
      BY <1>2, <1>8, <2>2, <3>2
    <3> QED BY <2>0, <3>1, <3>3
  <2> QED BY <2>1, <2>2
<1>10. Placed(t)
  <2>1. p + order_size[o] <= NPAGE
    BY BlockEnds
  <2> QED BY <1>0, <1>8, <2>1 DEF Placed
<1>11. FreePages(t) = FreePages(m) \cup BlockOf(p, o)
  <2>1. ASSUME NEW q \in FreePages(t) PROVE q \in FreePages(m) \cup BlockOf(p, o)
    <3>1. PICK r \in Page : t.property[r] \in Order /\ q \in BlockOf(r, t.property[r])
      BY <1>7, FreePage
    <3> QED BY <1>0, <1>8, <3>1, FreePage
  <2>2. ASSUME NEW q \in FreePages(m) PROVE q \in FreePages(t)
    <3>1. PICK r \in Page : m.property[r] \in Order /\ q \in BlockOf(r, m.property[r])
      BY <1>0, FreePage
    <3>2. r # p
      BY <1>2, <3>1, Numbers
    <3> QED BY <1>7, <1>8, <3>1, <3>2, FreePage
  <2>3. BlockOf(p, o) \subseteq FreePages(t)
    BY <1>7, <1>8, FreePage
  <2> QED BY <2>1, <2>2, <2>3
<1>12. Apart(t)
  <2> SUFFICES ASSUME NEW q \in Page, NEW r \in Page, q < r, t.property[q] # NoOrder,
                      t.property[r] # NoOrder
               PROVE  q + order_size[t.property[q]] <= r
    BY DEF Apart
  <2>0. t.property[q] \in Order /\ t.property[r] \in Order /\ q \in Nat /\ r \in Nat
    <3>1. t.property[q] \in 0..NoOrder /\ t.property[r] \in 0..NoOrder
      BY <1>6
    <3>2. q \in Nat /\ r \in Nat
      BY Numbers
    <3> QED BY <3>1, <3>2, Numbers
  <2>1. CASE q # p /\ r # p
    BY <1>0, <1>8, <2>1 DEF Apart
  <2>2. CASE q = p
    <3> DEFINE d == order_size[o]
    <3>1. r # p /\ m.property[r] \in Order
      BY <1>8, <2>0, <2>2, Numbers
    <3>2. r \in FreePages(m)
      BY <1>0, <3>1, BlockEnds, FreePage
    <3>3. r \notin BlockOf(p, o)
      BY <3>2
    <3>4. d \in Nat /\ ~(p <= r /\ r < p + d)
      <4>1. d \in Nat
        BY Numbers
      <4>2. \A x \in Nat : x \in BlockOf(p, o) <=> p <= x /\ x < p + d
        BY BlockEnds
      <4> QED BY <2>0, <3>3, <4>1, <4>2
    <3> HIDE DEF d
    <3>5. p + d <= r
      BY <2>0, <2>2, <3>4
    <3> QED BY <1>8, <2>2, <3>5 DEF d
  <2>3. CASE r = p
    <3> DEFINE a == m.property[q]
    <3>1. q # p /\ a \in Order /\ t.property[q] = a
      BY <1>8, <2>0, <2>3, Numbers
    <3> HIDE DEF a
    <3>2. p \notin FreePages(m)
      BY BlockEnds
    <3>3. p \notin BlockOf(q, a)
      BY <1>0, <3>1, <3>2, FreePage DEF a
    <3>4. ~(q <= p /\ p < q + order_size[a])
      BY <2>0, <2>3, <3>1, <3>3, BlockEnds
    <3>5. order_size[a] \in Nat
      BY <3>1, BuddyAssumption, Numbers
    <3> DEFINE d == order_size[a]
    <3>6. d \in Nat /\ ~(q <= p /\ p < q + d)
      BY <3>4, <3>5
    <3> HIDE DEF d
    <3>7. q + d <= p
      BY <2>0, <2>3, <3>6
    <3> QED BY <2>3, <3>1, <3>7 DEF d
  <2> QED BY <2>1, <2>2, <2>3
<1>13. Merged(t)
  <2> SUFFICES ASSUME NEW q \in Page, NEW r \in Order, t.property[q] = r, r < MAX_ORDER,
                      buddy_of(q, r) \in Page, t.property[buddy_of(q, r)] = r
               PROVE  FALSE
    BY DEF Merged, page_is_buddy
  <2> DEFINE b == buddy_of(q, r)
  <2>1. q % order_size[r] = 0 /\ q \in Nat
    BY <1>10, Numbers DEF Placed
  <2>2. b # q /\ buddy_of(b, r) = q /\ b \in Page /\ t.property[b] = r
    BY <2>1, BuddyOf
  <2> HIDE DEF b
  <2>3. CASE q # p /\ b # p
    BY <1>0, <1>8, <2>2, <2>3 DEF Merged, page_is_buddy, b
  <2>4. CASE q = p
    <3>1. r = o /\ b # p
      BY <1>8, <2>2, <2>4
    <3> QED BY <1>8, <2>2, <2>4, <3>1 DEF page_is_buddy, b
  <2>5. CASE b = p
    <3>1. r = o /\ q # p
      BY <1>8, <2>2, <2>5
    <3>2. m.property[q] = r
      BY <1>8, <3>1
    <3> QED BY <2>2, <2>5, <3>1, <3>2 DEF page_is_buddy
  <2> QED BY <2>3, <2>4, <2>5
<1> QED BY <1>7, <1>9, <1>10, <1>11, <1>12, <1>13 DEF MemOK, t

\* ClearPageProperty and list_del: a free block becomes one that is not.
LEMMA Pull ==
    ASSUME NEW m, MemOK(m), NEW p \in Page, NEW o \in Order,
           m.property[p] = o
    PROVE  /\ MemOK(pull(m, p, o))
           /\ FreePages(pull(m, p, o)) = FreePages(m) \ BlockOf(p, o)
           /\ BlockOf(p, o) \subseteq FreePages(m)
           /\ p % order_size[o] = 0 /\ BlockOf(p, o) \subseteq Page
<1> DEFINE t == pull(m, p, o)
           list == RemoveFirst(m.free_list[o], p)
<1>0. /\ m \in Mem /\ ListsExact(m) /\ Placed(m) /\ Apart(m) /\ Merged(m)
      /\ o \in 0..NoOrder /\ o # NoOrder
  BY Numbers DEF MemOK
<1>1. /\ m.free_list \in [Order -> Seq(Page)] /\ m.nr_free \in [Order -> Int]
      /\ m.property \in [Page -> 0..NoOrder]
  BY <1>0, MemFields
<1>3. /\ t.free_list = [m.free_list EXCEPT ![o] = list]
      /\ t.nr_free = [m.nr_free EXCEPT ![o] = @ - 1]
      /\ t.property = [m.property EXCEPT ![p] = NoOrder]
      /\ t = [free_list |-> t.free_list, nr_free |-> t.nr_free, property |-> t.property]
  <2> DEFINE f == [m.free_list EXCEPT ![o] = list]
             n == [m.nr_free EXCEPT ![o] = @ - 1]
             r == [m.property EXCEPT ![p] = NoOrder]
  <2>1. t = [m EXCEPT !.free_list = f, !.nr_free = n, !.property = r]
    BY DEF pull
  <2> HIDE DEF t, f, n, r
  <2>2. t.free_list = f /\ t.nr_free = n /\ t.property = r
    BY <1>0, <2>1 DEF Mem
  <2>3. t = [free_list |-> f, nr_free |-> n, property |-> r]
    BY <1>0, <2>1 DEF Mem
  <2> QED BY <2>2, <2>3 DEF f, n, r
<1>4. /\ m.free_list[o] \in Seq(Page) /\ list \in Seq(Page)
      /\ Range(list) = Range(m.free_list[o]) \ {p}
      /\ IsInjective(list) /\ Len(list) = Len(m.free_list[o]) - 1
  <2>1. m.free_list[o] \in Seq(Page)
    BY <1>1
  <2>2. IsInjective(m.free_list[o]) /\ p \in Range(m.free_list[o])
    BY <1>0 DEF ListsExact
  <2>3. PICK k \in DOMAIN m.free_list[o] : m.free_list[o][k] = p
    BY <2>2 DEF Range
  <2>4. list = RemoveAt(m.free_list[o], k)
    BY <2>1, <2>2, <2>3, RemoveFirstAt
  <2> QED BY <2>1, <2>2, <2>3, <2>4, RemoveAtElements
<1> HIDE DEF t, list
<1>5. t.free_list \in [Order -> Seq(Page)]
  BY <1>1, <1>3, <1>4
<1>6. t.nr_free \in [Order -> Int] /\ t.property \in [Page -> 0..NoOrder]
  <2>1. NoOrder \in 0..NoOrder
    BY Numbers
  <2> HIDE DEF NoOrder
  <2> QED BY <1>0, <1>1, <1>3, <2>1
<1>7. t \in Mem
  BY <1>3, <1>5, <1>6 DEF Mem
<1>8. t.property[p] = NoOrder /\ \A q \in Page : q # p => t.property[q] = m.property[q]
  BY <1>1, <1>3
<1>9. ListsExact(t)
  <2> SUFFICES ASSUME NEW r \in Order
               PROVE  /\ IsInjective(t.free_list[r])
                      /\ Range(t.free_list[r]) = {q \in Page : t.property[q] = r}
                      /\ t.nr_free[r] = Len(t.free_list[r])
    BY DEF ListsExact
  <2>0. /\ IsInjective(m.free_list[r]) /\ m.nr_free[r] = Len(m.free_list[r])
        /\ Range(m.free_list[r]) = {q \in Page : m.property[q] = r} /\ r # NoOrder
    BY <1>0, Numbers DEF ListsExact
  <2>1. CASE r = o
    <3>1. t.free_list[r] = list /\ t.nr_free[r] = m.nr_free[r] - 1
      BY <1>1, <1>3, <2>1
    <3>2. {q \in Page : t.property[q] = r} = {q \in Page : m.property[q] = r} \ {p}
      BY <1>8, <2>0, <2>1
    <3> QED BY <1>4, <2>0, <2>1, <3>1, <3>2
  <2>2. CASE r # o
    <3>1. t.free_list[r] = m.free_list[r] /\ t.nr_free[r] = m.nr_free[r]
      BY <1>1, <1>3, <2>2
    <3>3. {q \in Page : t.property[q] = r} = {q \in Page : m.property[q] = r}
      BY <1>8, <2>0, <2>2
    <3> QED BY <2>0, <3>1, <3>3
  <2> QED BY <2>1, <2>2
<1>10. Placed(t) /\ p % order_size[o] = 0 /\ BlockOf(p, o) \subseteq Page
  <2>1. p % order_size[o] = 0 /\ p + order_size[o] <= NPAGE
    BY <1>0 DEF Placed
  <2>2. BlockOf(p, o) \subseteq Page
    BY <2>1, BlockEnds
  <2> QED BY <1>0, <1>8, <2>1, <2>2 DEF Placed
<1>11. BlockOf(p, o) \subseteq FreePages(m)
  BY <1>0, FreePage
<1>12. FreePages(t) = FreePages(m) \ BlockOf(p, o)
  <2>1. ASSUME NEW q \in FreePages(t) PROVE q \in FreePages(m) \ BlockOf(p, o)
    <3>1. PICK r \in Page : t.property[r] \in Order /\ q \in BlockOf(r, t.property[r])
      BY <1>7, FreePage
    <3>2. r # p /\ m.property[r] = t.property[r]
      BY <1>8, <3>1, Numbers
    <3>3. q \in FreePages(m)
      BY <1>0, <3>1, <3>2, FreePage
    <3>4. q \notin BlockOf(p, o)
      <4> DEFINE a == m.property[r]
                 d == order_size[a]
                 e == order_size[o]
      <4>1. a \in Order /\ a # NoOrder /\ q \in BlockOf(r, a)
        BY <3>1, <3>2, Numbers
      <4>2. q \in Nat /\ r <= q /\ q < r + d
        BY <4>1, BlockEnds
      <4>3. r < p => r + d <= p
        BY <1>0, <4>1 DEF Apart
      <4>4. p < r => p + e <= r
        BY <1>0, <4>1 DEF Apart
      <4>5. q \in BlockOf(p, o) => p <= q /\ q < p + e
        BY <4>2, BlockEnds
      <4>6. d \in Nat /\ e \in Nat /\ r \in Nat /\ p \in Nat
        BY <4>1, Numbers
      <4> HIDE DEF a, d, e
      <4> QED BY <3>2, <4>2, <4>3, <4>4, <4>5, <4>6
    <3> QED BY <3>3, <3>4
  <2>2. ASSUME NEW q \in FreePages(m), q \notin BlockOf(p, o) PROVE q \in FreePages(t)
    <3>1. PICK r \in Page : m.property[r] \in Order /\ q \in BlockOf(r, m.property[r])
      BY <1>0, FreePage
    <3>2. r # p
      BY <2>2, <3>1
    <3> QED BY <1>7, <1>8, <3>1, <3>2, FreePage
  <2> QED BY <2>1, <2>2
<1>13. Apart(t)
  BY <1>0, <1>8 DEF Apart
<1>14. Merged(t)
  <2> SUFFICES ASSUME NEW q \in Page, NEW r \in Order, t.property[q] = r, r < MAX_ORDER,
                      buddy_of(q, r) \in Page, t.property[buddy_of(q, r)] = r
               PROVE  FALSE
    BY DEF Merged, page_is_buddy
  <2>1. q # p /\ buddy_of(q, r) # p
    BY <1>8, Numbers
  <2> QED BY <1>0, <1>8, <2>1 DEF Merged, page_is_buddy
<1> QED BY <1>7, <1>9, <1>10, <1>11, <1>12, <1>13, <1>14 DEF MemOK, t

\* The allocator's state is exact.
LEMMA MemIsExact ==
    ASSUME NEW m, MemOK(m)
    PROVE  MemExact(m)
<1>0. /\ m \in Mem /\ ListsExact(m) /\ Placed(m) /\ Apart(m) /\ Merged(m)
  BY DEF MemOK
<1>1. m.free_list \in [Order -> Seq(Page)] /\ m.property \in [Page -> 0..NoOrder]
  BY <1>0, MemFields
<1>2. ASSUME NEW o \in Order
      PROVE  /\ Len(m.free_list[o]) = m.nr_free[o]
             /\ m.nr_free[o] = Cardinality({p \in Page : m.property[p] = o})
             /\ \A i \in DOMAIN m.free_list[o] : m.property[m.free_list[o][i]] = o
  <2> DEFINE list == m.free_list[o]
             of == {p \in Page : m.property[p] = o}
  <2>1. list \in Seq(Page) /\ IsInjective(list) /\ Range(list) = of /\ m.nr_free[o] = Len(list)
    BY <1>0, <1>1 DEF ListsExact
  <2> HIDE DEF list, of
  <2>2. Len(list) \in Nat /\ DOMAIN list = 1..Len(list)
    BY <2>1, LenProperties
  <2>3. \A i \in 1..Len(list) : list[i] \in of
    BY <2>1, <2>2 DEF Range
  <2>4. ExistsBijection(1..Len(list), of)
    <3>1. list \in [1..Len(list) -> of]
      BY <2>1, <2>2, <2>3
    <3>2. \A i, j \in 1..Len(list) : list[i] = list[j] => i = j
      BY <2>1, <2>2 DEF IsInjective
    <3>3. \A p \in of : \E i \in 1..Len(list) : list[i] = p
      BY <2>1, <2>2 DEF Range
    <3>4. list \in Bijection(1..Len(list), of)
      BY <3>1, <3>2, <3>3, Zenon DEF Bijection, Injection, Surjection, IsInjective
    <3> QED BY <3>4 DEF ExistsBijection
  <2>5. Cardinality(of) = Len(list)
    BY <2>2, <2>4, FS_CountingElements
  <2> QED BY <2>1, <2>2, <2>3, <2>5 DEF list, of
<1>3. ASSUME NEW p \in Page, NEW q \in Page, m.property[p] # NoOrder
      PROVE  LET o == m.property[p] IN
             /\ p % order_size[o] = 0
             /\ p # q /\ m.property[q] # NoOrder
                   => Block(p, order_size[o]) \cap Block(q, order_size[m.property[q]]) = {}
             /\ o < MAX_ORDER => ~page_is_buddy(m, buddy_of(p, o), o)
  <2> DEFINE o == m.property[p]
  <2>1. o \in Order
    BY <1>1, <1>3, Numbers
  <2>2. ASSUME p # q, m.property[q] # NoOrder
        PROVE  BlockOf(p, o) \cap BlockOf(q, m.property[q]) = {}
    <3> DEFINE r == m.property[q]
    <3>1. r \in Order
      BY <1>1, <2>2, Numbers
    <3> SUFFICES ASSUME NEW x, x \in BlockOf(p, o), x \in BlockOf(q, r) PROVE FALSE
      OBVIOUS
    <3> DEFINE d == order_size[o]
               e == order_size[r]
    <3>2. x \in Nat /\ p <= x /\ x < p + d
      BY <2>1, BlockEnds
    <3>3. q <= x /\ x < q + e
      BY <3>1, <3>2, BlockEnds
    <3>4. (p < q => p + d <= q) /\ (q < p => q + e <= p)
      BY <1>0, <1>3, <2>2 DEF Apart
    <3>5. d \in Nat /\ e \in Nat /\ p \in Nat /\ q \in Nat
      <4>1. d \in Nat /\ e \in Nat
        BY <2>1, <3>1, Numbers
      <4>2. p \in Nat /\ q \in Nat
        BY <2>1, <2>2, Numbers
      <4> QED BY <4>1, <4>2
    <3> HIDE DEF d, e
    <3> QED BY <2>2, <3>2, <3>3, <3>4, <3>5
  <2>3. p % order_size[o] = 0 /\ (o < MAX_ORDER => ~page_is_buddy(m, buddy_of(p, o), o))
    BY <1>0, <1>3, <2>1 DEF Placed, Merged
  <2> QED BY <2>2, <2>3 DEF BlockOf
<1> QED BY <1>2, <1>3 DEF MemExact

\* A block of an order lies in a free block when all its pages are free: two free
\* halves would have been merged.
LEMMA FreeRun ==
    ASSUME NEW m, MemOK(m), NEW o \in Order, NEW p \in Page,
           p % order_size[o] = 0, BlockOf(p, o) \subseteq FreePages(m)
    PROVE  \E q \in Page : m.property[q] \in o..MAX_ORDER
<1>0. /\ m \in Mem /\ ListsExact(m) /\ Placed(m) /\ Apart(m) /\ Merged(m)
  BY DEF MemOK
<1>1. m.property \in [Page -> 0..NoOrder]
  BY <1>0, MemFields
<1> DEFINE In(q, k) == \E r \in Page : m.property[r] \in k..MAX_ORDER /\ q \in BlockOf(r, m.property[r])
           T == {k \in 0..MAX_ORDER : \A q \in Page :
                    q % order_size[k] = 0 /\ BlockOf(q, k) \subseteq FreePages(m) => In(q, k)}
<1>2. 0 \in T
  <2> SUFFICES ASSUME NEW q \in Page, BlockOf(q, 0) \subseteq FreePages(m) PROVE In(q, 0)
    BY Numbers
  <2>1. q \in FreePages(m)
    <3>1. 0 \in Order
      BY Numbers
    <3>2. q \in BlockOf(q, 0)
      BY <3>1, BlockEnds
    <3> QED BY <3>2
  <2>2. PICK r \in Page : m.property[r] \in Order /\ q \in BlockOf(r, m.property[r])
    BY <1>0, <2>1, FreePage
  <2> QED BY <2>2, Numbers
<1>3. ASSUME NEW k \in 1..MAX_ORDER, k - 1 \in T PROVE k \in T
  <2> SUFFICES ASSUME NEW q \in Page, q % order_size[k] = 0, BlockOf(q, k) \subseteq FreePages(m)
               PROVE  In(q, k)
    BY Numbers
  <2> DEFINE j == k - 1
             d == order_size[j]
             b == q + d
  <2>0. /\ j \in Order /\ k \in Order /\ j + 1 = k /\ d \in Nat \ {0} /\ q \in Nat
        /\ order_size[k] = 2 * d /\ k \in Nat /\ MAX_ORDER \in Nat
    <3>1. j \in Order /\ k \in Order /\ j + 1 = k /\ q \in Nat /\ k \in Nat /\ MAX_ORDER \in Nat
      BY Numbers
    <3> QED BY <3>1, Numbers, SizeDoubles
  <2>1. q % d = 0 /\ b % d = 0 /\ buddy_of(q, j) = b
    <3>1. q % order_size[j + 1] = 0
      BY <2>0
    <3> HIDE DEF j
    <3> QED BY <2>0, <3>1, Buddies
  <2>2. b \in Page /\ BlockOf(q, j) \subseteq BlockOf(q, k) /\ BlockOf(b, j) \subseteq BlockOf(q, k)
    <3> HIDE DEF d, j
    <3>1. q + 2 * d <= NPAGE
      <4>1. FreePages(m) \subseteq Page
        <5> SUFFICES ASSUME NEW x \in FreePages(m) PROVE x \in Page
          OBVIOUS
        <5>1. PICK r \in Page : m.property[r] \in Order /\ x \in BlockOf(r, m.property[r])
          BY <1>0, FreePage
        <5>2. r + order_size[m.property[r]] <= NPAGE
          BY <1>0, <5>1, Numbers DEF Placed
        <5> QED BY <5>1, <5>2, BlockEnds
      <4> QED BY <2>0, <4>1, BlockEnds
    <3>2. b \in Page
      BY <2>0, <3>1, Numbers
    <3> HIDE DEF b
    <3>3. BlockOf(q, k) = q..(q + 2 * d - 1) /\ BlockOf(q, j) = q..(q + d - 1)
      BY <2>0 DEF BlockOf, Block, d
    <3>4. BlockOf(b, j) = b..(b + d - 1)
      BY DEF BlockOf, Block, d
    <3>5. b = q + d
      BY DEF b
    <3> QED BY <2>0, <3>2, <3>3, <3>4, <3>5
  <2>3. \A x \in Page : x % d = 0 /\ BlockOf(x, j) \subseteq FreePages(m) => In(x, j)
    BY <1>3
  <2>4. In(q, j) /\ In(b, j)
    BY <2>1, <2>2, <2>3
  <2> HIDE DEF b
  <2>5. PICK r \in Page : m.property[r] \in j..MAX_ORDER /\ q \in BlockOf(r, m.property[r])
    BY <2>4
  <2>6. PICK s \in Page : m.property[s] \in j..MAX_ORDER /\ b \in BlockOf(s, m.property[s])
    BY <2>4
  \* The free block of order j that a block of that order starts in is this block.
  <2>7. \A x, y \in Page : x % d = 0 /\ x \in BlockOf(y, m.property[y]) /\ m.property[y] = j => x = y
    <3> SUFFICES ASSUME NEW x \in Page, NEW y \in Page, x % d = 0, x \in BlockOf(y, j),
                        m.property[y] = j
                 PROVE  x = y
      OBVIOUS
    <3>1. y % d = 0
      BY <1>0, <2>0, Numbers DEF Placed
    <3>2. x \in Nat /\ y \in Nat
      BY Numbers
    <3>3. y <= x /\ x < y + d
      BY <2>0, <3>2, BlockEnds
    <3> HIDE DEF d
    <3>4. y < x => y + d <= x
      BY <2>0, <3>1, <3>2, NextMultiple
    <3> QED BY <2>0, <3>2, <3>3, <3>4
  <2>8. CASE m.property[r] # j
    <3>1. m.property[r] \in k..MAX_ORDER
      BY <2>0, <2>5, <2>8
    <3> QED BY <2>5, <3>1
  <2>9. CASE m.property[s] # j
    <3> DEFINE h == m.property[s]
    <3>1. h \in k..MAX_ORDER /\ h \in Order /\ k <= h
      <4>1. h \in j..MAX_ORDER /\ h # j
        BY <2>6, <2>9
      <4>2. Order = 0..MAX_ORDER
        BY Numbers
      <4>3. j \in Order /\ j + 1 = k /\ MAX_ORDER \in Nat
        BY <2>0
      <4> HIDE DEF h, j
      <4> QED BY <4>1, <4>2, <4>3
    <3>2. s % order_size[h] = 0 /\ s \in Nat
      BY <1>0, <3>1, Numbers DEF Placed
    <3>3. h \in Order /\ order_size[h] \in Nat /\ b \in BlockOf(s, h)
      <4>1. order_size[h] \in Nat
        <5> HIDE DEF h
        <5> QED BY <3>1, Numbers
      <4> QED BY <2>6, <3>1, <4>1
    <3>4. \/ BlockOf(q, k) \subseteq BlockOf(s, h)
          \/ q + order_size[k] <= s \/ s + order_size[h] <= q
      BY <2>0, <3>1, <3>2, NestedOrApart
    <3>5. s <= b /\ b < s + order_size[h]
      <4>1. b \in Nat
        BY <2>2, Numbers
      <4>2. \A x \in Nat : x \in BlockOf(s, h) <=> s <= x /\ x < s + order_size[h]
        BY <3>3, BlockEnds
      <4> QED BY <3>3, <4>1, <4>2
    <3>6. BlockOf(q, k) \subseteq BlockOf(s, h)
      <4> DEFINE e == order_size[h]
      <4> HIDE DEF e, d
      <4>1. ~(q + 2 * d <= s)
        BY <2>0, <3>2, <3>5 DEF b
      <4>2. ~(s + e <= q)
        BY <2>0, <3>2, <3>3, <3>5 DEF b, e
      <4> QED BY <2>0, <3>4, <4>1, <4>2 DEF e
    <3>7. q \in BlockOf(s, h)
      BY <2>0, <3>6, BlockEnds
    <3> QED BY <3>1, <3>7
  <2>10. CASE m.property[r] = j /\ m.property[s] = j
    <3>1. q = r /\ b = s
      BY <2>1, <2>2, <2>5, <2>6, <2>7, <2>10
    <3>2. j < MAX_ORDER
      BY <2>0
    <3> QED BY <1>0, <2>0, <2>1, <2>10, <3>1, <3>2 DEF Merged, page_is_buddy
  <2> QED BY <2>8, <2>9, <2>10
<1> HIDE DEF T
<1>4. \A k \in 0..MAX_ORDER : k \in T
  BY <1>2, <1>3, Turns, Numbers
<1>5. o \in T
  BY <1>4, Numbers
<1> QED BY <1>5 DEF T

\* getorder finds the least order with room for n pages.
LEMMA GetOrder ==
    ASSUME NEW n \in 1..order_size[MAX_ORDER]
    PROVE  /\ getorder(n) \in Order /\ n <= order_size[getorder(n)]
           /\ \A q \in 0..(getorder(n) - 1) : order_size[q] < n
<1> DEFINE T == {o \in Order : n <= order_size[o]}
<1>1. MAX_ORDER \in T /\ T \subseteq Nat
  BY Numbers
<1>2. PICK o \in T : \A q \in T : o <= q
  BY <1>1, LeastNatural
<1>3. n \in Nat /\ \A q \in Order : order_size[q] \in Nat
  BY Numbers
<1>4. ASSUME NEW q \in 0..(o - 1) PROVE order_size[q] < n
  <2>1. q \in Order /\ q < o
    BY Numbers
  <2>2. ~(n <= order_size[q])
    BY <1>2, <2>1, Numbers
  <2> QED BY <1>3, <2>1, <2>2
<1>5. o \in Order /\ n <= order_size[o] /\ \A q \in 0..(o - 1) : order_size[q] < n
  BY <1>4
<1> QED BY <1>5 DEF getorder

\* The order of a block's size is the block's.
LEMMA OrderOfSize ==
    ASSUME NEW o \in Order
    PROVE  order_size[o] \in 1..order_size[MAX_ORDER] /\ getorder(order_size[o]) = o
<1> DEFINE n == order_size[o]
<1>1. n \in 1..order_size[MAX_ORDER]
  BY Numbers, SizesDivide
<1> DEFINE g == getorder(n)
<1>2. g \in Order /\ n <= order_size[g] /\ \A q \in 0..(g - 1) : order_size[q] < n
  <2> HIDE DEF n
  <2> QED BY <1>1, GetOrder
<1> HIDE DEF g
<1>3. ~(o < g)
  BY <1>2, Numbers
<1>4. ~(g < o)
  <2> SUFFICES ASSUME g < o PROVE FALSE
    OBVIOUS
  <2>1. g \in 0..NoOrder /\ o \in 0..NoOrder /\ order_size[g] \in Nat /\ n \in Nat
    BY <1>2, Numbers
  <2>2. order_size[g] < n
    BY <2>1, SizesDivide
  <2> QED BY <1>2, <2>1, <2>2
<1> QED BY <1>1, <1>2, <1>3, <1>4, Numbers DEF g

-----------------------------------------------------------------------------
(* Allocation of a block.                                                  *)

\* Block p of order o has been taken from the free pages free: they are the pages
\* that are still free and those of the block.
Taken(m, p, o, free) ==
    /\ MemOK(m) /\ p \in Page /\ o \in Order /\ p % order_size[o] = 0
    /\ BlockOf(p, o) \subseteq Page /\ BlockOf(p, o) \cap FreePages(m) = {}
    /\ free = FreePages(m) \cup BlockOf(p, o)

\* A turn of the loop of buddy_alloc_pages_sub: the upper half of the block taken
\* becomes free.
LEMMA SplitBlock ==
    ASSUME NEW m, NEW p, NEW o \in Order, NEW free, Taken(m, p, o, free), o > 0
    PROVE  Taken(push(m, p + order_size[o - 1], o - 1), p, o - 1, free)
<1> DEFINE j == o - 1
           d == order_size[j]
           b == p + d
<1>0. /\ MemOK(m) /\ p \in Page /\ p % order_size[o] = 0 /\ BlockOf(p, o) \subseteq Page
      /\ BlockOf(p, o) \cap FreePages(m) = {} /\ free = FreePages(m) \cup BlockOf(p, o)
  BY DEF Taken
<1>1. /\ j \in Order /\ j + 1 = o /\ d \in Nat \ {0} /\ p \in Nat /\ order_size[o] = 2 * d
      /\ j < MAX_ORDER
  <2>1. j \in Order /\ j + 1 = o /\ p \in Nat /\ j < MAX_ORDER
    BY <1>0, Numbers
  <2> QED BY <2>1, Numbers, SizeDoubles
<1>2. p % d = 0 /\ b % d = 0 /\ buddy_of(b, j) = p
  <2>1. p % order_size[j + 1] = 0
    BY <1>0, <1>1
  <2> HIDE DEF j
  <2> QED BY <1>1, <2>1, Buddies
<1>3. /\ b \in Page /\ BlockOf(p, o) = BlockOf(p, j) \cup BlockOf(b, j)
      /\ BlockOf(p, j) \cap BlockOf(b, j) = {}
  <2>1. p + 2 * d <= NPAGE
    BY <1>0, <1>1, BlockEnds
  <2>2. BlockOf(p, o) = p..(p + 2 * d - 1) /\ BlockOf(p, j) = p..(p + d - 1)
        /\ BlockOf(b, j) = b..(b + d - 1)
    <3> HIDE DEF b
    <3> QED BY <1>1 DEF BlockOf, Block
  <2> HIDE DEF d, j
  <2> QED BY <1>1, <2>1, <2>2, Numbers
<1> HIDE DEF j, d
<1>4. b # p /\ p \in BlockOf(p, j)
  BY <1>0, <1>1, BlockEnds
<1> HIDE DEF b
<1>5. ~page_is_buddy(m, buddy_of(b, j), j)
  <2> SUFFICES ASSUME m.property[p] = j PROVE FALSE
    BY <1>2 DEF page_is_buddy
  <2>1. m \in Mem /\ p \in FreePages(m)
    BY <1>0, <1>1, <1>4, FreePage DEF MemOK
  <2> QED BY <1>0, <1>3, <1>4, <2>1
<1>6. /\ MemOK(push(m, b, j))
      /\ FreePages(push(m, b, j)) = FreePages(m) \cup BlockOf(b, j)
  <2>1. b % order_size[j] = 0 /\ BlockOf(b, j) \subseteq Page
        /\ BlockOf(b, j) \cap FreePages(m) = {}
    BY <1>0, <1>2, <1>3 DEF d
  <2> QED BY <1>0, <1>1, <1>3, <1>5, <2>1, Push
<1>7. Taken(push(m, b, j), p, j, free)
  BY <1>0, <1>1, <1>2, <1>3, <1>6 DEF Taken, d
<1> QED BY <1>7 DEF b, j, d

\* buddy_alloc_pages_sub takes an aligned block of the order, or there is no free block
\* of that order or above.
LEMMA AllocSub ==
    ASSUME NEW m, MemOK(m), NEW order \in Order
    PROVE  LET r == buddy_alloc_pages_sub(m, order) IN
           /\ r = [mem |-> r.mem, page |-> r.page]
           /\ \/ /\ r.page = NoPage /\ r.mem = m
                 /\ \A q \in Page : m.property[q] \notin order..MAX_ORDER
              \/ r.page \in Page /\ Taken(r.mem, r.page, order, FreePages(m))
<1> DEFINE r == buddy_alloc_pages_sub(m, order)
           fit == {o \in order..MAX_ORDER : m.free_list[o] # << >>}
           cur == CHOOSE o \in fit : \A q \in fit : o <= q
           page == Head(m.free_list[cur])
           Split(x) == [mem |-> push(x.mem, page + order_size[x.order - 1], x.order - 1),
                        order |-> x.order - 1]
           n == cur - order
           s == [mem |-> pull(m, page, cur), order |-> cur]
           after == CHOOSE g : g = [i \in 0..n |-> IF i = 0 THEN s ELSE Split(g[i - 1])]
<1>0. r = IF fit = {} THEN [mem |-> m, page |-> NoPage]
          ELSE [mem |-> after[n].mem, page |-> page]
  BY DEF buddy_alloc_pages_sub, Loop
<1>1. /\ m \in Mem /\ m.free_list \in [Order -> Seq(Page)] /\ ListsExact(m)
      /\ \A o \in order..MAX_ORDER : o \in Order
  BY MemFields, Numbers DEF MemOK
<1> SUFFICES /\ r = [mem |-> r.mem, page |-> r.page]
             /\ \/ /\ r.page = NoPage /\ r.mem = m
                   /\ \A q \in Page : m.property[q] \notin order..MAX_ORDER
                \/ r.page \in Page /\ Taken(r.mem, r.page, order, FreePages(m))
  OBVIOUS
<1> HIDE DEF r
<1>2. CASE fit = {}
  <2>1. \A o \in order..MAX_ORDER : m.free_list[o] = << >>
    BY <1>2
  <2>2. ASSUME NEW q \in Page, m.property[q] \in order..MAX_ORDER PROVE FALSE
    <3>1. q \in Range(m.free_list[m.property[q]])
      BY <1>1, <2>2 DEF ListsExact
    <3> QED BY <2>1, <2>2, <3>1 DEF Range
  <2>3. r = [mem |-> m, page |-> NoPage]
    BY <1>0, <1>2
  <2> QED BY <2>2, <2>3
<1>3. CASE fit # {}
  <2>1. cur \in fit
    <3>1. fit \subseteq Nat
      BY Numbers
    <3> HIDE DEF fit
    <3>2. \E o \in fit : \A q \in fit : o <= q
      BY <1>3, <3>1, LeastNatural
    <3> QED BY <3>2
  <2>2. /\ cur \in Order /\ n \in Nat /\ order <= cur /\ order \in Nat /\ cur \in Nat
        /\ m.free_list[cur] # << >> /\ order + n = cur
    <3>1. cur \in order..MAX_ORDER /\ m.free_list[cur] # << >>
      BY <2>1
    <3> HIDE DEF cur, fit
    <3>2. order \in Nat /\ MAX_ORDER \in Nat /\ cur \in Order /\ order \in Order
      BY <1>1, <3>1, Numbers
    <3> QED BY <3>1, <3>2
  <2> HIDE DEF cur, fit
  <2>3. page \in Page /\ m.property[page] = cur
    <3>1. m.free_list[cur] \in Seq(Page)
      BY <1>1, <2>2
    <3>2. page \in Range(m.free_list[cur])
      BY <2>2, <3>1, TailElements
    <3> QED BY <1>1, <2>2, <3>2 DEF ListsExact
  <2> HIDE DEF page
  <2>4. Taken(pull(m, page, cur), page, cur, FreePages(m))
    <3>1. /\ MemOK(pull(m, page, cur))
          /\ FreePages(pull(m, page, cur)) = FreePages(m) \ BlockOf(page, cur)
          /\ BlockOf(page, cur) \subseteq FreePages(m)
          /\ page % order_size[cur] = 0 /\ BlockOf(page, cur) \subseteq Page
      BY <2>2, <2>3, Pull
    <3> QED BY <2>2, <2>3, <3>1 DEF Taken
  <2> DEFINE R == {x \in [mem : Mem, order : Order] \X (0..n) :
                     /\ x[1].order = cur - x[2]
                     /\ Taken(x[1].mem, page, x[1].order, FreePages(m))}
             next == [x \in R |-> Split(x[1])]
  <2>5. <<s, 0>> \in R
    BY <2>2, <2>4 DEF Taken, MemOK
  <2>6. ASSUME NEW i \in 1..n, NEW t, <<t, i - 1>> \in R
        PROVE  <<Split(t), i>> \in R
    <3>1. /\ t.order = cur - (i - 1) /\ t.order \in Order
          /\ Taken(t.mem, page, t.order, FreePages(m))
      BY <2>6
    <3>2. t.order > 0 /\ t.order - 1 \in Order /\ t.order - 1 = cur - i
      BY <2>2, <3>1, Numbers
    <3>3. Taken(push(t.mem, page + order_size[t.order - 1], t.order - 1), page, t.order - 1,
                FreePages(m))
      BY <3>1, <3>2, SplitBlock
    <3>4. push(t.mem, page + order_size[t.order - 1], t.order - 1) \in Mem
      BY <3>3 DEF Taken, MemOK
    <3> QED BY <2>2, <3>2, <3>3, <3>4
  <2>7. \A i \in 1..n : \A t : <<t, i - 1>> \in R => next[<<t, i - 1>>] = Split(t)
    <3> HIDE DEF Split, R
    <3> QED OBVIOUS
  <2> HIDE DEF Split, R, next, n, s
  <2>8. Turning(n, R, next)
    BY <2>6, <2>7 DEF Turning
  <2>9. PICK g : Looped(g, n, s, next) /\ StaysIn(g, n, R)
    <3> HIDE DEF after
    <3> QED BY <2>2, <2>5, <2>8, LoopExists
  <2>10. g = [i \in 0..n |-> IF i = 0 THEN s ELSE Split(g[i - 1])]
    <3>1. \A i \in 0..n : i # 0 => i \in 1..n /\ i - 1 \in 0..n
      BY <2>2
    <3>2. \A i \in 0..n : i # 0 => next[<<g[i - 1], i - 1>>] = Split(g[i - 1])
      BY <2>7, <2>9, <3>1 DEF StaysIn
    <3> QED BY <2>9, <3>2 DEF Looped
  <2>11. after = [i \in 0..n |-> IF i = 0 THEN s ELSE Split(after[i - 1])]
    BY <2>10
  <2> HIDE DEF after
  <2>12. <<after[n], n>> \in R
    <3>1. <<after[0], 0>> \in R
      BY <2>2, <2>5, <2>11
    <3>2. \A i \in 1..n : <<after[i - 1], i - 1>> \in R => <<after[i], i>> \in R
      BY <2>2, <2>6, <2>11
    <3> QED BY <2>2, <3>1, <3>2, LastTurn
  <2>13. after[n].order = cur - n /\ Taken(after[n].mem, page, after[n].order, FreePages(m))
    BY <2>12 DEF R
  <2>14. cur - n = order
    BY <2>2
  <2>15. r = [mem |-> after[n].mem, page |-> page]
    BY <1>0, <1>3
  <2> QED BY <2>3, <2>13, <2>14, <2>15
<1> QED BY <1>2, <1>3

-----------------------------------------------------------------------------
(* Freeing of a block.                                                     *)

\* A turn of the loop of buddy_free_pages_sub: the block and its free buddy become a
\* block of the next order.
LEMMA MergeBlock ==
    ASSUME NEW m, NEW p, NEW o \in Order, NEW free, Taken(m, p, o, free),
           o < MAX_ORDER, page_is_buddy(m, buddy_of(p, o), o)
    PROVE  LET b == buddy_of(p, o)
               low == IF b < p THEN b ELSE p
           IN  Taken(pull(m, b, o), low, o + 1, free)
<1> DEFINE b == buddy_of(p, o)
           low == IF b < p THEN b ELSE p
           d == order_size[o]
           k == o + 1
<1>0. /\ MemOK(m) /\ p \in Page /\ p % d = 0 /\ BlockOf(p, o) \subseteq Page
      /\ BlockOf(p, o) \cap FreePages(m) = {} /\ free = FreePages(m) \cup BlockOf(p, o)
      /\ b \in Page /\ m.property[b] = o
  BY DEF Taken, page_is_buddy
<1>1. k \in Order /\ order_size[k] = 2 * d /\ d \in Nat \ {0} /\ p \in Nat /\ b \in Nat
  BY <1>0, Numbers, SizeDoubles
<1>2. low \in Nat /\ low % order_size[k] = 0 /\ {p, b} = {low, low + d} /\ low \in {p, b}
  <2>1. p % order_size[o] = 0
    BY <1>0
  <2> QED BY <1>1, <2>1, BuddyOf
<1>3. /\ MemOK(pull(m, b, o)) /\ FreePages(pull(m, b, o)) = FreePages(m) \ BlockOf(b, o)
      /\ BlockOf(b, o) \subseteq FreePages(m) /\ BlockOf(b, o) \subseteq Page
  BY <1>0, Pull
<1>4. BlockOf(low, k) = BlockOf(p, o) \cup BlockOf(b, o)
  <2> DEFINE high == low + d
  <2>1. BlockOf(low, k) = low..(low + 2 * d - 1) /\ BlockOf(low, o) = low..(low + d - 1)
    BY <1>1 DEF BlockOf, Block
  <2>2. BlockOf(high, o) = high..(high + d - 1)
    BY DEF BlockOf, Block
  <2> HIDE DEF low, d
  <2>3. BlockOf(low, k) = BlockOf(low, o) \cup BlockOf(high, o)
    BY <1>1, <1>2, <2>1, <2>2
  <2> HIDE DEF high
  <2>4. (p = low /\ b = high) \/ (p = high /\ b = low)
    BY <1>2 DEF high
  <2> QED BY <2>3, <2>4
<1>5. low \in Page
  BY <1>0, <1>2
<1> HIDE DEF b, low
<1>6. Taken(pull(m, b, o), low, k, free)
  <2>1. BlockOf(low, k) \subseteq Page
    BY <1>0, <1>3, <1>4
  <2>2. BlockOf(low, k) \cap FreePages(pull(m, b, o)) = {}
    BY <1>0, <1>3, <1>4
  <2>3. free = FreePages(pull(m, b, o)) \cup BlockOf(low, k)
    BY <1>0, <1>3, <1>4
  <2> QED BY <1>1, <1>2, <1>3, <1>5, <2>1, <2>2, <2>3 DEF Taken
<1> QED BY <1>6 DEF b, low

\* buddy_free_pages_sub frees the block.
LEMMA FreeSub ==
    ASSUME NEW m, NEW p, NEW o \in Order, NEW free, Taken(m, p, o, free)
    PROVE  /\ MemOK(buddy_free_pages_sub(m, p, o))
           /\ FreePages(buddy_free_pages_sub(m, p, o)) = free
<1> DEFINE n == MAX_ORDER
           s == [mem |-> m, page |-> p, order |-> o]
           after == CHOOSE g : g = [i \in 0..n |-> IF i = 0 THEN s ELSE Merge(g[i - 1])]
           Stuck(x) == x.order < MAX_ORDER => ~page_is_buddy(x.mem, buddy_of(x.page, x.order), x.order)
           R == {x \in [mem : Mem, page : Page, order : Order] \X (0..n) :
                   /\ Taken(x[1].mem, x[1].page, x[1].order, free)
                   /\ x[1].order >= x[2] \/ Stuck(x[1])}
           next == [x \in R |-> Merge(x[1])]
<1>0. buddy_free_pages_sub(m, p, o) = push(after[n].mem, after[n].page, after[n].order)
  BY DEF buddy_free_pages_sub, Loop
<1>1. n \in Nat /\ o \in Nat
  BY Numbers
<1>2. <<s, 0>> \in R
  <2>1. m \in Mem /\ p \in Page
    BY DEF Taken, MemOK
  <2> QED BY <1>1, <2>1
<1>3. ASSUME NEW i \in 1..n, NEW t, <<t, i - 1>> \in R
      PROVE  <<Merge(t), i>> \in R
  <2>1. /\ t \in [mem : Mem, page : Page, order : Order] /\ t.order \in Order
        /\ Taken(t.mem, t.page, t.order, free)
        /\ t.order >= i - 1 \/ Stuck(t)
    BY <1>3
  <2> DEFINE b == buddy_of(t.page, t.order)
             low == IF b < t.page THEN b ELSE t.page
             u == [mem |-> pull(t.mem, b, t.order), page |-> low, order |-> t.order + 1]
  <2>2. CASE Stuck(t)
    <3>1. Merge(t) = t
      BY <2>2 DEF Merge
    <3>2. i \in 0..n
      BY <1>1
    <3> HIDE DEF Stuck
    <3> QED BY <2>1, <2>2, <3>1, <3>2
  <2>3. CASE ~Stuck(t)
    <3>1. t.order < MAX_ORDER /\ page_is_buddy(t.mem, b, t.order)
      BY <2>3
    <3>2. Merge(t) = u
      BY <3>1 DEF Merge
    <3>3. Taken(pull(t.mem, b, t.order), low, t.order + 1, free)
      BY <2>1, <3>1, MergeBlock
    <3> HIDE DEF low, b
    <3>4. pull(t.mem, b, t.order) \in Mem /\ low \in Page /\ t.order + 1 \in Order
      BY <3>3 DEF Taken, MemOK
    <3>5. t.order + 1 >= i
      BY <2>1, <2>3, <1>1, Numbers
    <3>6. u \in [mem : Mem, page : Page, order : Order] /\ i \in 0..n
      BY <3>4, <1>1
    <3> QED BY <3>2, <3>3, <3>5, <3>6
  <2> QED BY <2>2, <2>3
<1>4. \A i \in 1..n : \A t : <<t, i - 1>> \in R => next[<<t, i - 1>>] = Merge(t)
  <2> HIDE DEF R
  <2> QED OBVIOUS
<1> HIDE DEF R, next, n, s
<1>5. Turning(n, R, next)
  BY <1>3, <1>4 DEF Turning
<1>6. PICK g : Looped(g, n, s, next) /\ StaysIn(g, n, R)
  <2> HIDE DEF after
  <2> QED BY <1>1, <1>2, <1>5, LoopExists
<1>7. g = [i \in 0..n |-> IF i = 0 THEN s ELSE Merge(g[i - 1])]
  <2>1. \A i \in 0..n : i # 0 => i \in 1..n /\ i - 1 \in 0..n
    BY <1>1
  <2>2. \A i \in 0..n : i # 0 => next[<<g[i - 1], i - 1>>] = Merge(g[i - 1])
    BY <1>4, <1>6, <2>1 DEF StaysIn
  <2> QED BY <1>6, <2>2 DEF Looped
<1>8. after = [i \in 0..n |-> IF i = 0 THEN s ELSE Merge(after[i - 1])]
  BY <1>7
<1> HIDE DEF after
<1>9. <<after[n], n>> \in R
  <2>1. <<after[0], 0>> \in R
    BY <1>1, <1>2, <1>8
  <2>2. \A i \in 1..n : <<after[i - 1], i - 1>> \in R => <<after[i], i>> \in R
    BY <1>1, <1>3, <1>8
  <2> QED BY <1>1, <2>1, <2>2, LastTurn
<1> DEFINE x == after[n]
<1>10. Taken(x.mem, x.page, x.order, free) /\ (x.order >= n \/ Stuck(x))
  BY <1>9 DEF R
<1> HIDE DEF x
<1>11. Stuck(x) /\ x.order \in Order
  BY <1>10, Numbers DEF Taken, n
<1>12. /\ MemOK(push(x.mem, x.page, x.order))
       /\ FreePages(push(x.mem, x.page, x.order)) = FreePages(x.mem) \cup BlockOf(x.page, x.order)
  BY <1>10, <1>11, Push DEF Taken
<1>13. free = FreePages(x.mem) \cup BlockOf(x.page, x.order)
  BY <1>10 DEF Taken
<1> QED BY <1>0, <1>12, <1>13 DEF x

-----------------------------------------------------------------------------
(* Freeing of a run of pages.                                              *)

\* The n pages from base on are in the zone and not free.
Lent(m, base, n) ==
    /\ MemOK(m) /\ base \in Nat /\ n \in Nat /\ base + n <= NPAGE
    /\ Block(base, n) \cap FreePages(m) = {}

\* The loops of buddy_free_pages have freed those before x.base; the order is one that
\* a block may have there.
Freeing(x, m, base, n) ==
    /\ x \in [mem : Mem, base : Nat, n : Nat, order : 0..NoOrder]
    /\ MemOK(x.mem)
    /\ base <= x.base /\ x.base + x.n = base + n
    /\ x.base % order_size[x.order] = 0
    /\ FreePages(x.mem) = FreePages(m) \cup Block(base, x.base - base)

\* Freeing a block of the order takes a step.
LEMMA FreeNext ==
    ASSUME NEW m, NEW base, NEW n, Lent(m, base, n), NEW x, Freeing(x, m, base, n),
           x.order \in Order, x.n >= order_size[x.order]
    PROVE  Freeing([mem |-> buddy_free_pages_sub(x.mem, x.base, x.order),
                    base |-> x.base + order_size[x.order], n |-> x.n - order_size[x.order],
                    order |-> x.order], m, base, n)
<1> DEFINE d == order_size[x.order]
           b == x.base
           u == [mem |-> buddy_free_pages_sub(x.mem, b, x.order),
                 base |-> b + d, n |-> x.n - d, order |-> x.order]
<1>0. /\ d \in Nat \ {0} /\ b \in Nat /\ x.n \in Nat /\ x.n >= d /\ NPAGE \in Nat
      /\ base \in Nat /\ n \in Nat /\ base + n <= NPAGE /\ base <= b /\ b + x.n = base + n
      /\ b % d = 0 /\ x.order \in 0..NoOrder
      /\ FreePages(x.mem) = FreePages(m) \cup Block(base, b - base) /\ MemOK(x.mem)
      /\ Block(base, n) \cap FreePages(m) = {}
  BY Numbers DEF Lent, Freeing
<1> HIDE DEF d, b
<1>1. /\ Block(base, b - base) = base..(b - 1) /\ Block(base, (b + d) - base) = base..(b + d - 1)
      /\ Block(base, n) = base..(base + n - 1) /\ Block(b, d) = b..(b + d - 1)
  <2>1. base + (b - base) - 1 = b - 1 /\ base + ((b + d) - base) - 1 = b + d - 1
    BY <1>0
  <2> QED BY <2>1 DEF Block
<1>2. /\ Block(b, d) \subseteq Block(base, n) /\ Block(b, d) \cap Block(base, b - base) = {}
      /\ Block(base, (b + d) - base) = Block(base, b - base) \cup Block(b, d)
  <2>1. base..(b + d - 1) = base..(b - 1) \cup b..(b + d - 1)
    BY <1>0
  <2>2. b..(b + d - 1) \subseteq base..(base + n - 1) /\ b..(b + d - 1) \cap base..(b - 1) = {}
    BY <1>0
  <2> QED BY <1>1, <2>1, <2>2
<1>3. b \in Page /\ Block(b, d) \subseteq Page
  <2>1. Page = 0..(NPAGE - 1)
    BY DEF Page
  <2>2. b + d <= NPAGE
    BY <1>0
  <2>3. b \in Page
    BY <1>0, <2>1, <2>2
  <2>4. b..(b + d - 1) \subseteq 0..(NPAGE - 1)
    BY <1>0, <2>2
  <2> QED BY <1>1, <2>1, <2>3, <2>4
<1>4. BlockOf(b, x.order) = Block(b, d)
  BY DEF BlockOf, d
<1>5. Taken(x.mem, b, x.order, FreePages(x.mem) \cup Block(b, d))
  <2>1. Block(b, d) \cap FreePages(x.mem) = {}
    BY <1>0, <1>2
  <2>2. b % order_size[x.order] = 0
    BY <1>0 DEF d
  <2> QED BY <1>0, <1>3, <1>4, <2>1, <2>2 DEF Taken
<1>6. /\ MemOK(u.mem) /\ u.mem = buddy_free_pages_sub(x.mem, b, x.order)
      /\ FreePages(u.mem) = FreePages(x.mem) \cup Block(b, d)
  BY <1>5, FreeSub
<1>7. u.base = b + d /\ u.n = x.n - d /\ u.order = x.order /\ u.mem \in Mem
  BY <1>6 DEF MemOK
<1>8. u \in [mem : Mem, base : Nat, n : Nat, order : 0..NoOrder]
  BY <1>0, <1>7
<1>9. (b + d) % d = 0
  BY <1>0, StepMultiple
<1>10. FreePages(u.mem) = FreePages(m) \cup Block(base, u.base - base)
  BY <1>0, <1>2, <1>6, <1>7
<1>11. base <= u.base /\ u.base + u.n = base + n
  BY <1>0, <1>7
<1>12. u.base % order_size[u.order] = 0
  BY <1>7, <1>9 DEF d
<1> HIDE DEF u
<1>13. Freeing(u, m, base, n)
  BY <1>6, <1>8, <1>10, <1>11, <1>12 DEF Freeing
<1> QED BY <1>13 DEF u, b, d

\* A turn of the first loop: what is left is less than a block of the order, or there
\* is a block of the next order at the new base.
LEMMA GrowTurn ==
    ASSUME NEW m, NEW base, NEW n, Lent(m, base, n), NEW x, Freeing(x, m, base, n),
           n <= order_size[MAX_ORDER]
    PROVE  /\ Freeing(Grow(x), m, base, n)
           /\ IF x.n < order_size[x.order] THEN Grow(x) = x ELSE Grow(x).order = x.order + 1
<1> DEFINE d == order_size[x.order]
           b == x.base
           k == x.order + 1
<1>0. /\ x \in [mem : Mem, base : Nat, n : Nat, order : 0..NoOrder] /\ b \in Nat /\ x.n \in Nat
      /\ x.order \in 0..NoOrder /\ b % d = 0 /\ d \in Nat \ {0} /\ base \in Nat /\ n \in Nat
      /\ base <= b /\ b + x.n = base + n
  BY SizeDoubles DEF Lent, Freeing
<1>1. CASE x.n < d
  BY <1>0, <1>1 DEF Grow
<1>2. CASE ~(x.n < d)
  <2>1. x.order \in Order /\ k \in 0..NoOrder /\ order_size[k] = 2 * d
    <3>1. x.n <= n
      BY <1>0
    <3>2. d <= order_size[MAX_ORDER] /\ order_size[MAX_ORDER] \in Nat
      <4>1. order_size[MAX_ORDER] \in Nat
        BY Numbers
      <4> QED BY <1>0, <1>2, <3>1, <4>1
    <3>3. x.order # NoOrder
      <4>1. MAX_ORDER \in 0..NoOrder /\ NoOrder \in 0..NoOrder /\ MAX_ORDER < NoOrder
        BY Numbers
      <4>2. order_size[MAX_ORDER] < order_size[NoOrder]
        BY <4>1, SizesDivide
      <4>3. order_size[NoOrder] \in Nat
        BY <4>1, SizeDoubles
      <4> QED BY <3>2, <4>2, <4>3
    <3>4. x.order \in Order /\ k \in 0..NoOrder
      BY <1>0, <3>3, Numbers
    <3> QED BY <3>4, SizeDoubles
  <2>2. CASE (b \div d) % 2 = 1
    <3> DEFINE u == [mem |-> buddy_free_pages_sub(x.mem, b, x.order),
                     base |-> b + d, n |-> x.n - d, order |-> x.order]
               v == [mem |-> u.mem, base |-> u.base, n |-> u.n, order |-> k]
    <3>1. x.n >= d
      BY <1>0, <1>2
    <3>2. Freeing(u, m, base, n)
      BY <2>1, <3>1, FreeNext
    <3>3. Grow(x) = v
      BY <1>2, <2>2, <3>1 DEF Grow
    <3>4. (b + d) % order_size[k] = 0
      <4>1. ~(b % order_size[k] = 0)
        <5>1. b \in Nat /\ d \in Nat \ {0} /\ order_size[k] = 2 * d /\ ~((b \div d) % 2 = 0)
          BY <1>0, <2>1, <2>2
        <5> HIDE DEF b, d, k
        <5>2. ~(b % (2 * d) = 0)
          BY <5>1, EvenMultiple
        <5> QED BY <5>1, <5>2
      <4>2. b >= d /\ (b - d) % order_size[k] = 0
        <5>1. b % order_size[x.order] = 0
          BY <1>0
        <5> QED BY <1>0, <2>1, <4>1, <5>1, HalfOf
      <4> DEFINE c == b - d
                 e == 2 * d
      <4>3. c \in Nat /\ e \in Nat \ {0} /\ c % e = 0 /\ c + e = b + d
        BY <1>0, <2>1, <4>2
      <4> HIDE DEF c, e
      <4>4. (c + e) % e = 0
        BY <4>3, StepMultiple
      <4> QED BY <2>1, <4>3, <4>4 DEF e
    <3>5. u.base = b + d
      OBVIOUS
    <3> HIDE DEF u, k
    <3>6. v.mem = u.mem /\ v.base = u.base /\ v.n = u.n /\ v.order = k
      OBVIOUS
    <3>7. v \in [mem : Mem, base : Nat, n : Nat, order : 0..NoOrder]
      BY <2>1, <3>2 DEF Freeing
    <3> HIDE DEF v
    <3>8. Freeing(v, m, base, n)
      BY <3>2, <3>4, <3>5, <3>6, <3>7 DEF Freeing
    <3> QED BY <1>2, <3>3, <3>6, <3>8 DEF k
  <2>3. CASE ~((b \div d) % 2 = 1)
    <3> DEFINE v == [x EXCEPT !.order = k]
    <3>1. Grow(x) = v
      BY <1>0, <1>2, <2>3 DEF Grow
    <3>2. b % order_size[k] = 0
      <4>1. (b \div d) % 2 = 0
        <5>1. b \div d \in Nat
          BY <1>0, Divide
        <5> QED BY <2>3, <5>1
      <4>2. b \in Nat /\ d \in Nat \ {0} /\ order_size[k] = 2 * d /\ b % d = 0
        BY <1>0, <2>1
      <4> HIDE DEF b, d, k
      <4>3. b % (2 * d) = 0
        BY <4>1, <4>2, EvenMultiple
      <4> QED BY <4>2, <4>3
    <3>3. v.mem = x.mem /\ v.base = x.base /\ v.n = x.n /\ v.order = k
          /\ v \in [mem : Mem, base : Nat, n : Nat, order : 0..NoOrder]
      BY <1>0, <2>1
    <3> HIDE DEF v, k
    <3>4. Freeing(v, m, base, n)
      BY <3>2, <3>3 DEF Freeing
    <3> QED BY <1>2, <3>1, <3>3, <3>4 DEF k
  <2> QED BY <2>2, <2>3
<1> QED BY <1>1, <1>2

\* A turn of the second loop: a block is freed, or the order is lowered.
LEMMA CutTurn ==
    ASSUME NEW m, NEW base, NEW n, Lent(m, base, n), NEW x, Freeing(x, m, base, n),
           x.order = NoOrder => x.n < order_size[NoOrder]
    PROVE  LET y == Cut(x, buddy_free_pages_sub) IN
           /\ Freeing(y, m, base, n)
           /\ y.order = NoOrder => y.n < order_size[NoOrder]
           /\ y.n = 0 \/ y.n + y.order < x.n + x.order
<1> DEFINE d == order_size[x.order]
           b == x.base
           y == Cut(x, buddy_free_pages_sub)
<1>0. /\ x \in [mem : Mem, base : Nat, n : Nat, order : 0..NoOrder] /\ b \in Nat /\ x.n \in Nat
      /\ x.order \in 0..NoOrder /\ b % d = 0 /\ d \in Nat \ {0} /\ NoOrder \in Nat
  BY SizeDoubles, Numbers DEF Freeing
<1> SUFFICES /\ Freeing(y, m, base, n)
             /\ y.order = NoOrder => y.n < order_size[NoOrder]
             /\ y.n = 0 \/ y.n + y.order < x.n + x.order
  OBVIOUS
<1>1. CASE x.n = 0
  <2>1. y = x
    BY <1>1 DEF Cut
  <2> QED BY <1>1, <2>1
<1>2. CASE x.n # 0 /\ x.n < d
  <2> DEFINE k == x.order - 1
             v == [x EXCEPT !.order = k]
  <2>1. y = v
    BY <1>0, <1>2 DEF Cut
  <2>2. x.order # 0
    <3>1. order_size[0] = 1
      BY SizeDoubles
    <3> QED BY <1>0, <1>2, <3>1
  <2>3. k \in 0..NoOrder /\ k < x.order /\ k # NoOrder
    BY <1>0, <2>2
  <2>4. b % order_size[k] = 0
    BY <1>0, <2>3, AlignedBelow
  <2>5. v.mem = x.mem /\ v.base = x.base /\ v.n = x.n /\ v.order = k
        /\ v \in [mem : Mem, base : Nat, n : Nat, order : 0..NoOrder]
    BY <1>0, <2>3
  <2> HIDE DEF v, k, y
  <2>6. Freeing(v, m, base, n)
    BY <2>4, <2>5 DEF Freeing
  <2> QED BY <1>0, <2>1, <2>3, <2>5, <2>6
<1>3. CASE x.n # 0 /\ ~(x.n < d)
  <2> DEFINE u == [mem |-> buddy_free_pages_sub(x.mem, b, x.order),
                   base |-> b + d, n |-> x.n - d, order |-> x.order]
  <2>1. y = u
    BY <1>0, <1>3 DEF Cut
  <2>2. x.order \in Order /\ x.n >= d /\ x.order # NoOrder
    BY <1>0, <1>3, Numbers
  <2>3. Freeing(u, m, base, n)
    BY <2>2, FreeNext
  <2>4. u.n + u.order < x.n + x.order /\ u.order # NoOrder
    BY <1>0, <1>3, <2>2
  <2> QED BY <2>1, <2>3, <2>4
<1> QED BY <1>1, <1>2, <1>3

\* The first loop ends with less than a block of the order left.
LEMMA GrowLoop ==
    ASSUME NEW m, NEW base, NEW n, Lent(m, base, n), n <= order_size[MAX_ORDER],
           NEW s, s = [mem |-> m, base |-> base, n |-> n, order |-> 0]
    PROVE  LET x == Loop(s, NoOrder, Grow) IN
           Freeing(x, m, base, n) /\ x.n < order_size[x.order]
<1> DEFINE k == NoOrder
           after == CHOOSE g : g = [i \in 0..k |-> IF i = 0 THEN s ELSE Grow(g[i - 1])]
           R == {x \in [mem : Mem, base : Nat, n : Nat, order : 0..NoOrder] \X (0..k) :
                   /\ Freeing(x[1], m, base, n)
                   /\ x[1].n < order_size[x[1].order] \/ x[1].order = x[2]}
           next == [x \in R |-> Grow(x[1])]
<1>0. Loop(s, NoOrder, Grow) = after[k]
  BY DEF Loop
<1>1. k \in Nat
  BY Numbers
<1>2. <<s, 0>> \in R
  <2>1. /\ s \in [mem : Mem, base : Nat, n : Nat, order : 0..NoOrder]
        /\ s.mem = m /\ s.base = base /\ s.n = n /\ s.order = 0 /\ base \in Nat /\ n \in Nat
    BY <1>1 DEF Lent, MemOK
  <2>2. base % order_size[0] = 0
    BY <2>1, SizeDoubles
  <2>3. Block(base, base - base) = {}
    BY <2>1 DEF Block
  <2>4. Freeing(s, m, base, n)
    BY <2>1, <2>2, <2>3 DEF Freeing, Lent
  <2> QED BY <1>1, <2>1, <2>4
<1>3. ASSUME NEW i \in 1..k, NEW t, <<t, i - 1>> \in R
      PROVE  <<Grow(t), i>> \in R
  <2>1. /\ Freeing(t, m, base, n)
        /\ t.n < order_size[t.order] \/ t.order = i - 1
    BY <1>3
  <2>2. /\ Freeing(Grow(t), m, base, n)
        /\ IF t.n < order_size[t.order] THEN Grow(t) = t ELSE Grow(t).order = t.order + 1
    BY <2>1, GrowTurn
  <2> DEFINE u == Grow(t)
  <2>3. u.n < order_size[u.order] \/ u.order = i
    BY <1>1, <2>1, <2>2
  <2>4. u \in [mem : Mem, base : Nat, n : Nat, order : 0..NoOrder] /\ i \in 0..k
    BY <1>1, <2>2 DEF Freeing
  <2> HIDE DEF u
  <2>5. <<u, i>> \in R
    BY <2>2, <2>3, <2>4 DEF u
  <2> QED BY <2>5 DEF u
<1>4. \A i \in 1..k : \A t : <<t, i - 1>> \in R => next[<<t, i - 1>>] = Grow(t)
  <2> HIDE DEF R
  <2> QED OBVIOUS
<1> HIDE DEF R, next, k
<1>5. Turning(k, R, next)
  BY <1>3, <1>4 DEF Turning
<1>6. PICK g : Looped(g, k, s, next) /\ StaysIn(g, k, R)
  <2> HIDE DEF after
  <2> QED BY <1>1, <1>2, <1>5, LoopExists
<1>7. g = [i \in 0..k |-> IF i = 0 THEN s ELSE Grow(g[i - 1])]
  <2>1. \A i \in 0..k : i # 0 => i \in 1..k /\ i - 1 \in 0..k
    BY <1>1
  <2>2. \A i \in 0..k : i # 0 => next[<<g[i - 1], i - 1>>] = Grow(g[i - 1])
    BY <1>4, <1>6, <2>1 DEF StaysIn
  <2> QED BY <1>6, <2>2 DEF Looped
<1>8. after = [i \in 0..k |-> IF i = 0 THEN s ELSE Grow(after[i - 1])]
  BY <1>7
<1> HIDE DEF after
<1>9. <<after[k], k>> \in R
  <2>1. <<after[0], 0>> \in R
    BY <1>1, <1>2, <1>8
  <2>2. \A i \in 1..k : <<after[i - 1], i - 1>> \in R => <<after[i], i>> \in R
    BY <1>1, <1>3, <1>8
  <2> QED BY <1>1, <2>1, <2>2, LastTurn
<1> DEFINE x == after[k]
<1>10. Freeing(x, m, base, n) /\ (x.n < order_size[x.order] \/ x.order = k)
  BY <1>9 DEF R
<1> HIDE DEF x
<1>11. ASSUME x.order = k PROVE x.n < order_size[x.order]
  <2>1. MAX_ORDER \in 0..NoOrder /\ NoOrder \in 0..NoOrder /\ MAX_ORDER < NoOrder
    BY Numbers
  <2>2. order_size[MAX_ORDER] < order_size[NoOrder]
    BY <2>1, SizesDivide
  <2>3. order_size[NoOrder] \in Nat /\ order_size[MAX_ORDER] \in Nat
    BY <2>1, SizeDoubles
  <2>4. x.n <= n /\ x.n \in Nat /\ n \in Nat
    BY <1>10 DEF Freeing, Lent
  <2> QED BY <1>11, <2>2, <2>3, <2>4 DEF k
<1> QED BY <1>0, <1>10, <1>11 DEF x

\* The second loop frees what is left.
LEMMA CutLoop ==
    ASSUME NEW m, NEW base, NEW n, Lent(m, base, n),
           NEW s, Freeing(s, m, base, n), s.n < order_size[s.order]
    PROVE  LET x == Loop(s, MAX_CUTS, LAMBDA y : Cut(y, buddy_free_pages_sub)) IN
           Freeing(x, m, base, n) /\ x.n = 0
<1> DEFINE k == MAX_CUTS
           Turn(y) == Cut(y, buddy_free_pages_sub)
           after == CHOOSE g : g = [i \in 0..k |-> IF i = 0 THEN s ELSE Turn(g[i - 1])]
           R == {x \in [mem : Mem, base : Nat, n : Nat, order : 0..NoOrder] \X (0..k) :
                   /\ Freeing(x[1], m, base, n)
                   /\ x[1].order = NoOrder => x[1].n < order_size[NoOrder]
                   /\ x[1].n = 0 \/ x[1].n + x[1].order <= k - x[2]}
           next == [x \in R |-> Turn(x[1])]
<1>0. Loop(s, MAX_CUTS, LAMBDA y : Cut(y, buddy_free_pages_sub)) = after[k]
  BY DEF Loop
<1>1. k \in Nat /\ k = NPAGE + NoOrder /\ NPAGE \in Nat /\ NoOrder \in Nat
  BY Numbers DEF MAX_CUTS
<1>2. <<s, 0>> \in R
  <2>1. s \in [mem : Mem, base : Nat, n : Nat, order : 0..NoOrder]
    BY DEF Freeing
  <2>2. s.n <= NPAGE
    BY <1>1, <2>1 DEF Freeing, Lent
  <2>3. s.n + s.order <= k - 0
    BY <1>1, <2>1, <2>2
  <2> HIDE DEF k
  <2> QED BY <1>1, <2>1, <2>3
<1>3. ASSUME NEW i \in 1..k, NEW t, <<t, i - 1>> \in R
      PROVE  <<Turn(t), i>> \in R
  <2>1. /\ Freeing(t, m, base, n) /\ t \in [mem : Mem, base : Nat, n : Nat, order : 0..NoOrder]
        /\ t.order = NoOrder => t.n < order_size[NoOrder]
        /\ t.n = 0 \/ t.n + t.order <= k - (i - 1)
    BY <1>3
  <2> DEFINE u == Turn(t)
  <2>2. /\ Freeing(u, m, base, n)
        /\ u.order = NoOrder => u.n < order_size[NoOrder]
        /\ u.n = 0 \/ u.n + u.order < t.n + t.order
    BY <2>1, CutTurn
  <2> HIDE DEF u, k, Turn
  <2>3. u \in [mem : Mem, base : Nat, n : Nat, order : 0..NoOrder] /\ i \in 0..k
    BY <1>1, <2>2 DEF Freeing
  <2>4. t.n = 0 => u.n = 0
    <3>1. t.n = 0 => u = t
      BY DEF u, Turn, Cut
    <3> QED BY <3>1
  <2>5. u.n = 0 \/ u.n + u.order <= k - i
    <3>1. t.n \in Nat /\ t.order \in Nat /\ u.n \in Nat /\ u.order \in Nat /\ i \in Nat
      BY <1>1, <2>1, <2>3
    <3> QED BY <1>1, <2>1, <2>2, <2>4, <3>1
  <2>6. <<u, i>> \in R
    BY <2>2, <2>3, <2>5
  <2> QED BY <2>6 DEF u
<1>4. \A i \in 1..k : \A t : <<t, i - 1>> \in R => next[<<t, i - 1>>] = Turn(t)
  <2> HIDE DEF R, Turn
  <2> QED OBVIOUS
<1> HIDE DEF R, next, k, Turn
<1>5. Turning(k, R, next)
  BY <1>3, <1>4 DEF Turning
<1>6. PICK g : Looped(g, k, s, next) /\ StaysIn(g, k, R)
  <2> HIDE DEF after
  <2> QED BY <1>1, <1>2, <1>5, LoopExists
<1>7. g = [i \in 0..k |-> IF i = 0 THEN s ELSE Turn(g[i - 1])]
  <2>1. \A i \in 0..k : i # 0 => i \in 1..k /\ i - 1 \in 0..k
    BY <1>1
  <2>2. \A i \in 0..k : i # 0 => next[<<g[i - 1], i - 1>>] = Turn(g[i - 1])
    BY <1>4, <1>6, <2>1 DEF StaysIn
  <2> QED BY <1>6, <2>2 DEF Looped
<1>8. after = [i \in 0..k |-> IF i = 0 THEN s ELSE Turn(after[i - 1])]
  BY <1>7
<1> HIDE DEF after
<1>9. <<after[k], k>> \in R
  <2>1. <<after[0], 0>> \in R
    BY <1>1, <1>2, <1>8
  <2>2. \A i \in 1..k : <<after[i - 1], i - 1>> \in R => <<after[i], i>> \in R
    BY <1>1, <1>3, <1>8
  <2> QED BY <1>1, <2>1, <2>2, LastTurn
<1> DEFINE x == after[k]
<1>10. Freeing(x, m, base, n) /\ (x.n = 0 \/ x.n + x.order <= k - k)
  BY <1>9 DEF R
<1> HIDE DEF x
<1>11. x.n \in Nat /\ x.order \in Nat
  BY <1>1, <1>10 DEF Freeing
<1> QED BY <1>0, <1>1, <1>10, <1>11, BuddyAssumption DEF x

\* free_pages frees the pages, and the free blocks are again merged as far as they can be.
LEMMA FreesPages ==
    ASSUME NEW m, NEW base, NEW n, Lent(m, base, n), n <= order_size[MAX_ORDER]
    PROVE  /\ MemOK(free_pages(m, base, n))
           /\ FreePages(free_pages(m, base, n)) = FreePages(m) \cup Block(base, n)
<1> DEFINE s == [mem |-> m, base |-> base, n |-> n, order |-> 0]
           grown == Loop(s, NoOrder, Grow)
           x == Loop(grown, MAX_CUTS, LAMBDA y : Cut(y, buddy_free_pages_sub))
<1>1. free_pages(m, base, n) = x.mem
  BY DEF free_pages
<1>2. Freeing(grown, m, base, n) /\ grown.n < order_size[grown.order]
  BY GrowLoop
<1> HIDE DEF grown
<1>3. Freeing(x, m, base, n) /\ x.n = 0
  BY <1>2, CutLoop
<1> HIDE DEF x
<1>4. x.base - base = n
  BY <1>3 DEF Freeing, Lent
<1> QED BY <1>1, <1>3, <1>4 DEF Freeing

-----------------------------------------------------------------------------
(* The first state, and allocation of a run of pages.                      *)

\* buddy_init_memmap has freed the pages before x.base.  What is left is less than a
\* block of the next order, and a block of the order at x.base has its buddy behind it.
Filling(x) ==
    /\ x \in [mem : Mem, base : Nat, n : Nat, order : Order]
    /\ MemOK(x.mem) /\ FreePages(x.mem) = Block(0, x.base) /\ x.base + x.n = NPAGE
    /\ x.base % order_size[x.order] = 0
    /\ x.order < MAX_ORDER =>
          /\ x.n < order_size[x.order + 1]
          /\ x.n >= order_size[x.order] => x.base % order_size[x.order + 1] = 0

\* A turn of its loops.
LEMMA FillTurn ==
    ASSUME NEW x, Filling(x)
    PROVE  LET y == Cut(x, push) IN
           Filling(y) /\ (y.n = 0 \/ y.n + y.order < x.n + x.order)
<1> DEFINE d == order_size[x.order]
           b == x.base
           y == Cut(x, push)
<1>0. /\ x \in [mem : Mem, base : Nat, n : Nat, order : Order] /\ b \in Nat /\ x.n \in Nat
      /\ x.order \in Order /\ x.order \in Nat /\ b % d = 0 /\ d \in Nat \ {0} /\ NoOrder \in Nat
      /\ b + x.n = NPAGE /\ NPAGE \in Nat /\ MemOK(x.mem) /\ FreePages(x.mem) = Block(0, b)
  BY Numbers DEF Filling
<1> SUFFICES Filling(y) /\ (y.n = 0 \/ y.n + y.order < x.n + x.order)
  OBVIOUS
<1>1. CASE x.n = 0
  <2>1. y = x
    BY <1>1 DEF Cut
  <2> QED BY <1>1, <2>1
<1>2. CASE x.n # 0 /\ x.n < d
  <2> DEFINE k == x.order - 1
             v == [x EXCEPT !.order = k]
  <2>1. y = v
    BY <1>0, <1>2 DEF Cut
  <2>2. x.order # 0
    <3>1. order_size[0] = 1
      BY SizeDoubles
    <3> QED BY <1>0, <1>2, <3>1
  <2>3. k \in Order /\ k \in 0..NoOrder /\ k < x.order /\ k + 1 = x.order /\ x.order \in 0..NoOrder
    BY <1>0, <2>2, Numbers
  <2>4. b % order_size[k] = 0
    BY <1>0, <2>3, AlignedBelow
  <2>5. v.mem = x.mem /\ v.base = x.base /\ v.n = x.n /\ v.order = k
        /\ v \in [mem : Mem, base : Nat, n : Nat, order : Order]
    BY <1>0, <2>3
  <2>6. x.n < order_size[k + 1] /\ b % order_size[k + 1] = 0
    BY <1>0, <1>2, <2>3
  <2> HIDE DEF v, k, y
  <2>7. Filling(v)
    BY <1>0, <2>4, <2>5, <2>6 DEF Filling
  <2> QED BY <1>0, <2>1, <2>3, <2>5, <2>7
<1>3. CASE x.n # 0 /\ ~(x.n < d)
  <2> DEFINE o == x.order
             u == [mem |-> push(x.mem, b, o), base |-> b + d, n |-> x.n - d, order |-> o]
  <2>1. y = u
    BY <1>0, <1>3 DEF Cut
  <2>2. x.n >= d
    BY <1>0, <1>3
  <2>3. b \in Page
    BY <1>0, <1>3, Numbers
  <2>4. /\ Block(0, b) = 0..(b - 1) /\ Block(0, b + d) = 0..(b + d - 1)
        /\ BlockOf(b, o) = b..(b + d - 1)
    <3> HIDE DEF b
    <3>1. 0 + b - 1 = b - 1 /\ 0 + (b + d) - 1 = b + d - 1
      BY <1>0
    <3> QED BY <3>1 DEF Block, BlockOf
  <2>5. /\ BlockOf(b, o) \subseteq Page /\ BlockOf(b, o) \cap FreePages(x.mem) = {}
        /\ Block(0, b + d) = Block(0, b) \cup BlockOf(b, o)
    <3> HIDE DEF b, d, o
    <3>1. b + d <= NPAGE
      BY <1>0, <2>2
    <3> QED BY <1>0, <2>4, <3>1, Numbers
  <2>6. o < MAX_ORDER => ~page_is_buddy(x.mem, buddy_of(b, o), o)
    <3> SUFFICES ASSUME o < MAX_ORDER, b + d \in Page, x.mem.property[b + d] = o,
                        buddy_of(b, o) = b + d
                 PROVE  FALSE
      <4>1. ASSUME o < MAX_ORDER PROVE buddy_of(b, o) = b + d
        <5>1. b % order_size[o + 1] = 0 /\ o \in Order
          BY <1>0, <2>2, <4>1 DEF Filling
        <5> QED BY <1>0, <5>1, Buddies
      <4> QED BY <4>1 DEF page_is_buddy
    <3>1. x.mem \in Mem /\ b + d \in BlockOf(b + d, o)
      BY <1>0, BlockEnds
    <3>2. b + d \in FreePages(x.mem)
      BY <1>0, <3>1, FreePage
    <3> QED BY <1>0, <2>4, <3>2
  <2>7. /\ MemOK(u.mem) /\ FreePages(u.mem) = Block(0, b + d)
    <3>1. b % order_size[o] = 0
      BY <1>0
    <3> HIDE DEF b, d, o
    <3>2. /\ MemOK(push(x.mem, b, o))
          /\ FreePages(push(x.mem, b, o)) = FreePages(x.mem) \cup BlockOf(b, o)
      BY <1>0, <2>3, <2>5, <2>6, <3>1, Push DEF o
    <3> QED BY <1>0, <2>5, <3>2
  <2>8. (b + d) % d = 0
    <3> HIDE DEF b, d
    <3> QED BY <1>0, StepMultiple
  <2>9. o < MAX_ORDER => x.n - d < d
    <3> SUFFICES ASSUME o < MAX_ORDER PROVE x.n - d < d
      OBVIOUS
    <3>1. x.n < order_size[o + 1] /\ order_size[o + 1] = 2 * d
      BY <1>0, SizeDoubles DEF Filling
    <3> QED BY <1>0, <3>1
  <2>10. u.base = b + d /\ u.n = x.n - d /\ u.order = o /\ u.mem \in Mem
    BY <2>7 DEF MemOK
  <2>11. u \in [mem : Mem, base : Nat, n : Nat, order : Order] /\ u.base + u.n = NPAGE
    BY <1>0, <2>2, <2>10
  <2>12. o < MAX_ORDER => u.n < order_size[o] /\ u.n < order_size[o + 1] /\ ~(u.n >= order_size[o])
    <3> SUFFICES ASSUME o < MAX_ORDER
                 PROVE  u.n < order_size[o] /\ u.n < order_size[o + 1] /\ ~(u.n >= order_size[o])
      OBVIOUS
    <3>1. order_size[o + 1] = 2 * d
      BY <1>0, SizeDoubles
    <3> QED BY <1>0, <2>2, <2>9, <2>10, <3>1
  <2>13. u.base % order_size[o] = 0
    BY <2>8, <2>10
  <2>14. u.n + u.order < x.n + x.order
    BY <1>0, <1>3, <2>2, <2>10
  <2> HIDE DEF u, d, b
  <2>15. Filling(u)
    BY <2>7, <2>10, <2>11, <2>12, <2>13 DEF Filling
  <2> QED BY <2>1, <2>14, <2>15
<1> QED BY <1>1, <1>2, <1>3

\* At first no page is free.
LEMMA EmptyMem ==
    ASSUME NEW m,
           m = [free_list |-> [o \in Order |-> << >>], nr_free |-> [o \in Order |-> 0],
                property |-> [p \in Page |-> NoOrder]]
    PROVE  MemOK(m) /\ FreePages(m) = {}
<1>1. m \in Mem
  <2>1. << >> \in Seq(Page)
    OBVIOUS
  <2> QED BY <2>1, Numbers DEF Mem
<1>2. \A p \in Page : m.property[p] = NoOrder
  OBVIOUS
<1>3. \A o \in Order : o # NoOrder
  BY Numbers
<1>4. FreePages(m) = {}
  BY <1>2 DEF FreePages
<1>5. ListsExact(m)
  <2>1. \A o \in Order : m.free_list[o] = << >> /\ m.nr_free[o] = 0
    OBVIOUS
  <2>2. IsInjective(<< >>) /\ Range(<< >>) = {} /\ Len(<< >>) = 0
    BY DEF IsInjective, Range
  <2> QED BY <1>2, <1>3, <2>1, <2>2 DEF ListsExact
<1>6. Placed(m) /\ Apart(m) /\ Merged(m)
  BY <1>2, <1>3 DEF Placed, Apart, Merged
<1> QED BY <1>1, <1>4, <1>5, <1>6 DEF MemOK

\* Then all are.
LEMMA InitialMem ==
    MemOK(InitMem) /\ FreePages(InitMem) = Page
<1> DEFINE empty == [free_list |-> [o \in Order |-> << >>], nr_free |-> [o \in Order |-> 0],
                     property |-> [p \in Page |-> NoOrder]]
           s == [mem |-> empty, base |-> 0, n |-> NPAGE, order |-> MAX_ORDER]
           k == MAX_CUTS
           Turn(y) == Cut(y, push)
           after == CHOOSE g : g = [i \in 0..k |-> IF i = 0 THEN s ELSE Turn(g[i - 1])]
           R == {x \in [mem : Mem, base : Nat, n : Nat, order : Order] \X (0..k) :
                   /\ Filling(x[1])
                   /\ x[1].n = 0 \/ x[1].n + x[1].order <= k - x[2]}
           next == [x \in R |-> Turn(x[1])]
<1>0. InitMem = after[k].mem
  BY DEF InitMem, Loop
<1>1. /\ k \in Nat /\ k = NPAGE + NoOrder /\ NPAGE \in Nat /\ NoOrder \in Nat
      /\ MAX_ORDER \in Order /\ MAX_ORDER \in Nat /\ MAX_ORDER < NoOrder /\ Order \subseteq Nat
  BY Numbers DEF MAX_CUTS
<1>2. <<s, 0>> \in R
  <2>1. MemOK(empty) /\ FreePages(empty) = {}
    BY EmptyMem
  <2> HIDE DEF empty
  <2>2. /\ s \in [mem : Mem, base : Nat, n : Nat, order : Order]
        /\ s.mem = empty /\ s.base = 0 /\ s.n = NPAGE /\ s.order = MAX_ORDER
    BY <1>1, <2>1 DEF MemOK
  <2>3. 0 % order_size[MAX_ORDER] = 0
    <3>1. order_size[MAX_ORDER] \in Nat \ {0}
      BY Numbers
    <3>2. 0 = order_size[MAX_ORDER] * 0
      BY <3>1
    <3> QED BY <3>1, <3>2, Multiple
  <2>4. Block(0, 0) = {}
    BY DEF Block
  <2> HIDE DEF s, k
  <2>5. Filling(s)
    <3>1. MemOK(s.mem) /\ FreePages(s.mem) = Block(0, s.base)
      BY <2>1, <2>2, <2>4
    <3>2. s.base + s.n = NPAGE /\ ~(s.order < MAX_ORDER)
      BY <1>1, <2>2
    <3>3. s.base % order_size[s.order] = 0
      BY <2>2, <2>3
    <3> QED BY <2>2, <3>1, <3>2, <3>3 DEF Filling
  <2>6. s.n + s.order <= k - 0
    BY <1>1, <2>2
  <2> QED BY <1>1, <2>2, <2>5, <2>6
<1>3. ASSUME NEW i \in 1..k, NEW t, <<t, i - 1>> \in R
      PROVE  <<Turn(t), i>> \in R
  <2>1. /\ Filling(t) /\ t \in [mem : Mem, base : Nat, n : Nat, order : Order]
        /\ t.n = 0 \/ t.n + t.order <= k - (i - 1)
    BY <1>3
  <2> DEFINE u == Turn(t)
  <2>2. Filling(u) /\ (u.n = 0 \/ u.n + u.order < t.n + t.order)
    BY <2>1, FillTurn
  <2> HIDE DEF u, k, Turn
  <2>3. u \in [mem : Mem, base : Nat, n : Nat, order : Order] /\ i \in 0..k
    BY <1>1, <2>2 DEF Filling
  <2>4. t.n = 0 => u.n = 0
    <3>1. t.n = 0 => u = t
      BY DEF u, Turn, Cut
    <3> QED BY <3>1
  <2>5. u.n = 0 \/ u.n + u.order <= k - i
    <3>1. t.n \in Nat /\ t.order \in Nat /\ u.n \in Nat /\ u.order \in Nat /\ i \in Nat
      <4>1. t.n \in Nat /\ t.order \in Order /\ u.n \in Nat /\ u.order \in Order
        BY <2>1, <2>3
      <4>2. t.order \in Nat /\ u.order \in Nat
        BY <1>1, <4>1
      <4>3. i \in Nat
        BY <1>1
      <4> QED BY <4>1, <4>2, <4>3
    <3> QED BY <1>1, <2>1, <2>2, <2>4, <3>1
  <2>6. <<u, i>> \in R
    BY <2>2, <2>3, <2>5
  <2> QED BY <2>6 DEF u
<1>4. \A i \in 1..k : \A t : <<t, i - 1>> \in R => next[<<t, i - 1>>] = Turn(t)
  <2> HIDE DEF R, Turn
  <2> QED OBVIOUS
<1> HIDE DEF R, next, k, Turn, s
<1>5. Turning(k, R, next)
  BY <1>3, <1>4 DEF Turning
<1>6. PICK g : Looped(g, k, s, next) /\ StaysIn(g, k, R)
  <2> HIDE DEF after
  <2> QED BY <1>1, <1>2, <1>5, LoopExists
<1>7. g = [i \in 0..k |-> IF i = 0 THEN s ELSE Turn(g[i - 1])]
  <2>1. \A i \in 0..k : i # 0 => i \in 1..k /\ i - 1 \in 0..k
    BY <1>1
  <2>2. \A i \in 0..k : i # 0 => next[<<g[i - 1], i - 1>>] = Turn(g[i - 1])
    BY <1>4, <1>6, <2>1 DEF StaysIn
  <2> QED BY <1>6, <2>2 DEF Looped
<1>8. after = [i \in 0..k |-> IF i = 0 THEN s ELSE Turn(after[i - 1])]
  BY <1>7
<1> HIDE DEF after
<1>9. <<after[k], k>> \in R
  <2>1. <<after[0], 0>> \in R
    BY <1>1, <1>2, <1>8
  <2>2. \A i \in 1..k : <<after[i - 1], i - 1>> \in R => <<after[i], i>> \in R
    BY <1>1, <1>3, <1>8
  <2> QED BY <1>1, <2>1, <2>2, LastTurn
<1> DEFINE x == after[k]
<1>10. Filling(x) /\ (x.n = 0 \/ x.n + x.order <= k - k)
  BY <1>9 DEF R
<1> HIDE DEF x
<1>11. x.n \in Nat /\ x.order \in Nat
  BY <1>1, <1>10 DEF Filling
<1>12. x.n = 0
  BY <1>1, <1>10, <1>11
<1>13. x.base = NPAGE /\ Block(0, NPAGE) = Page
  BY <1>10, <1>12 DEF Filling, Block, Page
<1> QED BY <1>0, <1>10, <1>13 DEF x, Filling

\* alloc_pages(n) takes n pages that were free, at a multiple of the size that getorder
\* gives, or there is no run of that size of free pages.
LEMMA AllocsPages ==
    ASSUME NEW m, MemOK(m), NEW n \in 1..order_size[MAX_ORDER]
    PROVE  LET r == alloc_pages(m, n)
               o == getorder(n)
           IN  \/ /\ r.page = NoPage /\ r.mem = m
                  /\ ~\E p \in Page : p % order_size[o] = 0 /\ BlockOf(p, o) \subseteq FreePages(m)
               \/ /\ r.page \in Page /\ r.page % order_size[o] = 0 /\ Lent(r.mem, r.page, n)
                  /\ FreePages(m) = FreePages(r.mem) \cup Block(r.page, n)
<1> DEFINE o == getorder(n)
           d == order_size[o]
           r == alloc_pages(m, n)
           a == buddy_alloc_pages_sub(m, o)
           rest == d - n
<1>1. o \in Order /\ n <= d /\ n \in Nat \ {0} /\ order_size[MAX_ORDER] \in Nat
  BY GetOrder, Numbers
<1>2. d \in Nat \ {0} /\ d <= order_size[MAX_ORDER] /\ rest \in Nat /\ rest <= order_size[MAX_ORDER]
  <2>1. d \in Nat \ {0} /\ d <= order_size[MAX_ORDER]
    BY <1>1, Numbers, SizesDivide
  <2> QED BY <1>1, <2>1
<1>3. r = IF a.page = NoPage \/ rest = 0 THEN a
          ELSE [a EXCEPT !.mem = free_pages(a.mem, a.page + n, rest)]
  BY DEF alloc_pages
<1> SUFFICES \/ /\ r.page = NoPage /\ r.mem = m
                /\ ~\E p \in Page : p % d = 0 /\ BlockOf(p, o) \subseteq FreePages(m)
             \/ /\ r.page \in Page /\ r.page % d = 0 /\ Lent(r.mem, r.page, n)
                /\ FreePages(m) = FreePages(r.mem) \cup Block(r.page, n)
  OBVIOUS
<1> HIDE DEF o, r
<1>4. /\ a = [mem |-> a.mem, page |-> a.page]
      /\ \/ a.page = NoPage /\ a.mem = m /\ \A q \in Page : m.property[q] \notin o..MAX_ORDER
         \/ a.page \in Page /\ Taken(a.mem, a.page, o, FreePages(m))
  BY <1>1, AllocSub
<1> HIDE DEF a
<1>5. CASE a.page = NoPage /\ a.mem = m /\ \A q \in Page : m.property[q] \notin o..MAX_ORDER
  <2>1. r = a
    BY <1>3, <1>5
  <2>2. ~\E p \in Page : p % d = 0 /\ BlockOf(p, o) \subseteq FreePages(m)
    BY <1>1, <1>5, FreeRun
  <2> QED BY <1>5, <2>1, <2>2
<1>6. CASE a.page \in Page /\ Taken(a.mem, a.page, o, FreePages(m))
  <2> DEFINE p == a.page
             f == free_pages(a.mem, p + n, rest)
  <2>1. /\ MemOK(a.mem) /\ p \in Page /\ p % d = 0 /\ p \in Nat /\ p # NoPage
        /\ BlockOf(p, o) \subseteq Page /\ BlockOf(p, o) \cap FreePages(a.mem) = {}
        /\ FreePages(m) = FreePages(a.mem) \cup BlockOf(p, o)
        /\ p + d <= NPAGE /\ NPAGE \in Nat
    BY <1>1, <1>6, BlockEnds, Numbers DEF Taken
  <2>2. /\ BlockOf(p, o) = p..(p + d - 1) /\ Block(p, n) = p..(p + n - 1)
        /\ Block(p + n, rest) = (p + n)..(p + d - 1)
    <3> HIDE DEF p, d
    <3>1. (p + n) + rest - 1 = p + d - 1
      BY <1>1, <1>2, <2>1
    <3> QED BY <3>1 DEF BlockOf, Block, d
  <2> HIDE DEF p, d
  <2>3. CASE rest = 0
    <3>1. r = a /\ n = d
      BY <1>1, <1>2, <1>3, <2>3
    <3>2. Lent(a.mem, p, n)
      BY <1>1, <2>1, <2>2, <3>1 DEF Lent
    <3> QED BY <2>1, <2>2, <3>1, <3>2 DEF p
  <2>4. CASE rest # 0
    <3>1. r.mem = f /\ r.page = p
      BY <1>3, <1>4, <2>1, <2>4 DEF p
    <3>2. /\ Block(p + n, rest) \subseteq BlockOf(p, o) /\ Block(p, n) \subseteq BlockOf(p, o)
          /\ Block(p, n) \cap Block(p + n, rest) = {}
          /\ BlockOf(p, o) = Block(p, n) \cup Block(p + n, rest)
      BY <1>1, <1>2, <2>1, <2>2
    <3>3. p + n \in Nat /\ (p + n) + rest <= NPAGE /\ p + n <= NPAGE
      BY <1>1, <1>2, <2>1
    <3> HIDE DEF rest, f
    <3>4. Lent(a.mem, p + n, rest)
      BY <1>2, <2>1, <3>2, <3>3 DEF Lent
    <3>5. MemOK(f) /\ FreePages(f) = FreePages(a.mem) \cup Block(p + n, rest)
      BY <1>2, <3>4, FreesPages DEF f
    <3>6. Block(p, n) \cap FreePages(f) = {} /\ FreePages(m) = FreePages(f) \cup Block(p, n)
      BY <2>1, <3>2, <3>5
    <3>7. Lent(f, p, n)
      BY <1>1, <2>1, <3>3, <3>5, <3>6 DEF Lent
    <3> QED BY <2>1, <3>1, <3>6, <3>7
  <2> QED BY <2>3, <2>4
<1> QED BY <1>4, <1>5, <1>6

-----------------------------------------------------------------------------
(* The slab allocator's state.                                             *)

SlabRec == [cache : Cache \cup {NoPage}, free : Seq(Nat), ctl : Nat \X Nat]
SlabMap == [Page -> SlabRec]
Lists == [Cache -> Seq(Page)]
Kmem == [mem : Mem, slab : SlabMap, slabs_full : Lists, slabs_notfull : Lists]

SlabsOf(k) == {s \in Page : k.slab[s] # NoSlab}
SlabBlock(k, s) == Block(s, order_size[page_order[k.slab[s].cache]])
SlabPagesOf(k) == UNION {SlabBlock(k, s) : s \in SlabsOf(k)}

\* A slab's chain names objects of it, each once.
Chains(k) == \A s \in SlabsOf(k) : /\ k.slab[s].cache \in Cache
                                   /\ k.slab[s].free \in Seq(0..(num[k.slab[s].cache] - 1))
                                   /\ IsInjective(k.slab[s].free)
\* A slab has an object in use, a fresh one excepted.
InUse(k, fresh) == \A s \in SlabsOf(k) \ fresh : Used(k, s) # {}
\* The caches' lists are exact.
FullOf(k, c) == {s \in SlabsOf(k) : k.slab[s].cache = c /\ k.slab[s].free = << >>}
NotFullOf(k, c) == {s \in SlabsOf(k) : k.slab[s].cache = c /\ k.slab[s].free # << >>}
Listed(k) == \A c \in Cache :
                /\ IsInjective(k.slabs_full[c]) /\ Range(k.slabs_full[c]) = FullOf(k, c)
                /\ IsInjective(k.slabs_notfull[c]) /\ Range(k.slabs_notfull[c]) = NotFullOf(k, c)
\* A page is free, in a slab or held by others, and only one of these.
Parted(k, held) ==
    /\ held \subseteq Page /\ held \cap FreePages(k.mem) = {}
    /\ \A s \in SlabsOf(k) : /\ SlabBlock(k, s) \subseteq Page /\ SlabBlock(k, s) \cap held = {}
                             /\ SlabBlock(k, s) \cap FreePages(k.mem) = {}
                             /\ \A t \in SlabsOf(k) : t # s => SlabBlock(k, s) \cap SlabBlock(k, t) = {}
    /\ FreePages(k.mem) \cup SlabPagesOf(k) \cup held = Page
KmemOK(k, held, fresh) ==
    k \in Kmem /\ MemOK(k.mem) /\ Chains(k) /\ InUse(k, fresh) /\ Listed(k) /\ Parted(k, held)

\* The objects in use.
InUseObjs(k) == {o \in Page \X Nat : o[1] \in SlabsOf(k) /\ o \in Used(k, o[1])}

\* The fields of the state.
LEMMA KmemFields ==
    ASSUME NEW k \in Kmem
    PROVE  /\ k.mem \in Mem /\ k.slab \in [Page -> SlabRec]
           /\ k.slabs_full \in [Cache -> Seq(Page)] /\ k.slabs_notfull \in [Cache -> Seq(Page)]
           /\ \A s \in Page : /\ k.slab[s] \in SlabRec /\ k.slab[s].free \in Seq(Nat)
                              /\ k.slab[s].ctl \in Nat \X Nat /\ k.slab[s].cache \in Cache \cup {NoPage}
BY DEF Kmem, SlabMap, Lists, SlabRec

\* A state put together from fields.
Made(k, mem, slab, full, notfull) ==
    [k EXCEPT !.mem = mem, !.slab = slab, !.slabs_full = full, !.slabs_notfull = notfull]
\* Its fields are those.
LEMMA KmemMade ==
    ASSUME NEW k \in Kmem, NEW slab \in SlabMap, NEW mem \in Mem,
           NEW full \in Lists, NEW notfull \in Lists
    PROVE  LET t == Made(k, mem, slab, full, notfull) IN
           /\ t \in Kmem /\ t.mem = mem /\ t.slab = slab
           /\ t.slabs_full = full /\ t.slabs_notfull = notfull
BY DEF Kmem, Made

\* An object is in use when it is one of a slab and not in the slab's chain.
LEMMA ObjInUse ==
    ASSUME NEW k, k \in Kmem, Chains(k), NEW s \in SlabsOf(k), NEW i
    PROVE  /\ <<s, i>> \in InUseObjs(k) <=>
                 i \in 0..(num[k.slab[s].cache] - 1) /\ i \notin Range(k.slab[s].free)
           /\ <<s, i>> \in Used(k, s) <=> <<s, i>> \in InUseObjs(k)
<1>1. s \in Page /\ num[k.slab[s].cache] \in Nat \ {0}
  BY SlabAssumption DEF SlabsOf, Chains
<1> QED BY <1>1 DEF InUseObjs, Used

\* The objects in use are those of the slabs.
LEMMA UsedObjs ==
    ASSUME NEW k, k \in Kmem, Chains(k)
    PROVE  InUseObjs(k) = UNION {Used(k, s) : s \in SlabsOf(k)}
<1>1. ASSUME NEW s \in SlabsOf(k), NEW o \in Used(k, s) PROVE o \in InUseObjs(k)
  <2>1. s \in Page /\ num[k.slab[s].cache] \in Nat \ {0}
    BY SlabAssumption DEF SlabsOf, Chains
  <2>2. o \in Page \X Nat /\ o[1] = s
    BY <2>1 DEF Used
  <2> QED BY <2>2 DEF InUseObjs
<1>2. ASSUME NEW o \in InUseObjs(k) PROVE o \in UNION {Used(k, s) : s \in SlabsOf(k)}
  BY DEF InUseObjs
<1> QED BY <1>1, <1>2

\* What the two say of slabs and pages depends on the slabs' caches and the allocator.
LEMMA SamePages ==
    ASSUME NEW k, NEW held, Parted(k, held), NEW t, t.mem = k.mem, SlabsOf(t) = SlabsOf(k),
           \A s \in SlabsOf(k) : t.slab[s].cache = k.slab[s].cache
    PROVE  Parted(t, held)
<1>1. \A s \in SlabsOf(k) : SlabBlock(t, s) = SlabBlock(k, s)
  BY DEF SlabBlock
<1>2. SlabPagesOf(t) = SlabPagesOf(k)
  BY <1>1 DEF SlabPagesOf
<1> QED BY <1>1, <1>2 DEF Parted

\* list_del of an element, or of none.
LEMMA RemoveElement ==
    ASSUME NEW S, NEW s \in Seq(S), IsInjective(s), NEW x
    PROVE  /\ RemoveFirst(s, x) \in Seq(S) /\ IsInjective(RemoveFirst(s, x))
           /\ Range(RemoveFirst(s, x)) = Range(s) \ {x}
<1>1. DOMAIN s = 1..Len(s)
  BY LenProperties
<1>2. CASE x \in Range(s)
  <2>1. PICK k \in DOMAIN s : s[k] = x
    BY <1>2 DEF Range
  <2>2. RemoveFirst(s, x) = RemoveAt(s, k)
    BY <2>1, RemoveFirstAt
  <2> QED BY <2>1, <2>2, RemoveAtElements
<1>3. CASE x \notin Range(s)
  <2>1. ~\E i \in 1..Len(s) : s[i] = x
    BY <1>1, <1>3 DEF Range
  <2>2. RemoveFirst(s, x) = s
    BY <2>1 DEF RemoveFirst
  <2> QED BY <1>3, <2>2
<1> QED BY <1>2, <1>3

\* A chain of a slab's objects has them all when it is as long as they are many.
LEMMA ChainLength ==
    ASSUME NEW n \in Nat, NEW s \in Seq(0..(n - 1)), IsInjective(s)
    PROVE  Len(s) \in Nat /\ (Len(s) = n <=> Range(s) = 0..(n - 1))
<1>1. Len(s) \in Nat /\ DOMAIN s = 1..Len(s)
  BY LenProperties
<1>2. Cardinality(Range(s)) = Len(s) /\ Range(s) \subseteq 0..(n - 1)
  <2>1. s \in [1..Len(s) -> Range(s)] /\ \A x \in Range(s) : \E i \in 1..Len(s) : s[i] = x
    BY <1>1 DEF Range
  <2>2. \A i, j \in 1..Len(s) : s[i] = s[j] => i = j
    BY <1>1 DEF IsInjective
  <2>3. s \in Bijection(1..Len(s), Range(s))
    BY <2>1, <2>2, Zenon DEF Bijection, Injection, Surjection, IsInjective
  <2>4. Cardinality(Range(s)) = Len(s)
    BY <1>1, <2>3, FS_CountingElements DEF ExistsBijection
  <2>5. \A i \in 1..Len(s) : s[i] \in 0..(n - 1)
    BY <1>1
  <2> QED BY <1>1, <2>4, <2>5 DEF Range
<1>3. IsFiniteSet(0..(n - 1)) /\ Cardinality(0..(n - 1)) = n
  <2>1. IsFiniteSet(0..(n - 1)) /\ Cardinality(0..(n - 1)) = IF 0 > n - 1 THEN 0 ELSE (n - 1) - 0 + 1
    BY FS_Interval
  <2> QED BY <2>1
<1>4. Len(s) = n => Range(s) = 0..(n - 1)
  BY <1>2, <1>3, FS_Subset
<1> QED BY <1>1, <1>2, <1>3, <1>4

\* A sequence of elements of a set is one of a larger set.
LEMMA SeqSubset ==
    ASSUME NEW S, NEW T, S \subseteq T, NEW s \in Seq(S)
    PROVE  s \in Seq(T)
<1>1. Len(s) \in Nat /\ s \in [1..Len(s) -> S]
  BY LenProperties
<1>2. s \in [1..Len(s) -> T]
  BY <1>1
<1> QED BY <1>1, <1>2, SeqDef

\* The slabs of k are slabs of t, of the same caches and with the same control parts.
SlabsKept(k, t) == \A s \in SlabsOf(k) \cap SlabsOf(t) :
                      t.slab[s].cache = k.slab[s].cache /\ t.slab[s].ctl = k.slab[s].ctl

\* kmem_cache_alloc_one hands out an object of the first slab of slabs_notfull.
LEMMA AllocOne ==
    ASSUME NEW k, NEW held, NEW fresh, KmemOK(k, held, fresh),
           NEW c \in Cache, k.slabs_notfull[c] # << >>, fresh \subseteq {Head(k.slabs_notfull[c])}
    PROVE  LET r == kmem_cache_alloc_one(k, c) IN
           /\ KmemOK(r.kmem, held, {})
           /\ SlabsOf(r.kmem) = SlabsOf(k) /\ SlabsKept(k, r.kmem)
           /\ r.obj \in Page \X Nat /\ r.obj \notin InUseObjs(k)
           /\ InUseObjs(r.kmem) = InUseObjs(k) \cup {r.obj}
           /\ r.obj[1] \in SlabsOf(k) /\ k.slab[r.obj[1]].cache = c
<1> DEFINE s == Head(k.slabs_notfull[c])
           rec == k.slab[s]
           rest == Tail(rec.free)
           i == Head(rec.free)
           slab == [k.slab EXCEPT ![s] = [rec EXCEPT !.free = rest]]
           full == IF rest # << >> THEN k.slabs_full
                   ELSE [k.slabs_full EXCEPT ![c] = <<s>> \o @]
           notfull == IF rest # << >> THEN k.slabs_notfull
                      ELSE [k.slabs_notfull EXCEPT ![c] = Tail(@)]
           t == Made(k, k.mem, slab, full, notfull)
           r == kmem_cache_alloc_one(k, c)
<1>0. k \in Kmem /\ MemOK(k.mem) /\ Chains(k) /\ InUse(k, fresh) /\ Listed(k) /\ Parted(k, held)
  BY DEF KmemOK
<1>1. /\ k.mem \in Mem /\ k.slab \in [Page -> SlabRec]
      /\ k.slabs_full \in [Cache -> Seq(Page)] /\ k.slabs_notfull \in [Cache -> Seq(Page)]
  BY <1>0, KmemFields
<1>2. r = [kmem |-> t, obj |-> <<s, i>>]
  <2>2. r.obj = <<s, i>> /\ r = [kmem |-> r.kmem, obj |-> r.obj]
    BY DEF kmem_cache_alloc_one
  <2>3. r.kmem = t
    <3>1. CASE rest # << >>
      <4>1. r.kmem = [k EXCEPT !.slab = slab]
        BY <3>1 DEF kmem_cache_alloc_one
      <4>2. full = k.slabs_full /\ notfull = k.slabs_notfull
        BY <3>1
      <4> HIDE DEF slab, full, notfull, r
      <4> QED BY <1>0, <4>1, <4>2 DEF Kmem, Made
    <3>2. CASE rest = << >>
      <4>1. r.kmem = [[k EXCEPT !.slab = slab] EXCEPT
                        !.slabs_notfull[c] = Tail(@), !.slabs_full[c] = <<s>> \o @]
        BY <3>2 DEF kmem_cache_alloc_one
      <4>2. full = [k.slabs_full EXCEPT ![c] = <<s>> \o @]
            /\ notfull = [k.slabs_notfull EXCEPT ![c] = Tail(@)]
        BY <3>2
      <4>3. r.kmem = [k EXCEPT !.slab = slab, !.slabs_notfull = notfull, !.slabs_full = full]
        <5> HIDE DEF slab, r
        <5> DEFINE k1 == [k EXCEPT !.slab = slab]
        <5>1. k1.slabs_full = k.slabs_full /\ k1.slabs_notfull = k.slabs_notfull
          BY <1>0 DEF Kmem
        <5>2. r.kmem = [k1 EXCEPT !.slabs_notfull = [k1.slabs_notfull EXCEPT ![c] = Tail(@)],
                                  !.slabs_full = [k1.slabs_full EXCEPT ![c] = <<s>> \o @]]
          BY <4>1
        <5> HIDE DEF s, full, notfull
        <5>3. r.kmem = [k1 EXCEPT !.slabs_notfull = notfull, !.slabs_full = full]
          BY <4>2, <5>1, <5>2
        <5> QED BY <1>0, <5>3 DEF Kmem
      <4> HIDE DEF slab, full, notfull, r
      <4> QED BY <1>0, <4>3 DEF Kmem, Made
    <3> QED BY <3>1, <3>2
  <2> QED BY <2>2, <2>3
<1>3. /\ s \in Page /\ s \in SlabsOf(k) /\ rec.cache = c /\ rec.free # << >>
      /\ s \in Range(k.slabs_notfull[c]) /\ Tail(k.slabs_notfull[c]) \in Seq(Page)
      /\ IsInjective(Tail(k.slabs_notfull[c]))
      /\ Range(Tail(k.slabs_notfull[c])) = Range(k.slabs_notfull[c]) \ {s}
  <2>1. k.slabs_notfull[c] \in Seq(Page) /\ IsInjective(k.slabs_notfull[c])
    BY <1>0, <1>1 DEF Listed
  <2>2. s \in NotFullOf(k, c)
    BY <1>0, <2>1, TailElements DEF Listed
  <2> QED BY <2>1, <2>2, TailElements DEF NotFullOf, SlabsOf
<1> DEFINE objects == 0..(num[c] - 1)
<1>4. /\ rec \in SlabRec /\ rec.free \in Seq(objects) /\ IsInjective(rec.free)
      /\ num[c] \in Nat \ {0}
  BY <1>0, <1>1, <1>3, SlabAssumption DEF Chains
<1>5. /\ i \in objects /\ i \in Range(rec.free) /\ rest \in Seq(objects) /\ IsInjective(rest)
      /\ Range(rest) = Range(rec.free) \ {i}
  <2> DEFINE chain == rec.free
  <2>1. chain \in Seq(objects) /\ IsInjective(chain) /\ chain # << >>
    BY <1>3, <1>4
  <2>2. rest = Tail(chain) /\ i = Head(chain)
    OBVIOUS
  <2> HIDE DEF chain, objects, rest, i
  <2>3. /\ Head(chain) \in objects /\ Head(chain) \in Range(chain) /\ Tail(chain) \in Seq(objects)
        /\ IsInjective(Tail(chain)) /\ Range(Tail(chain)) = Range(chain) \ {Head(chain)}
    BY <2>1, TailElements
  <2> QED BY <2>2, <2>3 DEF chain
<1> HIDE DEF rest, i, s, objects
<1>6. slab \in [Page -> SlabRec] /\ full \in [Cache -> Seq(Page)] /\ notfull \in [Cache -> Seq(Page)]
  <2>1. objects \subseteq Nat
    BY <1>4 DEF objects
  <2>2. rest \in Seq(Nat)
    BY <1>5, <2>1, SeqSubset
  <2>3. [rec EXCEPT !.free = rest] \in SlabRec
    BY <1>4, <2>2 DEF SlabRec
  <2>4. slab \in [Page -> SlabRec]
    BY <1>1, <1>3, <2>3
  <2>5. <<s>> \o k.slabs_full[c] \in Seq(Page)
    BY <1>1, <1>3, ConsElements
  <2> QED BY <1>1, <1>3, <2>4, <2>5
<1>7. slab[s].free = rest /\ slab[s].cache = c /\ slab[s].ctl = rec.ctl
      /\ \A q \in Page : q # s => slab[q] = k.slab[q]
  <2>1. slab[s] = [rec EXCEPT !.free = rest]
    BY <1>1, <1>3
  <2> QED BY <1>1, <1>3, <1>4, <2>1 DEF SlabRec
<1>8. /\ t \in Kmem /\ t.mem = k.mem /\ t.slab = slab /\ t.slabs_full = full /\ t.slabs_notfull = notfull
  <2> HIDE DEF slab, full, notfull
  <2>1. slab \in SlabMap /\ full \in Lists /\ notfull \in Lists
    BY <1>6 DEF SlabMap, Lists
  <2> QED BY <1>0, <1>1, <2>1, KmemMade
<1> HIDE DEF t, slab, rec
<1>9. SlabsOf(t) = SlabsOf(k)
  <2>1. t.slab[s] # NoSlab
    <3>1. t.slab[s].cache # NoPage
      BY <1>7, <1>8, SlabAssumption
    <3> QED BY <3>1 DEF NoSlab
  <2> QED BY <1>3, <1>7, <1>8, <2>1 DEF SlabsOf
<1>10. \A q \in SlabsOf(k) : t.slab[q].cache = k.slab[q].cache /\ t.slab[q].ctl = k.slab[q].ctl
  BY <1>3, <1>7, <1>8 DEF rec, SlabsOf
<1>11. Parted(t, held)
  <2>1. \A q \in SlabsOf(k) : t.slab[q].cache = k.slab[q].cache
    BY <1>10
  <2> QED BY <1>0, <1>8, <1>9, <2>1, SamePages
<1>12. Chains(t)
  BY <1>0, <1>5, <1>7, <1>8, <1>9 DEF Chains, objects, SlabsOf
<1>13. /\ <<s, i>> \notin InUseObjs(k) /\ InUseObjs(t) = InUseObjs(k) \cup {<<s, i>>}
  <2>1. <<s, i>> \notin InUseObjs(k)
    BY <1>0, <1>3, <1>5, ObjInUse DEF rec
  <2>2. \A j : <<s, j>> \in InUseObjs(t) <=> <<s, j>> \in InUseObjs(k) \/ j = i
    <3> SUFFICES ASSUME NEW j PROVE <<s, j>> \in InUseObjs(t) <=> <<s, j>> \in InUseObjs(k) \/ j = i
      OBVIOUS
    <3>1. <<s, j>> \in InUseObjs(t) <=> j \in objects /\ j \notin Range(rest)
      BY <1>3, <1>7, <1>8, <1>9, <1>12, ObjInUse DEF objects
    <3>2. <<s, j>> \in InUseObjs(k) <=> j \in objects /\ j \notin Range(rec.free)
      BY <1>0, <1>3, ObjInUse DEF objects, rec
    <3> QED BY <1>5, <3>1, <3>2
  <2>3. \A q \in SlabsOf(k) : \A j : q # s => (<<q, j>> \in InUseObjs(t) <=> <<q, j>> \in InUseObjs(k))
    <3> SUFFICES ASSUME NEW q \in SlabsOf(k), NEW j, q # s
                 PROVE  <<q, j>> \in InUseObjs(t) <=> <<q, j>> \in InUseObjs(k)
      OBVIOUS
    <3>1. q \in SlabsOf(t) /\ t.slab[q] = k.slab[q]
      BY <1>7, <1>8, <1>9 DEF SlabsOf
    <3> QED BY <1>0, <1>8, <1>12, <3>1, ObjInUse
  <2>4. \A o \in InUseObjs(t) : o = <<o[1], o[2]>> /\ o[1] \in SlabsOf(k)
    BY <1>9 DEF InUseObjs
  <2>5. \A o \in InUseObjs(k) : o = <<o[1], o[2]>> /\ o[1] \in SlabsOf(k)
    BY DEF InUseObjs
  <2> QED BY <2>1, <2>2, <2>3, <2>4, <2>5
<1>14. InUse(t, {})
  <2> SUFFICES ASSUME NEW q \in SlabsOf(k) PROVE Used(t, q) # {}
    BY <1>9 DEF InUse
  <2>1. CASE q = s
    BY <1>3, <1>8, <1>9, <1>12, <1>13, <2>1, ObjInUse
  <2>2. CASE q # s
    <3>1. t.slab[q] = k.slab[q] /\ q \notin fresh
      BY <1>7, <1>8, <2>2 DEF s, SlabsOf
    <3> QED BY <1>0, <3>1 DEF InUse, Used
  <2> QED BY <2>1, <2>2
<1>15. Listed(t)
  <2> SUFFICES ASSUME NEW d \in Cache
               PROVE  /\ IsInjective(t.slabs_full[d]) /\ Range(t.slabs_full[d]) = FullOf(t, d)
                      /\ IsInjective(t.slabs_notfull[d]) /\ Range(t.slabs_notfull[d]) = NotFullOf(t, d)
    BY DEF Listed
  <2>0. /\ IsInjective(k.slabs_full[d]) /\ Range(k.slabs_full[d]) = FullOf(k, d)
        /\ IsInjective(k.slabs_notfull[d]) /\ Range(k.slabs_notfull[d]) = NotFullOf(k, d)
    BY <1>0 DEF Listed
  <2>1. \A q \in SlabsOf(k) : q # s => t.slab[q] = k.slab[q]
    BY <1>7, <1>8 DEF SlabsOf
  <2>2. t.slab[s].cache = c /\ k.slab[s].cache = c /\ k.slab[s].free # << >> /\ t.slab[s].free = rest
    BY <1>3, <1>7, <1>8 DEF rec
  <2>3. CASE rest # << >>
    <3>0. \A q \in SlabsOf(k) : /\ t.slab[q].cache = k.slab[q].cache
                                /\ t.slab[q].free = << >> <=> k.slab[q].free = << >>
      BY <2>1, <2>2, <2>3
    <3>1. FullOf(t, d) = FullOf(k, d) /\ NotFullOf(t, d) = NotFullOf(k, d)
      BY <1>9, <3>0 DEF FullOf, NotFullOf
    <3> QED BY <1>8, <2>0, <2>3, <3>1
  <2>4. CASE rest = << >> /\ d # c
    <3>1. FullOf(t, d) = FullOf(k, d) /\ NotFullOf(t, d) = NotFullOf(k, d)
      BY <1>9, <2>1, <2>2, <2>4 DEF FullOf, NotFullOf
    <3>2. t.slabs_full[d] = k.slabs_full[d] /\ t.slabs_notfull[d] = k.slabs_notfull[d]
      BY <1>1, <1>8, <2>4
    <3> QED BY <2>0, <3>1, <3>2
  <2>5. CASE rest = << >> /\ d = c
    <3>1. FullOf(t, c) = FullOf(k, c) \cup {s} /\ NotFullOf(t, c) = NotFullOf(k, c) \ {s}
          /\ s \notin FullOf(k, c)
      BY <1>3, <1>9, <2>1, <2>2, <2>5 DEF FullOf, NotFullOf
    <3>2. /\ t.slabs_full[c] = <<s>> \o k.slabs_full[c]
          /\ t.slabs_notfull[c] = Tail(k.slabs_notfull[c])
      BY <1>1, <1>8, <2>5
    <3>3. k.slabs_full[c] \in Seq(Page)
      BY <1>1
    <3>4. IsInjective(<<s>> \o k.slabs_full[c])
          /\ Range(<<s>> \o k.slabs_full[c]) = Range(k.slabs_full[c]) \cup {s}
      BY <1>3, <2>0, <2>5, <3>1, <3>3, ConsElements
    <3> QED BY <1>3, <2>0, <2>5, <3>1, <3>2, <3>4
  <2> QED BY <2>3, <2>4, <2>5
<1>16. KmemOK(t, held, {})
  BY <1>0, <1>8, <1>11, <1>12, <1>14, <1>15 DEF KmemOK
<1>17. r.kmem = t /\ r.obj = <<s, i>> /\ r.obj[1] = s
  BY <1>2
<1>18. <<s, i>> \in Page \X Nat
  BY <1>3, <1>4, <1>5 DEF objects
<1> HIDE DEF r
<1>19. /\ KmemOK(r.kmem, held, {})
       /\ SlabsOf(r.kmem) = SlabsOf(k) /\ SlabsKept(k, r.kmem)
       /\ r.obj \in Page \X Nat /\ r.obj \notin InUseObjs(k)
       /\ InUseObjs(r.kmem) = InUseObjs(k) \cup {r.obj}
       /\ r.obj[1] \in SlabsOf(k) /\ k.slab[r.obj[1]].cache = c
  BY <1>3, <1>9, <1>10, <1>13, <1>16, <1>17, <1>18 DEF SlabsKept, rec
<1> QED BY <1>19 DEF r

\* The first page of a slab is in it.
LEMMA SlabPage ==
    ASSUME NEW k, k \in Kmem, Chains(k), NEW s \in SlabsOf(k)
    PROVE  /\ s \in SlabBlock(k, s) /\ s \in Page /\ page_order[k.slab[s].cache] \in Order
           /\ SlabBlock(k, s) = BlockOf(s, page_order[k.slab[s].cache])
<1>1. s \in Page /\ page_order[k.slab[s].cache] \in Order
  BY SlabAssumption DEF SlabsOf, Chains
<1>2. s \in BlockOf(s, page_order[k.slab[s].cache])
  BY <1>1, BlockEnds
<1> QED BY <1>1, <1>2 DEF SlabBlock, BlockOf

\* What kmem_cache_grow has when it makes a slab.
Growable(k, held, c, page, ctl) ==
    /\ KmemOK(k, held, {}) /\ c \in Cache /\ page \in Page /\ ctl \in Nat \X Nat
    /\ Block(page, order_size[page_order[c]]) \subseteq held

\* The slab that new_slab makes of held pages.
SlabMade(k, t, held, c, page, ctl) ==
    /\ KmemOK(t, held \ Block(page, order_size[page_order[c]]), {page})
    /\ page \notin SlabsOf(k) /\ SlabsOf(t) = SlabsOf(k) \cup {page} /\ SlabsKept(k, t)
    /\ t.slab[page].cache = c /\ t.slab[page].ctl = ctl
    /\ InUseObjs(t) = InUseObjs(k)
    /\ t.slabs_notfull[c] # << >> /\ Head(t.slabs_notfull[c]) = page
\* new_slab makes it.
LEMMA NewSlab ==
    ASSUME NEW k, NEW held, NEW c, NEW page, NEW ctl, Growable(k, held, c, page, ctl)
    PROVE  SlabMade(k, new_slab(k, c, page, ctl), held, c, page, ctl)
<1> DEFINE pages == Block(page, order_size[page_order[c]])
           chain == [i \in 1..num[c] |-> i - 1]
           rec == [cache |-> c, free |-> chain, ctl |-> ctl]
           slab == [k.slab EXCEPT ![page] = rec]
           list == <<page>> \o k.slabs_notfull[c]
           notfull == [k.slabs_notfull EXCEPT ![c] = list]
           t == new_slab(k, c, page, ctl)
<1>a. /\ KmemOK(k, held, {}) /\ c \in Cache /\ page \in Page /\ ctl \in Nat \X Nat
      /\ Block(page, order_size[page_order[c]]) \subseteq held
  BY DEF Growable
<1> USE <1>a
<1>0. k \in Kmem /\ MemOK(k.mem) /\ Chains(k) /\ InUse(k, {}) /\ Listed(k) /\ Parted(k, held)
  BY DEF KmemOK
<1>1. /\ k.mem \in Mem /\ k.slab \in [Page -> SlabRec]
      /\ k.slabs_full \in [Cache -> Seq(Page)] /\ k.slabs_notfull \in [Cache -> Seq(Page)]
  BY <1>0, KmemFields
<1>2. num[c] \in Nat \ {0} /\ page_order[c] \in Order
  BY SlabAssumption
<1>3. /\ chain \in Seq(0..(num[c] - 1)) /\ chain \in Seq(Nat) /\ IsInjective(chain)
      /\ Range(chain) = 0..(num[c] - 1) /\ chain # << >>
  <2> DEFINE n == num[c]
  <2>1. n \in Nat \ {0}
    BY <1>2
  <2> HIDE DEF n
  <2> DEFINE f == [i \in 1..n |-> i - 1]
  <2>2. f \in [1..n -> 0..(n - 1)] /\ f \in [1..n -> Nat]
    BY <2>1
  <2>3. f \in Seq(0..(n - 1)) /\ f \in Seq(Nat)
    BY <2>1, <2>2, SeqDef
  <2>4. IsInjective(f)
    BY <2>1 DEF IsInjective
  <2>5. Range(f) = 0..(n - 1)
    <3> HIDE <1>a
    <3>1. \A x \in 0..(n - 1) : x + 1 \in 1..n /\ x = f[x + 1]
      BY <2>1
    <3>2. DOMAIN f = 1..n /\ \A i \in 1..n : f[i] \in 0..(n - 1)
      BY <2>2
    <3> HIDE DEF f
    <3> QED BY <3>1, <3>2 DEF Range
  <2>6. f # << >>
    <3>1. 0 \in Range(f)
      BY <2>1, <2>5
    <3> QED BY <3>1 DEF Range
  <2> QED BY <2>3, <2>4, <2>5, <2>6 DEF n
<1> HIDE DEF chain
<1>4. page \in pages /\ pages \subseteq held
  <2>1. page \in BlockOf(page, page_order[c])
    BY <1>2, BlockEnds
  <2> QED BY <2>1 DEF BlockOf
<1> HIDE DEF pages
<1>5. page \notin SlabsOf(k)
  BY <1>0, <1>4, SlabPage DEF Parted
<1>6. /\ k.slabs_notfull[c] \in Seq(Page) /\ list \in Seq(Page) /\ list # << >> /\ Head(list) = page
      /\ IsInjective(list) /\ Range(list) = Range(k.slabs_notfull[c]) \cup {page}
  <2>1. k.slabs_notfull[c] \in Seq(Page) /\ IsInjective(k.slabs_notfull[c])
        /\ page \notin Range(k.slabs_notfull[c])
    BY <1>0, <1>1, <1>5 DEF Listed, NotFullOf
  <2>2. list # << >> /\ Head(list) = page
    BY <2>1
  <2>3. list \in Seq(Page) /\ IsInjective(list) /\ Range(list) = Range(k.slabs_notfull[c]) \cup {page}
    BY <2>1, ConsElements
  <2> QED BY <2>1, <2>2, <2>3
<1> HIDE DEF list
<1>7. slab \in SlabMap /\ notfull \in Lists /\ k.slabs_full \in Lists
  <2>1. rec \in SlabRec
    BY <1>3 DEF SlabRec
  <2> QED BY <1>1, <1>6, <2>1 DEF SlabMap, Lists
<1>8. t = Made(k, k.mem, slab, k.slabs_full, notfull)
  <2>1. t = [k EXCEPT !.slab = slab, !.slabs_notfull = notfull]
    BY <1>0 DEF new_slab, Kmem, list, chain
  <2> HIDE DEF slab, notfull, t
  <2> QED BY <1>0, <2>1 DEF Kmem, Made
<1> HIDE DEF notfull
<1>9. /\ t \in Kmem /\ t.mem = k.mem /\ t.slab = slab /\ t.slabs_full = k.slabs_full
      /\ t.slabs_notfull = notfull
  <2> HIDE DEF slab, t
  <2> QED BY <1>0, <1>1, <1>7, <1>8, KmemMade
<1> HIDE DEF t
<1>10. /\ t.slab[page].cache = c /\ t.slab[page].free = chain /\ t.slab[page].ctl = ctl
       /\ \A q \in Page : q # page => t.slab[q] = k.slab[q]
  BY <1>1, <1>9
<1>11. SlabsOf(t) = SlabsOf(k) \cup {page}
  <2>1. t.slab[page] # NoSlab
    <3>1. t.slab[page].cache # NoPage
      BY <1>10, SlabAssumption
    <3> QED BY <3>1 DEF NoSlab
  <2> QED BY <1>10, <2>1 DEF SlabsOf
<1>12. \A q \in SlabsOf(k) : t.slab[q] = k.slab[q] /\ q # page
  BY <1>5, <1>10 DEF SlabsOf
<1>13. Chains(t)
  BY <1>0, <1>3, <1>10, <1>11, <1>12 DEF Chains
<1>14. InUse(t, {page})
  <2>1. \A q \in SlabsOf(k) : Used(t, q) = Used(k, q)
    BY <1>12 DEF Used
  <2> QED BY <1>0, <1>11, <2>1 DEF InUse
<1>15. InUseObjs(t) = InUseObjs(k)
  <2>1. \A i : <<page, i>> \notin InUseObjs(t)
    BY <1>3, <1>9, <1>10, <1>11, <1>13, ObjInUse
  <2>2. \A q \in SlabsOf(k) : \A i : <<q, i>> \in InUseObjs(t) <=> <<q, i>> \in InUseObjs(k)
    <3> SUFFICES ASSUME NEW q \in SlabsOf(k), NEW i
                 PROVE  <<q, i>> \in InUseObjs(t) <=> <<q, i>> \in InUseObjs(k)
      OBVIOUS
    <3>1. q \in SlabsOf(t) /\ t.slab[q] = k.slab[q]
      BY <1>11, <1>12
    <3> QED BY <1>0, <1>9, <1>13, <3>1, ObjInUse
  <2>3. \A o \in InUseObjs(t) : o = <<o[1], o[2]>> /\ o[1] \in SlabsOf(k) \cup {page}
    BY <1>11 DEF InUseObjs
  <2>4. \A o \in InUseObjs(k) : o = <<o[1], o[2]>> /\ o[1] \in SlabsOf(k)
    BY DEF InUseObjs
  <2>5. ASSUME NEW o \in InUseObjs(t) PROVE o \in InUseObjs(k)
    BY <2>1, <2>2, <2>3
  <2>6. ASSUME NEW o \in InUseObjs(k) PROVE o \in InUseObjs(t)
    BY <2>2, <2>4
  <2> QED BY <2>5, <2>6
<1>16. Listed(t)
  <2> SUFFICES ASSUME NEW d \in Cache
               PROVE  /\ IsInjective(t.slabs_full[d]) /\ Range(t.slabs_full[d]) = FullOf(t, d)
                      /\ IsInjective(t.slabs_notfull[d]) /\ Range(t.slabs_notfull[d]) = NotFullOf(t, d)
    BY DEF Listed
  <2>0. /\ IsInjective(k.slabs_full[d]) /\ Range(k.slabs_full[d]) = FullOf(k, d)
        /\ IsInjective(k.slabs_notfull[d]) /\ Range(k.slabs_notfull[d]) = NotFullOf(k, d)
    BY <1>0 DEF Listed
  <2>1. FullOf(t, d) = FullOf(k, d)
    BY <1>3, <1>10, <1>11, <1>12 DEF FullOf
  <2>2. CASE d = c
    <3>1. t.slabs_notfull[d] = list
      BY <1>1, <1>9, <2>2 DEF notfull
    <3>2. NotFullOf(t, d) = NotFullOf(k, d) \cup {page}
      BY <1>3, <1>10, <1>11, <1>12, <2>2 DEF NotFullOf
    <3> QED BY <1>6, <1>9, <2>0, <2>1, <2>2, <3>1, <3>2
  <2>3. CASE d # c
    <3>1. t.slabs_notfull[d] = k.slabs_notfull[d]
      BY <1>1, <1>9, <2>3 DEF notfull
    <3>2. NotFullOf(t, d) = NotFullOf(k, d)
      BY <1>10, <1>11, <1>12, <2>3 DEF NotFullOf
    <3> QED BY <1>9, <2>0, <2>1, <3>1, <3>2
  <2> QED BY <2>2, <2>3
<1>17. Parted(t, held \ pages)
  <2>1. \A s \in SlabsOf(k) : SlabBlock(t, s) = SlabBlock(k, s)
    BY <1>12 DEF SlabBlock
  <2>2. SlabBlock(t, page) = pages
    BY <1>10 DEF SlabBlock, pages
  <2>3. /\ held \subseteq Page /\ held \cap FreePages(k.mem) = {}
        /\ \A s \in SlabsOf(k) : /\ SlabBlock(k, s) \subseteq Page /\ SlabBlock(k, s) \cap held = {}
                                 /\ SlabBlock(k, s) \cap FreePages(k.mem) = {}
                                 /\ \A u \in SlabsOf(k) : u # s => SlabBlock(k, s) \cap SlabBlock(k, u) = {}
        /\ FreePages(k.mem) \cup SlabPagesOf(k) \cup held = Page
    BY <1>0 DEF Parted
  <2>4. SlabPagesOf(t) = SlabPagesOf(k) \cup pages
    <3>1. SlabPagesOf(t) \subseteq SlabPagesOf(k) \cup pages
      <4> SUFFICES ASSUME NEW s \in SlabsOf(t)
                   PROVE  SlabBlock(t, s) \subseteq SlabPagesOf(k) \cup pages
        BY DEF SlabPagesOf
      <4> QED BY <1>11, <2>1, <2>2 DEF SlabPagesOf
    <3>2. SlabPagesOf(k) \subseteq SlabPagesOf(t)
      <4> SUFFICES ASSUME NEW s \in SlabsOf(k) PROVE SlabBlock(k, s) \subseteq SlabPagesOf(t)
        BY DEF SlabPagesOf
      <4>1. s \in SlabsOf(t) /\ SlabBlock(t, s) = SlabBlock(k, s)
        BY <1>11, <2>1
      <4> QED BY <4>1 DEF SlabPagesOf
    <3>3. pages \subseteq SlabPagesOf(t)
      BY <1>11, <2>2 DEF SlabPagesOf
    <3> QED BY <3>1, <3>2, <3>3
  <2>5. ASSUME NEW s \in SlabsOf(t)
        PROVE  /\ SlabBlock(t, s) \subseteq Page /\ SlabBlock(t, s) \cap (held \ pages) = {}
               /\ SlabBlock(t, s) \cap FreePages(k.mem) = {}
               /\ \A u \in SlabsOf(t) : u # s => SlabBlock(t, s) \cap SlabBlock(t, u) = {}
    <3>1. CASE s = page
      <4>1. \A u \in SlabsOf(t) : u # page => pages \cap SlabBlock(t, u) = {}
        BY <1>4, <1>11, <2>1, <2>3
      <4> QED BY <1>4, <2>2, <2>3, <3>1, <4>1
    <3>2. CASE s # page
      <4>1. s \in SlabsOf(k) /\ SlabBlock(t, s) = SlabBlock(k, s)
        BY <1>11, <2>1, <3>2
      <4>2. \A u \in SlabsOf(t) : u # s => SlabBlock(t, s) \cap SlabBlock(t, u) = {}
        BY <1>4, <1>11, <2>1, <2>2, <2>3, <4>1
      <4> QED BY <2>3, <4>1, <4>2
    <3> QED BY <3>1, <3>2
  <2>6. /\ held \ pages \subseteq Page /\ (held \ pages) \cap FreePages(k.mem) = {}
        /\ FreePages(k.mem) \cup SlabPagesOf(t) \cup (held \ pages) = Page
    BY <1>4, <2>3, <2>4
  <2> QED BY <1>9, <2>5, <2>6 DEF Parted
<1>18. KmemOK(t, held \ pages, {page})
  BY <1>0, <1>9, <1>13, <1>14, <1>16, <1>17 DEF KmemOK
<1>19. t.slabs_notfull[c] = list
  BY <1>1, <1>9 DEF notfull
<1>20. SlabsKept(k, t)
  BY <1>12 DEF SlabsKept
<1>21. SlabMade(k, t, held, c, page, ctl)
  BY <1>5, <1>6, <1>10, <1>11, <1>15, <1>18, <1>19, <1>20 DEF SlabMade, pages
<1> QED BY <1>21 DEF t

\* A change of the buddy allocator's state only.
WithMem(k, mem) == [k EXCEPT !.mem = mem]
\* It leaves the slabs as they are.
LEMMA OnlyMem ==
    ASSUME NEW k, NEW held, NEW fresh, KmemOK(k, held, fresh), NEW mem, MemOK(mem)
    PROVE  LET t == WithMem(k, mem) IN
           /\ t \in Kmem /\ t.mem = mem /\ t.slab = k.slab
           /\ t.slabs_full = k.slabs_full /\ t.slabs_notfull = k.slabs_notfull
           /\ SlabsOf(t) = SlabsOf(k) /\ InUseObjs(t) = InUseObjs(k) /\ SlabPagesOf(t) = SlabPagesOf(k)
           /\ \A other : Parted(t, other) => KmemOK(t, other, fresh)
<1> DEFINE t == WithMem(k, mem)
<1>0. k \in Kmem /\ Chains(k) /\ InUse(k, fresh) /\ Listed(k) /\ mem \in Mem
  BY DEF KmemOK, MemOK
<1>1. /\ t \in Kmem /\ t.mem = mem /\ t.slab = k.slab
      /\ t.slabs_full = k.slabs_full /\ t.slabs_notfull = k.slabs_notfull
  BY <1>0 DEF Kmem, WithMem
<1> HIDE DEF t
<1>2. /\ SlabsOf(t) = SlabsOf(k) /\ \A s : Used(t, s) = Used(k, s) /\ SlabBlock(t, s) = SlabBlock(k, s)
  BY <1>1 DEF SlabsOf, Used, SlabBlock
<1>3. InUseObjs(t) = InUseObjs(k) /\ SlabPagesOf(t) = SlabPagesOf(k)
  BY <1>2 DEF InUseObjs, SlabPagesOf
<1>4. Chains(t) /\ InUse(t, fresh)
  BY <1>0, <1>1, <1>2 DEF Chains, InUse
<1>5. Listed(t)
  <2>1. \A c \in Cache : FullOf(t, c) = FullOf(k, c) /\ NotFullOf(t, c) = NotFullOf(k, c)
    BY <1>1, <1>2 DEF FullOf, NotFullOf
  <2> QED BY <1>0, <1>1, <2>1 DEF Listed
<1>6. \A other : Parted(t, other) => KmemOK(t, other, fresh)
  <2> SUFFICES ASSUME NEW other, Parted(t, other) PROVE KmemOK(t, other, fresh)
    OBVIOUS
  <2>1. MemOK(t.mem)
    BY <1>1
  <2> QED BY <1>1, <1>4, <1>5, <2>1 DEF KmemOK
<1> QED BY <1>1, <1>2, <1>3, <1>6 DEF t

\* Pages taken from the buddy allocator are held.
LEMMA TakePages ==
    ASSUME NEW k, NEW held, KmemOK(k, held, {}), NEW n \in 1..order_size[MAX_ORDER],
           alloc_pages(k.mem, n).page # NoPage
    PROVE  LET r == alloc_pages(k.mem, n)
               t == WithMem(k, r.mem)
           IN  /\ r.page \in Page /\ r.page + n <= NPAGE /\ Block(r.page, n) \cap held = {}
               /\ KmemOK(t, held \cup Block(r.page, n), {})
               /\ SlabsOf(t) = SlabsOf(k) /\ InUseObjs(t) = InUseObjs(k) /\ t.slab = k.slab
               /\ t.slabs_notfull = k.slabs_notfull
<1> DEFINE r == alloc_pages(k.mem, n)
           t == WithMem(k, r.mem)
           pages == Block(r.page, n)
<1>0. MemOK(k.mem) /\ Parted(k, held)
  BY DEF KmemOK
<1>1. /\ r.page \in Page /\ Lent(r.mem, r.page, n) /\ FreePages(k.mem) = FreePages(r.mem) \cup pages
  BY <1>0, AllocsPages
<1> HIDE DEF r
<1>2. MemOK(r.mem) /\ r.page + n <= NPAGE /\ pages \cap FreePages(r.mem) = {}
  BY <1>1 DEF Lent
<1>4. /\ t.mem = r.mem /\ t.slab = k.slab /\ SlabsOf(t) = SlabsOf(k) /\ InUseObjs(t) = InUseObjs(k)
      /\ SlabPagesOf(t) = SlabPagesOf(k) /\ t.slabs_notfull = k.slabs_notfull
      /\ \A other : Parted(t, other) => KmemOK(t, other, {})
  BY <1>2, OnlyMem
<1> HIDE DEF t
<1>5. pages \subseteq Page
  <2>1. n \in Nat /\ r.page \in Nat
    BY <1>1, Numbers
  <2> QED BY <1>2, <2>1, Numbers DEF Block
<1> HIDE DEF pages
<1>6. pages \cap held = {} /\ pages \subseteq FreePages(k.mem)
  BY <1>0, <1>1 DEF Parted
<1>7. Parted(t, held \cup pages)
  <2>1. \A s \in SlabsOf(k) : SlabBlock(t, s) = SlabBlock(k, s)
    BY <1>4 DEF SlabBlock
  <2>2. \A s \in SlabsOf(k) : SlabBlock(t, s) \cap (held \cup pages) = {}
                               /\ SlabBlock(t, s) \cap FreePages(t.mem) = {}
    BY <1>0, <1>1, <1>4, <1>6, <2>1 DEF Parted
  <2>3. FreePages(t.mem) \cup SlabPagesOf(t) \cup (held \cup pages) = Page
    BY <1>0, <1>1, <1>4 DEF Parted
  <2>4. held \cup pages \subseteq Page /\ (held \cup pages) \cap FreePages(t.mem) = {}
    BY <1>0, <1>1, <1>2, <1>4, <1>5 DEF Parted
  <2> QED BY <1>0, <1>4, <2>1, <2>2, <2>3, <2>4 DEF Parted
<1> QED BY <1>1, <1>2, <1>4, <1>6, <1>7 DEF pages, r, t

\* Held pages that free_pages can take, and the state that differs in the free pages only.
Givable(k, held, fresh, base, n) ==
    /\ KmemOK(k, held, fresh)
    /\ base \in Nat /\ n \in Nat /\ n <= order_size[MAX_ORDER] /\ base + n <= NPAGE
    /\ Block(base, n) \subseteq held
Gave(k, t, held, fresh) ==
    /\ KmemOK(t, held, fresh)
    /\ SlabsOf(t) = SlabsOf(k) /\ InUseObjs(t) = InUseObjs(k) /\ t.slab = k.slab

\* Held pages are given back to the buddy allocator.
LEMMA GivePages ==
    ASSUME NEW k, NEW held, NEW fresh, NEW base, NEW n, Givable(k, held, fresh, base, n)
    PROVE  Gave(k, WithMem(k, free_pages(k.mem, base, n)), held \ Block(base, n), fresh)
<1> DEFINE mem == free_pages(k.mem, base, n)
           t == WithMem(k, mem)
           pages == Block(base, n)
<1>a. /\ KmemOK(k, held, fresh)
      /\ base \in Nat /\ n \in Nat /\ n <= order_size[MAX_ORDER] /\ base + n <= NPAGE
      /\ Block(base, n) \subseteq held
  BY DEF Givable
<1> USE <1>a
<1>0. MemOK(k.mem) /\ Parted(k, held)
  BY DEF KmemOK
<1>1. Lent(k.mem, base, n)
  BY <1>0 DEF Lent, Parted
<1>2. MemOK(mem) /\ FreePages(mem) = FreePages(k.mem) \cup pages
  BY <1>1, FreesPages
<1>3. /\ t.mem = mem /\ t.slab = k.slab /\ SlabsOf(t) = SlabsOf(k) /\ InUseObjs(t) = InUseObjs(k)
      /\ SlabPagesOf(t) = SlabPagesOf(k)
      /\ \A other : Parted(t, other) => KmemOK(t, other, fresh)
  <2> HIDE DEF mem
  <2> QED BY <1>2, OnlyMem
<1> HIDE DEF mem, pages, t
<1>4. pages \subseteq held /\ held \subseteq Page
  BY <1>0 DEF Parted, pages
<1>5. Parted(t, held \ pages)
  <2>1. \A s \in SlabsOf(k) : SlabBlock(t, s) = SlabBlock(k, s)
    BY <1>3 DEF SlabBlock
  <2>2. \A s \in SlabsOf(k) : SlabBlock(t, s) \cap (held \ pages) = {}
                               /\ SlabBlock(t, s) \cap FreePages(t.mem) = {}
    BY <1>0, <1>2, <1>3, <1>4, <2>1 DEF Parted
  <2>3. FreePages(t.mem) \cup SlabPagesOf(t) \cup (held \ pages) = Page
    BY <1>0, <1>2, <1>3, <1>4 DEF Parted
  <2>4. held \ pages \subseteq Page /\ (held \ pages) \cap FreePages(t.mem) = {}
    BY <1>0, <1>2, <1>3, <1>4 DEF Parted
  <2> QED BY <1>0, <1>3, <2>1, <2>2, <2>3, <2>4 DEF Parted
<1>6. Gave(k, t, held \ pages, fresh)
  BY <1>3, <1>5 DEF Gave
<1> QED BY <1>6 DEF pages, t, mem

\* A slab made of held pages has an object to hand out.
SlabObjMade(k, r, held, c, page, ctl) ==
    /\ KmemOK(r.kmem, held \ Block(page, order_size[page_order[c]]), {})
    /\ page \notin SlabsOf(k) /\ SlabsOf(r.kmem) = SlabsOf(k) \cup {page} /\ SlabsKept(k, r.kmem)
    /\ r.kmem.slab[page].cache = c /\ r.kmem.slab[page].ctl = ctl
    /\ r.obj \in Page \X Nat /\ r.obj \notin InUseObjs(k)
    /\ InUseObjs(r.kmem) = InUseObjs(k) \cup {r.obj}
    /\ r.obj[1] \in SlabsOf(r.kmem) /\ r.kmem.slab[r.obj[1]].cache = c
\* kmem_cache_alloc_one takes it from the new slab.
LEMMA NewSlabObj ==
    ASSUME NEW k, NEW held, NEW c, NEW page, NEW ctl, Growable(k, held, c, page, ctl)
    PROVE  SlabObjMade(k, kmem_cache_alloc_one(new_slab(k, c, page, ctl), c), held, c, page, ctl)
<1> DEFINE k1 == new_slab(k, c, page, ctl)
           r == kmem_cache_alloc_one(k1, c)
           t == r.kmem
           pages == Block(page, order_size[page_order[c]])
<1>1. /\ KmemOK(k1, held \ pages, {page})
      /\ page \notin SlabsOf(k) /\ SlabsOf(k1) = SlabsOf(k) \cup {page} /\ SlabsKept(k, k1)
      /\ k1.slab[page].cache = c /\ k1.slab[page].ctl = ctl
      /\ InUseObjs(k1) = InUseObjs(k)
      /\ k1.slabs_notfull[c] # << >> /\ Head(k1.slabs_notfull[c]) = page
  <2>1. SlabMade(k, k1, held, c, page, ctl)
    BY NewSlab
  <2> HIDE DEF k1
  <2> QED BY <2>1 DEF SlabMade
<1>0. c \in Cache
  BY DEF Growable
<1> HIDE DEF k1, pages
<1>2. /\ KmemOK(t, held \ pages, {})
      /\ SlabsOf(t) = SlabsOf(k1) /\ SlabsKept(k1, t)
      /\ r.obj \in Page \X Nat /\ r.obj \notin InUseObjs(k1)
      /\ InUseObjs(t) = InUseObjs(k1) \cup {r.obj}
      /\ r.obj[1] \in SlabsOf(k1) /\ k1.slab[r.obj[1]].cache = c
  <2>1. {page} \subseteq {Head(k1.slabs_notfull[c])}
    BY <1>1
  <2> QED BY <1>0, <1>1, <2>1, AllocOne
<1> HIDE DEF r
<1>3. SlabsKept(k, t) /\ t.slab[page].cache = c /\ t.slab[page].ctl = ctl
      /\ t.slab[r.obj[1]].cache = c
  BY <1>1, <1>2 DEF SlabsKept
<1>4. SlabObjMade(k, r, held, c, page, ctl)
  BY <1>1, <1>2, <1>3 DEF SlabObjMade, pages
<1> QED BY <1>4 DEF r, k1

\* An object of cache c is handed out; slabs made for it are of that cache.
Grown(k, t, c) ==
    /\ SlabsOf(k) \subseteq SlabsOf(t) /\ SlabsKept(k, t)
    /\ \A q \in SlabsOf(t) \ SlabsOf(k) : t.slab[q].cache = c
HandsOut(k, r, c, held) ==
    /\ KmemOK(r.kmem, held, {}) /\ Grown(k, r.kmem, c)
    /\ r.obj \in Page \X Nat /\ r.obj \notin InUseObjs(k)
    /\ InUseObjs(r.kmem) = InUseObjs(k) \cup {r.obj}
    /\ r.obj[1] \in SlabsOf(r.kmem) /\ r.kmem.slab[r.obj[1]].cache = c

\* An object of a slab there is.
LEMMA AllocOld ==
    ASSUME NEW k, NEW held, KmemOK(k, held, {}), NEW c \in Cache,
           k.slabs_notfull[c] # << >>
    PROVE  LET r == kmem_cache_alloc_one(k, c) IN
           HandsOut(k, r, c, held) /\ SlabsOf(r.kmem) = SlabsOf(k)
<1> DEFINE r == kmem_cache_alloc_one(k, c)
<1>1. /\ KmemOK(r.kmem, held, {})
      /\ SlabsOf(r.kmem) = SlabsOf(k) /\ SlabsKept(k, r.kmem)
      /\ r.obj \in Page \X Nat /\ r.obj \notin InUseObjs(k)
      /\ InUseObjs(r.kmem) = InUseObjs(k) \cup {r.obj}
      /\ r.obj[1] \in SlabsOf(k) /\ k.slab[r.obj[1]].cache = c
  BY AllocOne
<1> HIDE DEF r
<1>2. r.kmem.slab[r.obj[1]].cache = c
  BY <1>1 DEF SlabsKept
<1>3. HandsOut(k, r, c, held)
  BY <1>1, <1>2 DEF HandsOut, Grown
<1> QED BY <1>1, <1>3 DEF r

\* The size of a cache's slabs is one getorder can serve.
LEMMA SlabSize ==
    ASSUME NEW c \in Cache
    PROVE  order_size[page_order[c]] \in 1..order_size[MAX_ORDER]
<1>1. page_order[c] \in Order
  BY SlabAssumption
<1> QED BY <1>1, OrderOfSize

\* kmem_cache_alloc for a cache with its control parts in the slabs.
LEMMA AllocOn ==
    ASSUME NEW k, NEW held, KmemOK(k, held, {}), NEW c \in Cache
    PROVE  LET r == alloc_on_slab(k, c) IN
           (r.obj = NoObject /\ r.kmem = k) \/ HandsOut(k, r, c, held)
<1> DEFINE n == order_size[page_order[c]]
           a == alloc_pages(k.mem, n)
           k1 == WithMem(k, a.mem)
           r == alloc_on_slab(k, c)
           pages == Block(a.page, n)
<1>1. CASE k.slabs_notfull[c] # << >>
  <2>1. r = kmem_cache_alloc_one(k, c)
    BY <1>1 DEF alloc_on_slab
  <2> QED BY <1>1, <2>1, AllocOld
<1>2. CASE k.slabs_notfull[c] = << >> /\ a.page = NoPage
  BY <1>2 DEF alloc_on_slab
<1>3. CASE k.slabs_notfull[c] = << >> /\ a.page # NoPage
  <2> DEFINE u == kmem_cache_alloc_one(new_slab(k1, c, a.page, NoObject), c)
  <2>1. r = u
    BY <1>3 DEF alloc_on_slab, WithMem
  <2>2. n \in 1..order_size[MAX_ORDER]
    BY SlabSize
  <2>3. /\ a.page \in Page /\ pages \cap held = {}
        /\ KmemOK(k1, held \cup pages, {})
        /\ SlabsOf(k1) = SlabsOf(k) /\ InUseObjs(k1) = InUseObjs(k) /\ k1.slab = k.slab
    <3> HIDE DEF n
    <3> QED BY <1>3, <2>2, TakePages
  <2> HIDE DEF k1, a
  <2>4. NoObject \in Nat \X Nat
    BY Numbers DEF NoObject, NoPage
  <2>5. pages \subseteq held \cup pages /\ (held \cup pages) \ pages = held
    BY <2>3
  <2>10. Growable(k1, held \cup pages, c, a.page, NoObject)
    BY <2>3, <2>4, <2>5 DEF Growable
  <2> DEFINE t == u.kmem
  <2>6. /\ KmemOK(t, (held \cup pages) \ pages, {})
        /\ SlabsOf(t) = SlabsOf(k1) \cup {a.page} /\ SlabsKept(k1, t)
        /\ t.slab[a.page].cache = c
        /\ u.obj \in Page \X Nat /\ u.obj \notin InUseObjs(k1)
        /\ InUseObjs(t) = InUseObjs(k1) \cup {u.obj}
        /\ u.obj[1] \in SlabsOf(t) /\ t.slab[u.obj[1]].cache = c
    <3>1. SlabObjMade(k1, u, held \cup pages, c, a.page, NoObject)
      BY <2>10, NewSlabObj
    <3> HIDE DEF u
    <3> QED BY <3>1 DEF SlabObjMade
  <2> HIDE DEF u, pages
  <2>7. Grown(k, t, c)
    BY <2>3, <2>6 DEF Grown, SlabsKept
  <2>8. KmemOK(t, held, {})
    BY <2>5, <2>6
  <2>9. HandsOut(k, u, c, held)
    BY <2>3, <2>6, <2>7, <2>8 DEF HandsOut
  <2> HIDE DEF r
  <2> QED BY <2>1, <2>9 DEF r
<1> QED BY <1>1, <1>2, <1>3

\* An object of an off_slab cache is handed out of a new slab, at page, with its
\* control part ctl.
HandsOutTwo(k, r, c, held, page, ctl) ==
    /\ KmemOK(r.kmem, held, {})
    /\ SlabsOf(k) \subseteq SlabsOf(r.kmem) /\ SlabsKept(k, r.kmem)
    /\ page \in SlabsOf(r.kmem) /\ page \notin SlabsOf(k)
    /\ r.kmem.slab[page].cache = c /\ r.kmem.slab[page].ctl = ctl
    /\ \A q \in SlabsOf(r.kmem) \ SlabsOf(k) : q # page => r.kmem.slab[q].cache = slab_cachep[c]
    /\ r.obj \in Page \X Nat /\ r.obj \notin InUseObjs(k)
    /\ ctl \in Page \X Nat /\ ctl \notin InUseObjs(k) /\ ctl # r.obj
    /\ InUseObjs(r.kmem) = InUseObjs(k) \cup {ctl, r.obj}
    /\ ctl[1] \in SlabsOf(r.kmem) /\ r.kmem.slab[ctl[1]].cache = slab_cachep[c]

\* When there is no memory nothing has changed but the free lists.
HandsNone(k, r, held) ==
    /\ r.obj = NoObject /\ KmemOK(r.kmem, held, {})
    /\ r.kmem.slab = k.slab /\ SlabsOf(r.kmem) = SlabsOf(k) /\ InUseObjs(r.kmem) = InUseObjs(k)

\* kmem_cache_alloc for an off_slab cache.
LEMMA AllocOff ==
    ASSUME NEW k, NEW held, KmemOK(k, held, {}), NEW c \in Cache
    PROVE  LET r == alloc_off_slab(k, c) IN
           \/ HandsNone(k, r, held)
           \/ HandsOut(k, r, c, held) /\ SlabsOf(r.kmem) = SlabsOf(k)
           \/ \E page, ctl : HandsOutTwo(k, r, c, held, page, ctl)
<1> DEFINE n == order_size[page_order[c]]
           a == alloc_pages(k.mem, n)
           k1 == WithMem(k, a.mem)
           d == slab_cachep[c]
           x == alloc_on_slab(k1, d)
           r == alloc_off_slab(k, c)
           pages == Block(a.page, n)
           all == held \cup pages
<1>1. CASE k.slabs_notfull[c] # << >>
  <2>1. r = kmem_cache_alloc_one(k, c)
    BY <1>1 DEF alloc_off_slab
  <2> QED BY <1>1, <2>1, AllocOld
<1>2. CASE k.slabs_notfull[c] = << >> /\ a.page = NoPage
  <2>1. r = [kmem |-> k, obj |-> NoObject]
    BY <1>2 DEF alloc_off_slab
  <2>2. r.kmem = k /\ r.obj = NoObject
    BY <2>1
  <2> HIDE DEF r
  <2>3. HandsNone(k, r, held)
    BY <2>2 DEF HandsNone
  <2> QED BY <2>3 DEF r
<1>3. CASE k.slabs_notfull[c] = << >> /\ a.page # NoPage
  <2> DEFINE none == [kmem |-> [k EXCEPT !.mem = free_pages(a.mem, a.page, n)], obj |-> NoObject]
             u == kmem_cache_alloc_one(new_slab(x.kmem, c, a.page, x.obj), c)
  <2>1. r = IF x.obj = NoObject THEN none ELSE u
    BY <1>3 DEF alloc_off_slab, WithMem
  <2>2. n \in 1..order_size[MAX_ORDER] /\ order_size[MAX_ORDER] \in Nat /\ n \in Nat /\ NPAGE \in Nat
    BY SlabSize, Numbers
  <2>3. /\ a.page \in Page /\ a.page + n <= NPAGE /\ pages \cap held = {}
        /\ KmemOK(k1, held \cup pages, {})
        /\ SlabsOf(k1) = SlabsOf(k) /\ InUseObjs(k1) = InUseObjs(k) /\ k1.slab = k.slab
    <3> HIDE DEF n
    <3> QED BY <1>3, <2>2, TakePages
  <2>4. d \in Cache
    BY SlabAssumption
  <2>5. (x.obj = NoObject /\ x.kmem = k1) \/ HandsOut(k1, x, d, all)
    BY <2>3, <2>4, AllocOn
  <2>6. a.page \in Nat /\ Page \subseteq Nat /\ NoObject \notin Page \X Nat
    BY <2>3, Numbers DEF NoObject
  <2>7. pages \subseteq all /\ all \ pages = held
    BY <2>3
  <2>8. CASE x.obj = NoObject
    <3> DEFINE t == WithMem(k1, free_pages(k1.mem, a.page, n))
    <3>1. x.kmem = k1
      BY <2>5, <2>6, <2>8 DEF HandsOut
    <3>2. k \in Kmem /\ k1 \in Kmem
      BY <2>3 DEF KmemOK
    <3>3. none.kmem = t /\ none.obj = NoObject
      <4>1. k1.mem = a.mem
        BY <3>2 DEF WithMem, Kmem
      <4> DEFINE mem == free_pages(k1.mem, a.page, n)
      <4>2. mem = free_pages(a.mem, a.page, n)
        BY <4>1
      <4>3. none.kmem = WithMem(k, mem)
        BY <4>2 DEF WithMem
      <4> HIDE DEF mem, none, a
      <4>4. WithMem(k, mem) = WithMem(WithMem(k, a.mem), mem)
        BY <3>2 DEF WithMem, Kmem
      <4> QED BY <4>3, <4>4 DEF mem, none
    <3> HIDE DEF k1, a, n
    <3>4. /\ KmemOK(t, all \ pages, {})
          /\ SlabsOf(t) = SlabsOf(k1) /\ InUseObjs(t) = InUseObjs(k1) /\ t.slab = k1.slab
      <4>1. KmemOK(k1, all, {}) /\ n <= order_size[MAX_ORDER]
        BY <2>2, <2>3
      <4> HIDE DEF all
      <4>2. Givable(k1, all, {}, a.page, n)
        BY <2>2, <2>3, <2>6, <2>7, <4>1 DEF Givable
      <4>3. Gave(k1, t, all \ pages, {})
        BY <4>2, GivePages
      <4> HIDE DEF t
      <4> QED BY <4>3 DEF Gave
    <3> HIDE DEF t, none, pages, all
    <3>5. HandsNone(k, none, held)
      BY <2>3, <2>7, <3>3, <3>4 DEF HandsNone
    <3> QED BY <2>1, <2>8, <3>5
  <2>9. CASE x.obj # NoObject
    <3> HIDE DEF x, k1, a, d
    <3>1. /\ KmemOK(x.kmem, all, {}) /\ Grown(k1, x.kmem, d)
          /\ x.obj \in Page \X Nat /\ x.obj \notin InUseObjs(k1)
          /\ InUseObjs(x.kmem) = InUseObjs(k1) \cup {x.obj}
          /\ x.obj[1] \in SlabsOf(x.kmem) /\ x.kmem.slab[x.obj[1]].cache = d
      BY <2>5, <2>9 DEF HandsOut
    <3>2. Growable(x.kmem, all, c, a.page, x.obj)
      BY <2>3, <2>6, <2>7, <3>1 DEF Growable
    <3>3. SlabObjMade(x.kmem, u, all, c, a.page, x.obj)
      BY <3>2, NewSlabObj
    <3> HIDE DEF u
    <3> DEFINE t == u.kmem
    <3>4. /\ KmemOK(t, held, {})
          /\ a.page \notin SlabsOf(x.kmem) /\ SlabsOf(t) = SlabsOf(x.kmem) \cup {a.page}
          /\ SlabsKept(x.kmem, t)
          /\ t.slab[a.page].cache = c /\ t.slab[a.page].ctl = x.obj
          /\ u.obj \in Page \X Nat /\ u.obj \notin InUseObjs(x.kmem)
          /\ InUseObjs(t) = InUseObjs(x.kmem) \cup {u.obj}
      BY <2>7, <3>3 DEF SlabObjMade
    <3> HIDE DEF t, pages, all
    <3>5. /\ SlabsOf(k) \subseteq SlabsOf(t) /\ a.page \notin SlabsOf(k) /\ SlabsKept(k, t)
          /\ \A q \in SlabsOf(t) \ SlabsOf(k) : q # a.page => t.slab[q].cache = d
          /\ t.slab[x.obj[1]].cache = d /\ x.obj[1] \in SlabsOf(t)
      BY <2>3, <3>1, <3>4 DEF Grown, SlabsKept
    <3>6. HandsOutTwo(k, u, c, held, a.page, x.obj)
      BY <2>3, <3>1, <3>4, <3>5 DEF HandsOutTwo, t, d
    <3> HIDE DEF r
    <3>7. r = u
      BY <2>1, <2>9
    <3> QED BY <3>6, <3>7 DEF r
  <2> QED BY <2>8, <2>9
<1> QED BY <1>1, <1>2, <1>3

\* The chain old of a slab of cache c, and the same with object i put back at its front.
Longer(old, c, i) ==
    LET free == <<i>> \o old
        n == num[c]
    IN  /\ c \in Cache /\ n \in Nat \ {0}
        /\ free \in Seq(0..(n - 1)) /\ free \in Seq(Nat) /\ IsInjective(free)
        /\ i \notin Range(old) /\ i \in 0..(n - 1) /\ Range(free) = Range(old) \cup {i}
        /\ free # << >>
        /\ n - Len(free) = 0 <=> Range(free) = 0..(n - 1)
        /\ n - Len(free) = n - 1 <=> old = << >>
\* An object in use lengthens its slab's chain.
LEMMA ChainPut ==
    ASSUME NEW k, k \in Kmem, Chains(k), NEW s, NEW i, <<s, i>> \in InUseObjs(k)
    PROVE  s \in SlabsOf(k) /\ s \in Page /\ Longer(k.slab[s].free, k.slab[s].cache, i)
<1> DEFINE old == k.slab[s].free
           free == <<i>> \o old
           n == num[k.slab[s].cache]
<1>1. s \in SlabsOf(k) /\ s \in Page
  BY DEF InUseObjs, SlabsOf
<1>2. i \in 0..(n - 1) /\ i \notin Range(old)
  BY <1>1, ObjInUse
<1>3. k.slab[s].cache \in Cache /\ old \in Seq(0..(n - 1)) /\ IsInjective(old)
  BY <1>1 DEF Chains
<1>4. n \in Nat \ {0}
  BY <1>3, SlabAssumption
<1> HIDE DEF n, old
<1>5. free \in Seq(0..(n - 1)) /\ IsInjective(free) /\ Range(free) = Range(old) \cup {i}
  <2> DEFINE S == 0..(n - 1)
  <2>1. old \in Seq(S) /\ i \in S /\ IsInjective(old) /\ i \notin Range(old)
    BY <1>2, <1>3
  <2> HIDE DEF S
  <2>2. free \in Seq(S) /\ IsInjective(free) /\ Range(free) = Range(old) \cup {i}
    BY <2>1, ConsElements
  <2> QED BY <2>2 DEF S
<1>6. Len(free) = Len(old) + 1 /\ Len(old) \in Nat /\ (Len(old) = 0 <=> old = << >>) /\ free # << >>
  <2> DEFINE S == 0..(n - 1)
  <2>1. old \in Seq(S) /\ i \in S
    BY <1>2, <1>3
  <2> HIDE DEF S
  <2> QED BY <2>1
<1> HIDE DEF free
<1>7. free \in Seq(Nat)
  <2>1. 0..(n - 1) \subseteq Nat
    BY <1>4
  <2> QED BY <1>5, <2>1, SeqSubset
<1>8. Len(free) = n <=> Range(free) = 0..(n - 1)
  BY <1>4, <1>5, ChainLength
<1>9. n - Len(free) = 0 <=> Range(free) = 0..(n - 1)
  BY <1>4, <1>6, <1>8
<1>10. n - Len(free) = n - 1 <=> old = << >>
  BY <1>4, <1>6
<1>11. Longer(old, k.slab[s].cache, i)
  BY <1>1, <1>2, <1>3, <1>4, <1>5, <1>6, <1>7, <1>9, <1>10 DEF n, free, Longer
<1> QED BY <1>1, <1>11 DEF old

\* The state t differs from k in that the object is in the chain of its slab, which has
\* others in use.
PutBack(k, t, s, i) ==
    /\ t \in Kmem /\ t.mem = k.mem
    /\ t.slab = [k.slab EXCEPT ![s] = [k.slab[s] EXCEPT !.free = <<i>> \o @]]
    /\ Range(t.slab[s].free) # 0..(num[k.slab[s].cache] - 1)
\* The slabs are the same and it is no more in use.
LEMMA PutBackSame ==
    ASSUME NEW k, NEW held, KmemOK(k, held, {}), NEW s, NEW i, <<s, i>> \in InUseObjs(k),
           NEW t, PutBack(k, t, s, i)
    PROVE  /\ MemOK(t.mem) /\ Chains(t) /\ InUse(t, {}) /\ Parted(t, held)
           /\ SlabsOf(t) = SlabsOf(k) /\ SlabsKept(k, t) /\ InUseObjs(t) = InUseObjs(k) \ {<<s, i>>}
           /\ t.slab[s].free # << >> /\ t.slab[s].cache = k.slab[s].cache
           /\ \A q \in Page : q # s => t.slab[q] = k.slab[q]
<1> DEFINE rec == k.slab[s]
           free == <<i>> \o rec.free
           n == num[rec.cache]
<1>0. k \in Kmem /\ MemOK(k.mem) /\ Chains(k) /\ InUse(k, {}) /\ Listed(k) /\ Parted(k, held)
  BY DEF KmemOK
<1>1. k.slab \in [Page -> SlabRec]
  BY <1>0, KmemFields
<1>2. /\ s \in SlabsOf(k) /\ s \in Page /\ rec.cache \in Cache /\ n \in Nat \ {0}
      /\ free \in Seq(0..(n - 1)) /\ free \in Seq(Nat) /\ IsInjective(free)
      /\ i \notin Range(rec.free) /\ i \in 0..(n - 1) /\ Range(free) = Range(rec.free) \cup {i}
      /\ free # << >>
  <2>1. s \in SlabsOf(k) /\ s \in Page /\ Longer(rec.free, rec.cache, i)
    BY <1>0, ChainPut
  <2> QED BY <2>1 DEF Longer
<1> HIDE DEF n, free
<1>3. /\ t.mem = k.mem /\ t \in Kmem
      /\ t.slab[s].free = free /\ t.slab[s].cache = rec.cache /\ t.slab[s].ctl = rec.ctl
      /\ \A q \in Page : q # s => t.slab[q] = k.slab[q]
      /\ Range(free) # 0..(n - 1)
  <2>1. rec \in SlabRec
    BY <1>1, <1>2
  <2>2. t.slab = [k.slab EXCEPT ![s] = [rec EXCEPT !.free = free]]
    BY DEF PutBack, free
  <2>3. t.slab[s] = [rec EXCEPT !.free = free] /\ \A q \in Page : q # s => t.slab[q] = k.slab[q]
    BY <1>1, <1>2, <2>2
  <2>4. t.slab[s].free = free /\ t.slab[s].cache = rec.cache /\ t.slab[s].ctl = rec.ctl
    BY <2>1, <2>3 DEF SlabRec
  <2> QED BY <2>3, <2>4 DEF PutBack, n
<1> HIDE DEF rec
<1>4. SlabsOf(t) = SlabsOf(k)
  <2>1. t.slab[s] # NoSlab
    <3>1. t.slab[s].cache # NoPage
      BY <1>2, <1>3, SlabAssumption
    <3> QED BY <3>1 DEF NoSlab
  <2> QED BY <1>2, <1>3, <2>1 DEF SlabsOf
<1>5. \A q \in SlabsOf(k) : t.slab[q].cache = k.slab[q].cache /\ t.slab[q].ctl = k.slab[q].ctl
  BY <1>3 DEF rec, SlabsOf
<1>6. Parted(t, held)
  BY <1>0, <1>3, <1>4, <1>5, SamePages
<1>7. Chains(t)
  BY <1>0, <1>2, <1>3, <1>4 DEF Chains, SlabsOf, n
<1>8. InUseObjs(t) = InUseObjs(k) \ {<<s, i>>}
  <2>1. \A j : <<s, j>> \in InUseObjs(t) <=> <<s, j>> \in InUseObjs(k) /\ j # i
    <3> SUFFICES ASSUME NEW j PROVE <<s, j>> \in InUseObjs(t) <=> <<s, j>> \in InUseObjs(k) /\ j # i
      OBVIOUS
    <3>1. <<s, j>> \in InUseObjs(t) <=> j \in 0..(n - 1) /\ j \notin Range(free)
      BY <1>2, <1>3, <1>4, <1>7, ObjInUse DEF n
    <3>2. <<s, j>> \in InUseObjs(k) <=> j \in 0..(n - 1) /\ j \notin Range(rec.free)
      BY <1>0, <1>2, ObjInUse DEF n, rec
    <3> QED BY <1>2, <3>1, <3>2
  <2>2. \A q \in SlabsOf(k) : \A j : q # s => (<<q, j>> \in InUseObjs(t) <=> <<q, j>> \in InUseObjs(k))
    <3> SUFFICES ASSUME NEW q \in SlabsOf(k), NEW j, q # s
                 PROVE  <<q, j>> \in InUseObjs(t) <=> <<q, j>> \in InUseObjs(k)
      OBVIOUS
    <3>1. q \in SlabsOf(t) /\ t.slab[q] = k.slab[q]
      BY <1>3, <1>4 DEF SlabsOf
    <3> QED BY <1>0, <1>3, <1>7, <3>1, ObjInUse
  <2>3. \A o \in InUseObjs(t) : o = <<o[1], o[2]>> /\ o[1] \in SlabsOf(k)
    BY <1>4 DEF InUseObjs
  <2>4. \A o \in InUseObjs(k) : o = <<o[1], o[2]>> /\ o[1] \in SlabsOf(k)
    BY DEF InUseObjs
  <2>5. \A o : o \in InUseObjs(t) => o \in InUseObjs(k) /\ o # <<s, i>>
    BY <2>1, <2>2, <2>3
  <2>6. \A o : o \in InUseObjs(k) /\ o # <<s, i>> => o \in InUseObjs(t)
    BY <2>1, <2>2, <2>4
  <2> QED BY <2>5, <2>6
<1>9. InUse(t, {})
  <2> SUFFICES ASSUME NEW q \in SlabsOf(k) PROVE Used(t, q) # {}
    BY <1>4 DEF InUse
  <2>1. CASE q = s
    <3>1. PICK j \in 0..(n - 1) : j \notin Range(free)
      <4>1. Range(free) \subseteq 0..(n - 1)
        BY <1>2 DEF Range
      <4> QED BY <1>3, <4>1
    <3>2. <<s, j>> \in Used(t, s)
      BY <1>2, <1>3, <1>4, <1>7, <3>1, ObjInUse DEF n
    <3> QED BY <2>1, <3>2
  <2>2. CASE q # s
    <3>1. t.slab[q] = k.slab[q]
      BY <1>3, <2>2 DEF SlabsOf
    <3> QED BY <1>0, <3>1 DEF InUse, Used
  <2> QED BY <2>1, <2>2
<1>10. SlabsKept(k, t)
  BY <1>5 DEF SlabsKept
<1> QED BY <1>0, <1>2, <1>3, <1>4, <1>6, <1>7, <1>8, <1>9, <1>10 DEF rec

\* A slab that had objects left stays on slabs_notfull.
LEMMA ListedKept ==
    ASSUME NEW k, NEW held, KmemOK(k, held, {}), NEW s, NEW i, <<s, i>> \in InUseObjs(k),
           NEW t, PutBack(k, t, s, i), k.slab[s].free # << >>,
           t.slabs_full = k.slabs_full, t.slabs_notfull = k.slabs_notfull
    PROVE  Listed(t)
<1>0. Listed(k)
  BY DEF KmemOK
<1>1. /\ SlabsOf(t) = SlabsOf(k) /\ t.slab[s].free # << >> /\ t.slab[s].cache = k.slab[s].cache
      /\ \A q \in Page : q # s => t.slab[q] = k.slab[q]
  BY PutBackSame
<1>2. ASSUME NEW d \in Cache PROVE FullOf(t, d) = FullOf(k, d) /\ NotFullOf(t, d) = NotFullOf(k, d)
  <2>1. \A q \in SlabsOf(k) : /\ t.slab[q].cache = k.slab[q].cache
                              /\ t.slab[q].free = << >> <=> k.slab[q].free = << >>
    BY <1>1 DEF SlabsOf
  <2> QED BY <1>1, <2>1 DEF FullOf, NotFullOf
<1> QED BY <1>0, <1>2 DEF Listed

\* One that was full is linked to slabs_notfull.
LEMMA ListedAgain ==
    ASSUME NEW k, NEW held, KmemOK(k, held, {}), NEW s, NEW i, <<s, i>> \in InUseObjs(k),
           NEW t, PutBack(k, t, s, i), k.slab[s].free = << >>, NEW c, c = k.slab[s].cache,
           t.slabs_full = [k.slabs_full EXCEPT ![c] = RemoveFirst(@, s)],
           t.slabs_notfull = [k.slabs_notfull EXCEPT ![c] = <<s>> \o RemoveFirst(@, s)]
    PROVE  Listed(t)
<1>0. k \in Kmem /\ Listed(k) /\ Chains(k) /\ s \in SlabsOf(k) /\ s \in Page /\ c \in Cache
  <2>1. k \in Kmem /\ Listed(k) /\ Chains(k)
    BY DEF KmemOK
  <2>2. s \in SlabsOf(k) /\ s \in Page
    BY <2>1, ChainPut
  <2> QED BY <2>1, <2>2 DEF Chains
<1>1. /\ SlabsOf(t) = SlabsOf(k) /\ t.slab[s].free # << >> /\ t.slab[s].cache = c
      /\ \A q \in Page : q # s => t.slab[q] = k.slab[q]
  BY PutBackSame
<1>2. k.slabs_full \in [Cache -> Seq(Page)] /\ k.slabs_notfull \in [Cache -> Seq(Page)]
  BY <1>0, KmemFields
<1> SUFFICES ASSUME NEW d \in Cache
             PROVE  /\ IsInjective(t.slabs_full[d]) /\ Range(t.slabs_full[d]) = FullOf(t, d)
                    /\ IsInjective(t.slabs_notfull[d]) /\ Range(t.slabs_notfull[d]) = NotFullOf(t, d)
  BY DEF Listed
<1>3. /\ IsInjective(k.slabs_full[d]) /\ Range(k.slabs_full[d]) = FullOf(k, d)
      /\ IsInjective(k.slabs_notfull[d]) /\ Range(k.slabs_notfull[d]) = NotFullOf(k, d)
      /\ k.slabs_full[d] \in Seq(Page) /\ k.slabs_notfull[d] \in Seq(Page)
  BY <1>0, <1>2 DEF Listed
<1>4. CASE d # c
  <2>1. FullOf(t, d) = FullOf(k, d) /\ NotFullOf(t, d) = NotFullOf(k, d)
    BY <1>1, <1>4 DEF FullOf, NotFullOf, SlabsOf
  <2>2. t.slabs_full[d] = k.slabs_full[d] /\ t.slabs_notfull[d] = k.slabs_notfull[d]
    BY <1>2, <1>4
  <2> QED BY <1>3, <2>1, <2>2
<1>5. CASE d = c
  <2>1. FullOf(t, d) = FullOf(k, d) \ {s} /\ NotFullOf(t, d) = NotFullOf(k, d) \cup {s}
    BY <1>0, <1>1, <1>5 DEF FullOf, NotFullOf, SlabsOf
  <2> DEFINE full == RemoveFirst(k.slabs_full[d], s)
             rest == RemoveFirst(k.slabs_notfull[d], s)
  <2>2. t.slabs_full[d] = full /\ t.slabs_notfull[d] = <<s>> \o rest
    BY <1>0, <1>2, <1>5
  <2>3. IsInjective(full) /\ Range(full) = FullOf(k, d) \ {s}
    BY <1>3, RemoveElement
  <2>4. rest \in Seq(Page) /\ IsInjective(rest) /\ Range(rest) = NotFullOf(k, d) \ {s}
    BY <1>3, RemoveElement
  <2> HIDE DEF full, rest
  <2>5. IsInjective(<<s>> \o rest) /\ Range(<<s>> \o rest) = NotFullOf(k, d) \cup {s}
    <3>1. s \notin Range(rest)
      BY <2>4
    <3>2. IsInjective(<<s>> \o rest) /\ Range(<<s>> \o rest) = Range(rest) \cup {s}
      BY <1>0, <2>4, <3>1, ConsElements
    <3> QED BY <2>4, <3>2
  <2> QED BY <2>1, <2>2, <2>3, <2>5
<1> QED BY <1>4, <1>5

\* kmem_slab_destroy but for free_pages: the slab is gone and its pages are held.
Destroyed(k, t, s) ==
    LET c == k.slab[s].cache
    IN  /\ t \in Kmem /\ t.mem = k.mem /\ t.slab = [k.slab EXCEPT ![s] = NoSlab]
        /\ t.slabs_full = [k.slabs_full EXCEPT ![c] = RemoveFirst(@, s)]
        /\ t.slabs_notfull = [k.slabs_notfull EXCEPT ![c] = RemoveFirst(@, s)]
SlabGone(k, t, held, s, i) ==
    /\ KmemOK(t, held \cup SlabBlock(k, s), {}) /\ held \cap SlabBlock(k, s) = {}
    /\ SlabsOf(t) = SlabsOf(k) \ {s} /\ SlabsKept(k, t)
    /\ InUseObjs(t) = InUseObjs(k) \ {<<s, i>>}
\* Only the objects and pages of that slab are affected.
LEMMA DestroySlab ==
    ASSUME NEW k, NEW held, KmemOK(k, held, {}), NEW s, NEW i, <<s, i>> \in InUseObjs(k),
           Range(k.slab[s].free) \cup {i} = 0..(num[k.slab[s].cache] - 1), NEW t, Destroyed(k, t, s)
    PROVE  SlabGone(k, t, held, s, i)
<1> DEFINE c == k.slab[s].cache
           pages == SlabBlock(k, s)
<1>0. k \in Kmem /\ MemOK(k.mem) /\ Chains(k) /\ InUse(k, {}) /\ Listed(k) /\ Parted(k, held)
  BY DEF KmemOK
<1>1. s \in SlabsOf(k) /\ s \in Page /\ c \in Cache /\ k.slab \in [Page -> SlabRec]
      /\ k.slabs_full \in [Cache -> Seq(Page)] /\ k.slabs_notfull \in [Cache -> Seq(Page)]
  <2>1. s \in SlabsOf(k) /\ s \in Page
    BY <1>0, ChainPut
  <2> QED BY <1>0, <2>1, KmemFields DEF Chains
<1>2. /\ t \in Kmem /\ t.mem = k.mem /\ t.slab[s] = NoSlab
      /\ \A q \in Page : q # s => t.slab[q] = k.slab[q]
  BY <1>1 DEF Destroyed
<1>3. SlabsOf(t) = SlabsOf(k) \ {s} /\ \A q \in SlabsOf(t) : t.slab[q] = k.slab[q]
  BY <1>1, <1>2 DEF SlabsOf
<1>4. SlabsKept(k, t)
  BY <1>3 DEF SlabsKept
<1>5. Chains(t)
  BY <1>0, <1>3 DEF Chains
<1>6. InUse(t, {})
  BY <1>0, <1>3 DEF InUse, Used
<1>7. InUseObjs(t) = InUseObjs(k) \ {<<s, i>>}
  <2>1. \A j : <<s, j>> \in InUseObjs(k) <=> j = i
    <3> SUFFICES ASSUME NEW j PROVE <<s, j>> \in InUseObjs(k) <=> j = i
      OBVIOUS
    <3>1. <<s, j>> \in InUseObjs(k) <=> j \in 0..(num[c] - 1) /\ j \notin Range(k.slab[s].free)
      BY <1>0, <1>1, ObjInUse
    <3> QED BY <3>1
  <2>2. \A q \in SlabsOf(t) : \A j : <<q, j>> \in InUseObjs(t) <=> <<q, j>> \in InUseObjs(k)
    <3> SUFFICES ASSUME NEW q \in SlabsOf(t), NEW j
                 PROVE  <<q, j>> \in InUseObjs(t) <=> <<q, j>> \in InUseObjs(k)
      OBVIOUS
    <3>1. q \in SlabsOf(k) /\ t.slab[q] = k.slab[q]
      BY <1>3
    <3> QED BY <1>0, <1>2, <1>5, <3>1, ObjInUse
  <2>3. \A o \in InUseObjs(t) : o = <<o[1], o[2]>> /\ o[1] \in SlabsOf(t)
    BY DEF InUseObjs
  <2>4. \A o \in InUseObjs(k) : o = <<o[1], o[2]>> /\ o[1] \in SlabsOf(k)
    BY DEF InUseObjs
  <2>5. ASSUME NEW o \in InUseObjs(t) PROVE o \in InUseObjs(k) /\ o # <<s, i>>
    <3>1. o = <<o[1], o[2]>> /\ o[1] \in SlabsOf(t) /\ o[1] # s
      BY <1>3, <2>3
    <3> QED BY <2>2, <3>1
  <2>6. ASSUME NEW o \in InUseObjs(k), o # <<s, i>> PROVE o \in InUseObjs(t)
    <3>1. o = <<o[1], o[2]>> /\ o[1] \in SlabsOf(k)
      BY <2>4
    <3>2. o[1] # s
      BY <2>1, <2>6, <3>1
    <3> QED BY <1>3, <2>2, <3>1, <3>2
  <2> QED BY <2>5, <2>6
<1>8. Listed(t)
  <2> SUFFICES ASSUME NEW d \in Cache
               PROVE  /\ IsInjective(t.slabs_full[d]) /\ Range(t.slabs_full[d]) = FullOf(t, d)
                      /\ IsInjective(t.slabs_notfull[d]) /\ Range(t.slabs_notfull[d]) = NotFullOf(t, d)
    BY DEF Listed
  <2>1. /\ IsInjective(k.slabs_full[d]) /\ Range(k.slabs_full[d]) = FullOf(k, d)
        /\ IsInjective(k.slabs_notfull[d]) /\ Range(k.slabs_notfull[d]) = NotFullOf(k, d)
        /\ k.slabs_full[d] \in Seq(Page) /\ k.slabs_notfull[d] \in Seq(Page)
    BY <1>0, <1>1 DEF Listed
  <2>2. FullOf(t, d) = FullOf(k, d) \ {s} /\ NotFullOf(t, d) = NotFullOf(k, d) \ {s}
    BY <1>3 DEF FullOf, NotFullOf
  <2>3. CASE d = c
    <3>1. /\ t.slabs_full[d] = RemoveFirst(k.slabs_full[d], s)
          /\ t.slabs_notfull[d] = RemoveFirst(k.slabs_notfull[d], s)
      BY <1>1, <2>3 DEF Destroyed
    <3> QED BY <2>1, <2>2, <3>1, RemoveElement
  <2>4. CASE d # c
    <3>1. t.slabs_full[d] = k.slabs_full[d] /\ t.slabs_notfull[d] = k.slabs_notfull[d]
      BY <1>1, <2>4 DEF Destroyed
    <3>2. s \notin FullOf(k, d) /\ s \notin NotFullOf(k, d)
      BY <2>4 DEF FullOf, NotFullOf
    <3> QED BY <2>1, <2>2, <3>1, <3>2
  <2> QED BY <2>3, <2>4
<1>9. /\ held \subseteq Page /\ held \cap FreePages(k.mem) = {}
      /\ \A q \in SlabsOf(k) : /\ SlabBlock(k, q) \subseteq Page /\ SlabBlock(k, q) \cap held = {}
                               /\ SlabBlock(k, q) \cap FreePages(k.mem) = {}
                               /\ \A u \in SlabsOf(k) : u # q => SlabBlock(k, q) \cap SlabBlock(k, u) = {}
      /\ FreePages(k.mem) \cup SlabPagesOf(k) \cup held = Page
  BY <1>0 DEF Parted
<1>10. \A q \in SlabsOf(t) : SlabBlock(t, q) = SlabBlock(k, q)
  BY <1>3 DEF SlabBlock
<1>11. SlabPagesOf(t) \cup pages = SlabPagesOf(k)
  <2>1. SlabPagesOf(t) \subseteq SlabPagesOf(k)
    <3> SUFFICES ASSUME NEW q \in SlabsOf(t) PROVE SlabBlock(t, q) \subseteq SlabPagesOf(k)
      BY DEF SlabPagesOf
    <3> QED BY <1>3, <1>10 DEF SlabPagesOf
  <2>2. pages \subseteq SlabPagesOf(k)
    BY <1>1 DEF SlabPagesOf
  <2>3. SlabPagesOf(k) \subseteq SlabPagesOf(t) \cup pages
    <3> SUFFICES ASSUME NEW q \in SlabsOf(k) PROVE SlabBlock(k, q) \subseteq SlabPagesOf(t) \cup pages
      BY DEF SlabPagesOf
    <3>1. CASE q = s
      BY <3>1
    <3>2. CASE q # s
      <4>1. q \in SlabsOf(t) /\ SlabBlock(t, q) = SlabBlock(k, q)
        BY <1>3, <1>10, <3>2
      <4> QED BY <4>1 DEF SlabPagesOf
    <3> QED BY <3>1, <3>2
  <2> QED BY <2>1, <2>2, <2>3
<1>12. Parted(t, held \cup pages) /\ held \cap pages = {}
  <2> HIDE DEF pages
  <2>0. pages \subseteq Page /\ pages \cap held = {} /\ pages \cap FreePages(k.mem) = {}
    BY <1>1, <1>9 DEF pages
  <2>1. ASSUME NEW q \in SlabsOf(t)
        PROVE  /\ SlabBlock(t, q) \subseteq Page /\ SlabBlock(t, q) \cap (held \cup pages) = {}
               /\ SlabBlock(t, q) \cap FreePages(k.mem) = {}
               /\ \A u \in SlabsOf(t) : u # q => SlabBlock(t, q) \cap SlabBlock(t, u) = {}
    <3>1. q \in SlabsOf(k) /\ q # s /\ SlabBlock(t, q) = SlabBlock(k, q)
      BY <1>3, <1>10
    <3>2. SlabBlock(k, q) \cap pages = {}
      BY <1>1, <1>9, <3>1 DEF pages
    <3>3. \A u \in SlabsOf(t) : u # q => SlabBlock(t, q) \cap SlabBlock(t, u) = {}
      BY <1>3, <1>9, <1>10, <3>1
    <3> QED BY <1>9, <3>1, <3>2, <3>3
  <2>2. FreePages(k.mem) \cup SlabPagesOf(t) \cup (held \cup pages) = Page
    BY <1>9, <1>11
  <2>3. held \cup pages \subseteq Page /\ (held \cup pages) \cap FreePages(k.mem) = {}
    BY <1>9, <2>0
  <2> QED BY <1>2, <2>0, <2>1, <2>2, <2>3 DEF Parted
<1> QED BY <1>0, <1>2, <1>3, <1>4, <1>5, <1>6, <1>7, <1>8, <1>12 DEF KmemOK, SlabGone

\* The object is no more in use, and its slab is gone when it was the last.
Freed(k, t, held, obj) ==
    /\ KmemOK(t, held, {})
    /\ SlabsOf(t) \subseteq SlabsOf(k) /\ SlabsOf(k) \ {obj[1]} \subseteq SlabsOf(t) /\ SlabsKept(k, t)
    /\ InUseObjs(t) = InUseObjs(k) \ {obj}

\* kmem_cache_free_one, with kmem_slab_destroy but for the control part.
LEMMA FreeOne ==
    ASSUME NEW k, NEW held, KmemOK(k, held, {}), NEW obj, obj \in InUseObjs(k)
    PROVE  Freed(k, free_one(k, obj), held, obj)
<1> DEFINE s == obj[1]
           i == obj[2]
           c == k.slab[s].cache
           old == k.slab[s].free
           free == <<i>> \o old
           n == num[c]
           slab == [k.slab EXCEPT ![s] = [k.slab[s] EXCEPT !.free = <<i>> \o @]]
           k1 == [k EXCEPT !.slab = slab]
           full == [k.slabs_full EXCEPT ![c] = RemoveFirst(@, s)]
           notfull == [k.slabs_notfull EXCEPT ![c] = RemoveFirst(@, s)]
           unlinked == [k1 EXCEPT !.slabs_full = full, !.slabs_notfull = notfull]
           r == free_one(k, obj)
           size == order_size[page_order[c]]
<1>0. k \in Kmem /\ MemOK(k.mem) /\ Chains(k) /\ Parted(k, held)
  BY DEF KmemOK
<1>1. obj = <<s, i>> /\ s \in SlabsOf(k) /\ s \in Page /\ Longer(old, c, i)
  <2>1. obj = <<s, i>>
    BY DEF InUseObjs
  <2> QED BY <1>0, <2>1, ChainPut
<1>2. /\ k.mem \in Mem /\ k.slab \in [Page -> SlabRec]
      /\ k.slabs_full \in [Cache -> Seq(Page)] /\ k.slabs_notfull \in [Cache -> Seq(Page)]
  BY <1>0, KmemFields
<1>3. slab[s].cache = c /\ slab[s].free = free /\ slab \in SlabMap
  <2>1. k.slab[s] \in SlabRec
    BY <1>1, <1>2
  <2>2. free \in Seq(Nat)
    BY <1>1 DEF Longer
  <2> HIDE DEF free
  <2>3. slab[s] = [k.slab[s] EXCEPT !.free = free]
    BY <1>1, <1>2 DEF free
  <2>4. [k.slab[s] EXCEPT !.free = free] \in SlabRec
    BY <2>1, <2>2 DEF SlabRec
  <2>5. slab \in SlabMap
    BY <1>2, <2>4 DEF SlabMap, free
  <2> HIDE DEF slab
  <2> QED BY <2>1, <2>3, <2>5 DEF SlabRec
<1>4. full \in Lists /\ notfull \in Lists
  <2>1. c \in Cache
    BY <1>1 DEF Longer
  <2>2. k.slabs_full[c] \in Seq(Page) /\ IsInjective(k.slabs_full[c])
        /\ k.slabs_notfull[c] \in Seq(Page) /\ IsInjective(k.slabs_notfull[c])
    BY <1>2, <2>1 DEF KmemOK, Listed
  <2>3. RemoveFirst(k.slabs_full[c], s) \in Seq(Page) /\ RemoveFirst(k.slabs_notfull[c], s) \in Seq(Page)
    BY <2>2, RemoveElement
  <2> QED BY <1>2, <2>3 DEF Lists
<1>5. r = CASE n - Len(free) = 0 -> [unlinked EXCEPT !.mem = free_pages(@, s, size),
                                                     !.slab = [slab EXCEPT ![s] = NoSlab]]
            [] n - Len(free) = n - 1 /\ n - Len(free) # 0 ->
                  [unlinked EXCEPT !.slabs_notfull = [notfull EXCEPT ![c] = <<s>> \o @]]
            [] OTHER -> k1
  <2>1. k1.slab = slab /\ k1.slabs_full = k.slabs_full /\ k1.slabs_notfull = k.slabs_notfull
    <3> HIDE DEF slab
    <3> QED BY <1>0 DEF Kmem
  <2>2. unlinked.slab = slab /\ unlinked.slabs_notfull = notfull
    <3> HIDE DEF slab, full, notfull
    <3> QED BY <1>0 DEF Kmem
  <2>3. inuse(k1, s) = n - Len(free)
    BY <1>3, <2>1 DEF inuse
  <2>4. unlinked = [k1 EXCEPT !.slabs_full[c] = RemoveFirst(@, s), !.slabs_notfull[c] = RemoveFirst(@, s)]
    BY <2>1
  <2> HIDE DEF slab, full, notfull, unlinked, free, n
  <2>5. r = CASE inuse(k1, s) = 0 -> [unlinked EXCEPT !.mem = free_pages(@, s, size), !.slab[s] = NoSlab]
              [] inuse(k1, s) = n - 1 /\ inuse(k1, s) # 0 ->
                    [unlinked EXCEPT !.slabs_notfull[c] = <<s>> \o @]
              [] OTHER -> k1
    BY <2>4 DEF free_one, slab, n
  <2> HIDE DEF k1, r
  <2> QED BY <2>2, <2>3, <2>5
<1> HIDE DEF slab, full, notfull
<1>6. CASE Range(free) = 0..(n - 1)
  <2> DEFINE gone == [k.slab EXCEPT ![s] = NoSlab]
             u == Made(k, k.mem, gone, full, notfull)
             mem == free_pages(k.mem, s, size)
             t == WithMem(u, mem)
             pages == SlabBlock(k, s)
  <2>1. gone \in SlabMap /\ [slab EXCEPT ![s] = NoSlab] = gone
    <3>1. NoSlab \in SlabRec
      <4>1. << >> \in Seq(Nat) /\ NoPage \in Nat
        BY Numbers DEF NoPage
      <4> QED BY <4>1 DEF NoSlab, SlabRec
    <3> QED BY <1>1, <1>2, <3>1 DEF SlabMap, slab
  <2> HIDE DEF gone
  <2>2. u \in Kmem /\ u.mem = k.mem /\ u.slab = gone /\ u.slabs_full = full /\ u.slabs_notfull = notfull
    BY <1>0, <1>2, <1>4, <2>1, KmemMade
  <2>3. r = t
    <3>1. n - Len(free) = 0
      BY <1>1, <1>6 DEF Longer
    <3>2. r = [unlinked EXCEPT !.mem = free_pages(@, s, size), !.slab = gone]
      BY <1>5, <2>1, <3>1
    <3>3. unlinked.mem = k.mem
      BY <1>0 DEF Kmem
    <3>4. r = [unlinked EXCEPT !.mem = mem, !.slab = gone]
      BY <3>2, <3>3
    <3> HIDE DEF mem, r
    <3> QED BY <1>0, <3>4 DEF Kmem, Made, WithMem
  <2> HIDE DEF u, r
  <2>4. Destroyed(k, u, s)
    BY <2>2 DEF Destroyed, gone, full, notfull
  <2>5. Range(old) \cup {i} = 0..(n - 1)
    BY <1>1, <1>6 DEF Longer
  <2>6. /\ KmemOK(u, held \cup pages, {}) /\ held \cap pages = {}
        /\ SlabsOf(u) = SlabsOf(k) \ {s} /\ SlabsKept(k, u)
        /\ InUseObjs(u) = InUseObjs(k) \ {<<s, i>>}
    <3>1. <<s, i>> \in InUseObjs(k)
      BY <1>1
    <3> HIDE DEF s, i
    <3>2. Range(k.slab[s].free) \cup {i} = 0..(num[k.slab[s].cache] - 1)
      BY <2>5
    <3> HIDE DEF pages
    <3>3. SlabGone(k, u, held, s, i)
      BY <2>4, <3>1, <3>2, DestroySlab
    <3> QED BY <3>3 DEF pages, SlabGone
  <2>7. Givable(u, held \cup pages, {}, s, size)
    <3>1. s + size <= NPAGE /\ s \in Nat
      <4>1. pages = BlockOf(s, page_order[c]) /\ page_order[c] \in Order
        BY <1>0, <1>1, SlabPage
      <4>2. pages \subseteq Page
        BY <1>0, <1>1 DEF Parted
      <4> HIDE DEF pages
      <4>3. s + size <= NPAGE
        BY <1>1, <4>1, <4>2, BlockEnds
      <4> QED BY <1>1, <4>3, Numbers
    <3>2. size \in 1..order_size[MAX_ORDER] /\ order_size[MAX_ORDER] \in Nat
      <4>1. c \in Cache
        BY <1>1 DEF Longer
      <4> QED BY <4>1, SlabSize, Numbers
    <3>3. Block(s, size) \subseteq held \cup pages
      BY DEF SlabBlock
    <3>4. size \in Nat /\ size <= order_size[MAX_ORDER]
      BY <3>2
    <3> HIDE DEF s, size, pages
    <3> QED BY <2>6, <3>1, <3>3, <3>4 DEF Givable
  <2>8. Gave(u, t, (held \cup pages) \ Block(s, size), {})
    <3>1. mem = free_pages(u.mem, s, size)
      BY <2>2
    <3> HIDE DEF mem
    <3>2. Gave(u, WithMem(u, free_pages(u.mem, s, size)), (held \cup pages) \ Block(s, size), {})
      BY <2>7, GivePages
    <3> QED BY <3>1, <3>2
  <2>9. (held \cup pages) \ Block(s, size) = held
    <3>1. pages = Block(s, size)
      BY DEF SlabBlock
    <3> HIDE DEF pages
    <3> QED BY <2>6, <3>1
  <2> HIDE DEF t
  <2>10. Freed(k, t, held, obj)
    BY <1>1, <2>6, <2>8, <2>9 DEF Gave, Freed, SlabsKept
  <2> QED BY <2>3, <2>10 DEF r
<1>7. CASE Range(free) # 0..(n - 1) /\ old = << >>
  <2> DEFINE again == [k.slabs_notfull EXCEPT ![c] = <<s>> \o RemoveFirst(@, s)]
             t == Made(k, k.mem, slab, full, again)
  <2>1. c \in Cache
    BY <1>1 DEF Longer
  <2>2. again \in Lists /\ [notfull EXCEPT ![c] = <<s>> \o @] = again
    <3> DEFINE list == notfull[c]
    <3>1. list \in Seq(Page) /\ list = RemoveFirst(k.slabs_notfull[c], s)
      BY <1>2, <1>4, <2>1 DEF Lists, notfull
    <3> HIDE DEF list
    <3>2. <<s>> \o list \in Seq(Page)
      BY <1>1, <3>1, ConsElements
    <3>3. again = [k.slabs_notfull EXCEPT ![c] = <<s>> \o list]
      BY <3>1
    <3>4. again \in Lists
      BY <1>2, <3>2, <3>3 DEF Lists
    <3>5. [notfull EXCEPT ![c] = <<s>> \o @] = [notfull EXCEPT ![c] = <<s>> \o list]
      BY DEF list
    <3>6. [notfull EXCEPT ![c] = <<s>> \o list] = again
      BY <1>2, <2>1, <3>3 DEF notfull
    <3> QED BY <3>4, <3>5, <3>6
  <2> HIDE DEF again
  <2>3. t \in Kmem /\ t.mem = k.mem /\ t.slab = slab /\ t.slabs_full = full /\ t.slabs_notfull = again
    <3>1. k \in Kmem /\ k.mem \in Mem /\ slab \in SlabMap /\ full \in Lists /\ again \in Lists
      BY <1>0, <1>2, <1>3, <1>4, <2>2
    <3> QED BY <3>1, KmemMade
  <2>4. r = t
    <3>1. n - Len(free) # 0 /\ n - Len(free) = n - 1
      BY <1>1, <1>7 DEF Longer
    <3>2. r = [unlinked EXCEPT !.slabs_notfull = again]
      BY <1>5, <2>2, <3>1
    <3> HIDE DEF r
    <3> QED BY <1>0, <3>2 DEF Kmem, Made
  <2> HIDE DEF t, r
  <2>5. PutBack(k, t, s, i)
    BY <1>3, <1>7, <2>3 DEF PutBack, slab
  <2>6. obj \in InUseObjs(k) /\ obj = <<s, i>>
    BY <1>1
  <2>7. /\ MemOK(t.mem) /\ Chains(t) /\ InUse(t, {}) /\ Parted(t, held)
        /\ SlabsOf(t) = SlabsOf(k) /\ SlabsKept(k, t) /\ InUseObjs(t) = InUseObjs(k) \ {<<s, i>>}
    BY <2>5, <2>6, PutBackSame
  <2>8. Listed(t)
    BY <1>7, <2>3, <2>5, <2>6, ListedAgain DEF full, again
  <2>9. Freed(k, t, held, obj)
    BY <2>3, <2>6, <2>7, <2>8 DEF Freed, KmemOK
  <2> QED BY <2>4, <2>9 DEF r
<1>8. CASE Range(free) # 0..(n - 1) /\ old # << >>
  <2> DEFINE t == Made(k, k.mem, slab, k.slabs_full, k.slabs_notfull)
  <2>3. t \in Kmem /\ t.mem = k.mem /\ t.slab = slab /\ t.slabs_full = k.slabs_full
        /\ t.slabs_notfull = k.slabs_notfull
    <3>1. k.slabs_full \in Lists /\ k.slabs_notfull \in Lists
      BY <1>2 DEF Lists
    <3> QED BY <1>0, <1>2, <1>3, <3>1, KmemMade
  <2>4. r = t
    <3>1. n - Len(free) # 0 /\ n - Len(free) # n - 1
      BY <1>1, <1>8 DEF Longer
    <3>2. r = k1
      BY <1>5, <3>1
    <3> HIDE DEF r
    <3> QED BY <1>0, <3>2 DEF Kmem, Made
  <2> HIDE DEF t, r
  <2>5. PutBack(k, t, s, i)
    BY <1>3, <1>8, <2>3 DEF PutBack, slab
  <2>6. obj \in InUseObjs(k) /\ obj = <<s, i>>
    BY <1>1
  <2>7. /\ MemOK(t.mem) /\ Chains(t) /\ InUse(t, {}) /\ Parted(t, held)
        /\ SlabsOf(t) = SlabsOf(k) /\ SlabsKept(k, t) /\ InUseObjs(t) = InUseObjs(k) \ {<<s, i>>}
    BY <2>5, <2>6, PutBackSame
  <2>8. Listed(t)
    BY <1>8, <2>3, <2>5, <2>6, ListedKept
  <2>9. Freed(k, t, held, obj)
    BY <2>3, <2>6, <2>7, <2>8 DEF Freed, KmemOK
  <2> QED BY <2>4, <2>9 DEF r
<1> QED BY <1>6, <1>7, <1>8

-----------------------------------------------------------------------------
(* The control parts of the off_slab slabs.                                 *)

OffOf(k) == {s \in SlabsOf(k) : off_slab(k.slab[s].cache)}
\* The objects in use are those handed out, os, and the control parts, each once; a
\* control part is of the cache that slab_cachep names.
CtlOK(k, os) ==
    /\ InUseObjs(k) = os \cup {k.slab[s].ctl : s \in OffOf(k)}
    /\ \A s \in OffOf(k) : /\ k.slab[s].ctl \notin os
                           /\ \A t \in OffOf(k) : t # s => k.slab[t].ctl # k.slab[s].ctl
                           /\ k.slab[k.slab[s].ctl[1]].cache = slab_cachep[k.slab[s].cache]

\* A control part is in use, in a slab there is, of a cache that is not off_slab.
LEMMA CtlInUse ==
    ASSUME NEW k, NEW os, Chains(k), CtlOK(k, os), NEW s \in OffOf(k)
    PROVE  /\ k.slab[s].ctl \in InUseObjs(k) /\ k.slab[s].ctl[1] \in SlabsOf(k)
           /\ k.slab[s].ctl[1] \notin OffOf(k)
<1>1. k.slab[s].ctl \in InUseObjs(k)
  BY DEF CtlOK
<1>2. k.slab[s].ctl[1] \in SlabsOf(k)
  BY <1>1 DEF InUseObjs
<1>3. k.slab[s].cache \in Cache
  BY DEF OffOf, Chains
<1>4. ~off_slab(slab_cachep[k.slab[s].cache])
  BY <1>3, SlabAssumption DEF off_slab
<1>5. k.slab[s].ctl[1] \notin OffOf(k)
  BY <1>4 DEF CtlOK, OffOf
<1> QED BY <1>1, <1>2, <1>5

\* The slabs are the same.
LEMMA CtlSame ==
    ASSUME NEW k, NEW os, CtlOK(k, os), NEW t, t.slab = k.slab, SlabsOf(t) = SlabsOf(k),
           InUseObjs(t) = InUseObjs(k)
    PROVE  CtlOK(t, os)
<1>1. OffOf(t) = OffOf(k)
  BY DEF OffOf
<1> QED BY <1>1 DEF CtlOK

\* An object is handed out, and no new slab is off_slab.
LEMMA CtlOne ==
    ASSUME NEW k, NEW os, Chains(k), CtlOK(k, os), NEW c \in Cache, NEW r, NEW held,
           HandsOut(k, r, c, held), SlabsOf(r.kmem) = SlabsOf(k) \/ ~off_slab(c)
    PROVE  CtlOK(r.kmem, os \cup {r.obj})
<1> DEFINE t == r.kmem
<1>1. /\ SlabsOf(k) \subseteq SlabsOf(t) /\ SlabsKept(k, t)
      /\ \A q \in SlabsOf(t) \ SlabsOf(k) : t.slab[q].cache = c
      /\ r.obj \notin InUseObjs(k) /\ InUseObjs(t) = InUseObjs(k) \cup {r.obj}
  BY DEF HandsOut, Grown
<1> HIDE DEF t
<1>2. \A q \in SlabsOf(k) : t.slab[q].cache = k.slab[q].cache /\ t.slab[q].ctl = k.slab[q].ctl
  BY <1>1 DEF SlabsKept
<1>3. OffOf(t) = OffOf(k)
  BY <1>1, <1>2 DEF OffOf, t
<1>4. \A s \in OffOf(k) : s \in SlabsOf(k)
  BY DEF OffOf
<1>5. InUseObjs(t) = (os \cup {r.obj}) \cup {t.slab[s].ctl : s \in OffOf(t)}
  <2>1. {t.slab[s].ctl : s \in OffOf(t)} = {k.slab[s].ctl : s \in OffOf(k)}
    BY <1>2, <1>3, <1>4
  <2> QED BY <1>1, <2>1 DEF CtlOK
<1>6. ASSUME NEW s \in OffOf(t)
      PROVE  /\ t.slab[s].ctl \notin os \cup {r.obj}
             /\ \A q \in OffOf(t) : q # s => t.slab[q].ctl # t.slab[s].ctl
             /\ t.slab[t.slab[s].ctl[1]].cache = slab_cachep[t.slab[s].cache]
  <2>1. k.slab[s].ctl \in InUseObjs(k) /\ k.slab[s].ctl[1] \in SlabsOf(k)
    BY <1>3, CtlInUse
  <2>2. t.slab[s].ctl = k.slab[s].ctl /\ t.slab[s].cache = k.slab[s].cache
    BY <1>2, <1>3, <1>4
  <2>3. \A q \in OffOf(t) : q # s => t.slab[q].ctl # t.slab[s].ctl
    BY <1>2, <1>3, <1>4 DEF CtlOK
  <2>4. t.slab[k.slab[s].ctl[1]].cache = slab_cachep[k.slab[s].cache]
    BY <1>2, <1>3, <2>1 DEF CtlOK
  <2>5. t.slab[s].ctl \notin os \cup {r.obj}
    BY <1>1, <1>3, <2>1, <2>2 DEF CtlOK
  <2> QED BY <2>2, <2>3, <2>4, <2>5
<1>7. CtlOK(t, os \cup {r.obj})
  BY <1>5, <1>6 DEF CtlOK
<1> QED BY <1>7 DEF t

\* An object and the control part of its slab are.
LEMMA CtlTwo ==
    ASSUME NEW k, NEW os, Chains(k), CtlOK(k, os), NEW c \in Cache, NEW r, NEW held, NEW page, NEW ctl,
           HandsOutTwo(k, r, c, held, page, ctl), off_slab(c)
    PROVE  CtlOK(r.kmem, os \cup {r.obj})
<1> DEFINE t == r.kmem
<1>1. /\ SlabsOf(k) \subseteq SlabsOf(t) /\ SlabsKept(k, t)
      /\ page \in SlabsOf(t) /\ page \notin SlabsOf(k) /\ t.slab[page].cache = c /\ t.slab[page].ctl = ctl
      /\ \A q \in SlabsOf(t) \ SlabsOf(k) : q # page => t.slab[q].cache = slab_cachep[c]
      /\ r.obj \notin InUseObjs(k) /\ ctl \notin InUseObjs(k) /\ ctl # r.obj
      /\ InUseObjs(t) = InUseObjs(k) \cup {ctl, r.obj}
      /\ t.slab[ctl[1]].cache = slab_cachep[c]
  BY DEF HandsOutTwo
<1> HIDE DEF t
<1>2. \A q \in SlabsOf(k) : t.slab[q].cache = k.slab[q].cache /\ t.slab[q].ctl = k.slab[q].ctl
  BY <1>1 DEF SlabsKept
<1>3. ~off_slab(slab_cachep[c])
  BY SlabAssumption DEF off_slab
<1>4. OffOf(t) = OffOf(k) \cup {page}
  BY <1>1, <1>2, <1>3 DEF OffOf
<1>5. \A s \in OffOf(k) : s \in SlabsOf(k) /\ s # page
  BY <1>1 DEF OffOf
<1>6. InUseObjs(t) = (os \cup {r.obj}) \cup {t.slab[s].ctl : s \in OffOf(t)}
  <2>1. {t.slab[s].ctl : s \in OffOf(t)} = {k.slab[s].ctl : s \in OffOf(k)} \cup {ctl}
    BY <1>1, <1>2, <1>4, <1>5
  <2> QED BY <1>1, <2>1 DEF CtlOK
<1>7. ASSUME NEW s \in OffOf(k)
      PROVE  /\ t.slab[s].ctl \in InUseObjs(k) /\ t.slab[s].ctl \notin os
             /\ \A q \in OffOf(k) : q # s => t.slab[q].ctl # t.slab[s].ctl
             /\ t.slab[t.slab[s].ctl[1]].cache = slab_cachep[t.slab[s].cache]
  <2>1. k.slab[s].ctl \in InUseObjs(k) /\ k.slab[s].ctl[1] \in SlabsOf(k)
    BY CtlInUse
  <2>2. t.slab[s].ctl = k.slab[s].ctl /\ t.slab[s].cache = k.slab[s].cache
    BY <1>2, <1>5
  <2>3. \A q \in OffOf(k) : q # s => t.slab[q].ctl # t.slab[s].ctl
    BY <1>2, <1>5 DEF CtlOK
  <2>4. t.slab[k.slab[s].ctl[1]].cache = slab_cachep[k.slab[s].cache]
    BY <1>2, <2>1 DEF CtlOK
  <2> QED BY <2>1, <2>2, <2>3, <2>4 DEF CtlOK
<1>8. ctl \notin os /\ os \subseteq InUseObjs(k)
  BY <1>1 DEF CtlOK
<1>9. ASSUME NEW s \in OffOf(t)
      PROVE  /\ t.slab[s].ctl \notin os \cup {r.obj}
             /\ \A q \in OffOf(t) : q # s => t.slab[q].ctl # t.slab[s].ctl
             /\ t.slab[t.slab[s].ctl[1]].cache = slab_cachep[t.slab[s].cache]
  <2>1. CASE s = page
    BY <1>1, <1>4, <1>7, <1>8, <2>1
  <2>2. CASE s # page
    BY <1>1, <1>4, <1>7, <1>8, <2>2
  <2> QED BY <2>1, <2>2
<1>10. CtlOK(t, os \cup {r.obj})
  BY <1>6, <1>9 DEF CtlOK
<1> QED BY <1>10 DEF t

\* An object and the control parts of the slabs that are gone are no more in use.
LEMMA CtlLess ==
    ASSUME NEW k, NEW os, Chains(k), CtlOK(k, os), NEW t, NEW obj \in os, NEW gone \in SUBSET OffOf(k),
           SlabsOf(t) \subseteq SlabsOf(k), SlabsKept(k, t), OffOf(k) \ gone \subseteq SlabsOf(t),
           gone \cap SlabsOf(t) = {},
           InUseObjs(t) = InUseObjs(k) \ ({obj} \cup {k.slab[s].ctl : s \in gone})
    PROVE  CtlOK(t, os \ {obj})
<1>1. \A q \in SlabsOf(t) : t.slab[q].cache = k.slab[q].cache /\ t.slab[q].ctl = k.slab[q].ctl
  BY DEF SlabsKept
<1>2. OffOf(t) = OffOf(k) \ gone
  BY <1>1 DEF OffOf
<1>3. \A s \in OffOf(t) : s \in SlabsOf(t) /\ s \in OffOf(k)
  BY <1>2 DEF OffOf
<1>4. InUseObjs(t) = (os \ {obj}) \cup {t.slab[s].ctl : s \in OffOf(t)}
  <2>1. {t.slab[s].ctl : s \in OffOf(t)} = {k.slab[s].ctl : s \in OffOf(k) \ gone}
    BY <1>1, <1>2, <1>3
  <2>2. \A s \in OffOf(k) : k.slab[s].ctl \notin os /\ \A q \in OffOf(k) : q # s => k.slab[q].ctl # k.slab[s].ctl
    BY DEF CtlOK
  <2>3. InUseObjs(k) = os \cup {k.slab[s].ctl : s \in OffOf(k)}
    BY DEF CtlOK
  <2> DEFINE ctls(S) == {k.slab[s].ctl : s \in S}
  <2>4. ctls(OffOf(k)) = ctls(OffOf(k) \ gone) \cup ctls(gone)
    OBVIOUS
  <2>5. ctls(OffOf(k) \ gone) \cap ctls(gone) = {}
    BY <2>2
  <2>6. ctls(OffOf(k)) \cap os = {}
    BY <2>2
  <2>7. InUseObjs(k) = os \cup ctls(OffOf(k)) /\ InUseObjs(t) = InUseObjs(k) \ ({obj} \cup ctls(gone))
    BY <2>3
  <2>8. {t.slab[s].ctl : s \in OffOf(t)} = ctls(OffOf(k) \ gone)
    BY <2>1
  <2> HIDE DEF ctls
  <2> QED BY <2>4, <2>5, <2>6, <2>7, <2>8
<1>5. ASSUME NEW s \in OffOf(t)
      PROVE  /\ t.slab[s].ctl \notin os \ {obj}
             /\ \A q \in OffOf(t) : q # s => t.slab[q].ctl # t.slab[s].ctl
             /\ t.slab[t.slab[s].ctl[1]].cache = slab_cachep[t.slab[s].cache]
  <2>1. t.slab[s].ctl \in InUseObjs(t)
    BY <1>4
  <2>2. t.slab[s].ctl[1] \in SlabsOf(t)
    BY <2>1 DEF InUseObjs
  <2>3. t.slab[s].ctl = k.slab[s].ctl /\ t.slab[s].cache = k.slab[s].cache
    BY <1>1, <1>3
  <2>4. t.slab[k.slab[s].ctl[1]].cache = slab_cachep[k.slab[s].cache]
    BY <1>1, <1>3, <2>2, <2>3 DEF CtlOK
  <2>5. \A q \in OffOf(t) : q # s => t.slab[q].ctl # t.slab[s].ctl
    BY <1>1, <1>3 DEF CtlOK
  <2> QED BY <1>3, <2>3, <2>4, <2>5 DEF CtlOK
<1> QED BY <1>4, <1>5 DEF CtlOK

\* kmem_cache_free gives back the object, and the control part of its slab with it when
\* the slab is destroyed.
LEMMA KmemFree ==
    ASSUME NEW k, NEW held, NEW os, KmemOK(k, held, {}), CtlOK(k, os), NEW obj \in os
    PROVE  KmemOK(kmem_cache_free(k, obj), held, {}) /\ CtlOK(kmem_cache_free(k, obj), os \ {obj})
<1> DEFINE k1 == free_one(k, obj)
           s == obj[1]
           ctl == k.slab[s].ctl
           lost == k1.slab[s] = NoSlab /\ off_slab(k.slab[s].cache)
           t == kmem_cache_free(k, obj)
<1>1. Chains(k) /\ obj \in InUseObjs(k)
  BY DEF KmemOK, CtlOK
<1>2. s \in SlabsOf(k) /\ s \in Page
  BY <1>1 DEF InUseObjs, SlabsOf
<1>3. Freed(k, k1, held, obj)
  BY <1>1, FreeOne
<1>4. t = IF lost THEN free_one(k1, ctl) ELSE k1
  BY DEF kmem_cache_free
<1> HIDE DEF k1, t
<1>5. /\ KmemOK(k1, held, {}) /\ SlabsOf(k1) \subseteq SlabsOf(k)
      /\ SlabsOf(k) \ {s} \subseteq SlabsOf(k1) /\ SlabsKept(k, k1)
      /\ InUseObjs(k1) = InUseObjs(k) \ {obj}
  BY <1>3 DEF Freed
<1>6. k1.slab[s] = NoSlab <=> s \notin SlabsOf(k1)
  BY <1>2 DEF SlabsOf
<1>7. CASE ~lost
  <2>1. OffOf(k) \ {} \subseteq SlabsOf(k1)
    BY <1>5, <1>6, <1>7 DEF OffOf
  <2> DEFINE none == {}
  <2>2. InUseObjs(k1) = InUseObjs(k) \ ({obj} \cup {k.slab[q].ctl : q \in none})
    BY <1>5
  <2>3. OffOf(k) \ none \subseteq SlabsOf(k1) /\ none \in SUBSET OffOf(k) /\ none \cap SlabsOf(k1) = {}
    BY <2>1
  <2> HIDE DEF none
  <2>4. CtlOK(k1, os \ {obj})
    BY <1>1, <1>5, <2>2, <2>3, CtlLess
  <2> QED BY <1>4, <1>5, <1>7, <2>4 DEF t
<1>8. CASE lost
  <2> DEFINE u == free_one(k1, ctl)
             gone == {s}
  <2>1. s \in OffOf(k)
    BY <1>2, <1>8 DEF OffOf
  <2>2. ctl \in InUseObjs(k) /\ ctl[1] \notin OffOf(k) /\ ctl # obj
    <3>1. ctl \in InUseObjs(k) /\ ctl[1] \notin OffOf(k)
      BY <1>1, <2>1, CtlInUse
    <3>2. ctl \notin os
      BY <2>1 DEF CtlOK
    <3> QED BY <3>1, <3>2
  <2>3. ctl \in InUseObjs(k1)
    BY <1>5, <2>2
  <2> HIDE DEF ctl
  <2>4. Freed(k1, u, held, ctl)
    BY <1>5, <2>3, FreeOne
  <2> HIDE DEF u
  <2>5. /\ KmemOK(u, held, {}) /\ SlabsOf(u) \subseteq SlabsOf(k1)
        /\ SlabsOf(k1) \ {ctl[1]} \subseteq SlabsOf(u) /\ SlabsKept(k1, u)
        /\ InUseObjs(u) = InUseObjs(k1) \ {ctl}
    BY <2>4 DEF Freed
  <2>6. s \notin SlabsOf(u)
    BY <1>6, <1>8, <2>5
  <2>7. OffOf(k) \subseteq SlabsOf(k)
    BY DEF OffOf
  <2>8. /\ SlabsOf(u) \subseteq SlabsOf(k) /\ OffOf(k) \ gone \subseteq SlabsOf(u)
        /\ gone \cap SlabsOf(u) = {} /\ gone \in SUBSET OffOf(k)
    BY <1>5, <2>1, <2>2, <2>5, <2>6, <2>7
  <2>9. SlabsKept(k, u)
    BY <1>5, <2>5 DEF SlabsKept
  <2>10. InUseObjs(u) = InUseObjs(k) \ ({obj} \cup {k.slab[q].ctl : q \in gone})
    <3>1. {k.slab[q].ctl : q \in gone} = {ctl}
      BY DEF ctl
    <3> QED BY <1>5, <2>5, <3>1
  <2> HIDE DEF gone
  <2>11. CtlOK(u, os \ {obj})
    BY <1>1, <2>8, <2>9, <2>10, CtlLess
  <2>12. t = u
    BY <1>4, <1>8 DEF u
  <2> QED BY <2>5, <2>11, <2>12 DEF t
<1> QED BY <1>7, <1>8

-----------------------------------------------------------------------------
(* The invariant of the program.                                           *)

\* The callers of alloc_pages hold disjoint blocks.
BlocksOK(bs) ==
    \A b \in bs : /\ b = <<b[1], b[2]>> /\ b[1] \in Nat /\ b[2] \in 1..order_size[MAX_ORDER]
                  /\ b[1] + b[2] <= NPAGE
                  /\ \A d \in bs : d # b => Block(b[1], b[2]) \cap Block(d[1], d[2]) = {}
\* The pages of blocks.
PagesIn(bs) == UNION {Block(b[1], b[2]) : b \in bs}
SlabInv == KmemOK(kmem, HeldPages, {}) /\ CtlOK(kmem, objs) /\ BlocksOK(blocks)

\* It holds at first.
LEMMA SlabInvInit == Init => SlabInv
<1> SUFFICES ASSUME Init PROVE SlabInv
  OBVIOUS
<1> DEFINE slab == [p \in Page |-> NoSlab]
           lists == [c \in Cache |-> << >>]
<1>1. /\ kmem = [mem |-> InitMem, slab |-> slab, slabs_full |-> lists, slabs_notfull |-> lists]
      /\ objs = {} /\ blocks = {}
  BY DEF Init
<1>2. MemOK(InitMem) /\ FreePages(InitMem) = Page
  BY InitialMem
<1>3. slab \in SlabMap /\ lists \in Lists
  <2>1. << >> \in Seq(Nat) /\ << >> \in Seq(Page) /\ NoPage \in Nat
    BY Numbers DEF NoPage
  <2>2. NoSlab \in SlabRec
    BY <2>1 DEF NoSlab, SlabRec
  <2> QED BY <2>1, <2>2 DEF SlabMap, Lists
<1>4. \A p \in Page : slab[p] = NoSlab
  OBVIOUS
<1>5. \A c \in Cache : lists[c] = << >>
  OBVIOUS
<1> HIDE DEF slab, lists
<1>6. /\ kmem \in Kmem /\ kmem.mem = InitMem /\ kmem.slab = slab
      /\ kmem.slabs_full = lists /\ kmem.slabs_notfull = lists
  BY <1>1, <1>2, <1>3 DEF Kmem, MemOK
<1>7. SlabsOf(kmem) = {}
  BY <1>4, <1>6 DEF SlabsOf
<1>8. Chains(kmem) /\ InUse(kmem, {})
  BY <1>7 DEF Chains, InUse
<1>9. Listed(kmem)
  <2>1. IsInjective(<< >>) /\ Range(<< >>) = {}
    BY DEF IsInjective, Range
  <2>2. \A c \in Cache : FullOf(kmem, c) = {} /\ NotFullOf(kmem, c) = {}
    BY <1>7 DEF FullOf, NotFullOf
  <2> QED BY <1>5, <1>6, <2>1, <2>2 DEF Listed
<1>10. HeldPages = {}
  BY <1>1 DEF HeldPages
<1>11. Parted(kmem, {})
  <2>1. SlabPagesOf(kmem) = {}
    BY <1>7 DEF SlabPagesOf
  <2> QED BY <1>2, <1>6, <1>7, <2>1 DEF Parted
<1>12. CtlOK(kmem, {})
  <2>1. InUseObjs(kmem) = {} /\ OffOf(kmem) = {}
    BY <1>7 DEF InUseObjs, OffOf
  <2> QED BY <2>1 DEF CtlOK
<1>13. KmemOK(kmem, {}, {})
  BY <1>2, <1>6, <1>8, <1>9, <1>11 DEF KmemOK
<1>14. BlocksOK(blocks)
  BY <1>1 DEF BlocksOK
<1> QED BY <1>1, <1>10, <1>12, <1>13, <1>14 DEF SlabInv

\* kmalloc
LEMMA KmallocStep ==
    ASSUME SlabInv, NEW c \in Cache, kmalloc(c)
    PROVE  SlabInv'
<1> DEFINE r == IF off_slab(c) THEN alloc_off_slab(kmem, c) ELSE alloc_on_slab(kmem, c)
<1>1. /\ kmem' = r.kmem /\ objs' = objs \cup ({r.obj} \ {NoObject})
      /\ blocks' = blocks /\ HeldPages' = HeldPages
  BY DEF kmalloc, HeldPages
<1>2. KmemOK(kmem, HeldPages, {}) /\ CtlOK(kmem, objs) /\ BlocksOK(blocks) /\ Chains(kmem)
  BY DEF SlabInv, KmemOK
<1>3. NoObject \notin Page \X Nat
  BY Numbers DEF NoObject
<1>4. \/ HandsNone(kmem, r, HeldPages)
      \/ HandsOut(kmem, r, c, HeldPages) /\ (SlabsOf(r.kmem) = SlabsOf(kmem) \/ ~off_slab(c))
      \/ off_slab(c) /\ \E page, ctl : HandsOutTwo(kmem, r, c, HeldPages, page, ctl)
  <2>1. CASE off_slab(c)
    <3> DEFINE a == alloc_off_slab(kmem, c)
    <3>1. \/ HandsNone(kmem, a, HeldPages)
          \/ HandsOut(kmem, a, c, HeldPages) /\ SlabsOf(a.kmem) = SlabsOf(kmem)
          \/ \E page, ctl : HandsOutTwo(kmem, a, c, HeldPages, page, ctl)
      BY <1>2, AllocOff
    <3>2. r = a
      BY <2>1
    <3> HIDE DEF a, r
    <3> QED BY <2>1, <3>1, <3>2
  <2>2. CASE ~off_slab(c)
    <3> DEFINE a == alloc_on_slab(kmem, c)
    <3>1. (a.obj = NoObject /\ a.kmem = kmem) \/ HandsOut(kmem, a, c, HeldPages)
      BY <1>2, AllocOn
    <3>2. r = a
      BY <2>2
    <3> HIDE DEF a, r
    <3> QED BY <1>2, <2>2, <3>1, <3>2 DEF HandsNone
  <2> QED BY <2>1, <2>2
<1> HIDE DEF r
<1>5. CASE HandsNone(kmem, r, HeldPages)
  <2>1. objs' = objs
    BY <1>1, <1>5 DEF HandsNone
  <2>2. CtlOK(r.kmem, objs)
    BY <1>2, <1>5, CtlSame DEF HandsNone
  <2> QED BY <1>1, <1>2, <1>5, <2>1, <2>2 DEF HandsNone, SlabInv
<1>6. CASE HandsOut(kmem, r, c, HeldPages) /\ (SlabsOf(r.kmem) = SlabsOf(kmem) \/ ~off_slab(c))
  <2>1. CtlOK(r.kmem, objs \cup {r.obj})
    BY <1>2, <1>6, CtlOne
  <2>2. r.obj # NoObject /\ KmemOK(r.kmem, HeldPages, {})
    BY <1>3, <1>6 DEF HandsOut
  <2>3. objs' = objs \cup {r.obj}
    BY <1>1, <2>2
  <2> QED BY <1>1, <1>2, <2>1, <2>2, <2>3 DEF SlabInv
<1>7. CASE off_slab(c) /\ \E page, ctl : HandsOutTwo(kmem, r, c, HeldPages, page, ctl)
  <2>1. PICK page, ctl : HandsOutTwo(kmem, r, c, HeldPages, page, ctl)
    BY <1>7
  <2>2. CtlOK(r.kmem, objs \cup {r.obj})
    BY <1>2, <1>7, <2>1, CtlTwo
  <2>3. r.obj # NoObject /\ KmemOK(r.kmem, HeldPages, {})
    BY <1>3, <2>1 DEF HandsOutTwo
  <2>4. objs' = objs \cup {r.obj}
    BY <1>1, <2>3
  <2> QED BY <1>1, <1>2, <2>2, <2>3, <2>4 DEF SlabInv
<1> QED BY <1>4, <1>5, <1>6, <1>7

\* kfree
LEMMA KfreeStep ==
    ASSUME SlabInv, NEW obj, kfree(obj)
    PROVE  SlabInv'
<1> DEFINE t == kmem_cache_free(kmem, obj)
<1>1. /\ obj \in objs /\ kmem' = t /\ objs' = objs \ {obj} /\ blocks' = blocks
      /\ HeldPages' = HeldPages
  BY DEF kfree, HeldPages
<1>2. KmemOK(t, HeldPages, {}) /\ CtlOK(t, objs \ {obj})
  BY <1>1, KmemFree DEF SlabInv
<1> HIDE DEF t
<1> QED BY <1>1, <1>2 DEF SlabInv

\* alloc_pages
LEMMA AllocPagesStep ==
    ASSUME SlabInv, NEW n \in Sizes, AllocPages(n)
    PROVE  SlabInv'
<1> DEFINE r == alloc_pages(kmem.mem, n)
           t == WithMem(kmem, r.mem)
           b == <<r.page, n>>
           pages == Block(r.page, n)
<1>1. /\ kmem' = t /\ objs' = objs
      /\ blocks' = blocks \cup {d \in {b} : r.page # NoPage}
  BY DEF AllocPages, WithMem
<1>2. KmemOK(kmem, HeldPages, {}) /\ CtlOK(kmem, objs) /\ BlocksOK(blocks)
  BY DEF SlabInv
<1>3. n \in 1..order_size[MAX_ORDER] /\ n \in Nat
  <2>1. n \in 1..order_size[MAX_ORDER]
    BY SlabAssumption
  <2> QED BY <2>1
<1>4. CASE r.page = NoPage
  <2>1. r.mem = kmem.mem
    <3>1. MemOK(kmem.mem)
      BY <1>2 DEF KmemOK
    <3>2. NoPage \notin Page
      BY Numbers
    <3> QED BY <1>3, <1>4, <3>1, <3>2, AllocsPages
  <2>2. kmem \in Kmem
    BY <1>2 DEF KmemOK
  <2>3. t = kmem
    <3> HIDE DEF r
    <3> QED BY <2>1, <2>2 DEF WithMem, Kmem
  <2>4. blocks' = blocks
    BY <1>1, <1>4
  <2> HIDE DEF t
  <2> QED BY <1>1, <1>2, <2>3, <2>4 DEF SlabInv, HeldPages
<1>5. CASE r.page # NoPage
  <2>1. /\ r.page \in Page /\ r.page + n <= NPAGE /\ pages \cap HeldPages = {}
        /\ KmemOK(t, HeldPages \cup pages, {})
        /\ SlabsOf(t) = SlabsOf(kmem) /\ InUseObjs(t) = InUseObjs(kmem) /\ t.slab = kmem.slab
    BY <1>2, <1>3, <1>5, TakePages
  <2> HIDE DEF r
  <2>2. r.page \in Nat /\ b[1] = r.page /\ b[2] = n /\ b = <<b[1], b[2]>> /\ blocks' = blocks \cup {b}
    BY <1>1, <1>5, <2>1, Numbers
  <2> HIDE DEF t, b, pages
  <2>3. pages = Block(b[1], b[2])
    BY <2>2 DEF pages
  <2>4. HeldPages' = HeldPages \cup pages
    BY <2>2, <2>3 DEF HeldPages
  <2>5. \A d \in blocks : Block(d[1], d[2]) \subseteq HeldPages
    BY DEF HeldPages
  <2>6. BlocksOK(blocks')
    BY <1>2, <1>3, <2>1, <2>2, <2>3, <2>5 DEF BlocksOK
  <2>7. CtlOK(t, objs)
    BY <1>2, <2>1, CtlSame
  <2> QED BY <1>1, <2>1, <2>4, <2>6, <2>7 DEF SlabInv
<1> QED BY <1>4, <1>5

\* free_pages of the first pages of a block
LEMMA FreeSomeStep ==
    ASSUME SlabInv, NEW b \in blocks, NEW n \in 1..b[2], FreeSome(b, n)
    PROVE  SlabInv'
<1> DEFINE base == b[1]
           len == b[2]
           mem == free_pages(kmem.mem, base, n)
           t == WithMem(kmem, mem)
           pages == Block(base, n)
           left == Block(base + n, len - n)
           rest == <<base + n, len - n>>
           others == blocks \ {b}
<1>1. /\ kmem' = t /\ objs' = objs
      /\ blocks' = others \cup {d \in {rest} : d[2] > 0}
  <2>1. kmem' = [kmem EXCEPT !.mem = free_pages(@, b[1], n)]
    BY DEF FreeSome
  <2>2. kmem' = t
    BY <2>1 DEF WithMem
  <2> QED BY <2>2 DEF FreeSome
<1>2. KmemOK(kmem, HeldPages, {}) /\ CtlOK(kmem, objs) /\ BlocksOK(blocks)
  BY DEF SlabInv
<1>3. /\ base \in Nat /\ len \in 1..order_size[MAX_ORDER] /\ base + len <= NPAGE /\ n \in 1..len
      /\ \A d \in others : Block(base, len) \cap Block(d[1], d[2]) = {}
  BY <1>2 DEF BlocksOK
<1>4. order_size[MAX_ORDER] \in Nat /\ NPAGE \in Nat
  BY Numbers
<1> HIDE DEF base, len
<1>5. /\ n \in Nat /\ len \in Nat /\ n <= order_size[MAX_ORDER] /\ base + n <= NPAGE
      /\ len - n \in Nat /\ base + n \in Nat /\ (base + n) + (len - n) <= NPAGE
      /\ len - n <= order_size[MAX_ORDER]
  BY <1>3, <1>4
<1>6. /\ Block(base, len) = pages \cup left /\ pages \cap left = {}
      /\ len - n = 0 => left = {}
  <2>1. /\ pages = base..(base + n - 1) /\ Block(base, len) = base..(base + len - 1)
        /\ left = (base + n)..((base + n) + (len - n) - 1)
    BY DEF Block
  <2>2. left = (base + n)..(base + len - 1)
    BY <1>3, <1>5, <2>1
  <2> HIDE DEF pages, left
  <2> QED BY <1>3, <1>5, <2>1, <2>2
<1>7. HeldPages = PagesIn(others) \cup Block(base, len) /\ HeldPages' = PagesIn(blocks')
  BY DEF HeldPages, PagesIn, base, len
<1>8. rest[1] = base + n /\ rest[2] = len - n /\ rest = <<rest[1], rest[2]>>
  OBVIOUS
<1> HIDE DEF rest
<1>9. \/ len - n = 0 /\ blocks' = others
      \/ len - n > 0 /\ blocks' = others \cup {rest}
  BY <1>1, <1>5, <1>8
<1> HIDE DEF pages, left, t, others, mem
<1>10. HeldPages' = PagesIn(others) \cup left
  <2>1. Block(rest[1], rest[2]) = left
    BY <1>8 DEF left
  <2>2. CASE len - n = 0 /\ blocks' = others
    <3>1. HeldPages' = PagesIn(others)
      BY <1>7, <2>2
    <3> QED BY <1>6, <2>2, <3>1
  <2>3. CASE len - n > 0 /\ blocks' = others \cup {rest}
    <3>1. PagesIn(others \cup {rest}) = PagesIn(others) \cup Block(rest[1], rest[2])
      BY DEF PagesIn
    <3> QED BY <1>7, <2>1, <2>3, <3>1
  <2> QED BY <1>9, <2>2, <2>3
<1>11. HeldPages' = HeldPages \ pages /\ pages \subseteq HeldPages
  <2>1. PagesIn(others) \cap pages = {}
    <3>1. \A d \in others : Block(d[1], d[2]) \cap pages = {}
      BY <1>3, <1>6
    <3> QED BY <3>1 DEF PagesIn
  <2> QED BY <1>6, <1>7, <1>10, <2>1
<1>12. Gave(kmem, t, HeldPages \ pages, {})
  <2>1. Givable(kmem, HeldPages, {}, base, n)
    BY <1>2, <1>3, <1>5, <1>11 DEF Givable, pages
  <2> QED BY <2>1, GivePages DEF t, mem, pages
<1>13. BlocksOK(blocks')
  <2>1. \A d \in others : /\ d = <<d[1], d[2]>> /\ d[1] \in Nat /\ d[2] \in 1..order_size[MAX_ORDER]
                          /\ d[1] + d[2] <= NPAGE
                          /\ \A e \in others : e # d => Block(d[1], d[2]) \cap Block(e[1], e[2]) = {}
    BY <1>2 DEF BlocksOK, others
  <2>2. CASE len - n = 0 /\ blocks' = others
    BY <2>1, <2>2 DEF BlocksOK
  <2>3. CASE len - n > 0 /\ blocks' = others \cup {rest}
    <3>1. \A d \in others : left \cap Block(d[1], d[2]) = {} /\ Block(d[1], d[2]) \cap left = {}
      BY <1>3, <1>6
    <3>2. Block(rest[1], rest[2]) = left
      BY <1>8 DEF left
    <3>3. rest[1] \in Nat /\ rest[2] \in 1..order_size[MAX_ORDER] /\ rest[1] + rest[2] <= NPAGE
      BY <1>4, <1>5, <1>8, <2>3
    <3>4. ASSUME NEW d \in blocks'
          PROVE  /\ d = <<d[1], d[2]>> /\ d[1] \in Nat /\ d[2] \in 1..order_size[MAX_ORDER]
                 /\ d[1] + d[2] <= NPAGE
                 /\ \A e \in blocks' : e # d => Block(d[1], d[2]) \cap Block(e[1], e[2]) = {}
      <4>1. CASE d = rest
        BY <1>8, <2>3, <3>1, <3>2, <3>3, <4>1
      <4>2. CASE d \in others
        BY <2>1, <2>3, <3>1, <3>2, <4>2
      <4> QED BY <2>3, <3>4, <4>1, <4>2
    <3> QED BY <3>4 DEF BlocksOK
  <2> QED BY <1>9, <2>2, <2>3
<1>14. CtlOK(t, objs)
  BY <1>2, <1>12, CtlSame DEF Gave
<1> QED BY <1>1, <1>11, <1>12, <1>13, <1>14 DEF SlabInv, Gave

\* Every step keeps the invariant.
LEMMA SlabInvStep == SlabInv /\ [Next]_vars => SlabInv'
<1> SUFFICES ASSUME SlabInv, [Next]_vars PROVE SlabInv'
  OBVIOUS
<1>1. ASSUME NEW c \in Cache, kmalloc(c) PROVE SlabInv'
  BY <1>1, KmallocStep
<1>2. ASSUME NEW obj \in objs, kfree(obj) PROVE SlabInv'
  BY <1>2, KfreeStep
<1>3. ASSUME NEW n \in Sizes, AllocPages(n) PROVE SlabInv'
  BY <1>3, AllocPagesStep
<1>4. ASSUME NEW b \in blocks, NEW n \in 1..b[2], FreeSome(b, n) PROVE SlabInv'
  BY <1>4, FreeSomeStep
<1>5. ASSUME UNCHANGED vars PROVE SlabInv'
  <2>1. kmem' = kmem /\ objs' = objs /\ blocks' = blocks /\ HeldPages' = HeldPages
    BY <1>5 DEF vars, HeldPages
  <2> QED BY <2>1 DEF SlabInv
<1> QED BY <1>1, <1>2, <1>3, <1>4, <1>5 DEF Next

\* The names of module Slab for the same sets.
LEMMA SlabNames ==
    /\ Slabs = SlabsOf(kmem) /\ SlabPages = SlabPagesOf(kmem) /\ OffSlab = OffOf(kmem)
    /\ \A s : PagesOf(s) = SlabBlock(kmem, s)
<1>1. Slabs = SlabsOf(kmem)
  BY DEF Slabs, SlabsOf
<1>2. \A s : PagesOf(s) = SlabBlock(kmem, s)
  BY DEF PagesOf, SlabBlock
<1>3. SlabPages = SlabPagesOf(kmem)
  BY <1>1, <1>2 DEF SlabPages, SlabPagesOf
<1>4. OffSlab = OffOf(kmem)
  BY <1>1 DEF OffSlab, OffOf
<1> QED BY <1>1, <1>2, <1>3, <1>4

\* The invariant says of the pages what PagesExact does.
LEMMA SlabInvPages == SlabInv => PagesExact
<1> SUFFICES ASSUME SlabInv PROVE PagesExact
  OBVIOUS
<1>1. MemOK(kmem.mem) /\ Parted(kmem, HeldPages) /\ BlocksOK(blocks)
  BY DEF SlabInv, KmemOK
<1>2. MemExact(kmem.mem)
  BY <1>1, MemIsExact
<1>3. /\ HeldPages \cap FreePages(kmem.mem) = {}
      /\ \A s \in SlabsOf(kmem) :
            /\ SlabBlock(kmem, s) \cap HeldPages = {} /\ SlabBlock(kmem, s) \cap FreePages(kmem.mem) = {}
            /\ \A t \in SlabsOf(kmem) : t # s => SlabBlock(kmem, s) \cap SlabBlock(kmem, t) = {}
      /\ FreePages(kmem.mem) \cup SlabPages \cup HeldPages = Page
  BY <1>1, SlabNames DEF Parted
<1>4. SlabPages \cap HeldPages = {} /\ SlabPages \cap FreePages(kmem.mem) = {}
  <2>1. SlabPages = UNION {SlabBlock(kmem, s) : s \in SlabsOf(kmem)}
    BY SlabNames DEF SlabPagesOf
  <2> QED BY <1>3, <2>1
<1>5. \A s, t \in Slabs : s # t => PagesOf(s) \cap PagesOf(t) = {}
  BY <1>3, SlabNames
<1>6. \A b, d \in blocks : b # d => Block(b[1], b[2]) \cap Block(d[1], d[2]) = {}
  BY <1>1 DEF BlocksOK
<1> QED BY <1>2, <1>3, <1>4, <1>5, <1>6 DEF PagesExact

\* And of the slabs and objects what SlabsExact does.
LEMMA SlabInvSlabs == SlabInv => SlabsExact
<1> SUFFICES ASSUME SlabInv PROVE SlabsExact
  OBVIOUS
<1>1. /\ kmem \in Kmem /\ Chains(kmem) /\ InUse(kmem, {}) /\ Listed(kmem) /\ CtlOK(kmem, objs)
  BY DEF SlabInv, KmemOK
<1>2. ASSUME NEW s \in Slabs
      PROVE  /\ IsInjective(kmem.slab[s].free)
             /\ Range(kmem.slab[s].free) \subseteq 0..(num[kmem.slab[s].cache] - 1)
             /\ Used(kmem, s) # {}
  <2>1. s \in SlabsOf(kmem)
    BY SlabNames
  <2> DEFINE free == kmem.slab[s].free
             S == 0..(num[kmem.slab[s].cache] - 1)
  <2>2. free \in Seq(S) /\ IsInjective(free)
    BY <1>1, <2>1 DEF Chains
  <2>3. Used(kmem, s) # {}
    BY <1>1, <2>1 DEF InUse
  <2> HIDE DEF free, S
  <2>4. Range(free) \subseteq S
    BY <2>2 DEF Range
  <2> QED BY <2>2, <2>3, <2>4 DEF free, S
<1>3. ASSUME NEW c \in Cache
      PROVE  LET of == {s \in Slabs : kmem.slab[s].cache = c}
             IN  /\ Range(kmem.slabs_full[c]) = {s \in of : kmem.slab[s].free = << >>}
                 /\ Range(kmem.slabs_notfull[c]) = {s \in of : kmem.slab[s].free # << >>}
                 /\ IsInjective(kmem.slabs_full[c]) /\ IsInjective(kmem.slabs_notfull[c])
  <2> DEFINE of == {s \in Slabs : kmem.slab[s].cache = c}
  <2>1. /\ FullOf(kmem, c) = {s \in of : kmem.slab[s].free = << >>}
        /\ NotFullOf(kmem, c) = {s \in of : kmem.slab[s].free # << >>}
    BY SlabNames DEF FullOf, NotFullOf
  <2> HIDE DEF of
  <2>2. /\ Range(kmem.slabs_full[c]) = {s \in of : kmem.slab[s].free = << >>}
        /\ Range(kmem.slabs_notfull[c]) = {s \in of : kmem.slab[s].free # << >>}
        /\ IsInjective(kmem.slabs_full[c]) /\ IsInjective(kmem.slabs_notfull[c])
    BY <1>1, <2>1 DEF Listed
  <2> QED BY <2>2 DEF of
<1>4. UNION {Used(kmem, s) : s \in Slabs} = objs \cup {kmem.slab[s].ctl : s \in OffSlab}
  <2>1. InUseObjs(kmem) = UNION {Used(kmem, s) : s \in SlabsOf(kmem)}
    BY <1>1, UsedObjs
  <2>2. InUseObjs(kmem) = objs \cup {kmem.slab[s].ctl : s \in OffOf(kmem)}
    BY <1>1 DEF CtlOK
  <2> QED BY <2>1, <2>2, SlabNames
<1>5. /\ \A s \in OffSlab : kmem.slab[s].ctl \notin objs
      /\ \A s, t \in OffSlab : s # t => kmem.slab[s].ctl # kmem.slab[t].ctl
  <2>1. OffSlab = OffOf(kmem)
    BY SlabNames
  <2> QED BY <1>1, <2>1 DEF CtlOK
<1> QED BY <1>2, <1>3, <1>4, <1>5 DEF SlabsExact

\* alloc_pages fails only when there is no run: a step of NullOnlyWhenNoRun.
LEMMA NullStep ==
    ASSUME SlabInv, Next, failed' # 0
    PROVE  LET size == order_size[getorder(failed')]
           IN  ~\E p \in Page : /\ p % size = 0
                                /\ Block(p, size) \subseteq Page \ (SlabPages \cup HeldPages)
<1>1. PICK n \in Sizes : AllocPages(n)
  <2>1. \A c \in Cache : kmalloc(c) => failed' = 0
    BY DEF kmalloc
  <2>2. \A obj : kfree(obj) => failed' = 0
    BY DEF kfree
  <2>3. \A b, n : FreeSome(b, n) => failed' = 0
    BY DEF FreeSome
  <2> QED BY <2>1, <2>2, <2>3 DEF Next
<1>2. failed' = n /\ alloc_pages(kmem.mem, n).page = NoPage
  BY <1>1 DEF AllocPages
<1>3. MemOK(kmem.mem) /\ Parted(kmem, HeldPages) /\ n \in 1..order_size[MAX_ORDER]
  BY SlabAssumption DEF SlabInv, KmemOK
<1> DEFINE o == getorder(n)
           r == alloc_pages(kmem.mem, n)
<1>4. ~\E p \in Page : p % order_size[o] = 0 /\ BlockOf(p, o) \subseteq FreePages(kmem.mem)
  <2>1. \/ /\ r.page = NoPage /\ r.mem = kmem.mem
           /\ ~\E p \in Page : p % order_size[o] = 0 /\ BlockOf(p, o) \subseteq FreePages(kmem.mem)
        \/ r.page \in Page
    BY <1>3, AllocsPages
  <2>2. r.page \notin Page
    BY <1>2, Numbers
  <2> HIDE DEF r, o
  <2> QED BY <2>1, <2>2
<1>5. Page \ (SlabPages \cup HeldPages) \subseteq FreePages(kmem.mem)
  BY <1>3, SlabNames DEF Parted
<1> HIDE DEF o, r
<1>6. \A p : BlockOf(p, o) = Block(p, order_size[o])
  BY DEF BlockOf
<1>7. ~\E p \in Page : /\ p % order_size[o] = 0
                       /\ Block(p, order_size[o]) \subseteq Page \ (SlabPages \cup HeldPages)
  BY <1>4, <1>5, <1>6
<1> QED BY <1>2, <1>7 DEF o

\* The invariant holds throughout.
LEMMA SlabInvariant == Spec => []SlabInv
BY SlabInvInit, SlabInvStep, PTL DEF Spec

\* Every page is free, in a slab or with a caller of alloc_pages, and the buddy
\* allocator's lists, counters and marks agree, for any zone, caches and callers.
THEOREM PagesCorrect == Spec => []PagesExact
BY SlabInvariant, SlabInvPages, PTL

\* The slabs' chains and the caches' lists are exact, and every object in use is one that
\* kmalloc handed out or the control part of an off_slab slab.
THEOREM SlabsCorrect == Spec => []SlabsExact
BY SlabInvariant, SlabInvSlabs, PTL

\* alloc_pages returns NULL only when there is no aligned run of free pages of the size.
THEOREM NullCorrect == Spec => NullOnlyWhenNoRun
<1> DEFINE size(n) == order_size[getorder(n)]
           NoRun == ~\E p \in Page : /\ p % size(failed') = 0
                                     /\ Block(p, size(failed')) \subseteq Page \ (SlabPages \cup HeldPages)
<1>1. SlabInv /\ [Next]_vars => [failed' # 0 => NoRun]_vars
  BY NullStep
<1> HIDE DEF NoRun
<1>2. Spec => [][failed' # 0 => NoRun]_vars
  BY <1>1, SlabInvariant, PTL DEF Spec
<1> QED BY <1>2 DEF NullOnlyWhenNoRun, NoRun

=============================================================================
