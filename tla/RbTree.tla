------------------------------- MODULE RbTree -------------------------------
(***************************************************************************)
(* The red-black tree of the kernel library (kern/libs/rb_tree.c).  The    *)
(* heap is a record: the two child pointers, the parent pointer and the    *)
(* colour of every node, and ok, which an assertion that fails makes       *)
(* false.  root and nil are the two sentinels: root.left is the tree and   *)
(* nil stands for the missing child, with an arbitrary parent.             *)
(***************************************************************************)
EXTENDS Integers, Sequences, SequencesExt

CONSTANTS Nodes,    \* the nodes that callers may link into the tree
          data      \* data[n]: the key of node n, what compare looks at

ASSUME NodesAssumption == Nodes \subseteq Nat \ {0} /\ data \in [Nodes -> Int]

root == 0
nil  == -1
Other(d) == IF d = "left" THEN "right" ELSE "left"

VARIABLES heap,      \* the tree of rb_tree_create, or << >> while there is none
          contents,  \* history: the linked nodes by key, equal keys by age
          blocks     \* what kmalloc has handed to this file and not got back
rbvars == <<heap, contents, blocks>>

Exists == heap # << >>

-----------------------------------------------------------------------------
(* FUNC_ROTATE(rb_d_rotate, d, Other(d)) *)
Rotate(h, x, d) ==
  LET o == Other(d)
      y == h.kid[o][x]
      p == h.up[x]
      b == h.kid[d][y]
      side == IF x = h.kid[d][p] THEN d ELSE o
  IN [h EXCEPT !.kid[o][x] = b,
               !.up[b]     = IF b = nil THEN @ ELSE x,
               !.up[y]     = p,
               !.kid[side][p] = y,
               !.kid[d][y] = x,
               !.up[x]     = y,
               !.ok = @ /\ x \notin {root, nil} /\ y # nil /\ ~h.red[nil]]

COMPARE(a, b) == data[a] - data[b]

RECURSIVE Descend(_, _, _, _)
Descend(h, node, y, x) ==
  IF x = nil THEN y
  ELSE Descend(h, node, x, h.kid[IF COMPARE(x, node) > 0 THEN "left" ELSE "right"][x])

rb_insert_binary(h, z) ==
  LET y == Descend(h, z, root, h.kid["left"][root])
      d == IF y = root \/ COMPARE(y, z) > 0 THEN "left" ELSE "right"
      h1 == [h EXCEPT !.kid["left"][z] = nil, !.kid["right"][z] = nil, !.up[z] = y]
  IN [h1 EXCEPT !.kid[d][y] = z]

RECURSIVE InsertFixup(_, _)
InsertFixup(h, x) ==
  LET p == h.up[x]
      g == h.up[p]
      d == IF p = h.kid["left"][g] THEN "left" ELSE "right"
      o == Other(d)
      y == h.kid[o][g]
      bent == x = h.kid[o][p]
      h1 == IF bent THEN Rotate(h, p, d) ELSE h
      x1 == IF bent THEN p ELSE x
      g1 == h1.up[h1.up[x1]]
  IN IF ~h.red[p]
     THEN [h EXCEPT !.red[h.kid["left"][root]] = FALSE,
                    !.ok = @ /\ ~h.red[nil] /\ ~h.red[root]]
     ELSE IF h.red[y]
     THEN InsertFixup([h EXCEPT !.red[p] = FALSE, !.red[y] = FALSE, !.red[g] = TRUE], g)
     ELSE InsertFixup(Rotate([h1 EXCEPT !.red[h1.up[x1]] = FALSE, !.red[g1] = TRUE], g1, o), x1)

rb_insert(h, node) ==
  InsertFixup([rb_insert_binary(h, node) EXCEPT !.red[node] = TRUE], node)

RECURSIVE Furthest(_, _, _), Climb(_, _, _)
Furthest(h, d, y) == IF h.kid[d][y] = nil THEN y ELSE Furthest(h, d, h.kid[d][y])
Climb(h, x, y) == IF x = h.kid["right"][y] THEN Climb(h, y, h.up[y]) ELSE y

rb_tree_successor(h, x) ==
  IF h.kid["right"][x] # nil THEN Furthest(h, "left", h.kid["right"][x])
  ELSE LET y == Climb(h, x, h.up[x]) IN IF y = root THEN nil ELSE y

RECURSIVE ClimbLeft(_, _, _)
ClimbLeft(h, x, y) ==
  IF x # h.kid["left"][y] THEN y ELSE IF y = root THEN nil ELSE ClimbLeft(h, y, h.up[y])

rb_tree_predecessor(h, x) ==
  IF h.kid["left"][x] # nil THEN Furthest(h, "right", h.kid["left"][x])
  ELSE ClimbLeft(h, x, h.up[x])

RECURSIVE SearchFrom(_, _, _)
SearchFrom(h, node, key) ==
  IF node = nil \/ data[node] = key THEN node
  ELSE SearchFrom(h, h.kid[IF data[node] > key THEN "left" ELSE "right"][node], key)

rb_search(h, key) == SearchFrom(h, h.kid["left"][root], key)

\* Inside RB_DELETE_FIXUP_SUB the sibling w is read again after each rotation;
\* top is tree->root->left as it was before the first one.
RECURSIVE DeleteLoop(_, _, _)
DeleteLoop(h, x, top) ==
  LET d == IF x = h.kid["left"][h.up[x]] THEN "left" ELSE "right"
      o == Other(d)
      p == h.up[x]
      w0 == h.kid[o][p]
      h1 == IF h.red[w0]
            THEN Rotate([h EXCEPT !.red[w0] = FALSE, !.red[p] = TRUE], p, d) ELSE h
      w1 == h1.kid[o][h1.up[x]]
      near == h1.kid[d][w1]
      h2 == IF h1.red[h1.kid[o][w1]] THEN h1
            ELSE Rotate([h1 EXCEPT !.red[near] = FALSE, !.red[w1] = TRUE], w1, o)
      p2 == h2.up[x]
      w2 == h2.kid[o][p2]
  IN IF x = top \/ h.red[x] THEN [h EXCEPT !.red[x] = FALSE]
     ELSE IF ~h1.red[near] /\ ~h1.red[h1.kid[o][w1]]
     THEN DeleteLoop([h1 EXCEPT !.red[w1] = TRUE], h1.up[x], top)
     ELSE DeleteLoop(Rotate([h2 EXCEPT !.red[w2] = h2.red[p2],
                                       !.red[p2] = FALSE,
                                       !.red[h2.kid[o][w2]] = FALSE], p2, d), top, top)

rb_delete_fixup(h, x) == DeleteLoop(h, x, h.kid["left"][root])

\* Whether y, about to leave its place, was black: read before *y = *z.
need_fixup_late(h, y, z) == ~h.red[z]
need_fixup(h, y, z) == ~h.red[y]

\* *y = *z: the successor takes over every field of the node it replaces.
rb_delete(h, z) ==
  LET y == IF nil \in {h.kid["left"][z], h.kid["right"][z]} THEN z ELSE rb_tree_successor(h, z)
      x == h.kid[IF h.kid["left"][y] # nil THEN "left" ELSE "right"][y]
      q == h.up[y]
      h1 == [h EXCEPT !.up[x] = q,
                      !.kid[IF y = h.kid["left"][q] THEN "left" ELSE "right"][q] = x,
                      !.ok = @ /\ y \notin {root, nil}]
      p == h1.up[z]
      h2 == [h1 EXCEPT !.kid[IF z = h1.kid["left"][p] THEN "left" ELSE "right"][p] = y,
                       !.up = [@ EXCEPT ![h1.kid["left"][z]] = y, ![h1.kid["right"][z]] = y]]
      h3 == [h2 EXCEPT !.kid["left"][y] = h2.kid["left"][z], !.kid["right"][y] = h2.kid["right"][z],
                       !.up[y] = h2.up[z], !.red[y] = h2.red[z]]
      h4 == IF y = z THEN h1 ELSE h3
  IN IF need_fixup(h, y, z) THEN rb_delete_fixup(h4, x) ELSE h4

-----------------------------------------------------------------------------
(* What check_tree asserts of the subtree at node; its value is the black height, -1 when an     *)
(* assertion fails.                                                                              *)
RECURSIVE check_tree(_, _)
check_tree(h, node) ==
  LET l == h.kid["left"][node]
      r == h.kid["right"][node]
      hb == check_tree(h, l)
  IN IF node = nil THEN IF h.red[nil] THEN -1 ELSE 1
     ELSE IF /\ l # nil => COMPARE(node, l) >= 0 /\ h.up[l] = node
             /\ r # nil => COMPARE(node, r) <= 0 /\ h.up[r] = node
             /\ h.red[node] => ~h.red[l] /\ ~h.red[r]
             /\ hb # -1 /\ hb = check_tree(h, r)
          THEN IF h.red[node] THEN hb ELSE hb + 1
          ELSE -1

rb_node_root(h) == h.kid["left"][root]
rb_node_next(h, n) == rb_tree_successor(h, n)
rb_node_prev(h, n) == rb_tree_predecessor(h, n)

-----------------------------------------------------------------------------
RbInit == heap = << >> /\ contents = << >> /\ blocks = 0

NewTree == [kid |-> [d \in {"left", "right"} |-> [n \in Nodes \cup {root, nil} |-> nil]],
            up  |-> [n \in Nodes \cup {root, nil} |-> nil],
            red |-> [n \in Nodes \cup {root, nil} |-> FALSE],
            ok  |-> TRUE]

\* got is how many of the three kmallocs (tree, nil, root) succeed: what was
\* got is freed again when one fails.
rb_tree_create(got) ==
  /\ ~Exists
  /\ heap' = IF got = 3 THEN NewTree ELSE << >>
  /\ blocks' = LET kept == CASE got = 3 -> got        \* return tree
                             [] got = 2 -> got - 2    \* kfree(nil), kfree(tree)
                             [] got = 1 -> got - 1    \* kfree(tree)
                             [] got = 0 -> 0
               IN blocks + kept
  /\ UNCHANGED contents

Insert(n) ==
  /\ Exists /\ n \notin Range(contents)
  /\ heap' = rb_insert(heap, n)
  /\ LET older == SelectSeq(contents, LAMBDA m : data[m] <= data[n])
         later == SelectSeq(contents, LAMBDA m : data[m] > data[n])
     IN contents' = older \o <<n>> \o later
  /\ UNCHANGED blocks

\* The unlinked node's fields are dead until it is inserted again, so they
\* are put back to a fixed value.
Delete(n) ==
  /\ Exists /\ n \in Range(contents)
  /\ LET h == rb_delete(heap, n)
     IN heap' = [h EXCEPT !.kid["left"][n] = nil, !.kid["right"][n] = nil,
                          !.up[n] = nil, !.red[n] = FALSE]
  /\ contents' = Remove(contents, n)
  /\ UNCHANGED blocks

rb_tree_destroy ==
  /\ Exists /\ heap' = << >> /\ blocks' = blocks - 3 /\ contents' = << >>

RbNext == \/ \E got \in 0..3 : rb_tree_create(got)
          \/ \E n \in Nodes : Insert(n)
          \/ \E n \in Nodes : Delete(n)
          \/ rb_tree_destroy

-----------------------------------------------------------------------------
RECURSIVE Forwards(_, _), Backwards(_, _)
Forwards(h, n)  == IF n = nil THEN << >> ELSE <<n>> \o Forwards(h, rb_node_next(h, n))
Backwards(h, n) == IF n = nil THEN << >> ELSE <<n>> \o Backwards(h, rb_node_prev(h, n))

\* After any sequence of insertions and deletions the assertions of rb_tree.c
\* and of check_tree hold, rb_node_next and rb_node_prev walk exactly the
\* linked nodes in key order, nodes with equal keys in the order of their
\* insertion, rb_search finds a key exactly when a node has it, and no block
\* leaks.
TreeExact ==
  /\ blocks = IF Exists THEN 3 ELSE 0
  /\ Exists =>
       LET top == rb_node_root(heap)
       IN /\ heap.ok
          /\ ~heap.red[root] /\ ~heap.red[top]
          /\ check_tree(heap, top) > 0
          /\ (top = nil) = (contents = << >>)
          /\ top # nil =>
               /\ Forwards(heap, Furthest(heap, "left", top)) = contents
               /\ Backwards(heap, Furthest(heap, "right", top)) = Reverse(contents)
          /\ \A key \in {data[n] : n \in Nodes} :
               LET n == rb_search(heap, key)
               IN IF \E m \in Range(contents) : data[m] = key
                  THEN n \in Range(contents) /\ data[n] = key ELSE n = nil
=============================================================================
