---------------------------- MODULE SnakeProofs ----------------------------
(***************************************************************************)
(* Proofs about module Snake, for a board of any size: the ring that holds *)
(* the snake, the map of the board and the picture on the screen say the   *)
(* same.                                                                   *)
(***************************************************************************)
EXTENDS Snake, FiniteSetTheorems, TLAPS

M == SNAKE_NR_CELL

-----------------------------------------------------------------------------
(* The ring and the board.                                                 *)

\* The board is not empty, and has one square less than the ring has cells.
LEMMA BoardSize ==
  /\ M \in Nat /\ M >= 5
  /\ IsFiniteSet(Squares) /\ Cardinality(Squares) = M - 1
  <1> DEFINE X == 0..SCREEN_WIDTH-1
             Y == 0..SCREEN_HEIGHT-1
             f == [c \in X \X Y |-> [x |-> c[1], y |-> c[2]]]
  <1>1. IsFiniteSet(X) /\ Cardinality(X) = SCREEN_WIDTH /\ IsFiniteSet(Y) /\ Cardinality(Y) = SCREEN_HEIGHT
    <2>1. 0 \in Int /\ SCREEN_WIDTH - 1 \in Int /\ SCREEN_HEIGHT - 1 \in Int
      BY SnakeAssumption
    <2>2. /\ IsFiniteSet(X) /\ Cardinality(X) = IF 0 > SCREEN_WIDTH - 1 THEN 0 ELSE (SCREEN_WIDTH - 1) - 0 + 1
          /\ IsFiniteSet(Y) /\ Cardinality(Y) = IF 0 > SCREEN_HEIGHT - 1 THEN 0 ELSE (SCREEN_HEIGHT - 1) - 0 + 1
      BY <2>1, FS_Interval
    <2> QED
      BY <2>2, SnakeAssumption
  <1>2. IsFiniteSet(X \X Y) /\ Cardinality(X \X Y) = SCREEN_WIDTH * SCREEN_HEIGHT
    <2> HIDE DEF X, Y
    <2> QED
      BY <1>1, FS_Product
  <1>3. f \in Bijection(X \X Y, Squares)
    <2>1. f \in [X \X Y -> Squares]
      BY DEF Squares
    <2>2. \A a, b \in X \X Y : f[a] = f[b] => a = b
      OBVIOUS
    <2>3. \A s \in Squares : \E a \in X \X Y : f[a] = s
      <3> SUFFICES ASSUME NEW s \in Squares PROVE \E a \in X \X Y : f[a] = s
        OBVIOUS
      <3>1. <<s.x, s.y>> \in X \X Y /\ f[<<s.x, s.y>>] = s
        BY DEF Squares
      <3> QED
        BY <3>1
    <2> HIDE DEF f
    <2> QED
      BY <2>1, <2>2, <2>3 DEF Bijection, Injection, Surjection, IsInjective
  <1>4. IsFiniteSet(Squares) /\ Cardinality(Squares) = SCREEN_WIDTH * SCREEN_HEIGHT
    <2> HIDE DEF f, X, Y
    <2>1. ExistsBijection(X \X Y, Squares)
      BY <1>3 DEF ExistsBijection
    <2> QED
      BY <2>1, <1>2, FS_Bijection
  <1>5. SCREEN_WIDTH * SCREEN_HEIGHT \in Nat /\ SCREEN_WIDTH * SCREEN_HEIGHT >= 4
    BY SnakeAssumption
  <1> QED
    BY <1>4, <1>5 DEF M, SNAKE_NR_CELL

\* Cells of the ring, counted from t on.
LEMMA Modulo ==
    ASSUME NEW n \in Nat \ {0}, NEW x \in 0..n-1
    PROVE  /\ x % n = x /\ (x + n) % n = x
           /\ \A i \in 0..n : (x + i) % n = IF x + i < n THEN x + i ELSE x + i - n
  OBVIOUS

\* The cells at different distances from t, up to a whole turn, are different.
LEMMA RingCells ==
    ASSUME NEW t \in 0..M-1
    PROVE  /\ t % M = t
           /\ \A i \in 0..M : (t + i) % M \in 0..M-1
           /\ \A i, j \in 0..M-1 : (t + i) % M = (t + j) % M => i = j
           /\ forward_cirqueue_ptr(t) \in 0..M-1
           /\ \A i \in 0..M-1 : (forward_cirqueue_ptr(t) + i) % M = (t + (i + 1)) % M
           /\ \A i \in 0..M-1 : forward_cirqueue_ptr((t + i) % M) = (t + (i + 1)) % M
  <1>1. M \in Nat \ {0} /\ M >= 5
    BY BoardSize
  <1>2. forward_cirqueue_ptr(t) = IF t + 1 = M THEN 0 ELSE t + 1
    BY DEF forward_cirqueue_ptr, M
  <1>3. forward_cirqueue_ptr(t) \in 0..M-1
    BY <1>1, <1>2
  <1>4. \A x \in 0..M-1 : \A i \in 0..M : (x + i) % M = IF x + i < M THEN x + i ELSE x + i - M
    BY <1>1, Modulo
  <1>5. t % M = t
    BY <1>1, Modulo
  <1>6. \A i \in 0..M : (t + i) % M \in 0..M-1
    BY <1>1, <1>4
  <1>7. ASSUME NEW i \in 0..M-1, NEW j \in 0..M-1, (t + i) % M = (t + j) % M
        PROVE  i = j
    <2>1. /\ (t + i) % M = IF t + i < M THEN t + i ELSE t + i - M
          /\ (t + j) % M = IF t + j < M THEN t + j ELSE t + j - M
      BY <1>1, <1>4
    <2> QED
      BY <2>1, <1>1, <1>7
  <1>8. ASSUME NEW i \in 0..M-1
        PROVE  /\ (forward_cirqueue_ptr(t) + i) % M = (t + (i + 1)) % M
               /\ forward_cirqueue_ptr((t + i) % M) = (t + (i + 1)) % M
    <2>1. (forward_cirqueue_ptr(t) + i) % M = (t + (i + 1)) % M
      <3>1. /\ (t + (i + 1)) % M = IF t + (i + 1) < M THEN t + (i + 1) ELSE t + (i + 1) - M
            /\ (forward_cirqueue_ptr(t) + i) % M =
                 IF forward_cirqueue_ptr(t) + i < M THEN forward_cirqueue_ptr(t) + i
                 ELSE forward_cirqueue_ptr(t) + i - M
        <4>1. i + 1 \in 0..M /\ i \in 0..M
          BY <1>1
        <4>2. (t + (i + 1)) % M = IF t + (i + 1) < M THEN t + (i + 1) ELSE t + (i + 1) - M
          BY <4>1, <1>4
        <4>3. (forward_cirqueue_ptr(t) + i) % M =
                 IF forward_cirqueue_ptr(t) + i < M THEN forward_cirqueue_ptr(t) + i
                 ELSE forward_cirqueue_ptr(t) + i - M
          BY <4>1, <1>3, <1>4
        <4> QED
          BY <4>2, <4>3
      <3> QED
        BY <3>1, <1>1, <1>2
    <2>2. forward_cirqueue_ptr((t + i) % M) = IF ((t + i) % M) + 1 = M THEN 0 ELSE ((t + i) % M) + 1
      BY DEF forward_cirqueue_ptr, M
    <2>3. forward_cirqueue_ptr((t + i) % M) = (t + (i + 1)) % M
      <3>1. /\ (t + (i + 1)) % M = IF t + (i + 1) < M THEN t + (i + 1) ELSE t + (i + 1) - M
            /\ (t + i) % M = IF t + i < M THEN t + i ELSE t + i - M
        <4>1. i + 1 \in 0..M /\ i \in 0..M
          BY <1>1
        <4> QED
          BY <4>1, <1>4
      <3> QED
        BY <3>1, <2>2, <1>1
    <2> QED
      BY <2>1, <2>3
  <1> QED
    BY <1>3, <1>5, <1>6, <1>7, <1>8

\* How many cells there are from t to h.
Length(h, t) == 1 + ((h - t + M) % M)

\* It is a number of cells of the ring.
LEMMA RingLength ==
    ASSUME NEW h \in 0..M-1, NEW t \in 0..M-1
    PROVE  /\ Length(h, t) \in 1..M
           /\ h = (t + (Length(h, t) - 1)) % M
           /\ \A n \in 1..M : h = (t + (n - 1)) % M => n = Length(h, t)
  <1>1. M \in Nat \ {0} /\ M >= 5
    BY BoardSize
  <1>2. \A x \in 0..M-1 : \A i \in 0..M : (x + i) % M = IF x + i < M THEN x + i ELSE x + i - M
    BY <1>1, Modulo
  <1>3. (h - t + M) % M = IF h >= t THEN h - t ELSE h - t + M
    <2>1. CASE h >= t
      <3>1. h - t \in 0..M-1 /\ h - t + M = (h - t) + M
        BY <2>1, <1>1
      <3> QED
        BY <2>1, <3>1, <1>1, Modulo
    <2>2. CASE h < t
      <3>1. h - t + M \in 0..M-1
        BY <2>2, <1>1
      <3>2. (h - t + M) % M = h - t + M
        BY <3>1, <1>1, Modulo
      <3> QED
        BY <2>2, <3>2
    <2> QED
      BY <2>1, <2>2
  <1>4. Length(h, t) = IF h >= t THEN h - t + 1 ELSE h - t + M + 1
    BY <1>1, <1>3 DEF Length
  <1>5. Length(h, t) \in 1..M
    BY <1>1, <1>4
  <1>6. h = (t + (Length(h, t) - 1)) % M
    <2>1. Length(h, t) - 1 \in 0..M
      BY <1>1, <1>5
    <2>2. (t + (Length(h, t) - 1)) % M =
            IF t + (Length(h, t) - 1) < M THEN t + (Length(h, t) - 1) ELSE t + (Length(h, t) - 1) - M
      BY <2>1, <1>2
    <2> QED
      BY <2>2, <1>1, <1>4
  <1>7. ASSUME NEW n \in 1..M, h = (t + (n - 1)) % M
        PROVE  n = Length(h, t)
    <2>1. n - 1 \in 0..M-1 /\ Length(h, t) - 1 \in 0..M-1
      BY <1>1, <1>5
    <2>2. n - 1 = Length(h, t) - 1
      BY <2>1, <1>6, <1>7, RingCells
    <2> QED
      BY <2>2, <1>5
  <1> QED
    BY <1>5, <1>6, <1>7

\* A move ends on the board.
LEMMA MoveStays ==
    ASSUME NEW place \in Squares, NEW dir \in Dirs
    PROVE  apply_dir_to_coord(place, dir) \in Squares
  BY SnakeAssumption DEF Squares, Dirs, apply_dir_to_coord

-----------------------------------------------------------------------------
(* The snake: n cells of the ring, from cell t on.                         *)

Cell(t, i) == (t + i) % M
Coords == [0..M-1 -> Squares]

\* They are the squares of S, each once.
Fits(c, t, n, S) ==
  /\ \A i, j \in 0..n-1 : c[Cell(t, i)] = c[Cell(t, j)] => i = j
  /\ \A p \in Squares : p \in S <=> \E i \in 0..n-1 : p = c[Cell(t, i)]

\* Each is a step from the one before it.
Steps(c, t, n) ==
  \A i \in 1..n-1 : \E d \in Dirs : c[Cell(t, i)] = apply_dir_to_coord(c[Cell(t, i - 1)], d)

\* What RingCells and RingLength say, of Cell.
LEMMA Cells ==
    ASSUME NEW t \in 0..M-1
    PROVE  /\ Cell(t, 0) = t
           /\ \A i \in 0..M : Cell(t, i) \in 0..M-1
           /\ \A i, j \in 0..M-1 : Cell(t, i) = Cell(t, j) => i = j
           /\ forward_cirqueue_ptr(t) \in 0..M-1
           /\ \A i \in 0..M-1 : Cell(forward_cirqueue_ptr(t), i) = Cell(t, i + 1)
           /\ \A i \in 0..M-1 : forward_cirqueue_ptr(Cell(t, i)) = Cell(t, i + 1)
           /\ \A h \in 0..M-1 : h = Cell(t, Length(h, t) - 1) /\ Length(h, t) \in 1..M
           /\ \A h \in 0..M-1 : \A n \in 1..M : h = Cell(t, n - 1) => n = Length(h, t)
  <1>1. t + 0 = t
    OBVIOUS
  <1>2. /\ Cell(t, 0) = t
        /\ \A i \in 0..M : Cell(t, i) \in 0..M-1
        /\ \A i, j \in 0..M-1 : Cell(t, i) = Cell(t, j) => i = j
        /\ forward_cirqueue_ptr(t) \in 0..M-1
    BY <1>1, RingCells DEF Cell
  <1>3. /\ \A i \in 0..M-1 : Cell(forward_cirqueue_ptr(t), i) = Cell(t, i + 1)
        /\ \A i \in 0..M-1 : forward_cirqueue_ptr(Cell(t, i)) = Cell(t, i + 1)
    BY RingCells, Zenon DEF Cell
  <1>4. ASSUME NEW h \in 0..M-1
        PROVE  /\ h = Cell(t, Length(h, t) - 1) /\ Length(h, t) \in 1..M
               /\ \A n \in 1..M : h = Cell(t, n - 1) => n = Length(h, t)
    BY RingLength, Zenon DEF Cell
  <1> QED
    BY <1>2, <1>3, <1>4, Zenon

\* A snake that fits on the board is shorter than the ring.
LEMMA Room ==
    ASSUME NEW c \in Coords, NEW t \in 0..M-1, NEW n \in 1..M, NEW S, Fits(c, t, n, S)
    PROVE  n <= M - 1
  <1> DEFINE f == [i \in 0..n-1 |-> c[Cell(t, i)]]
  <1>1. M \in Nat /\ M >= 5 /\ IsFiniteSet(Squares) /\ Cardinality(Squares) = M - 1
    BY BoardSize
  <1>2. f \in [0..n-1 -> Squares]
    <2>1. \A i \in 0..n-1 : i \in 0..M
      BY <1>1
    <2> QED
      BY <2>1, Cells DEF Coords
  <1>3. \A i, j \in 0..n-1 : f[i] = f[j] => i = j
    BY DEF Fits
  <1> HIDE DEF f
  <1>4. f \in Injection(0..n-1, Squares)
    BY <1>2, <1>3 DEF Injection, IsInjective
  <1>5. Cardinality(0..n-1) <= Cardinality(Squares)
    BY <1>1, <1>4, FS_Injection
  <1>6. Cardinality(0..n-1) = n
    <2>1. 0 \in Int /\ n - 1 \in Int
      BY <1>1
    <2>2. Cardinality(0..n-1) = IF 0 > n - 1 THEN 0 ELSE (n - 1) - 0 + 1
      BY <2>1, FS_Interval
    <2> QED
      BY <2>2, <1>1
  <1> QED
    BY <1>1, <1>5, <1>6

\* The head moves on, to a cell that no part of the snake is in.
LEMMA HeadMoves ==
    ASSUME NEW c \in Coords, NEW t \in 0..M-1, NEW h \in 0..M-1, Length(h, t) <= M - 1,
           NEW place \in Squares
    PROVE  LET n == Length(h, t)
               h2 == forward_cirqueue_ptr(h)
               c2 == [c EXCEPT ![h2] = place]
           IN  /\ n \in 1..M-1 /\ h2 \in 0..M-1 /\ h2 # t /\ h2 = Cell(t, n) /\ c2 \in Coords
               /\ Length(h2, t) = n + 1
               /\ c2[Cell(t, n)] = place /\ \A i \in 0..n-1 : c2[Cell(t, i)] = c[Cell(t, i)]
  <1> DEFINE n == Length(h, t)
             h2 == forward_cirqueue_ptr(h)
             c2 == [c EXCEPT ![h2] = place]
  <1>1. M \in Nat /\ M >= 5
    BY BoardSize
  <1>2. n \in 1..M-1 /\ n - 1 \in 0..M-1 /\ h = Cell(t, n - 1) /\ n \in 0..M-1 /\ 0 \in 0..M-1 /\ n # 0 /\ n + 1 \in 1..M
    <2>1. h = Cell(t, n - 1) /\ n \in 1..M /\ n <= M - 1
      BY Cells, Zenon
    <2> HIDE DEF n
    <2> QED
      BY <2>1, <1>1
  <1> HIDE DEF n
  <1>3. h2 = Cell(t, n) /\ h2 \in 0..M-1
    <2>1. (n - 1) + 1 = n
      BY <1>2
    <2>2. forward_cirqueue_ptr(Cell(t, n - 1)) = Cell(t, (n - 1) + 1)
      BY <1>2, Cells
    <2> QED
      BY <2>1, <2>2, <1>2, Cells
  <1> HIDE DEF h2
  <1>4. h2 # t
    <2>1. Cell(t, 0) = t /\ Cell(t, n) # Cell(t, 0)
      BY <1>2, Cells
    <2> QED
      BY <2>1, <1>3
  <1>5. Length(h2, t) = n + 1
    <2>1. h2 = Cell(t, (n + 1) - 1)
      BY <1>2, <1>3
    <2> QED
      BY <2>1, <1>2, <1>3, Cells
  <1>6. c2 \in Coords /\ c2[Cell(t, n)] = place
    BY <1>3 DEF Coords
  <1>7. ASSUME NEW i \in 0..n-1
        PROVE  c2[Cell(t, i)] = c[Cell(t, i)]
    <2>1. i \in 0..M-1 /\ i \in 0..M /\ i # n
      BY <1>1, <1>2
    <2>2. Cell(t, i) # h2 /\ Cell(t, i) \in 0..M-1
      BY <2>1, <1>2, <1>3, Cells
    <2> QED
      BY <2>2 DEF Coords
  <1> QED
    BY <1>2, <1>3, <1>4, <1>5, <1>6, <1>7 DEF n, h2

\* Grown by a square that it was not on.
LEMMA Grows ==
    ASSUME NEW c, NEW c2, NEW t, NEW n \in Nat \ {0}, NEW S, NEW place \in Squares,
           Fits(c, t, n, S), place \notin S, \A i \in 0..n-1 : c[Cell(t, i)] \in Squares,
           c2[Cell(t, n)] = place, \A i \in 0..n-1 : c2[Cell(t, i)] = c[Cell(t, i)]
    PROVE  Fits(c2, t, n + 1, S \cup {place})
  <1>1. ASSUME NEW i \in 0..(n+1)-1, NEW j \in 0..(n+1)-1, c2[Cell(t, i)] = c2[Cell(t, j)]
        PROVE  i = j
    <2>1. \A l \in 0..n-1 : c[Cell(t, l)] # place
      BY DEF Fits
    <2>2. (i \in 0..n-1 \/ i = n) /\ (j \in 0..n-1 \/ j = n)
      OBVIOUS
    <2> QED
      BY <2>1, <2>2, <1>1 DEF Fits
  <1>2. ASSUME NEW p \in Squares
        PROVE  p \in S \cup {place} <=> \E i \in 0..(n+1)-1 : p = c2[Cell(t, i)]
    <2>1. ASSUME p = place PROVE \E i \in 0..(n+1)-1 : p = c2[Cell(t, i)]
      <3>1. n \in 0..(n+1)-1
        OBVIOUS
      <3> QED
        BY <2>1, <3>1
    <2>2. ASSUME p \in S PROVE \E i \in 0..(n+1)-1 : p = c2[Cell(t, i)]
      <3>1. PICK i \in 0..n-1 : p = c[Cell(t, i)]
        BY <2>2 DEF Fits
      <3>2. i \in 0..(n+1)-1
        OBVIOUS
      <3> QED
        BY <3>1, <3>2
    <2>3. ASSUME NEW i \in 0..(n+1)-1, p = c2[Cell(t, i)] PROVE p \in S \cup {place}
      <3>1. i \in 0..n-1 \/ i = n
        OBVIOUS
      <3> QED
        BY <2>3, <3>1 DEF Fits
    <2> QED
      BY <2>1, <2>2, <2>3
  <1> QED
    BY <1>1, <1>2 DEF Fits

\* Without the square at its tail.
LEMMA Shrinks ==
    ASSUME NEW c \in Coords, NEW t \in 0..M-1, NEW n \in 1..M-1, NEW S, NEW q, Fits(c, t, n + 1, S),
           NEW h \in 0..M-1, Length(h, t) = n + 1, q \in Squares
    PROVE  LET t2 == forward_cirqueue_ptr(t)
               c2 == [c EXCEPT ![t] = q]
           IN  /\ t2 \in 0..M-1 /\ c2 \in Coords /\ Length(h, t2) = n
               /\ \A i \in 0..n-1 : c2[Cell(t2, i)] = c[Cell(t, i + 1)]
               /\ Fits(c2, t2, n, S \ {c[t]})
  <1> DEFINE t2 == forward_cirqueue_ptr(t)
             c2 == [c EXCEPT ![t] = q]
  <1>1. M \in Nat /\ M >= 5 /\ n \in Nat /\ n >= 1 /\ n <= M - 1
    BY BoardSize
  <1>2. t2 \in 0..M-1 /\ \A i \in 0..M-1 : Cell(t2, i) = Cell(t, i + 1)
    BY Cells
  <1> HIDE DEF t2
  <1>3. c2 \in Coords
    BY DEF Coords
  <1>4. \A i \in 0..n-1 : /\ i \in 0..M-1 /\ i + 1 \in 0..M-1 /\ i + 1 \in 0..M /\ i + 1 # 0
                          /\ i + 1 \in 0..(n+1)-1 /\ (i + 1) - 1 = i
    BY <1>1
  <1>5. 0 \in 0..M-1 /\ n - 1 \in 0..n-1 /\ (n - 1) + 1 = n /\ (n + 1) - 1 = n /\ n \in 1..M /\ 0 \in 0..(n+1)-1
    BY <1>1
  <1>6. ASSUME NEW i \in 0..n-1
        PROVE  c2[Cell(t2, i)] = c[Cell(t, i + 1)]
    <2>1. Cell(t2, i) = Cell(t, i + 1) /\ Cell(t, i + 1) # Cell(t, 0) /\ Cell(t, 0) = t /\ Cell(t, i + 1) \in 0..M-1
      <3>1. Cell(t, i + 1) = Cell(t, 0) => i + 1 = 0
        <4>1. \A a, b \in 0..M-1 : Cell(t, a) = Cell(t, b) => a = b
          BY Cells, Zenon
        <4>2. i + 1 \in 0..M-1 /\ 0 \in 0..M-1
          BY <1>4, <1>5, Zenon
        <4> QED
          BY <4>1, <4>2, Zenon
      <3>2. Cell(t, 0) = t /\ Cell(t, i + 1) \in 0..M-1
        BY <1>4, Cells, Zenon
      <3> QED
        BY <3>1, <3>2, <1>2, <1>4
    <2> QED
      BY <2>1 DEF Coords
  <1> HIDE DEF c2
  <1>7. Length(h, t2) = n
    <2>1. h = Cell(t, n)
      BY <1>5, Cells
    <2>2. h = Cell(t2, n - 1)
      BY <2>1, <1>2, <1>4, <1>5
    <2> QED
      BY <2>2, <1>2, <1>5, Cells
  <1>8. ASSUME NEW i \in 0..n-1, NEW j \in 0..n-1, c2[Cell(t2, i)] = c2[Cell(t2, j)]
        PROVE  i = j
    <2>1. c[Cell(t, i + 1)] = c[Cell(t, j + 1)]
      BY <1>6, <1>8
    <2>2. i + 1 = j + 1
      BY <2>1, <1>4 DEF Fits
    <2> QED
      BY <2>2, <1>1
  <1>9. ASSUME NEW p \in Squares
        PROVE  p \in S \ {c[t]} <=> \E i \in 0..n-1 : p = c2[Cell(t2, i)]
    <2>1. c[t] = c[Cell(t, 0)]
      BY Cells
    <2>2. ASSUME p \in S \ {c[t]} PROVE \E i \in 0..n-1 : p = c2[Cell(t2, i)]
      <3>1. PICK l \in 0..(n+1)-1 : p = c[Cell(t, l)]
        BY <2>2 DEF Fits
      <3>2. l # 0
        BY <2>1, <2>2, <3>1
      <3>3. l - 1 \in 0..n-1 /\ (l - 1) + 1 = l
        BY <3>2, <1>1
      <3> QED
        BY <3>1, <3>3, <1>6
    <2>3. ASSUME NEW i \in 0..n-1, p = c2[Cell(t2, i)] PROVE p \in S \ {c[t]}
      <3>1. p = c[Cell(t, i + 1)]
        BY <2>3, <1>6
      <3>2. p \in S
        BY <3>1, <1>4 DEF Fits
      <3>3. p # c[t]
        BY <3>1, <2>1, <1>4, <1>5 DEF Fits
      <3> QED
        BY <3>2, <3>3
    <2> QED
      BY <2>2, <2>3
  <1>10. Fits(c2, t2, n, S \ {c[t]})
    BY <1>8, <1>9 DEF Fits
  <1> QED
    BY <1>2, <1>3, <1>6, <1>7, <1>10 DEF t2, c2

-----------------------------------------------------------------------------
(* The inductive invariant.                                                *)

SnakeType ==
  /\ snake \in [head_dir : Dirs, coord : Coords, head : 0..M-1, tail : 0..M-1]
  /\ map \in [Squares -> {"SNAKE", "APPLE", "EMPTY"}]
  /\ cur_nr_apple \in Nat /\ score \in Int
  /\ mode \in {"update_snake", "gen_apple", "game_over", "exited"}

Pictured(img) == {p \in Squares : map[p] = img}

\* The snake is as long as head and tail say, it fits on its squares of the
\* board, and its last step was in its direction.
Lies ==
  /\ BodyLength >= 4
  /\ Fits(snake.coord, snake.tail, OnBoard, Pictured("SNAKE"))
  /\ Steps(snake.coord, snake.tail, BodyLength)
  /\ snake.coord[snake.head] =
       apply_dir_to_coord(snake.coord[Cell(snake.tail, BodyLength - 2)], snake.head_dir)
  /\ mode = "game_over" => map[snake.coord[snake.head]] = "SNAKE"

Counters ==
  /\ score = OnBoard - 4
  /\ cur_nr_apple = Cardinality(Pictured("APPLE")) /\ cur_nr_apple <= MaxApples
  /\ screen = map

SnakeInv == SnakeType /\ (mode # "exited" => Lies /\ Counters)

\* The length of the snake, in the terms of the lemmas.
LEMMA Lengths ==
    ASSUME SnakeType
    PROVE  /\ BodyLength = Length(snake.head, snake.tail) /\ BodyLength \in 1..M
           /\ snake.head = Cell(snake.tail, BodyLength - 1)
           /\ \A i : Body(i) = snake.coord[Cell(snake.tail, i)]
           /\ M \in Nat /\ M >= 5
  <1>1. BodyLength = Length(snake.head, snake.tail)
    BY DEF BodyLength, Length, M
  <1>2. \A i : Body(i) = snake.coord[Cell(snake.tail, i)]
    BY DEF Body, Cell, M
  <1>3. snake.head \in 0..M-1 /\ snake.tail \in 0..M-1
    BY DEF SnakeType
  <1> QED
    BY <1>1, <1>2, <1>3, Cells, BoardSize

\* The four cells of init_snake.
LEMMA SnakeInitInv == InitSnake => SnakeInv
  <1> SUFFICES ASSUME InitSnake PROVE SnakeInv
    OBVIOUS
  <1> USE DEF InitSnake
  <1>1. M \in Nat /\ M >= 5 /\ IsFiniteSet(Squares)
    BY BoardSize
  <1>2. \A i \in 0..3 : At(i, 0) \in Squares
    BY SnakeAssumption DEF At, Squares
  <1>3. snake.coord \in Coords /\ \A i \in 0..3 : snake.coord[i] = At(i, 0)
    BY <1>1, <1>2 DEF Coords, M
  <1>4. snake.head = 3 /\ snake.tail = 0 /\ snake.head_dir = "RIGHT" /\ snake.head \in 0..M-1 /\ snake.tail \in 0..M-1
    BY <1>1
  <1>5. SnakeType
    BY <1>1, <1>3, <1>4 DEF SnakeType, Dirs
  <1>6. \A i \in 0..M-1 : Cell(0, i) = i
    BY <1>1, Modulo DEF Cell
  <1>7. BodyLength = 4 /\ OnBoard = 4
    <2>1. 4 \in 1..M /\ snake.head = Cell(snake.tail, 4 - 1)
      BY <1>1, <1>4, <1>6
    <2>2. Length(snake.head, snake.tail) = 4
      BY <2>1, <1>4, Cells
    <2> QED
      BY <2>2, <1>5, Lengths DEF OnBoard
  <1>8. \A i \in 0..3 : snake.coord[Cell(snake.tail, i)] = At(i, 0)
    <2>1. \A i \in 0..3 : i \in 0..M-1
      BY <1>1
    <2> QED
      BY <2>1, <1>3, <1>4, <1>6
  <1>9. Fits(snake.coord, snake.tail, 4, Pictured("SNAKE"))
    <2>1. \A i, j \in 0..3 : At(i, 0) = At(j, 0) => i = j
      BY DEF At
    <2>2. ASSUME NEW p \in Squares
          PROVE  p \in Pictured("SNAKE") <=> \E i \in 0..3 : p = At(i, 0)
      <3>1. p \in Pictured("SNAKE") <=> p.y = 0 /\ p.x <= 3
        BY DEF Pictured
      <3>2. p.y = 0 /\ p.x <= 3 => p = At(p.x, 0) /\ p.x \in 0..3
        BY DEF Squares, At
      <3>3. \A i \in 0..3 : p = At(i, 0) => p.y = 0 /\ p.x <= 3
        BY DEF At
      <3> QED
        BY <3>1, <3>2, <3>3
    <2>3. 0..4-1 = 0..3
      OBVIOUS
    <2>4. \A i, j \in 0..4-1 : snake.coord[Cell(snake.tail, i)] = snake.coord[Cell(snake.tail, j)] => i = j
      BY <2>1, <2>3, <1>8
    <2>5. \A p \in Squares : p \in Pictured("SNAKE") <=> \E i \in 0..4-1 : p = snake.coord[Cell(snake.tail, i)]
      BY <2>2, <2>3, <1>8
    <2> QED
      BY <2>4, <2>5, Zenon DEF Fits
  <1>10. \A i \in 1..3 : snake.coord[Cell(snake.tail, i)] = apply_dir_to_coord(snake.coord[Cell(snake.tail, i - 1)], "RIGHT")
    <2> SUFFICES ASSUME NEW i \in 1..3
                 PROVE  snake.coord[Cell(snake.tail, i)] = apply_dir_to_coord(snake.coord[Cell(snake.tail, i - 1)], "RIGHT")
      OBVIOUS
    <2>1. i \in 0..3 /\ i - 1 \in 0..3
      OBVIOUS
    <2>2. At(i, 0) = apply_dir_to_coord(At(i - 1, 0), "RIGHT")
      BY SnakeAssumption DEF At, apply_dir_to_coord
    <2> QED
      BY <2>1, <2>2, <1>8
  <1>11. Steps(snake.coord, snake.tail, 4)
    BY <1>10 DEF Steps, Dirs
  <1>12. snake.coord[snake.head] = apply_dir_to_coord(snake.coord[Cell(snake.tail, 4 - 2)], "RIGHT")
    <2>1. snake.head = Cell(snake.tail, 3) /\ 3 - 1 = 2 /\ 4 - 2 = 2 /\ 3 \in 1..3
      BY <1>1, <1>4, <1>6
    <2>2. snake.coord[Cell(snake.tail, 3)] = apply_dir_to_coord(snake.coord[Cell(snake.tail, 3 - 1)], "RIGHT")
      BY <2>1, <1>10
    <2> QED
      BY <2>1, <2>2
  <1>13. Pictured("APPLE") = {}
    BY DEF Pictured
  <1>14. Counters
    <2>1. score = 0 /\ cur_nr_apple = 0 /\ screen = map
      OBVIOUS
    <2>2. Cardinality(Pictured("APPLE")) = 0
      BY <1>13, FS_EmptySet
    <2>3. MaxApples >= 0
      BY SnakeAssumption
    <2> QED
      BY <2>1, <2>2, <2>3, <1>7 DEF Counters
  <1> QED
    BY <1>4, <1>5, <1>7, <1>9, <1>11, <1>12, <1>14 DEF SnakeInv, Lies

\* What remains to be shown of a step in the game: length, squares and counters
\* of the new state.
LEMMA Lying ==
    ASSUME SnakeType', NEW n \in Nat, n = Length(snake'.head, snake'.tail), n >= 4,
           mode' # "game_over", Fits(snake'.coord, snake'.tail, n, Pictured("SNAKE")'),
           Steps(snake'.coord, snake'.tail, n),
           snake'.coord[snake'.head] =
             apply_dir_to_coord(snake'.coord[Cell(snake'.tail, n - 2)], snake'.head_dir),
           score' = n - 4, cur_nr_apple' = Cardinality(Pictured("APPLE")'), cur_nr_apple' <= MaxApples,
           screen' = map'
    PROVE  SnakeInv'
  <1>1. BodyLength' = n /\ OnBoard' = n
    BY DEF BodyLength, OnBoard, Length, M
  <1> QED
    BY <1>1 DEF SnakeInv, Lies, Counters

\* One step further, the snake is a path again.
LEMMA StepsGrow ==
    ASSUME NEW c, NEW c2, NEW t, NEW n \in Nat \ {0}, NEW place, NEW dir \in Dirs,
           Steps(c, t, n), place = apply_dir_to_coord(c[Cell(t, n - 1)], dir),
           c2[Cell(t, n)] = place, \A i \in 0..n-1 : c2[Cell(t, i)] = c[Cell(t, i)]
    PROVE  Steps(c2, t, n + 1)
  <1>1. ASSUME NEW i \in 1..(n+1)-1
        PROVE  \E d \in Dirs : c2[Cell(t, i)] = apply_dir_to_coord(c2[Cell(t, i - 1)], d)
    <2>1. CASE i = n
      <3>1. n - 1 \in 0..n-1
        OBVIOUS
      <3> QED
        BY <2>1, <3>1
    <2>2. CASE i # n
      <3>1. i \in 1..n-1 /\ i \in 0..n-1 /\ i - 1 \in 0..n-1
        BY <2>2
      <3> QED
        BY <3>1 DEF Steps
    <2> QED
      BY <2>1, <2>2
  <1> QED
    BY <1>1 DEF Steps

\* Without its first step it still is.
LEMMA StepsShrink ==
    ASSUME NEW c, NEW c2, NEW t, NEW t2, NEW n \in Nat, Steps(c, t, n + 1),
           \A i \in 0..n-1 : c2[Cell(t2, i)] = c[Cell(t, i + 1)]
    PROVE  Steps(c2, t2, n)
  <1>1. ASSUME NEW i \in 1..n-1
        PROVE  \E d \in Dirs : c2[Cell(t2, i)] = apply_dir_to_coord(c2[Cell(t2, i - 1)], d)
    <2>1. i \in 0..n-1 /\ i - 1 \in 0..n-1 /\ i + 1 \in 1..(n+1)-1 /\ (i + 1) - 1 = i /\ (i - 1) + 1 = i
      OBVIOUS
    <2>2. PICK d \in Dirs : c[Cell(t, i + 1)] = apply_dir_to_coord(c[Cell(t, (i + 1) - 1)], d)
      BY <2>1 DEF Steps
    <2> QED
      BY <2>1, <2>2
  <1> QED
    BY <1>1 DEF Steps

\* A move: into the body, onto an apple, or onto an empty square.
LEMMA UpdateInv ==
    ASSUME SnakeInv, mode = "update_snake", NEW new_dir \in Dirs \cup {"NONE"}, update_snake(new_dir)
    PROVE  SnakeInv'
  <1>0. SUFFICES ASSUME NEW dir, NEW h, NEW t, NEW h2, NEW c, NEW n, NEW place, NEW c2,
                        dir = (IF new_dir = "NONE" THEN snake.head_dir ELSE new_dir),
                        h = snake.head, t = snake.tail, h2 = forward_cirqueue_ptr(h), c = snake.coord,
                        n = BodyLength, place = apply_dir_to_coord(c[h], dir), c2 = [c EXCEPT ![h2] = place]
                 PROVE  SnakeInv'
    OBVIOUS
  <1>1. SnakeType /\ Lies /\ Counters /\ OnBoard = n
    BY <1>0 DEF SnakeInv, OnBoard
  <1>2. /\ M \in Nat /\ M >= 5 /\ n \in 1..M /\ n >= 4 /\ n = Length(h, t) /\ h = Cell(t, n - 1)
        /\ h \in 0..M-1 /\ t \in 0..M-1 /\ c \in Coords
    BY <1>0, <1>1, Lengths DEF SnakeType, Lies
  <1>3. dir \in Dirs /\ place \in Squares
    <2>1. dir \in Dirs /\ c[h] \in Squares
      BY <1>0, <1>1, <1>2 DEF SnakeType, Coords
    <2> QED
      BY <2>1, <1>0, MoveStays
  <1>4. Fits(c, t, n, Pictured("SNAKE")) /\ Steps(c, t, n)
    BY <1>0, <1>1 DEF Lies
  <1>5. n <= M - 1
    BY <1>2, <1>4, Room
  <1>6. /\ n \in 1..M-1 /\ h2 \in 0..M-1 /\ h2 # t /\ h2 = Cell(t, n) /\ c2 \in Coords
        /\ Length(h2, t) = n + 1
        /\ c2[Cell(t, n)] = place /\ \A i \in 0..n-1 : c2[Cell(t, i)] = c[Cell(t, i)]
    BY <1>0, <1>2, <1>3, <1>5, HeadMoves
  <1>7. \A i \in 0..n-1 : c[Cell(t, i)] \in Squares
    <2>1. \A i \in 0..n-1 : i \in 0..M
      BY <1>2, <1>5
    <2> QED
      BY <2>1, <1>2, Cells DEF Coords
  <1>8. Steps(c2, t, n + 1)
    <2>1. n \in Nat \ {0} /\ place = apply_dir_to_coord(c[Cell(t, n - 1)], dir)
      BY <1>0, <1>2, <1>6
    <2> QED
      BY <2>1, <1>3, <1>4, <1>6, StepsGrow
  <1>9. c2[h2] = place /\ c2[Cell(t, n - 1)] = c[h] /\ c2[t] = c[t] /\ c[t] \in Squares /\ c[t] \in Pictured("SNAKE")
    <2>1. n - 1 \in 0..n-1 /\ 0 \in 0..n-1
      BY <1>2
    <2>2. c2[Cell(t, 0)] = c[Cell(t, 0)] /\ Cell(t, 0) = t
      BY <2>1, <1>2, <1>6, Cells
    <2>3. c[t] \in Squares /\ c[t] \in Pictured("SNAKE")
      BY <2>1, <2>2, <1>4, <1>7 DEF Fits
    <2> QED
      BY <2>1, <2>2, <2>3, <1>2, <1>6
  <1>10. snake = [head_dir |-> snake.head_dir, coord |-> c, head |-> h, tail |-> t] /\ c2[snake.tail] = c2[t]
    BY <1>0, <1>1 DEF SnakeType
  <1> DEFINE moved == [snake EXCEPT !.head_dir = dir, !.head = h2, !.coord[h2] = place]
  <1>11. /\ moved.head_dir = dir /\ moved.head = h2 /\ moved.tail = t /\ moved.coord = c2
         /\ moved \in [head_dir : Dirs, coord : Coords, head : 0..M-1, tail : 0..M-1]
    BY <1>0, <1>1, <1>3, <1>6 DEF SnakeType
  <1>12. \/ /\ map[place] = "SNAKE"
            /\ mode' = "game_over" /\ snake' = moved
            /\ map' = map /\ screen' = screen /\ cur_nr_apple' = cur_nr_apple /\ score' = score
         \/ /\ map[place] = "APPLE"
            /\ snake' = moved
            /\ map' = [map EXCEPT ![place] = "SNAKE"]
            /\ screen' = [screen EXCEPT ![place] = "SNAKE"]
            /\ cur_nr_apple' = cur_nr_apple - 1 /\ score' = score + 1
            /\ mode' = "gen_apple"
         \/ /\ map[place] = "EMPTY"
            /\ snake' = [moved EXCEPT !.tail = forward_cirqueue_ptr(@), !.coord[t] = At(0, 0)]
            /\ map' = [map EXCEPT ![moved.coord[t]] = "EMPTY", ![place] = "SNAKE"]
            /\ screen' = [[screen EXCEPT ![place] = "SNAKE"] EXCEPT ![moved.coord[t]] = "EMPTY"]
            /\ mode' = "gen_apple"
            /\ cur_nr_apple' = cur_nr_apple /\ score' = score
    BY <1>0 DEF update_snake, draw_image
  <1> HIDE DEF moved
  <1>13. IsFiniteSet(Pictured("APPLE"))
    <2>1. Pictured("APPLE") \in SUBSET Squares
      BY DEF Pictured
    <2> QED
      BY <2>1, BoardSize, FS_Subset
  <1>14. CASE /\ map[place] = "SNAKE"
              /\ mode' = "game_over" /\ snake' = moved
              /\ map' = map /\ screen' = screen /\ cur_nr_apple' = cur_nr_apple /\ score' = score
    <2>1. BodyLength' = n + 1 /\ OnBoard' = n
      BY <1>2, <1>6, <1>11, <1>14 DEF BodyLength, OnBoard, Length, M
    <2>2. Fits(c2, t, n, Pictured("SNAKE"))
      BY <1>4, <1>6 DEF Fits
    <2>3. Pictured("SNAKE")' = Pictured("SNAKE") /\ Pictured("APPLE")' = Pictured("APPLE")
      BY <1>14 DEF Pictured
    <2>4. SnakeType'
      BY <1>1, <1>11, <1>14 DEF SnakeType
    <2>5. Lies'
      <3>1. (n + 1) - 2 = n - 1 /\ n + 1 >= 4
        BY <1>2
      <3> QED
        BY <3>1, <2>1, <2>2, <2>3, <1>0, <1>8, <1>9, <1>11, <1>14 DEF Lies
    <2>6. Counters'
      BY <2>1, <2>3, <1>1, <1>14 DEF Counters
    <2> QED
      BY <2>4, <2>5, <2>6 DEF SnakeInv
  <1>15. CASE /\ map[place] = "APPLE"
              /\ snake' = moved
              /\ map' = [map EXCEPT ![place] = "SNAKE"]
              /\ screen' = [screen EXCEPT ![place] = "SNAKE"]
              /\ cur_nr_apple' = cur_nr_apple - 1 /\ score' = score + 1
              /\ mode' = "gen_apple"
    <2>1. Pictured("SNAKE")' = Pictured("SNAKE") \cup {place} /\ place \notin Pictured("SNAKE")
      BY <1>1, <1>3, <1>15 DEF SnakeType, Pictured
    <2>2. Pictured("APPLE")' = Pictured("APPLE") \ {place} /\ place \in Pictured("APPLE")
      BY <1>1, <1>3, <1>15 DEF SnakeType, Pictured
    <2>3. Fits(c2, t, n + 1, Pictured("SNAKE")')
      <3>1. n \in Nat \ {0}
        BY <1>2
      <3> QED
        BY <3>1, <2>1, <1>3, <1>4, <1>6, <1>7, Grows
    <2>4. Cardinality(Pictured("APPLE")') = cur_nr_apple - 1 /\ cur_nr_apple - 1 \in Nat
      <3>1. Cardinality(Pictured("APPLE") \ {place}) = Cardinality(Pictured("APPLE")) - 1
        BY <2>2, <1>13, FS_RemoveElement
      <3>2. Cardinality(Pictured("APPLE") \ {place}) \in Nat
        BY <1>13, FS_RemoveElement, FS_CardinalityType
      <3> QED
        BY <3>1, <3>2, <2>2, <1>1 DEF Counters
    <2>5. SnakeType'
      BY <2>4, <1>1, <1>3, <1>11, <1>15 DEF SnakeType
    <2>6. n + 1 \in Nat /\ n + 1 >= 4 /\ (n + 1) - 2 = n - 1 /\ score' = (n + 1) - 4
      BY <1>1, <1>2, <1>15 DEF Counters
    <2>7. screen' = map' /\ cur_nr_apple' <= MaxApples
      BY <1>1, <1>15, SnakeAssumption DEF Counters, SnakeType
    <2>8. snake'.coord[snake'.head] =
             apply_dir_to_coord(snake'.coord[Cell(snake'.tail, (n + 1) - 2)], snake'.head_dir)
      BY <2>6, <1>0, <1>9, <1>11, <1>15
    <2> QED
      BY <2>3, <2>4, <2>5, <2>6, <2>7, <2>8, <1>6, <1>8, <1>11, <1>15, Lying
  <1>16. CASE /\ map[place] = "EMPTY"
              /\ snake' = [moved EXCEPT !.tail = forward_cirqueue_ptr(@), !.coord[t] = At(0, 0)]
              /\ map' = [map EXCEPT ![moved.coord[t]] = "EMPTY", ![place] = "SNAKE"]
              /\ screen' = [[screen EXCEPT ![place] = "SNAKE"] EXCEPT ![moved.coord[t]] = "EMPTY"]
              /\ mode' = "gen_apple"
              /\ cur_nr_apple' = cur_nr_apple /\ score' = score
    <2>1. place # c[t] /\ place \notin Pictured("SNAKE") /\ place \in Squares /\ moved.coord[t] = c[t]
      BY <1>3, <1>9, <1>11, <1>16 DEF Pictured
    <2>2. map' = [map EXCEPT ![c[t]] = "EMPTY", ![place] = "SNAKE"]
      BY <2>1, <1>16
    <2>3. Pictured("SNAKE")' = (Pictured("SNAKE") \cup {place}) \ {c[t]}
      BY <2>1, <2>2, <1>1, <1>3, <1>9 DEF SnakeType, Pictured
    <2>4. Pictured("APPLE")' = Pictured("APPLE")
      BY <2>1, <2>2, <1>1, <1>3, <1>9, <1>16 DEF SnakeType, Pictured
    <2>5. Fits(c2, t, n + 1, Pictured("SNAKE") \cup {place})
      <3>1. n \in Nat \ {0}
        BY <1>2
      <3> QED
        BY <3>1, <2>1, <1>3, <1>4, <1>6, <1>7, Grows
    <2> DEFINE t2 == forward_cirqueue_ptr(t)
               c3 == [c2 EXCEPT ![t] = At(0, 0)]
    <2>6. At(0, 0) \in Squares
      BY SnakeAssumption DEF At, Squares
    <2>7. /\ t2 \in 0..M-1 /\ c3 \in Coords /\ Length(h2, t2) = n
          /\ \A i \in 0..n-1 : c3[Cell(t2, i)] = c2[Cell(t, i + 1)]
          /\ Fits(c3, t2, n, (Pictured("SNAKE") \cup {place}) \ {c2[t]})
      <3>1. c2 \in Coords /\ t \in 0..M-1 /\ n \in 1..M-1 /\ h2 \in 0..M-1 /\ Length(h2, t) = n + 1
        BY <1>2, <1>6
      <3> QED
        BY <3>1, <2>5, <2>6, Shrinks, Zenon
    <2>8. snake'.head_dir = dir /\ snake'.head = h2 /\ snake'.tail = t2 /\ snake'.coord = c3
          /\ snake' \in [head_dir : Dirs, coord : Coords, head : 0..M-1, tail : 0..M-1]
      BY <2>6, <2>7, <1>11, <1>16
    <2> HIDE DEF t2, c3
    <2>9. Steps(c3, t2, n)
      <3>1. n \in Nat
        BY <1>2
      <3> QED
        BY <3>1, <2>7, <1>8, StepsShrink
    <2>10. c3[h2] = apply_dir_to_coord(c3[Cell(t2, n - 2)], dir)
      <3>1. n - 1 \in 0..n-1 /\ (n - 1) + 1 = n /\ n - 2 \in 0..n-1 /\ (n - 2) + 1 = n - 1
        BY <1>2
      <3>2. c3[Cell(t2, n - 1)] = place /\ c3[Cell(t2, n - 2)] = c[h]
        BY <3>1, <2>7, <1>6, <1>9
      <3>3. h2 = Cell(t2, n - 1)
        BY <2>7, <1>6, Cells
      <3> QED
        BY <3>2, <3>3, <1>0
    <2>11. map' \in [Squares -> {"SNAKE", "APPLE", "EMPTY"}]
      BY <2>2, <1>1 DEF SnakeType
    <2>12. screen' = map'
      <3>1. screen' = [[map EXCEPT ![place] = "SNAKE"] EXCEPT ![c[t]] = "EMPTY"]
        BY <2>1, <1>1, <1>16 DEF Counters
      <3> QED
        BY <3>1, <2>1, <2>2, <1>1 DEF SnakeType
    <2>13. SnakeType'
      BY <2>8, <2>11, <1>1, <1>16 DEF SnakeType
    <2>14. n \in Nat /\ score' = n - 4 /\ cur_nr_apple' = Cardinality(Pictured("APPLE")') /\ cur_nr_apple' <= MaxApples
      BY <2>4, <1>1, <1>2, <1>16 DEF Counters
    <2>15. Fits(c3, t2, n, Pictured("SNAKE")')
      BY <2>3, <2>7, <1>9
    <2>16. mode' # "game_over" /\ n = Length(snake'.head, snake'.tail) /\ n >= 4
      BY <2>7, <2>8, <1>2, <1>16
    <2> QED
      BY <2>8, <2>9, <2>10, <2>12, <2>13, <2>14, <2>15, <2>16, Lying
  <1> QED
    BY <1>12, <1>14, <1>15, <1>16

\* An apple falls on an empty square, or none does.
LEMMA GenAppleInv == ASSUME SnakeInv, gen_apple PROVE SnakeInv'
  <1>0. SUFFICES ASSUME NEW n, n = BodyLength
                 PROVE  SnakeInv'
    OBVIOUS
  <1>1. SnakeType /\ Lies /\ Counters /\ OnBoard = n /\ mode' = "update_snake" /\ snake' = snake /\ score' = score
    BY <1>0 DEF SnakeInv, OnBoard, gen_apple
  <1>2. n \in 1..M /\ n >= 4 /\ n = Length(snake.head, snake.tail) /\ M \in Nat
    BY <1>0, <1>1, Lengths DEF Lies
  <1>3. CASE map' = map /\ screen' = screen /\ cur_nr_apple' = cur_nr_apple
    <2>1. Pictured("SNAKE")' = Pictured("SNAKE") /\ Pictured("APPLE")' = Pictured("APPLE")
      BY <1>3 DEF Pictured
    <2>2. SnakeType'
      BY <1>1, <1>3 DEF SnakeType
    <2> QED
      BY <2>1, <2>2, <1>0, <1>1, <1>2, <1>3, Lying DEF Lies, Counters
  <1>4. ASSUME cur_nr_apple < MaxApples, cur_nr_apple' = cur_nr_apple + 1,
               NEW place \in Squares, map[place] = "EMPTY", map' = [map EXCEPT ![place] = "APPLE"],
               screen' = [screen EXCEPT ![place] = "APPLE"]
        PROVE  SnakeInv'
    <2>1. Pictured("SNAKE")' = Pictured("SNAKE")
      BY <1>1, <1>4 DEF Pictured, SnakeType
    <2>2. Pictured("APPLE")' = Pictured("APPLE") \cup {place} /\ place \notin Pictured("APPLE")
      BY <1>1, <1>4 DEF Pictured, SnakeType
    <2>3. Cardinality(Pictured("APPLE")') = cur_nr_apple + 1
      <3>1. Pictured("APPLE") \in SUBSET Squares
        BY DEF Pictured
      <3>2. IsFiniteSet(Pictured("APPLE"))
        BY <3>1, BoardSize, FS_Subset
      <3>3. Cardinality(Pictured("APPLE") \cup {place}) = Cardinality(Pictured("APPLE")) + 1
        BY <2>2, <3>2, FS_AddElement
      <3> QED
        BY <2>2, <3>3, <1>1 DEF Counters
    <2>4. SnakeType'
      BY <1>1, <1>4 DEF SnakeType
    <2>5. screen' = map' /\ cur_nr_apple' <= MaxApples
      BY <1>1, <1>4, SnakeAssumption DEF Counters, SnakeType
    <2> QED
      BY <2>1, <2>3, <2>4, <2>5, <1>0, <1>1, <1>2, <1>4, Lying DEF Lies, Counters
  <1>5. \A x \in rand_in_range(SCREEN_WIDTH), y \in rand_in_range(SCREEN_HEIGHT) : At(x, y) \in Squares
    BY DEF rand_in_range, At, Squares
  <1> QED
    BY <1>3, <1>4, <1>5 DEF gen_apple, draw_image

\* A turn without a move, and a stuttering step.
LEMMA StillInv ==
    ASSUME SnakeInv, UNCHANGED <<snake, map, screen, cur_nr_apple, score>>,
           mode' = mode \/ (mode = "update_snake" /\ mode' = "gen_apple") \/ mode' = "exited"
    PROVE  SnakeInv'
  <1>1. CASE mode' = "exited"
    BY <1>1 DEF SnakeInv, SnakeType
  <1>2. CASE mode' # "exited"
    <2>1. SnakeType /\ Lies /\ Counters /\ mode # "exited"
      BY <1>2 DEF SnakeInv
    <2>2. mode = "game_over" <=> mode' = "game_over"
      BY <1>2
    <2>3. BodyLength' = BodyLength /\ OnBoard' = OnBoard
      BY <2>2 DEF BodyLength, OnBoard
    <2>4. Pictured("SNAKE")' = Pictured("SNAKE") /\ Pictured("APPLE")' = Pictured("APPLE")
      BY DEF Pictured
    <2>5. SnakeType'
      BY <2>1, <1>2 DEF SnakeType
    <2>6. Lies' /\ Counters'
      BY <2>1, <2>2, <2>3, <2>4 DEF Lies, Counters
    <2> QED
      BY <2>5, <2>6 DEF SnakeInv
  <1> QED
    BY <1>1, <1>2

\* Every step of the game.
LEMMA SnakeStep == ASSUME SnakeInv, [SnakeNext]_snakevars PROVE SnakeInv'
  <1>1. ASSUME Turn PROVE SnakeInv'
    <2>1. PICK new_dir \in Dirs \cup {"NONE"} :
             \/ update_snake(new_dir)
             \/ mode' = "gen_apple" /\ UNCHANGED <<snake, map, screen, cur_nr_apple, score>>
      BY <1>1 DEF Turn
    <2>2. mode = "update_snake"
      BY <1>1 DEF Turn
    <2> QED
      BY <2>1, <2>2, UpdateInv, StillInv
  <1>2. ASSUME exit PROVE SnakeInv'
    BY <1>2, StillInv DEF exit
  <1>3. ASSUME UNCHANGED snakevars PROVE SnakeInv'
    <2>1. UNCHANGED <<snake, map, screen, cur_nr_apple, score>>
      BY <1>3 DEF snakevars
    <2>2. mode' = mode
      BY <1>3 DEF snakevars
    <2> QED
      BY <2>1, <2>2, StillInv, Zenon
  <1> QED
    BY <1>1, <1>2, <1>3, GenAppleInv DEF SnakeNext

\* The invariant in the terms of SnakeExact.
LEMMA SnakeInvExact == SnakeInv => SnakeExact
  <1> SUFFICES ASSUME SnakeInv, mode # "exited"
               PROVE  /\ {Body(i) : i \in 0..OnBoard-1} = {p \in Squares : map[p] = "SNAKE"}
                      /\ Cardinality({Body(i) : i \in 0..OnBoard-1}) = OnBoard
                      /\ \A i \in 1..BodyLength-1 : \E d \in Dirs : Body(i) = apply_dir_to_coord(Body(i-1), d)
                      /\ Body(BodyLength-1) = apply_dir_to_coord(Body(BodyLength-2), snake.head_dir)
                      /\ score = OnBoard - 4
                      /\ cur_nr_apple = Cardinality({p \in Squares : map[p] = "APPLE"}) /\ cur_nr_apple <= MaxApples
                      /\ screen = map
                      /\ mode = "game_over" => map[Body(BodyLength-1)] = "SNAKE"
    BY DEF SnakeExact
  <1> DEFINE n == OnBoard
             S == Pictured("SNAKE")
  <1>1. SnakeType /\ Lies /\ Counters
    BY DEF SnakeInv
  <1>2. /\ BodyLength \in 1..M /\ BodyLength >= 4 /\ snake.head = Cell(snake.tail, BodyLength - 1)
        /\ \A i : Body(i) = snake.coord[Cell(snake.tail, i)]
        /\ M \in Nat /\ M >= 5
    BY <1>1, Lengths DEF Lies
  <1>3. n \in 1..M /\ n >= 3
    BY <1>2 DEF OnBoard
  <1> HIDE DEF n
  <1>4. /\ \A i, j \in 0..n-1 : Body(i) = Body(j) => i = j
        /\ \A p \in Squares : p \in S <=> \E i \in 0..n-1 : p = Body(i)
    BY <1>1, <1>2 DEF Lies, Fits, n
  <1>5. \A i \in 0..n-1 : Body(i) \in Squares
    <2>1. \A i \in 0..n-1 : i \in 0..M
      BY <1>2, <1>3
    <2>2. snake.tail \in 0..M-1 /\ snake.coord \in Coords
      BY <1>1 DEF SnakeType
    <2> QED
      BY <2>1, <2>2, <1>2, Cells DEF Coords
  <1>6. {Body(i) : i \in 0..n-1} = S
    <2>1. S \subseteq Squares
      BY DEF Pictured
    <2> QED
      BY <2>1, <1>4, <1>5
  <1>7. Cardinality({Body(i) : i \in 0..n-1}) = n
    <2> DEFINE f == [i \in 0..n-1 |-> Body(i)]
    <2>1. f \in [0..n-1 -> S] /\ \A i \in 0..n-1 : f[i] = Body(i)
      BY <1>6
    <2> HIDE DEF f
    <2>2. f \in Bijection(0..n-1, S)
      BY <2>1, <1>4, <1>6 DEF Bijection, Injection, Surjection, IsInjective
    <2>3. IsFiniteSet(0..n-1) /\ Cardinality(0..n-1) = n
      <3>1. 0 \in Int /\ n - 1 \in Int
        BY <1>3
      <3>2. IsFiniteSet(0..n-1) /\ Cardinality(0..n-1) = IF 0 > n - 1 THEN 0 ELSE (n - 1) - 0 + 1
        BY <3>1, FS_Interval
      <3> QED
        BY <3>2, <1>3
    <2>4. ExistsBijection(0..n-1, S)
      BY <2>2 DEF ExistsBijection
    <2>5. Cardinality(S) = n
      BY <2>3, <2>4, FS_Bijection
    <2> QED
      BY <2>5, <1>6
  <1>8. \A i \in 1..BodyLength-1 : \E d \in Dirs : Body(i) = apply_dir_to_coord(Body(i-1), d)
    BY <1>1, <1>2 DEF Lies, Steps
  <1>9. /\ Body(BodyLength-1) = apply_dir_to_coord(Body(BodyLength-2), snake.head_dir)
        /\ mode = "game_over" => map[Body(BodyLength-1)] = "SNAKE"
    BY <1>1, <1>2 DEF Lies
  <1>10. S = {p \in Squares : map[p] = "SNAKE"} /\ Pictured("APPLE") = {p \in Squares : map[p] = "APPLE"}
    BY DEF Pictured
  <1> QED
    BY <1>1, <1>6, <1>7, <1>8, <1>9, <1>10 DEF Counters, n

\* On a board of any size, however many apples are eaten: the ring is a path of
\* different squares, those that the map calls SNAKE and the screen shows so, and
\* the spare cell is enough for the head that bites on a full board
\* (update_snake, forward_cirqueue_ptr, gen_apple).
THEOREM SnakeCorrect == SnakeSpec => []SnakeExact
  <1>1. InitSnake => SnakeInv
    BY SnakeInitInv
  <1>2. SnakeInv /\ [SnakeNext]_snakevars => SnakeInv'
    BY SnakeStep
  <1>3. SnakeInv => SnakeExact
    BY SnakeInvExact
  <1> QED
    BY <1>1, <1>2, <1>3, PTL DEF SnakeSpec
=============================================================================
