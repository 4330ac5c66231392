------------------------------- MODULE Snake -------------------------------
(***************************************************************************)
(* The game of ours/snake: the snake is a queue of coordinates in a ring   *)
(* with one cell more than the board, kept beside the map of the board     *)
(* that update_snake looks at and the picture on the screen.  The game     *)
(* runs with interrupts off, so a step is a turn of the loop of _start.    *)
(* The speed of the game and the numbers of rand are left open; of the     *)
(* drawing only which picture is where.                                    *)
(***************************************************************************)
EXTENDS Integers, FiniteSets

CONSTANTS SCREEN_WIDTH, SCREEN_HEIGHT,
          MaxApples    \* 50 - 45: gen_apple stops at this number

ASSUME SnakeAssumption ==
  /\ SCREEN_WIDTH \in Nat /\ SCREEN_WIDTH >= 4
  /\ SCREEN_HEIGHT \in Nat /\ SCREEN_HEIGHT >= 1
  /\ MaxApples \in Nat

SNAKE_NR_CELL == SCREEN_WIDTH * SCREEN_HEIGHT + 1
Squares == [x : 0..SCREEN_WIDTH-1, y : 0..SCREEN_HEIGHT-1]
Dirs == {"UP", "DOWN", "LEFT", "RIGHT"}

VARIABLES snake,         \* head_dir, coord, head, tail
          map, screen,   \* place -> "SNAKE", "APPLE" or "EMPTY"
          cur_nr_apple, score,
          mode           \* the next of _start: "update_snake" or "gen_apple", or
                         \*   "game_over" (in its loop), or "exited"
snakevars == <<snake, map, screen, cur_nr_apple, score, mode>>

\* rand is a multiply-with-carry generator seeded by the clock: any number.
rand_in_range(range) == 0..range-1

draw_image(scr, img, place) == [scr EXCEPT ![place] = img]

is_opposite_dir(d0, d1) ==
  <<d0, d1>> \in {<<"UP", "DOWN">>, <<"DOWN", "UP">>, <<"LEFT", "RIGHT">>, <<"RIGHT", "LEFT">>}

\* Mutant: the spare cell of the ring is not used.
forward_cirqueue_ptr_short(ptr) == IF ptr + 1 = SNAKE_NR_CELL - 1 THEN 0 ELSE ptr + 1

forward_cirqueue_ptr(ptr) == IF ptr + 1 = SNAKE_NR_CELL THEN 0 ELSE ptr + 1

\* The board wraps around at its edges.
apply_dir_to_coord(place, dir) ==
  CASE dir = "UP"    -> [place EXCEPT !.y = IF @ - 1 < 0 THEN SCREEN_HEIGHT - 1 ELSE @ - 1]
    [] dir = "DOWN"  -> [place EXCEPT !.y = IF @ + 1 = SCREEN_HEIGHT THEN 0 ELSE @ + 1]
    [] dir = "LEFT"  -> [place EXCEPT !.x = IF @ - 1 < 0 THEN SCREEN_WIDTH - 1 ELSE @ - 1]
    [] dir = "RIGHT" -> [place EXCEPT !.x = IF @ + 1 = SCREEN_WIDTH THEN 0 ELSE @ + 1]

At(x, y) == [x |-> x, y |-> y]

\* init_snake: four cells of the first row, the head at the right.  The cells of
\* the ring outside the queue hold At(0, 0): nobody reads what the code leaves there.
InitSnake ==
  /\ snake = [head_dir |-> "RIGHT", head |-> 3, tail |-> 0,
              coord |-> [i \in 0..SNAKE_NR_CELL-1 |-> IF i <= 3 THEN At(i, 0) ELSE At(0, 0)]]
  /\ map = [p \in Squares |-> IF p.y = 0 /\ p.x <= 3 THEN "SNAKE" ELSE "EMPTY"]
  /\ screen = map
  /\ cur_nr_apple = 0 /\ score = 0 /\ mode = "update_snake"

\* A bite ends the game with the head moved on the ring and the board as it was.
update_snake(new_dir) ==
  LET dir == IF new_dir = "NONE" THEN snake.head_dir ELSE new_dir
      head == forward_cirqueue_ptr(snake.head)
      place == apply_dir_to_coord(snake.coord[snake.head], dir)
      moved == [snake EXCEPT !.head_dir = dir, !.head = head, !.coord[head] = place]
      old_tail == moved.coord[snake.tail]
  IN  /\ ~is_opposite_dir(new_dir, snake.head_dir)
      /\ \/ /\ map[place] = "SNAKE"
            /\ mode' = "game_over" /\ snake' = moved
            /\ UNCHANGED <<map, screen, cur_nr_apple, score>>
         \/ /\ map[place] = "APPLE"
            /\ snake' = moved
            /\ map' = [map EXCEPT ![place] = "SNAKE"]
            /\ screen' = draw_image(screen, "SNAKE", place)
            /\ cur_nr_apple' = cur_nr_apple - 1 /\ score' = score + 1
            /\ mode' = "gen_apple"
         \/ /\ map[place] = "EMPTY"
            /\ snake' = [moved EXCEPT !.tail = forward_cirqueue_ptr(@), !.coord[snake.tail] = At(0, 0)]
            /\ map' = [map EXCEPT ![old_tail] = "EMPTY", ![place] = "SNAKE"]
            /\ screen' = draw_image(draw_image(screen, "SNAKE", place), "EMPTY", old_tail)
            /\ mode' = "gen_apple"
            /\ UNCHANGED <<cur_nr_apple, score>>

\* A key or none, and a move; a turn back is not one.
Turn ==
  /\ mode = "update_snake"
  /\ \E new_dir \in Dirs \cup {"NONE"} :
        \/ update_snake(new_dir)
        \/ /\ is_opposite_dir(new_dir, snake.head_dir)
           /\ mode' = "gen_apple"
           /\ UNCHANGED <<snake, map, screen, cur_nr_apple, score>>

\* Up to five tries to hit an empty cell, none if the first number says so or if
\* there are enough apples.
gen_apple ==
  /\ mode = "gen_apple" /\ mode' = "update_snake"
  /\ \/ UNCHANGED <<map, screen, cur_nr_apple>>
     \/ /\ cur_nr_apple < MaxApples
        /\ \E x \in rand_in_range(SCREEN_WIDTH), y \in rand_in_range(SCREEN_HEIGHT) :
              /\ map[At(x, y)] = "EMPTY"
              /\ map' = [map EXCEPT ![At(x, y)] = "APPLE"]
              /\ screen' = draw_image(screen, "APPLE", At(x, y))
        /\ cur_nr_apple' = cur_nr_apple + 1
  /\ UNCHANGED <<snake, score>>

\* The key q, in the game or after it.
exit ==
  /\ mode \in {"update_snake", "game_over"}
  /\ mode' = "exited"
  /\ UNCHANGED <<snake, map, screen, cur_nr_apple, score>>

SnakeNext == Turn \/ gen_apple \/ exit
SnakeSpec == InitSnake /\ [][SnakeNext]_snakevars

-----------------------------------------------------------------------------
\* The ring from tail to head; the head that has bitten is not on the board.
BodyLength == 1 + ((snake.head - snake.tail + SNAKE_NR_CELL) % SNAKE_NR_CELL)
Body(i) == snake.coord[(snake.tail + i) % SNAKE_NR_CELL]
OnBoard == IF mode = "game_over" THEN BodyLength - 1 ELSE BodyLength

\* Up to a board that is full, the queue of the snake, the map and the screen
\* agree: the queue is a path of different cells whose last step is head_dir, its
\* cells are those the map calls SNAKE, the counters count apples and growth, and
\* the game is over only if the head has run into the body (update_snake,
\* forward_cirqueue_ptr, gen_apple).
SnakeExact ==
  mode # "exited" =>
    /\ {Body(i) : i \in 0..OnBoard-1} = {p \in Squares : map[p] = "SNAKE"}
    /\ Cardinality({Body(i) : i \in 0..OnBoard-1}) = OnBoard
    /\ \A i \in 1..BodyLength-1 : \E d \in Dirs : Body(i) = apply_dir_to_coord(Body(i-1), d)
    /\ Body(BodyLength-1) = apply_dir_to_coord(Body(BodyLength-2), snake.head_dir)
    /\ score = OnBoard - 4
    /\ cur_nr_apple = Cardinality({p \in Squares : map[p] = "APPLE"}) /\ cur_nr_apple <= MaxApples
    /\ screen = map
    /\ mode = "game_over" => map[Body(BodyLength-1)] = "SNAKE"
=============================================================================
