------------------------------ MODULE Console ------------------------------
(***************************************************************************)
(* The kernel's console (kern/driver/console.c): characters in from the    *)
(* serial port and the keyboard, by interrupt, through the ring of         *)
(* cons_intr to the stdin device; characters out to the serial port, each  *)
(* marked TERMINAL_OUTPUT_MAGIC, and to the screen (ours/vga.c).  The      *)
(* serial port (armcpu/src/serial_port.v) has room for one received byte.  *)
(* A character is its code.                                                *)
(***************************************************************************)
EXTENDS Integers, Sequences, SequencesExt

CONSTANTS CONSBUFSIZE, NR_ROW, NR_COL

ASSUME ConsoleAssumption == CONSBUFSIZE > 1 /\ NR_ROW > 0 /\ NR_COL > 1

NUL == 0
BS == 8
LF == 10
CR == 13
SPACE == 32
CURSOR == 95     \* '_'
DEL == 127
TERMINAL_OUTPUT_MAGIC == 116   \* 't'
NoByte == -1

VARIABLES cpu,       \* what the processor does: a process runs, or the kernel
          com,      \* the byte in the serial port's receiver, or NoByte
          cons,     \* cons.buf, cons.rpos, cons.wpos
          vga,      \* buf_mem, buf, actual_screen, row, col, prev_ch; the screen
          tohost,   \* bytes sent and not yet read by the terminal
          accepted, \* history: characters that came in, those of them the
          stdin,    \*   handlers gave to dev_stdin_write, and whether the
          overrun,  \*   ring was ever filled
          printed   \* history: the characters given to cons_putc
consolevars == <<cpu, com, cons, vga, tohost, accepted, stdin, overrun, printed>>

-----------------------------------------------------------------------------
(* ours/vga.c.  The screen's memory is what was painted last in each cell. *)
Rows == 0..(NR_ROW - 1)
Cols == 0..(NR_COL - 1)

render_char(v, c, row, col) ==
  LET ch == IF c < SPACE \/ c > 127 THEN SPACE ELSE c
      written == [v EXCEPT !.mem[v.buf[row]][col] = ch]
  IN IF v.actual[row][col] = ch THEN written
     ELSE [written EXCEPT !.actual[row][col] = ch, !.screen[row][col] = ch]

ScreenCells == [i \in 1..(NR_ROW * NR_COL) |-> <<(i - 1) \div NR_COL, (i - 1) % NR_COL>>]
RenderAll(v) == FoldLeft(LAMBDA w, at : render_char(w, w.mem[w.buf[at[1]]][at[2]], at[1], at[2]), v, ScreenCells)

vga_init ==
  LET blank == [r \in Rows |-> [c \in Cols |-> NUL]]
      nothing == [r \in Rows |-> [c \in Cols |-> -1]]
  IN render_char(RenderAll([mem |-> blank, buf |-> [r \in Rows |-> r], actual |-> nothing,
                            screen |-> nothing, row |-> 0, col |-> 0, prev |-> NUL]), CURSOR, 0, 0)

\* The rows' pointers move up by one; the row that leaves is cleared and reused.
scroll_uncleared(v) ==
  RenderAll([v EXCEPT !.buf = [r \in Rows |-> IF r = NR_ROW - 1 THEN v.buf[0] ELSE v.buf[r + 1]],
                      !.row = NR_ROW - 1])
scroll(v) ==
  RenderAll([v EXCEPT !.buf = [r \in Rows |-> IF r = NR_ROW - 1 THEN v.buf[0] ELSE v.buf[r + 1]],
                      !.mem[v.buf[0]] = [c \in Cols |-> NUL],
                      !.row = NR_ROW - 1])

WithCursor(v) == render_char(v, CURSOR, v.row, v.col)
vga_putch(v, ch) ==
  LET next == [v EXCEPT !.prev = ch]
      rendered == render_char(next, ch, v.row, v.col)
      full == ch \in {CR, LF} \/ v.col + 1 = NR_COL
      moved == IF ~full THEN [rendered EXCEPT !.col = @ + 1]
               ELSE IF v.row + 1 < NR_ROW THEN [rendered EXCEPT !.row = @ + 1, !.col = 0]
               ELSE scroll([rendered EXCEPT !.col = 0])
  IN IF v.prev = CR /\ ch = LF THEN next
     ELSE IF ch = BS
          THEN WithCursor([render_char(next, SPACE, v.row, v.col) EXCEPT !.col = IF @ > 0 THEN @ - 1 ELSE @])
     ELSE WithCursor(moved)

-----------------------------------------------------------------------------
(* Out: each byte waits until the transmitter is ready, as it always comes *)
(* to be, and nothing comes between because interrupts are off.            *)
serial_putc_sub(c) == <<TERMINAL_OUTPUT_MAGIC, c>>
serial_putc(c) ==
  IF c = BS THEN serial_putc_sub(BS) \o serial_putc_sub(SPACE) \o serial_putc_sub(BS)
  ELSE serial_putc_sub(c)

cons_putc(c) ==
  /\ tohost' = tohost \o serial_putc(c)
  /\ vga' = vga_putch(vga, c)
  /\ printed' = Append(printed, c)

(* In.                                                                     *)
serial_proc_data == IF com = DEL THEN BS ELSE com     \* NoByte is the -1 of the code

Wrapped(pos) == IF pos + 1 = CONSBUFSIZE THEN 0 ELSE pos + 1

\* Interrupts are on only while a process runs.
serial_interrupt ==
  /\ cpu = "user" /\ com # NoByte
  /\ cpu' = "serial_intr"
  /\ UNCHANGED <<com, cons, vga, tohost, accepted, stdin, overrun, printed>>

\* One turn of the loop of cons_intr; the port may receive between two turns.
cons_intr ==
  /\ cpu = "serial_intr" /\ com # NoByte
  /\ com' = NoByte
  /\ IF serial_proc_data = NUL THEN UNCHANGED <<cons, accepted, overrun>>
     ELSE /\ cons' = [cons EXCEPT !.buf[cons.wpos] = serial_proc_data, !.wpos = Wrapped(@)]
          /\ accepted' = Append(accepted, serial_proc_data)
          /\ overrun' = (overrun \/ cons'.wpos = cons.rpos)
  /\ UNCHANGED <<cpu, vga, tohost, stdin, printed>>

\* The rest of cons_getc, and of serial_int_handler: dev_stdin_write drops 0.
cons_getc ==
  /\ cpu = "serial_intr" /\ com = NoByte
  /\ cpu' = "user"
  /\ IF cons.rpos = cons.wpos THEN UNCHANGED <<cons, stdin>>
     ELSE /\ stdin' = Append(stdin, cons.buf[cons.rpos])
          /\ cons' = [cons EXCEPT !.rpos = Wrapped(@)]
  /\ UNCHANGED <<com, vga, tohost, accepted, overrun, printed>>

ConsoleInit ==
  /\ cpu = "user" /\ com = NoByte
  /\ cons = [buf |-> [i \in 0..(CONSBUFSIZE - 1) |-> NUL], rpos |-> 0, wpos |-> 0]
  /\ vga = vga_init /\ tohost = << >>
  /\ accepted = << >> /\ stdin = << >> /\ overrun = FALSE /\ printed = << >>

-----------------------------------------------------------------------------
\* What the ring holds, oldest first.
Waiting == LET n == (cons.wpos - cons.rpos + CONSBUFSIZE) % CONSBUFSIZE
           IN [i \in 1..n |-> cons.buf[(cons.rpos + i - 1) % CONSBUFSIZE]]

\* A reference for the screen: all the lines a text makes, each of NR_COL cells.
BlankLine == [c \in Cols |-> SPACE]
Fresh == [lines |-> <<BlankLine>>, col |-> 0, prev |-> NUL]
Typeset(t, ch) ==
  LET line == t.lines[Len(t.lines)]
      shown == IF ch < SPACE THEN SPACE ELSE ch
      here == [t.lines EXCEPT ![Len(t.lines)] = [line EXCEPT ![t.col] = shown]]
      back == IF t.col > 0 THEN t.col - 1 ELSE 0
  IN CASE t.prev = CR /\ ch = LF -> [t EXCEPT !.prev = ch]
       [] ch = BS -> [lines |-> [t.lines EXCEPT ![Len(t.lines)] = [line EXCEPT ![t.col] = SPACE, ![back] = SPACE]],
                      col |-> back, prev |-> ch]
       [] ch \in {CR, LF} \/ t.col + 1 = NR_COL -> [lines |-> Append(here, BlankLine), col |-> 0, prev |-> ch]
       [] OTHER -> [lines |-> here, col |-> t.col + 1, prev |-> ch]
TextPrinted == FoldLeft(Typeset, Fresh, printed)
ScreenWanted ==
  LET last == Len(TextPrinted.lines)
      first == IF last > NR_ROW THEN last - NR_ROW ELSE 0
  IN [r \in Rows |-> [c \in Cols |->
        IF first + r + 1 = last /\ c = TextPrinted.col THEN CURSOR
        ELSE IF first + r + 1 <= last THEN TextPrinted.lines[first + r + 1][c] ELSE SPACE]]

\* The console loses, doubles and reorders nothing: the screen shows the end
\* of what was printed, though cells are only painted when actual_screen says
\* they changed; each character received is given to dev_stdin_write or waits
\* in the ring, in order, as long as the ring was never filled.
ConsoleExact ==
  /\ vga.screen = ScreenWanted /\ vga.actual = vga.screen
  /\ ~overrun => accepted = stdin \o Waiting
=============================================================================
