------------------------------ MODULE Printfmt ------------------------------
(***************************************************************************)
(* Formatted output and line input of the kernel library: kern/libs/       *)
(* printfmt.c, the printing half of kern/libs/stdio.c, readline.c and the  *)
(* division by ten of thumips.h.  A character is a one-letter string, a    *)
(* string a sequence of them; what putch or cons_putc receives is the      *)
(* value of the operator.  Numbers are the non-negative half of the 32-bit *)
(* unsigned ones (TLC's integers end at 2^31 - 1).                         *)
(***************************************************************************)
EXTENDS Integers, Sequences, SequencesExt, FiniteSetsExt

CONSTANT BUFSIZE    \* readline's buffer

ASSUME BufferAssumption == BUFSIZE \in Nat \ {0}

Null == "NULL"
E_INVAL == 3
MAXERROR == 24
NoValue == -1     \* width or precision not given

Control == {"^G"}   \* a character below the space
LowerDigits == <<"0","1","2","3","4","5","6","7","8","9","a","b","c","d","e","f">>
UpperDigits == <<"0","1","2","3","4","5","6","7","8","9","A","B","C","D","E","F">>
DecimalValue(ch) == CHOOSE v \in 0..9 : LowerDigits[v + 1] = ch
IsDigit(ch) == ch \in {LowerDigits[v + 1] : v \in 0..9}

\* error_string: the entries that are not NULL.  One token stands for the letters
\* of a message that is not cut.
Named == (1..MAXERROR) \ {7, 11, 12}
error_string(err) == <<<<"message", err>>>>

NullText == <<"(null)">>
ErrorText == <<"error ">>

Pad(ch, n) == [i \in 1..(IF n > 0 THEN n ELSE 0) |-> ch]

-----------------------------------------------------------------------------
__mulu10(n) == n * 8 + n * 2
Estimate(n) ==
  LET q0 == (n \div 2) + (n \div 4)
      q1 == q0 + (q0 \div 16)
      q2 == q1 + (q1 \div 256)
      q3 == q2 + (q2 \div 65536)
  IN q3 \div 8
__divu10_estimate(n) == Estimate(n)
__divu10(n) ==
  LET q == Estimate(n)
      r == n - __mulu10(q)
  IN q + ((r + 6) \div 16)

RECURSIVE printnum(_, _, _, _)
printnum(num, base, width, padc) ==
  LET result == CASE base = 10 -> __divu10(num) [] base = 8 -> num \div 8 [] OTHER -> num \div 16
      mod == CASE base = 10 -> num - __mulu10(result) [] base = 8 -> num % 8 [] OTHER -> num % 16
      before == IF num >= base THEN printnum(result, base, width - 1, padc)
                               ELSE Pad(padc, width - 1)
  IN Append(before, LowerDigits[mod + 1])

\* case 's': w is the width that is left after each of the three loops.
FormatString(str, width, precision, padc, alt) ==
  LET p == IF str = Null THEN NullText ELSE str
      n == IF precision < 0 THEN Len(p) ELSE Min({Len(p), precision})
      lead == IF width > 0 /\ padc # "-" THEN Pad(padc, width - n) ELSE << >>
      w == IF width > 0 /\ padc # "-" THEN Min({width - n, 0}) ELSE width
      body == [i \in 1..n |-> IF alt /\ p[i] \in Control THEN "?" ELSE p[i]]
  IN lead \o body \o Pad(" ", w - n)

FormatNumber(num, width, padc) ==
  IF num < 0 THEN <<"-">> \o printnum(-num, 10, width, padc) ELSE printnum(num, 10, width, padc)

FormatError(arg) ==
  LET err == IF arg < 0 THEN -arg ELSE arg
  IN IF err \notin Named
     THEN ErrorText \o FormatNumber(err, NoValue, " ")
     ELSE FormatString(error_string(err), NoValue, NoValue, " ", FALSE)

\* The width field: the digits from i on, and where they end.
DigitsEnd(fmt, i) ==
  Min({j \in i..(Len(fmt) + 1) : j = Len(fmt) + 1 \/ ~IsDigit(fmt[j])})
RECURSIVE Number(_, _, _)
Number(fmt, i, end) ==
  IF i = end THEN 0 ELSE Number(fmt, i, end - 1) * 10 + DecimalValue(fmt[end - 1])

process_precision(f, n) ==
  IF f.width < 0 THEN [f EXCEPT !.width = n] ELSE [f EXCEPT !.precision = n]

\* vprintfmt: Literal is the outer loop, Reswitch the switch at label
\* reswitch, f the flags gathered since the '%' at index start.
RECURSIVE Literal(_, _, _), Reswitch(_, _, _, _, _)
Literal(fmt, i, ap) ==
  IF i > Len(fmt) THEN << >>
  ELSE IF fmt[i] # "%" THEN <<fmt[i]>> \o Literal(fmt, i + 1, ap)
  ELSE Reswitch(fmt, i + 1, i, ap, [padc |-> " ", width |-> NoValue,
                                    precision |-> NoValue, alt |-> FALSE])
Reswitch(fmt, i, start, ap, f) ==
  LET ch == IF i > Len(fmt) THEN "" ELSE fmt[i]
      Flag(g) == Reswitch(fmt, i + 1, start, ap, g)
      Done(out) == out \o Literal(fmt, i + 1, Tail(ap))
  IN CASE ch \in {"-", "0"} -> Flag([f EXCEPT !.padc = ch])
       [] ch # "0" /\ IsDigit(ch) ->
            LET j == DigitsEnd(fmt, i)
            IN Reswitch(fmt, j, start, ap, process_precision(f, Number(fmt, i, j)))
       [] ch = "*" -> Reswitch(fmt, i + 1, start, Tail(ap), process_precision(f, Head(ap)))
       [] ch = "." -> Flag([f EXCEPT !.width = IF @ < 0 THEN 0 ELSE @])
       [] ch = "#" -> Flag([f EXCEPT !.alt = TRUE])
       [] ch = "l" -> Flag(f)
       [] ch = "c" -> Done(<<Head(ap)>>)
       [] ch = "e" -> Done(FormatError(Head(ap)))
       [] ch = "s" -> Done(FormatString(Head(ap), f.width, f.precision, f.padc, f.alt))
       [] ch = "d" -> Done(FormatNumber(Head(ap), f.width, f.padc))
       [] ch = "p" -> Done(<<"0", "x">> \o printnum(Head(ap), 16, f.width, f.padc))
       [] ch = "x" -> Done(printnum(Head(ap), 16, f.width, f.padc))
       [] ch = "%" -> <<"%">> \o Literal(fmt, i + 1, ap)
       [] OTHER -> <<"%">> \o Literal(fmt, start + 1, ap)    \* not a directive: as it stands

vprintfmt(fmt, ap) == Literal(fmt, 1, ap)

\* A buffer of size bytes: sprintputch keeps what fits before ebuf and counts
\* everything, vsnprintf refuses a size of 0 and ends the string.
sprintputch(b, ch) ==
  [b EXCEPT !.cnt = @ + 1, !.buf = IF Len(@) < b.room THEN Append(@, ch) ELSE @]
vsnprintf(size, fmt, ap) ==
  IF size = 0 THEN [ret |-> -E_INVAL, str |-> << >>]
  ELSE LET b == FoldLeft(sprintputch, [cnt |-> 0, buf |-> << >>, room |-> size - 1],
                         vprintfmt(fmt, ap))
       IN [ret |-> b.cnt, str |-> Append(b.buf, "NUL")]

-----------------------------------------------------------------------------
RECURSIVE HexDigits(_, _), Base10(_)
HexDigits(x, i) ==
  IF i < 0 THEN << >> ELSE HexDigits(x \div 16, i - 1) \o <<UpperDigits[(x % 16) + 1]>>
printhex(x) == HexDigits(x, 7)

Base10(x) ==
  IF x >= 10 THEN LET t == __divu10(x) IN Base10(t) \o <<LowerDigits[x - __mulu10(t) + 1]>>
  ELSE <<LowerDigits[x + 1]>>
printbase10(x) == (IF x < 0 THEN <<"-">> ELSE << >>) \o Base10(IF x < 0 THEN -x ELSE x)

\* cputch shows a character on the console and counts it.
cputch(c, ch) == [cnt |-> c.cnt + 1, out |-> Append(c.out, ch)]
Shown(chars) == FoldLeft(cputch, [cnt |-> 0, out |-> << >>], chars)
kprintf(fmt, ap) == Shown(vprintfmt(fmt, ap))
kputs(str) == cputch(Shown(str), "\n")

\* readline: each character getchar returns, up to the first line end; text
\* is buf[0 .. i-1], echo what kputchar has shown.
Editable(ch) == ch \notin {"^H", "\n", "\r"} \cup Control
LineEnd(ch) == ch \in {"\n", "\r"}
ReadChar(st, ch) ==
  IF st.done THEN st
  ELSE IF Editable(ch) /\ Len(st.text) < BUFSIZE - 1
  THEN [st EXCEPT !.text = Append(@, ch), !.echo = Append(@, ch)]
  ELSE IF ch = "^H" /\ st.text # << >>
  THEN [st EXCEPT !.text = Front(@), !.echo = Append(@, ch)]
  ELSE IF LineEnd(ch) THEN [st EXCEPT !.done = TRUE, !.echo = Append(@, ch)]
  ELSE st
readline(typed) ==
  FoldLeft(ReadChar, [text |-> << >>, echo |-> << >>, done |-> FALSE], typed)

-----------------------------------------------------------------------------
(* What the functions promise, without recursion.                          *)
Digits(n, base, names) ==
  LET len == Min({l \in 1..(IF base = 10 THEN 10 ELSE 8) : n \div base ^ (l - 1) < base})
  IN [k \in 1..len |-> names[((n \div base ^ (len - k)) % base) + 1]]

\* d: one directive with its flag, width, precision and conversion; the text
\* around it must come out untouched and the argument that follows unread.
Numeral(n) == IF n = NoValue THEN << >> ELSE Digits(n, 10, LowerDigits)
Written(d) ==
  <<"%">> \o d.flag \o (IF d.star THEN <<"*">> ELSE Numeral(d.width))
  \o (IF d.precision = NoValue THEN << >> ELSE <<".">> \o Numeral(d.precision)) \o <<d.conv>>

\* '-': "flag to pad on the right" (printfmt.c:156), '0': "to pad with 0's".  Every
\* code of error.h has its message: "keep in sync with list in lib/printfmt.c".
Padded(flag, width, text) ==
  IF flag = <<"-">> THEN text \o Pad(" ", width - Len(text))
  ELSE Pad(IF flag = <<"0">> THEN "0" ELSE " ", width - Len(text)) \o text
Expected(d, arg) ==
  LET numeral == IF d.conv = "d" /\ arg < 0 THEN Digits(-arg, 10, LowerDigits)
                 ELSE Digits(arg, IF d.conv = "d" THEN 10 ELSE 16, LowerDigits)
      cut == IF d.precision = NoValue THEN arg ELSE SubSeq(arg, 1, Min({Len(arg), d.precision}))
      safe == [i \in DOMAIN cut |-> IF d.flag = <<"#">> /\ cut[i] \in Control THEN "?" ELSE cut[i]]
      err == IF arg < 0 THEN -arg ELSE arg
  IN CASE d.conv = "d" -> (IF arg < 0 THEN <<"-">> ELSE << >>) \o Padded(d.flag, d.width, numeral)
       [] d.conv = "x" -> Padded(d.flag, d.width, numeral)
       [] d.conv = "p" -> <<"0", "x">> \o Padded(d.flag, d.width, numeral)
       [] d.conv = "s" -> Padded(d.flag, d.width, safe)
       [] d.conv = "e" -> IF err \in 1..MAXERROR THEN error_string(err)
                          ELSE ErrorText \o Digits(err, 10, LowerDigits)
       [] d.conv = "c" -> <<arg>>
       [] d.conv = "%" -> <<"%">>
       [] OTHER -> Written(d)

\* Where the code is known to do something else: it puts dashes on the left of a
\* number, and three error codes have no message.
Divergent(d, arg) ==
  \/ d.flag = <<"-">> /\ d.conv \in {"d", "x", "p"}
  \/ d.conv = "e" /\ {arg, -arg} \cap ((1..MAXERROR) \ Named) # {}

\* The screen after a stream of characters, and after the line that was typed.
Screen(chars) ==
  FoldLeft(LAMBDA s, ch : IF ch = "^H" THEN Front(s) ELSE Append(s, ch), << >>, chars)

\* printf prints the digits, padding and cut the directive asks for, but for the
\* two divergent cases; a buffer receives the part that fits and the count of
\* everything; the division by ten and the two number printers agree with
\* positional notation; and the line readline returns is the line the echo leaves
\* on the screen.
FormatExact(c) ==
  CASE c.fn = "vsnprintf" /\ ~Divergent(c.d, c.arg) ->
         LET all == <<"a">> \o Expected(c.d, c.arg) \o <<"~">> \o Digits(7, 10, LowerDigits)
         IN c.result = IF c.size = 0 THEN [ret |-> -E_INVAL, str |-> << >>]
                       ELSE [ret |-> Len(all),
                             str |-> Append(SubSeq(all, 1, Min({c.size - 1, Len(all)})), "NUL")]
    [] c.fn = "printhex"    -> c.result = [k \in 1..8 |->
                                 UpperDigits[((c.arg \div 16 ^ (8 - k)) % 16) + 1]]
    [] c.fn = "printbase10" -> c.result = (IF c.arg < 0 THEN <<"-">> ELSE << >>)
                                 \o Digits(IF c.arg < 0 THEN -c.arg ELSE c.arg, 10, LowerDigits)
    [] c.fn = "divu10"      -> c.result = c.arg \div 10
    [] c.fn = "kputs"       -> c.result = [cnt |-> Len(c.arg) + 1, out |-> c.arg \o <<"\n">>]
    [] c.fn = "kprintf"     -> c.result = [cnt |-> Len(c.arg) + 1, out |-> <<"b">> \o c.arg]
    [] c.fn = "readline"    ->
         LET st == c.result
             shown == IF st.done THEN Front(st.echo) ELSE st.echo
         IN /\ Len(st.text) < BUFSIZE
            /\ Screen(shown) = st.text
            /\ st.done = \E i \in DOMAIN c.arg : LineEnd(c.arg[i])
            /\ st.done => LineEnd(Last(st.echo))
    [] OTHER -> TRUE
=============================================================================
