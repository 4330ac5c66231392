------------------------------- MODULE MCLibs -------------------------------
(***************************************************************************)
(* The kernel library on small instances: one behaviour uses the tree, one *)
(* the string functions, one the formatted output and readline.  They      *)
(* share no state, so the job is chosen at the start.                      *)
(***************************************************************************)
EXTENDS RbTree, Strings, Printfmt

VARIABLES job,     \* what this behaviour exercises
          formatted  \* the last call of a printing function or of readline
libsvars == <<rbvars, strvars, formatted>>

TreeKeys == [n \in Nodes |-> IF n = 1 THEN 1 ELSE n - 1]   \* two nodes share key 1

NoCall == [fn |-> "none"]

Numbers == {0, 10, 99, 100, 1000000, 2147483647}
Texts == {<< >>, <<"a">>, <<"a", "^G", "b", "a">>}
Values(conv) == CASE conv = "d" -> Numbers \cup {-n : n \in Numbers}
                  [] conv \in {"x", "p"} -> Numbers
                  [] conv = "s" -> Texts
                  [] conv = "e" -> {-MAXERROR - 1, -MAXERROR, -1, 0, 1, 7, 8, MAXERROR, MAXERROR + 1}
                  [] OTHER -> {"a"}
Directives ==
  [flag : {<< >>, <<"-">>, <<"0">>, <<"#">>, <<"l">>}, star : BOOLEAN, width : {NoValue, 4, 12},
   precision : {NoValue, 1, 3}, conv : {"d", "x", "p", "s", "e", "c", "%", "u"}]
Sizes == {0, 1, 4, 40}
Typed == UNION {[1..n -> {"a", "b", "^H", "^G", "\n"}] : n \in 0..5}

Arguments(d, arg) ==
  (IF d.star THEN <<d.width>> ELSE << >>)
  \o (IF d.conv \in {"%", "u"} THEN << >> ELSE <<arg>>) \o <<7>>

Format(d, arg, size) ==
  /\ d.star => d.width # NoValue /\ d.conv # "u"
  /\ formatted' = [fn |-> "vsnprintf", d |-> d, arg |-> arg, size |-> size,
                 result |-> vsnprintf(size, <<"a">> \o Written(d) \o <<"~", "%", "d">>,
                                      Arguments(d, arg))]

FormatNull == formatted' = [fn |-> "vsnprintf", arg |-> NullText, size |-> 40,
                          d |-> [flag |-> << >>, star |-> FALSE, width |-> 8,
                                 precision |-> 3, conv |-> "s"],
                          result |-> vsnprintf(40, <<"a","%","8",".","3","s","~","%","d">>, <<Null, 7>>)]

PrintNumber(n) ==
  \/ formatted' = [fn |-> "printbase10", arg |-> n, result |-> printbase10(n)]
  \/ formatted' = [fn |-> "printbase10", arg |-> -n, result |-> printbase10(-n)]
  \/ formatted' = [fn |-> "printhex", arg |-> n, result |-> printhex(n)]
  \/ formatted' = [fn |-> "divu10", arg |-> n, result |-> __divu10(n)]

PrintLine(s) ==
  \/ formatted' = [fn |-> "kputs", arg |-> s, result |-> kputs(s)]
  \/ formatted' = [fn |-> "kprintf", arg |-> s, result |-> kprintf(<<"b", "%", "s">>, <<s>>)]
TypeLine(s)  == formatted' = [fn |-> "readline", arg |-> s, result |-> readline(s)]

FormatNext ==
  \/ /\ formatted = NoCall
     /\ \/ \E d \in Directives : \E arg \in Values(d.conv), size \in Sizes : Format(d, arg, size)
        \/ FormatNull
        \/ \E n \in Numbers \cup 0..1100 : PrintNumber(n)
        \/ \E s \in Texts : PrintLine(s)
        \/ \E s \in Typed : TypeLine(s)
  \/ formatted # NoCall /\ formatted' = NoCall

LibsInit == RbInit /\ StringsInit /\ formatted = NoCall

LibsNext == \/ job = "tree" /\ RbNext /\ UNCHANGED <<strvars, formatted>>
            \/ job = "strings" /\ StringsNext /\ UNCHANGED <<rbvars, formatted>>
            \/ job = "format" /\ FormatNext /\ UNCHANGED <<rbvars, strvars>>

\* The byte loops of string.c and the interpreter of printfmt.c compute what
\* the functions promise, for every call of the instance.
TextExact == StringsExact /\ FormatExact(formatted)
=============================================================================
