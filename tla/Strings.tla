------------------------------ MODULE Strings ------------------------------
(***************************************************************************)
(* The string and memory functions of kern/libs/string.c, byte loop by     *)
(* byte loop, over a small memory, and what each of them is defined to     *)
(* return.  A pointer is an address of mem, NULL is -1, '\0' is 0.         *)
(***************************************************************************)
EXTENDS Integers, Sequences, SequencesExt, FiniteSetsExt

CONSTANTS Cells,  \* the memory is the addresses 0 .. Cells - 1
          Bytes   \* the values a byte takes, 0 among them

ASSUME StringsAssumption == Cells \in Nat \ {0} /\ Bytes \subseteq 0..255 /\ 0 \in Bytes

NULL_ == -1
Addr == 0..(Cells - 1)

VARIABLES mem,   \* the bytes
          call   \* the last call: function, arguments, memory before, result
strvars == <<mem, call>>

-----------------------------------------------------------------------------
RECURSIVE strlen(_, _), strnlen(_, _, _), strcpy(_, _, _), strncpy(_, _, _, _),
          strcmp(_, _, _), strncmp(_, _, _, _), strchr(_, _, _), strfind(_, _, _),
          memset(_, _, _, _), memcpy(_, _, _, _), MoveDown(_, _, _, _), memcmp(_, _, _, _)

strlen(m, s) == IF m[s] = 0 THEN 0 ELSE 1 + strlen(m, s + 1)

strnlen(m, s, len) ==
  IF len = 0 THEN 0 ELSE IF m[s] = 0 THEN 0 ELSE 1 + strnlen(m, s + 1, len - 1)

strcpy(m, p, src) ==
  LET copied == [m EXCEPT ![p] = m[src]]
  IN IF m[src] = 0 THEN copied ELSE strcpy(copied, p + 1, src + 1)

strncpy(m, p, src, len) ==
  IF len = 0 THEN m
  ELSE strncpy([m EXCEPT ![p] = m[src]], p + 1, IF m[src] = 0 THEN src ELSE src + 1, len - 1)

strcmp(m, s1, s2) ==
  IF m[s1] # 0 /\ m[s1] = m[s2] THEN strcmp(m, s1 + 1, s2 + 1) ELSE m[s1] - m[s2]

strncmp(m, s1, s2, n) ==
  IF n = 0 THEN 0
  ELSE IF m[s1] # 0 /\ m[s1] = m[s2] THEN strncmp(m, s1 + 1, s2 + 1, n - 1)
  ELSE m[s1] - m[s2]

strchr(m, s, c) ==
  IF m[s] = 0 THEN NULL_ ELSE IF m[s] = c THEN s ELSE strchr(m, s + 1, c)

strfind(m, s, c) == IF m[s] \in {0, c} THEN s ELSE strfind(m, s + 1, c)

memset(m, s, c, n) == IF n = 0 THEN m ELSE memset([m EXCEPT ![s] = c], s + 1, c, n - 1)

memcpy(m, d, s, n) ==
  IF n = 0 THEN m ELSE memcpy([m EXCEPT ![d] = m[s]], d + 1, s + 1, n - 1)

\* memmove's backward loop, from the ends of both areas
MoveDown(m, d, s, n) ==
  IF n = 0 THEN m ELSE MoveDown([m EXCEPT ![d - 1] = m[s - 1]], d - 1, s - 1, n - 1)

memmove(m, d, s, n) ==
  IF s < d /\ s + n > d THEN MoveDown(m, d + n, s + n, n) ELSE memcpy(m, d, s, n)

memcmp(m, s1, s2, n) ==
  IF n = 0 THEN 0
  ELSE IF m[s1] # m[s2] THEN m[s1] - m[s2] ELSE memcmp(m, s1 + 1, s2 + 1, n - 1)

\* The new block of strdup and stradd, its bytes counted from 0; Junk is what
\* kmalloc left in it.
Junk(size) == [i \in 0..(size - 1) |-> 255]
BytesAt(m, s, n) == [i \in 0..(n - 1) |-> m[s + i]]
Into(block, at, part) ==
  [i \in DOMAIN block |-> IF i - at \in DOMAIN part THEN part[i - at] ELSE block[i]]

strdup(m, src) ==
  LET len == strlen(m, src)
  IN [Into(Junk(len + 1), 0, BytesAt(m, src, len)) EXCEPT ![len] = 0]

stradd(m, src1, src2) ==
  LET len1 == strlen(m, src1)
      len2 == strlen(m, src2)
      first == Into(Junk(len1 + len2 + 1), 0, BytesAt(m, src1, len1))
  IN [Into(first, len1, BytesAt(m, src2, len2)) EXCEPT ![len1 + len2] = 0]

-----------------------------------------------------------------------------
(* The contracts: what a caller owes, and what it is promised.             *)
IsString(m, s) == \E k \in Addr : k >= s /\ m[k] = 0
End(m, s) == Min({k \in Addr : k >= s /\ m[k] = 0})
Text(m, s) == [i \in 1..(End(m, s) - s) |-> m[s + i - 1]]
Area(m, s, n) == [i \in 1..n |-> m[s + i - 1]]
Fits(s, n) == s + n <= Cells
Apart(a, la, b, lb) == a + la <= b \/ b + lb <= a
AsSeq(block) == [i \in 1..Cardinality(DOMAIN block) |-> block[i - 1]]

\* m with the bytes of seq written at d, all at once
Store(m, d, seq) == [a \in Addr |-> IF a - d + 1 \in DOMAIN seq THEN seq[a - d + 1] ELSE m[a]]

\* The difference at the first place where two sequences of bytes differ.
FirstDifference(t1, t2) ==
  LET apart == {i \in 1..Min({Len(t1), Len(t2)}) : t1[i] # t2[i]}
  IN IF apart = {} THEN 0 ELSE t1[Min(apart)] - t2[Min(apart)]
Prefix(t, n) == SubSeq(t, 1, Min({n, Len(t)}))
WithEnd(t) == Append(t, 0)

Places(t, c) == {i \in DOMAIN t : t[i] = c}

Promised(c) ==
  LET m == c.before
      a == c.args
      Holds(result, after) == c.result = result /\ mem = after
  IN CASE c.fn = "strlen"  -> Holds(Len(Text(m, a[1])), m)
       [] c.fn = "strnlen" -> Holds(Len(SelectSeq(Area(m, a[1], Min({a[2], End(m, a[1]) - a[1]})),
                                                  LAMBDA b : b # 0)), m)
       [] c.fn = "strcpy"  -> Holds(a[1], Store(m, a[1], WithEnd(Text(m, a[2]))))
       [] c.fn = "strncpy" -> Holds(a[1], Store(m, a[1],
                                [i \in 1..a[3] |-> IF i <= Len(Text(m, a[2]))
                                                   THEN Text(m, a[2])[i] ELSE 0]))
       [] c.fn = "strcmp"  -> Holds(FirstDifference(WithEnd(Text(m, a[1])),
                                                    WithEnd(Text(m, a[2]))), m)
       [] c.fn = "strncmp" -> Holds(FirstDifference(Prefix(WithEnd(Text(m, a[1])), a[3]),
                                                    Prefix(WithEnd(Text(m, a[2])), a[3])), m)
       [] c.fn = "strchr"  -> Holds(LET at == Places(Text(m, a[1]), a[2])
                                    IN IF at = {} THEN NULL_ ELSE a[1] + Min(at) - 1, m)
       [] c.fn = "strfind" -> Holds(LET at == Places(Text(m, a[1]), a[2])
                                    IN IF at = {} THEN End(m, a[1]) ELSE a[1] + Min(at) - 1, m)
       [] c.fn = "memset"  -> Holds(a[1], Store(m, a[1], [i \in 1..a[3] |-> a[2]]))
       [] c.fn \in {"memcpy", "memmove"} -> Holds(a[1], Store(m, a[1], Area(m, a[2], a[3])))
       [] c.fn = "memcmp"  -> Holds(FirstDifference(Area(m, a[1], a[3]), Area(m, a[2], a[3])), m)
       [] c.fn = "strdup"  -> Holds(WithEnd(Text(m, a[1])), m)
       [] c.fn = "stradd"  -> Holds(WithEnd(Text(m, a[1]) \o Text(m, a[2])), m)
       [] OTHER -> mem = m

\* Every call of a string function does to the memory, and returns, what its
\* definition says in one step: the byte loops agree with it at every
\* alignment, length and overlap a caller may use.
StringsExact == Promised(call)

-----------------------------------------------------------------------------
Idle == [fn |-> "none", args |-> << >>, before |-> mem, result |-> 0]
Call(fn, args, result) == call' = [fn |-> fn, args |-> args, before |-> mem, result |-> result]

StringsInit == mem = [a \in Addr |-> 0] /\ call = Idle

Search(s, c, n) ==
  /\ IsString(mem, s)
  /\ \/ Call("strlen", <<s>>, strlen(mem, s))
     \/ Call("strnlen", <<s, n>>, strnlen(mem, s, n))
     \/ c # 0 /\ Call("strchr", <<s, c>>, strchr(mem, s, c))
     \/ c # 0 /\ Call("strfind", <<s, c>>, strfind(mem, s, c))
     \/ Call("strdup", <<s>>, AsSeq(strdup(mem, s)))
  /\ UNCHANGED mem

Compare(s1, s2, n) ==
  /\ \/ /\ IsString(mem, s1) /\ IsString(mem, s2)
        /\ \/ Call("strcmp", <<s1, s2>>, strcmp(mem, s1, s2))
           \/ Call("strncmp", <<s1, s2, n>>, strncmp(mem, s1, s2, n))
           \/ Call("stradd", <<s1, s2>>, AsSeq(stradd(mem, s1, s2)))
     \/ /\ Fits(s1, n) /\ Fits(s2, n)
        /\ Call("memcmp", <<s1, s2, n>>, memcmp(mem, s1, s2, n))
  /\ UNCHANGED mem

CopyString(d, s, n) ==
  /\ IsString(mem, s)
  /\ LET len == End(mem, s) - s
     IN \/ /\ Fits(d, len + 1) /\ Apart(d, len + 1, s, len + 1)
           /\ mem' = strcpy(mem, d, s) /\ Call("strcpy", <<d, s>>, d)
        \/ /\ Fits(d, n) /\ Apart(d, n, s, len + 1)
           /\ mem' = strncpy(mem, d, s, n) /\ Call("strncpy", <<d, s, n>>, d)

CopyMemory(d, s, n) ==
  /\ Fits(d, n) /\ Fits(s, n)
  /\ \/ Apart(d, n, s, n) /\ mem' = memcpy(mem, d, s, n) /\ Call("memcpy", <<d, s, n>>, d)
     \/ mem' = memmove(mem, d, s, n) /\ Call("memmove", <<d, s, n>>, d)

Fill(s, c, n) == Fits(s, n) /\ mem' = memset(mem, s, c, n) /\ Call("memset", <<s, c, n>>, s)

Return == call.fn # "none" /\ call' = [Idle EXCEPT !.before = mem] /\ UNCHANGED mem

StringsNext ==
  \/ /\ call.fn = "none"
     /\ \E a \in Addr, b \in Addr, n \in 0..Cells, c \in Bytes :
          Search(a, c, n) \/ Compare(a, b, n) \/ CopyString(a, b, n) \/ CopyMemory(a, b, n)
          \/ Fill(a, c, n)
  \/ Return
=============================================================================
