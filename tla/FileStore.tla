------------------------------- MODULE FileStore -------------------------------
(***************************************************************************)
(* What the file system promises.  A file is a sequence of words; a        *)
(* process has descriptors, each a file and a position in it, and no two   *)
(* descriptors share a position.                                           *)
(***************************************************************************)
EXTENDS Integers, Sequences, FiniteSets

CONSTANTS
    Proc, FD, WORDS

VARIABLES
    file,               \* the words of each file
    desc,               \* [file, pos] of each open descriptor <<process, number>>
    io                  \* the words the last step gave to a process

vars == <<file, desc, io>>

Init ==
    /\ \A n \in DOMAIN file : \A i \in DOMAIN file[n] : file[n][i] \in Int
    /\ desc = << >> /\ io = << >>

Extended(words, len) == [i \in 1..len |-> IF i <= Len(words) THEN words[i] ELSE 0]

\* k words w from position pos on; what a hole skips is zero.
Patched(words, pos, k, w) ==
    [i \in 1..(IF k > 0 /\ pos + k > Len(words) THEN pos + k ELSE Len(words)) |->
        IF i > pos /\ i <= pos + k THEN w ELSE IF i <= Len(words) THEN words[i] ELSE 0]

\* A new descriptor, at the start or the end of the file, which O_TRUNC empties;
\* or a second one of the process, where the first is.
Open ==
    \E d \in DOMAIN desc' \ DOMAIN desc :
        LET n == desc'[d].file
        IN  /\ desc' = [c \in DOMAIN desc \cup {d} |-> IF c = d THEN desc'[d] ELSE desc[c]]
            /\ \/ desc'[d].pos \in {0, Len(file'[n])}
               \/ \E c \in DOMAIN desc : c[1] = d[1] /\ desc[c] = desc'[d]
            /\ file' \in {file, [file EXCEPT ![n] = << >>]}
            /\ io' = << >>

\* Any number of the descriptors of one process: close, execve and exit.
Close ==
    /\ DOMAIN desc' \subseteq DOMAIN desc
    /\ desc' = [d \in DOMAIN desc' |-> desc[d]]
    /\ \A c, d \in DOMAIN desc \ DOMAIN desc' : c[1] = d[1]
    /\ io' = << >> /\ UNCHANGED file

\* The position of descriptor d, and nothing else of the descriptors, goes on.
Moved(d) == [desc EXCEPT ![d].pos = desc'[d].pos]

Read ==
    /\ DOMAIN desc' = DOMAIN desc
    /\ \E d \in DOMAIN desc :
        /\ desc' = Moved(d)
        /\ desc'[d].pos >= desc[d].pos
        /\ desc'[d].pos > desc[d].pos => desc'[d].pos <= Len(file[desc[d].file])
        /\ io' \in {SubSeq(file[desc[d].file], desc[d].pos + 1, desc'[d].pos), << >>}
    /\ UNCHANGED file

Write ==
    /\ DOMAIN desc' = DOMAIN desc
    /\ \E d \in DOMAIN desc, w \in WORDS :
        /\ desc' = Moved(d)
        /\ desc'[d].pos >= desc[d].pos
        /\ file' = [file EXCEPT ![desc[d].file] =
                        Patched(@, desc[d].pos, desc'[d].pos - desc[d].pos, w)]
    /\ io' = << >>

\* A write that finds no room, from a position past the end of the file, may
\* still make the file reach that position.
Full ==
    /\ \E d \in DOMAIN desc :
        /\ desc[d].pos > Len(file[desc[d].file])
        /\ file' = [file EXCEPT ![desc[d].file] = Extended(@, desc[d].pos)]
    /\ io' = << >> /\ UNCHANGED desc

\* Seeking past the end makes the file longer.
Seek ==
    /\ DOMAIN desc' = DOMAIN desc
    /\ \E d \in DOMAIN desc :
        /\ desc' = Moved(d)
        /\ file' = [file EXCEPT ![desc[d].file] =
                        Extended(@, IF desc'[d].pos > Len(@) THEN desc'[d].pos ELSE Len(@))]
    /\ io' = << >>

\* A new process has the descriptors of its parent.
Fork ==
    \E p, q \in Proc :
        /\ \A d \in DOMAIN desc : d[1] # q
        /\ desc' = [d \in DOMAIN desc \cup {<<q, c[2]>> : c \in {c \in DOMAIN desc : c[1] = p}} |->
                        IF d[1] = q THEN desc[<<p, d[2]>>] ELSE desc[d]]
        /\ io' = << >> /\ UNCHANGED file

Other == io' = << >> /\ UNCHANGED <<file, desc>>

Next == Other \/ Close \/ Open \/ Read \/ Write \/ Full \/ Seek \/ Fork

Spec == Init /\ [][Next]_vars
=============================================================================
