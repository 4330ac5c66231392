------------------------------ MODULE Fetchrun ------------------------------
(***************************************************************************)
(* The system call fetchrun (kern/fetchrun/fetchrun.c), which asks the     *)
(* terminal program on the host for a file over the serial line, with the  *)
(* console sharing that line: console output before and after a transfer,  *)
(* and keys typed on the host at any time.  The host is terminal.py and    *)
(* send_file.py: a thread that reads the line and serves files, and one    *)
(* that sends what is typed.                                               *)
(*   A byte that arrives while the receiver is full is lost.  A polling    *)
(* loop of fetchrun takes a byte before the next one can arrive: a byte    *)
(* takes a thousand instructions of the processor at 115200 baud.          *)
(***************************************************************************)
EXTENDS Console, Bitwise

CONSTANTS Contents,   \* what the file may hold: sequences of bytes
          OutChars,   \* characters a process prints
          KeyChars,   \* keys typed on the host
          HeapSize,   \* the largest size kmalloc can give
          Limits      \* bounds: how many prints, keys and transfers

ASSUME FetchAssumption == \A data \in Contents : Len(data) < HeapSize

FETCH_MAGIC == 114    \* 'r'
CHECKSUM_INIT == 35   \* 0x23
NAME == 112           \* the path, of one character

VARIABLES fetch,     \* the locals of fetchrun: size, the bytes read so far
          checksum,
          file,      \* what file_write wrote, or NotWritten
          tocard,    \* bytes on the way from the host, each a key or not
          host,      \* the reading thread: pc, checksum, the file, how it ended
          left,      \* how many prints, keys and transfers may still come
          terminal,  \* history: what the terminal printed
          incom,     \* history: the byte in the receiver is a key
          mixed      \* history: a key got into a transfer
hostvars == <<file, host, terminal>>
boardvars == <<cons, vga, accepted, stdin, overrun, printed>>
fetchvars == <<consolevars, hostvars, fetch, checksum, tocard, left, incom, mixed>>

NotWritten == <<NoByte>>
ChecksumOf(sum, bytes) == FoldLeft(LAMBDA s, b : s ^^ b, sum, bytes)
Word(n) == <<n % 256, n \div 256, 0, 0>>
FromFile(bytes) == [i \in DOMAIN bytes |-> [byte |-> bytes[i], key |-> FALSE]]
Value(w) == w[1] + 256 * (w[2] + 256 * (w[3] + 256 * w[4]))

FetchInit ==
  /\ ConsoleInit
  /\ fetch = [size |-> 0, got |-> << >>] /\ checksum = CHECKSUM_INIT
  /\ file = NotWritten /\ tocard = << >> /\ terminal = << >>
  /\ incom = FALSE /\ mixed = FALSE
  /\ left \in Limits
  /\ \E data \in Contents, exists \in BOOLEAN :
       host = [pc |-> "normal", checksum |-> CHECKSUM_INIT, data |-> data,
               exists |-> exists, end |-> "none"]

-----------------------------------------------------------------------------
(* fetchrun.  Interrupts are off from its first step to its last: nothing  *)
(* else takes the bytes that come in, and nobody prints.                   *)
write_byte(data) == tohost' = Append(tohost, data % 256)
write_word(data) == tohost' = tohost \o Word(data)
write_str(str) == str \o <<NUL>>

\* A byte is read, and the word or the data are not complete before it.
read_byte(wanted) ==
  /\ com # NoByte /\ Len(fetch.got) < wanted
  /\ com' = NoByte
  /\ checksum' = checksum ^^ com
  /\ fetch' = [fetch EXCEPT !.got = Append(@, com)]
  /\ mixed' = (mixed \/ incom)
  /\ UNCHANGED <<cpu, boardvars, tohost, hostvars, tocard, left, incom>>

Complete(wanted) == Len(fetch.got) = wanted

\* The checksum of the size is sent after kmalloc, to hold the host back.
Synchronizes_early(at) == at = "size"
Synchronizes(at) == at = "kmalloc"
Sync(at) == tohost' = IF Synchronizes(at) THEN Append(tohost, checksum) ELSE tohost

\* A path that cannot be copied ends it with -1, and leaves interrupts off
\* until the return to the process restores them: nothing here changes.
fetchrun ==
  /\ cpu = "user" /\ left.fetches > 0
  /\ left' = [left EXCEPT !.fetches = @ - 1]
  /\ tohost' = tohost \o <<FETCH_MAGIC>> \o write_str(<<NAME>>)
  /\ checksum' = CHECKSUM_INIT
  /\ fetch' = [size |-> 0, got |-> << >>]
  /\ cpu' = "size"
  /\ UNCHANGED <<com, boardvars, hostvars, tocard, incom, mixed>>

read_word == cpu = "size" /\ read_byte(4)

SizeRead ==
  /\ cpu = "size" /\ Complete(4)
  /\ fetch' = [size |-> Value(fetch.got), got |-> << >>]
  /\ cpu' = IF Value(fetch.got) = 0 THEN "user" ELSE "kmalloc"    \* -2
  /\ IF cpu' = "user" THEN UNCHANGED tohost ELSE Sync("size")
  /\ UNCHANGED <<com, boardvars, hostvars, checksum, tocard, left, incom, mixed>>

\* The result is not looked at: when there is no memory the first byte goes
\* to address 0.
kmalloc ==
  /\ cpu = "kmalloc"
  /\ Sync("kmalloc")
  /\ checksum' = CHECKSUM_INIT
  /\ cpu' = IF fetch.size <= HeapSize THEN "data" ELSE "null"
  /\ UNCHANGED <<com, boardvars, fetch, hostvars, tocard, left, incom, mixed>>
NullStore ==
  /\ cpu = "null" /\ com # NoByte
  /\ cpu' = "panic"
  /\ UNCHANGED <<com, boardvars, tohost, fetch, checksum, hostvars, tocard, left, incom, mixed>>

read_data == cpu = "data" /\ read_byte(fetch.size)

DataRead ==
  /\ cpu = "data" /\ Complete(fetch.size)
  /\ write_byte(checksum)
  /\ cpu' = "file_write"
  /\ UNCHANGED <<com, boardvars, fetch, checksum, hostvars, tocard, left, incom, mixed>>

file_write ==
  /\ cpu = "file_write"
  /\ file' = fetch.got
  /\ write_word(0)
  /\ cpu' = "user"
  /\ UNCHANGED <<com, boardvars, fetch, checksum, tocard, host, terminal, left, incom, mixed>>

Output ==
  /\ cpu = "user" /\ left.prints > 0
  /\ \E c \in OutChars : cons_putc(c)
  /\ left' = [left EXCEPT !.prints = @ - 1]
  /\ UNCHANGED <<cpu, com, cons, accepted, stdin, overrun, fetch, checksum, hostvars, tocard, incom, mixed>>

-----------------------------------------------------------------------------
(* The line, and the host.                                                 *)
Polls == cpu \in {"size", "data", "null"}

\* serial_port.v: received, or lost because the last byte was not taken.
Arrive ==
  /\ tocard # << >> /\ tocard' = Tail(tocard)
  /\ \/ /\ com = NoByte /\ com' = Head(tocard).byte /\ incom' = Head(tocard).key
        /\ UNCHANGED mixed
     \/ /\ com # NoByte /\ ~Polls /\ UNCHANGED <<com, incom>>
        /\ mixed' = (mixed \/ (incom /\ ~Head(tocard).key))
  /\ UNCHANGED <<cpu, boardvars, tohost, fetch, checksum, hostvars, left>>

\* com_writer, between any two bytes of the other thread.
Type ==
  /\ left.keys > 0 /\ left' = [left EXCEPT !.keys = @ - 1]
  /\ \E key \in KeyChars, i \in 1..(Len(tocard) + 1) : 
       tocard' = InsertAt(tocard, i, [byte |-> key, key |-> TRUE])
  /\ UNCHANGED <<consolevars, fetch, checksum, hostvars, incom, mixed>>

Take(n) == Len(tohost) >= n /\ tohost' = SubSeq(tohost, n + 1, Len(tohost))
HostStep == UNCHANGED <<cpu, com, boardvars, fetch, checksum, file, left, incom, mixed>>

com_reader ==
  /\ host.pc = "normal" /\ Take(2)
  /\ IF tohost[1] = FETCH_MAGIC
     THEN host' = [host EXCEPT !.pc = IF tohost[2] = NUL THEN "stat" ELSE "path"] /\ UNCHANGED terminal
     ELSE /\ terminal' = IF tohost[1] = TERMINAL_OUTPUT_MAGIC THEN Append(terminal, tohost[2]) ELSE terminal
          /\ UNCHANGED host    \* or an unknown magic
  /\ UNCHANGED tocard /\ HostStep

ReadPath ==
  /\ host.pc = "path" /\ Take(1)
  /\ host' = [host EXCEPT !.pc = IF tohost[1] = NUL THEN "stat" ELSE @]
  /\ UNCHANGED <<tocard, terminal>> /\ HostStep

\* send_file: the size of a file that is not there is 0.
SendSize ==
  /\ host.pc = "stat"
  /\ LET size == Word(Len(host.data))
     IN IF host.exists
        THEN /\ tocard' = tocard \o FromFile(size)
             /\ host' = [host EXCEPT !.pc = "sum1", !.checksum = ChecksumOf(CHECKSUM_INIT, size)]
        ELSE /\ tocard' = tocard \o FromFile(Word(0))
             /\ host' = [host EXCEPT !.pc = "normal", !.end = "failed"]
  /\ UNCHANGED <<tohost, terminal>> /\ HostStep

SendData ==
  /\ host.pc = "sum1" /\ Take(1)
  /\ IF tohost[1] = host.checksum
     THEN /\ tocard' = tocard \o FromFile(host.data)
          /\ host' = [host EXCEPT !.pc = "sum2", !.checksum = ChecksumOf(CHECKSUM_INIT, host.data)]
     ELSE /\ host' = [host EXCEPT !.pc = "normal", !.end = "failed"] /\ UNCHANGED tocard
  /\ UNCHANGED terminal /\ HostStep

Finish ==
  /\ host.pc = "sum2" /\ Take(5)
  /\ host' = [host EXCEPT !.pc = "normal", !.end = IF tohost[1] = host.checksum THEN "succeeded" ELSE "failed"]
  /\ UNCHANGED <<tocard, terminal>> /\ HostStep

Interrupt == (serial_interrupt \/ cons_intr \/ cons_getc) /\ UNCHANGED <<fetch, checksum, hostvars, tocard, left, incom, mixed>>

FetchNext ==
  \/ fetchrun \/ read_word \/ SizeRead \/ kmalloc \/ NullStore
  \/ read_data \/ DataRead \/ file_write \/ Output \/ Interrupt
  \/ Arrive \/ Type \/ com_reader \/ ReadPath \/ SendSize \/ SendData \/ Finish

-----------------------------------------------------------------------------
Expanded(text) == FlattenSeq([i \in DOMAIN text |-> IF text[i] = BS THEN <<BS, SPACE, BS>> ELSE <<text[i]>>])

OnTheWay ==
  LET inside == SelectSeq(tocard, LAMBDA b : ~b.key)
  IN fetch.got \o (IF com = NoByte \/ incom THEN << >> ELSE <<com>>)
       \o [i \in DOMAIN inside |-> inside[i].byte]

\* A transfer the host takes for a success has put as many bytes in the file as the
\* host's has, with the same checksum: no more when a key typed meanwhile got in
\* between, for the checksum is an exclusive or and does not see the order of the
\* bytes ('ab' and a key 'b' leave 'ba').  With no key in the way no byte is lost,
\* because the checksum of the size, sent after kmalloc, keeps the host silent
\* whenever the kernel does not poll: the kernel writes exactly the file, and
\* nothing for one that is not there; no transfer of a file that is there and not
\* empty fails; and the terminal prints what was printed, in order.
FetchExact ==
  /\ host.end = "succeeded" =>
       /\ Len(file) = Len(host.data)
       /\ ChecksumOf(CHECKSUM_INIT, file) = ChecksumOf(CHECKSUM_INIT, host.data)
  /\ ~mixed /\ host.data # << >> =>
       /\ cpu \in {"kmalloc", "data"} /\ host.pc = "sum2" => OnTheWay = host.data
       /\ file = NotWritten \/ (host.exists /\ file = host.data)
       /\ host.exists => host.end # "failed"
       /\ IsPrefix(terminal, Expanded(printed))
       /\ host.end = "none" /\ host.pc = "normal" /\ tohost = << >> => terminal = Expanded(printed)
=============================================================================
