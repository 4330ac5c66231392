------------------------------- MODULE MCFiles -------------------------------
(***************************************************************************)
(* Two processes on a disk that tools/mksfs.c made of this directory:      *)
(*                                                                         *)
(*   a (four words), d/b (empty), d/a (a hard link to a), and a hidden     *)
(*   file, which is left out.  Three blocks are free.                      *)
(***************************************************************************)
EXTENDS Files, Mksfs

a == 3
d == 4
b == 5
x == 6                  \* a name that no directory has

MCHost ==
    0  :> [kind |-> "dir", words |-> << >>, names |-> << <<0, 12>>, <<a, 10>>, <<d, 11>> >>] @@
    10 :> [kind |-> "file", words |-> <<5, 5, 5, 5>>, names |-> << >>] @@
    11 :> [kind |-> "dir", words |-> << >>, names |-> << <<b, 12>>, <<a, 10>> >>] @@
    12 :> [kind |-> "file", words |-> << >>, names |-> << >>]

Flags(acc, opt) == [acc |-> acc, opt |-> opt]
Path(dev, name) == [dev |-> dev, name |-> name]

MCStdin == -1
MCStdout == -2
MCDisk0 == -3
MCDevice == {MCStdin, MCStdout, MCDisk0}

MCOpens ==
    {<<Path("", a), Flags("RDWR", {})>>,
     <<Path("", a), Flags("WRONLY", {"CREAT", "EXCL"})>>,
     <<Path("", b), Flags("RDWR", {"APPEND"})>>,
     <<Path("/", a), Flags("WRONLY", {"TRUNC"})>>,
     <<Path("/", d), Flags("RDONLY", {})>>,
     <<Path("/", d), Flags("RDWR", {})>>,
     <<Path(":", x), Flags("WRONLY", {"CREAT"})>>,
     <<Path("stdin", 0), Flags("WRONLY", {})>>}
MCSeeks == {<<0, "SET">>, <<7, "SET">>, <<13, "SET">>, <<0, "END">>}
MCPaths == {Path("", d), Path("disk0", 0), Path("", a), Path("nodev", 0)}
=============================================================================
