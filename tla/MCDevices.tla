----------------------------- MODULE MCDevices -----------------------------
(***************************************************************************)
(* The leaves of the system on small instances: one behaviour exercises    *)
(* get_pid, one the semaphores, one the path to the disk, one the console  *)
(* and the transfers on the serial line, one the USB keyboard, one the     *)
(* game, and three the kernel library (MCLibs).  They share no state, so   *)
(* the job is chosen at the start.                                         *)
(***************************************************************************)
EXTENDS PidAlloc, Sem, Disk, Fetchrun, Usb, Snake, MCLibs

CONSTANTS proc1, proc2, proc3

LibraryJobs == {"tree", "strings", "format"}
leafvars == <<semvars, diskvars, fetchvars, usbvars, snakevars>>
devvars == <<vars, leafvars, libsvars, job>>

SemOrder == <<"fs_sem", "io_sem">>    \* lock_sfs_fs, lock_sfs_io
ThreeQueues == {"fs_sem", "io_sem", "kbd"}

\* The file 'ab', and 'b' among the keys: the exclusive or cannot tell 'ab' and 'ba'.
Files == {<< >>, <<1>>, <<97, 98>>, <<2, 2>>}
\* Only printing; only typing; a transfer with a print and a key around it.
Bounds == {[prints |-> 4, keys |-> 0, fetches |-> 0], [prints |-> 0, keys |-> 4, fetches |-> 0],
           [prints |-> 1, keys |-> 1, fetches |-> 1]}

\* Two codes that stand for a letter, one that stands for nothing, one that
\* is no key.
SomeReports == {<<4, 0>>, <<4, 5>>, <<41, 0>>}

DevInit ==
    /\ Init /\ SemInit /\ DiskInit /\ FetchInit /\ UsbInit /\ InitSnake /\ LibsInit
    /\ job \in LibraryJobs \cup {"pids", "semaphores", "disk", "serial", "usb", "snake"}
    /\ job # "serial" => left = [prints |-> 4, keys |-> 0, fetches |-> 0] /\ host.data = << >> /\ host.exists
    /\ job # "usb" => script = SetUp /\ dev.present

LeafNext ==
    \/ job = "semaphores" /\ SemNext /\ UNCHANGED <<diskvars, fetchvars, usbvars, snakevars>>
    \/ job = "disk" /\ DiskNext /\ UNCHANGED <<semvars, fetchvars, usbvars, snakevars>>
    \/ job = "serial" /\ FetchNext /\ UNCHANGED <<semvars, diskvars, usbvars, snakevars>>
    \/ job = "usb" /\ UsbNext /\ UNCHANGED <<semvars, diskvars, fetchvars, snakevars>>
    \/ job = "snake" /\ SnakeNext /\ UNCHANGED <<semvars, diskvars, fetchvars, usbvars>>

DevNext ==
    /\ UNCHANGED job
    /\ \/ job = "pids" /\ Next /\ UNCHANGED <<leafvars, libsvars>>
       \/ LeafNext /\ UNCHANGED <<vars, libsvars>>
       \/ LibsNext /\ UNCHANGED <<vars, leafvars>>

DevSpec == DevInit /\ [][DevNext]_devvars /\ PidFair /\ SemFair
=============================================================================
