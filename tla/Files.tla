-------------------------------- MODULE Files --------------------------------
(***************************************************************************)
(* Open files: kern/fs/file.c, sysfile.c and fs.c, with what fork, execve  *)
(* and exit in process/proc.c do to them, and the end of init_main.        *)
(*                                                                         *)
(* A system call is one step: none of these sleeps, and the kernel is not  *)
(* preempted.  Reading stdin, which does sleep, and writing to descriptor  *)
(* 0, which sysfile_write sends to stdin's ring, are in module Process.    *)
(* When a call panics the kernel stops; panicked has the reason.           *)
(***************************************************************************)
EXTENDS Vfs

CONSTANTS
    Proc,               \* processes
    shell,              \* user_main, which init_main makes
    IMAGE,              \* the image of the disk
    FS_STRUCT_NENTRY,   \* descriptors of a process
    OPENS,              \* <<path, flags>> that are opened
    PATHS,              \* that chdir gets
    FDS,                \* descriptors that calls are given
    LENS, SEEKS,        \* lengths, and <<offset, whence>>, that they are given
    WORDS,              \* that are written
    KFAILS,             \* which kmalloc of a call fails: 0 for none
    MAX_CALLS           \* bound on the calls

ASSUME FilesAssumption ==
    /\ shell \in Proc /\ FS_STRUCT_NENTRY \in Nat \ {0, 1} /\ FDS \subseteq Int
    /\ LENS \subseteq Nat \ {0} /\ KFAILS \subseteq Nat /\ MAX_CALLS \in Nat

VARIABLES
    kern,               \* the file system: the state of modules Sfs and Vfs
    fs,                 \* the fs_struct of each process
    io,                 \* the words the last call read
    exists,             \* how often a call has returned E_EXISTS
    panicked,
    calls               \* calls so far that have changed something

vars == <<kern, fs, io, exists, panicked, calls>>

-----------------------------------------------------------------------------
(* The file table of the process that calls: t.map.                        *)

FD == 0..(FS_STRUCT_NENTRY - 1)
None == [node |-> 0, pos |-> 0, readable |-> FALSE, writable |-> FALSE]   \* FD_NONE
NoFs == [pwd |-> 0, map |-> << >>]
\* The structs of fs_create.
fs_create == [pwd |-> 0, map |-> [fd \in FD |-> None]]
opened(f) == f.node # 0                                                   \* FD_OPENED

filemap_alloc(t, fd) ==
    LET free == {d \in FD : t.map[d] = None}
    IN  IF fd = -1 THEN IF free = {} THEN Fail(t, "E_MAX_OPEN") ELSE [t EXCEPT !.fd = Min(free)]
        ELSE IF fd \notin FD THEN Fail(t, "E_INVAL")
        ELSE IF fd \notin free THEN Fail(t, "E_BUSY")
        ELSE [t EXCEPT !.fd = fd]

fd2file(t, fd) == fd \in FD /\ opened(t.map[fd])
file_testfd(t, fd, write) ==
    fd2file(t, fd) /\ (IF write THEN t.map[fd].writable ELSE t.map[fd].readable)

\* filemap_close and filemap_free: the one reference of the slot.
filemap_close(t, fd) == [vfs_close(t, t.map[fd].node) EXCEPT !.map[fd] = None]

filemap_dup(t, to, from) ==
    [vop_open_inc(vop_ref_inc(t, from.node), from.node) EXCEPT !.map[to] = from]

\* The file at t.at, in the slot that filemap_alloc found.
fill_slot(t, flags) ==
    IF ~Ok(t) THEN t
    ELSE [t EXCEPT !.map[t.fd] =
            [node |-> t.at, pos |-> IF "APPEND" \in flags.opt THEN Size(t, t.at) ELSE 0,
             readable |-> flags.acc \in {"RDONLY", "RDWR"},
             writable |-> flags.acc \in {"WRONLY", "RDWR"}]]

file_open(t, path, flags) ==
    Then(filemap_alloc(t, -1), LAMBDA u : fill_slot(vfs_open(u, path, flags), flags))

file_close(t, fd) == IF fd2file(t, fd) THEN filemap_close(t, fd) ELSE Fail(t, "E_INVAL")

\* file_read and file_write
file_moved(t, fd) == [t EXCEPT !.map[fd].pos = @ + t.done]
file_io(t, fd, len, write, value) ==
    file_moved(vop_io([t EXCEPT !.done = 0], t.map[fd].node, t.map[fd].pos, len, write, value), fd)

file_seek(t, fd, offset, whence) ==
    LET f == t.map[fd]
        pos == CASE whence = "SET" -> offset
                 [] whence = "CUR" -> f.pos + offset
                 [] whence = "END" -> Size(t, f.node) + offset
    IN  IF ~fd2file(t, fd) THEN Fail(t, "E_INVAL")
        ELSE Then(vop_tryseek(t, f.node, pos), LAMBDA u : [u EXCEPT !.map[fd].pos = pos])

file_fsync(t, fd) == IF fd2file(t, fd) THEN vop_fsync(t, t.map[fd].node) ELSE Fail(t, "E_INVAL")

file_getdirentry(t, fd, slot) ==
    IF ~fd2file(t, fd) THEN Fail(t, "E_INVAL")
    ELSE LET n == t.map[fd].node
         IN  vop(IsDir(t, n), t, LAMBDA u : sfs_getdirentry(u, n, slot))

\* A descriptor that is free is asked for by -1.
file_dup(t, fd1, fd2) ==
    IF ~fd2file(t, fd1) THEN Fail(t, "E_INVAL")
    ELSE Then(filemap_alloc(t, fd2), LAMBDA u : filemap_dup(u, u.fd, u.map[fd1]))

-----------------------------------------------------------------------------
(* The parts of fs.c.                                                      *)

dup_fs(t, from) ==
    LET u == [t EXCEPT !.pwd = from.pwd]
    IN  FoldLeft(LAMBDA v, fd : IF opened(from.map[fd]) THEN filemap_dup(v, fd, from.map[fd]) ELSE v,
                 IF from.pwd = 0 THEN u ELSE vop_ref_inc(u, from.pwd),
                 [i \in 1..FS_STRUCT_NENTRY |-> i - 1])

CloseFrom(t, first) ==
    FoldLeft(LAMBDA u, fd : IF opened(u.map[fd]) THEN filemap_close(u, fd) ELSE u,
             t, [i \in 1..(FS_STRUCT_NENTRY - first) |-> first + i - 1])

\* stdin and stdout stay open over execve.
fs_closeall(t) == CloseFrom(t, 2)

fs_destroy(t) == CloseFrom(IF t.pwd = 0 THEN t ELSE [vop_ref_dec(t, t.pwd) EXCEPT !.pwd = 0], 0)

-----------------------------------------------------------------------------
(* sysfile_read and sysfile_write, one buffer of a block at a time.        *)

io_done(t) == [t EXCEPT !.left = @ - t.done, !.stop = ~Ok(t) \/ t.done = 0]

\* What a loop that has moved some of the words returns is their number.
io_result(t, len) == IF ~Panicked(t) /\ t.left < len THEN [t EXCEPT !.err = ""] ELSE t

sysfile_io(t, fd, len, write, value) ==
    LET Chunk(u, i) ==
            IF u.stop \/ u.left = 0 THEN u
            ELSE io_done(file_io(u, fd, Min({BLKSIZE, u.left}), write, value))
    IN  IF ~file_testfd(t, fd, write) THEN Fail(t, "E_INVAL")
        ELSE Then(kmalloc(t), LAMBDA u :
                  io_result(FoldLeft(Chunk, [u EXCEPT !.left = len], [i \in 1..(len + 1) |-> i]), len))

-----------------------------------------------------------------------------
(* System calls.                                                           *)

\* The state a call of process p works on.
Enter(k, f, kleft) ==
    k @@ [pwd |-> f.pwd, map |-> f.map, err |-> "", kleft |-> kleft, ino |-> 0, ent |-> 0,
          at |-> 0, done |-> 0, buf |-> << >>, fd |-> 0, left |-> 0, stop |-> FALSE]

Kernel(t) == [f \in {"freemap", "unused", "super_dirty", "data", "dinode", "node", "disk", "bootfs"}
                |-> t[f]]

Running == panicked = "" /\ calls < MAX_CALLS

\* Process p returns from a call with the state t.
Return(p, t) ==
    /\ IF Panicked(t)
       THEN panicked' = t.err /\ UNCHANGED <<kern, fs, io, exists>>
       ELSE /\ kern' = Kernel(t)
            /\ fs' = [fs EXCEPT ![p] = [pwd |-> t.pwd, map |-> t.map]]
            /\ exists' = IF t.err = "E_EXISTS" THEN exists + 1 ELSE exists
            /\ io' = t.buf
            /\ UNCHANGED panicked
    /\ calls' = IF kern' = kern /\ fs' = fs THEN calls ELSE calls + 1

Call(p, Op(_)) ==
    /\ Running /\ fs[p] # NoFs
    /\ \E k \in KFAILS : Return(p, Op(Enter(kern, fs[p], k)))

sys_open(p) == \E o \in OPENS : Call(p, LAMBDA t : file_open(t, o[1], o[2]))
sys_close(p) == \E fd \in FDS : Call(p, LAMBDA t : file_close(t, fd))

\* A read whose buffer is not the process's loses the words it has read, and
\* ends with its first part.
unmapped(t) ==
    IF Panicked(t) THEN t
    ELSE [t EXCEPT !.buf = << >>, !.err = IF Ok(t) THEN "E_INVAL" ELSE @]

sys_read(p) ==
    \E fd \in FDS, len \in LENS, mapped \in BOOLEAN :
        /\ fs[p] # NoFs /\ fd2file(fs[p], fd) => fs[p].map[fd].node # Stdin
        /\ Call(p, LAMBDA t :
                IF mapped THEN sysfile_io(t, fd, len, FALSE, 0)
                ELSE unmapped(sysfile_io(t, fd, Min({BLKSIZE, len}), FALSE, 0)))

sys_write(p) ==
    \E fd \in FDS \ {0}, len \in LENS, w \in WORDS :
        Call(p, LAMBDA t : sysfile_io(t, fd, len, TRUE, w))

sys_seek(p) ==
    \E fd \in FDS, seek \in SEEKS : Call(p, LAMBDA t : file_seek(t, fd, seek[1], seek[2]))

sys_fsync(p) == \E fd \in FDS : Call(p, LAMBDA t : file_fsync(t, fd))
sys_chdir(p) == \E path \in PATHS : Call(p, LAMBDA t : vfs_chdir(t, path))
sys_getcwd(p) == Call(p, vfs_getcwd)
sys_getdirentry(p) == \E fd \in FDS, slot \in {0, 4} : Call(p, LAMBDA t : file_getdirentry(t, fd, slot))
sys_dup(p) == \E fd1 \in FDS, fd2 \in {-1, 3} : Call(p, LAMBDA t : file_dup(t, fd1, fd2))

\* copy_fs in do_fork: q starts with the files of p.
do_fork(p, q) ==
    /\ Running /\ fs[p] # NoFs /\ fs[q] = NoFs
    /\ Return(q, dup_fs(Enter(kern, fs_create, 0), fs[p]))

do_execve(p) == Call(p, fs_closeall)

\* put_fs in do_exit
do_exit(p) ==
    /\ panicked = "" /\ fs[p] # NoFs
    /\ kern' = Kernel(fs_destroy(Enter(kern, fs[p], 0)))
    /\ fs' = [fs EXCEPT ![p] = NoFs]
    /\ io' = << >>
    /\ UNCHANGED <<exists, panicked, calls>>

\* init_main, when its last child has gone.
fs_cleanup ==
    /\ panicked = "" /\ \A p \in Proc : fs[p] = NoFs
    /\ kern' = sfs_sync(kern)
    /\ UNCHANGED <<fs, io, exists, panicked, calls>>

-----------------------------------------------------------------------------
(* init_main mounts the disk and sets the boot file system; it forks the   *)
(* shell, whose umain opens the two streams.                               *)

Booted == vfs_set_bootfs(Enter(sfs_do_mount(IMAGE) @@ [bootfs |-> 0], fs_create, 0), "disk0")
Forked == dup_fs(Enter(Kernel(Booted), fs_create, 0), [pwd |-> Booted.pwd, map |-> Booted.map])
WithStdin == file_open(Forked, [dev |-> "stdin", name |-> 0], [acc |-> "RDONLY", opt |-> {}])
Umain == file_open(WithStdin, [dev |-> "stdout", name |-> 0], [acc |-> "WRONLY", opt |-> {}])

Init ==
    /\ kern = Kernel(Umain)
    /\ fs = [p \in Proc |-> IF p = shell THEN [pwd |-> Umain.pwd, map |-> Umain.map] ELSE NoFs]
    /\ io = << >> /\ exists = 0 /\ panicked = "" /\ calls = 0

Next ==
    \/ \E p \in Proc :
        \/ sys_open(p) \/ sys_close(p) \/ sys_read(p) \/ sys_write(p) \/ sys_seek(p)
        \/ sys_fsync(p) \/ sys_chdir(p) \/ sys_getcwd(p) \/ sys_getdirentry(p) \/ sys_dup(p)
        \/ do_execve(p) \/ do_exit(p)
        \/ \E q \in Proc : do_fork(p, q)
    \/ fs_cleanup

Spec == Init /\ [][Next]_vars

-----------------------------------------------------------------------------
(* Properties.                                                             *)

Slots0 == {<<p, fd>> \in Proc \X FD : fs[p] # NoFs /\ opened(fs[p].map[fd])}
Opens(n) == Cardinality({d \in Slots0 : fs[d[1]].map[d[2]].node = n})
\* init_main keeps the directory it started in, the boot file system the root.
Holders(n) ==
    Opens(n) + Cardinality({p \in Proc : fs[p].pwd = n})
    + (IF n = SFS_BLKN_ROOT THEN 1 ELSE 0) + (IF n = kern.bootfs THEN 1 ELSE 0)
    + (IF n \in Device THEN 1 ELSE 0)
Surplus(n) == kern.node[n].ref - Holders(n)

\* The counts of an inode are those of its holders: a call gives back the references
\* it took, also when it fails for want of its first kmalloc, of a block, a name or a
\* descriptor, but for the one of vfs_open that finds a file which O_EXCL says must
\* not exist (vfsfile.c, sfs_inode.c).
RefsExact ==
    /\ \A n \in DOMAIN kern.node : Surplus(n) >= 0 /\ kern.node[n].open = Opens(n)
    /\ MapThenSumSet(Surplus, DOMAIN kern.node) = exists

\* The blocks that inode n has.
Din(n) == IF kern.node[n] = NoNode THEN kern.dinode[n] ELSE kern.node[n].din
Pointers(n) ==
    [i \in 0..(NDIRECT + BLKSIZE - 1) |->
        IF i < NDIRECT THEN Din(n).direct[i + 1]
        ELSE IF Din(n).indirect = 0 THEN 0 ELSE kern.data[Din(n).indirect][i - NDIRECT + 1]]
Owned(n) == {Din(n).indirect} \cup Range(Pointers(n))

\* No block is lost or shared, whatever fails on the way: the free map has the
\* blocks that no inode reaches, a file has its blocks without a hole, and what
\* is cleaned up is on the disk (sfs_bmap_*, sfs_truncfile, sfs_sync).  The
\* exception is the number of blocks: when a file in its indirect block cannot
\* grow as far as it should, sfs_truncfile leaves the inode clean with the blocks
\* it did get, which the indirect block has and the inode on the disk does not.
BlocksExact ==
    LET inodes == DOMAIN kern.dinode
        used == UNION {Owned(n) : n \in inodes} \ {0}
    IN  /\ kern.freemap = Block \ (used \cup inodes \cup {0, 2})
        /\ kern.unused = Cardinality(kern.freemap)
        /\ \A m, n \in inodes : Owned(n) \cap inodes = {} /\ (m # n => Owned(m) \cap Owned(n) \subseteq {0})
        /\ \A n \in inodes : \A i, j \in 0..(Din(n).blocks - 1) :
            Pointers(n)[i] # 0 /\ (i # j => Pointers(n)[i] # Pointers(n)[j])
        /\ ~kern.super_dirty => kern.disk = [freemap |-> kern.freemap, unused |-> kern.unused]
        /\ \A n \in inodes :
            kern.node[n] # NoNode /\ ~kern.node[n].dirty
                => [kern.dinode[n] EXCEPT !.blocks = 0] = [Din(n) EXCEPT !.blocks = 0]
        /\ panicked \notin {"undefined: ino", "assert: sfs_block_inuse", "panic: sfs_get_ops"}

\* Wanted by the assertion of sfs_bmap_load_nolock (sfs_inode.c:289), and not so: a
\* descriptor keeps its position when another open truncates the file, and a write
\* there asks for a block behind the next one.
AssertsHold == panicked # "assert: index <= din->blocks"

\* What the abstract store sees: the words of each file, and the descriptors.
Contents(n) ==
    [i \in 1..Din(n).size |->
        kern.data[Pointers(n)[(i - 1) \div BLKSIZE]][((i - 1) % BLKSIZE) + 1]]
FilesNow == {n \in DOMAIN kern.dinode : Din(n).type = "file"}
Descriptors == {d \in Slots0 : fs[d[1]].map[d[2]].node \in FilesNow}

Store == INSTANCE FileStore WITH
    file <- [n \in FilesNow |-> Contents(n)],
    desc <- [d \in Descriptors |-> [file |-> fs[d[1]].map[d[2]].node, pos |-> fs[d[1]].map[d[2]].pos]],
    io <- io

\* The system calls on inodes, blocks and the cache implement a store of files
\* that are sequences of words, read and written at positions.
ImplementsStore == Store!Spec
=============================================================================
