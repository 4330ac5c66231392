--------------------------------- MODULE Vfs ---------------------------------
(***************************************************************************)
(* kern/fs/vfs and kern/fs/devs: the operations of an inode by its kind,   *)
(* the devices, the names of files, and opening and closing them.          *)
(*                                                                         *)
(* A path is [dev, name]: dev is "" for a relative path, "/", ":" or a     *)
(* device before a colon; name is 0 when nothing follows.  The state s     *)
(* gains s.pwd, the directory of the process that calls (0 for none), and  *)
(* s.bootfs.                                                               *)
(***************************************************************************)
EXTENDS Sfs

CONSTANTS
    Stdin, Stdout, Disk0    \* the inodes of the devices; Disk0's blocks hold the file system

ASSUME DeviceAssumption == Device = {Stdin, Stdout, Disk0}

Panicked(s) == s.err \in {"assert: index <= din->blocks", "assert: sfs_block_inuse", "undefined: ino",
                          "assert: tblks == din->blocks", "panic: sfs_get_ops", "assert: vop"}

IsFile(s, n) == n \notin Device /\ s.node[n].din.type = "file"
IsDir(s, n) == n \notin Device /\ s.node[n].din.type = "dir"
\* __vop_op: calling an operation that the inode does not have is an assertion.
vop(has, s, Op(_)) == IF has THEN Op(s) ELSE Fail(s, "assert: vop")

-----------------------------------------------------------------------------
(* Devices.                                                                *)

stdin_open(flags) == flags = [acc |-> "RDONLY", opt |-> {}]
stdout_open(flags) == flags = [acc |-> "WRONLY", opt |-> {}]

dev_open(s, n, flags) ==
    CASE flags.opt # {}                                  -> Fail(s, "E_INVAL")
      [] flags.opt = {} /\ n = Stdin /\ ~stdin_open(flags)   -> Fail(s, "E_INVAL")
      [] flags.opt = {} /\ n = Stdout /\ ~stdout_open(flags) -> Fail(s, "E_INVAL")
      [] OTHER                                           -> s

\* stdout_io; reading stdin waits, and is in module Process.
stdout_io(s, len, write) == IF write THEN [s EXCEPT !.done = len] ELSE Fail(s, "E_INVAL")

dev_lookup(s, n, name) ==
    IF name # 0 THEN Fail(s, "E_NOENT") ELSE [vop_ref_inc(s, n) EXCEPT !.at = n]

-----------------------------------------------------------------------------
(* The operations of an inode.                                             *)

sfs_opendir(s, flags) ==
    IF flags.acc # "RDONLY" \/ "APPEND" \in flags.opt THEN Fail(s, "E_ISDIR") ELSE s

vop_open(s, n, flags) ==
    CASE n \in Device -> dev_open(s, n, flags)
      [] IsDir(s, n)  -> sfs_opendir(s, flags)
      [] OTHER        -> s

vop_truncate(s, n, len) == vop(IsFile(s, n), s, LAMBDA t : sfs_truncfile(t, n, len))

vop_lookup(s, n, name) ==
    IF n \in Device THEN dev_lookup(s, n, name)
    ELSE vop(IsDir(s, n), s, LAMBDA t : sfs_lookup(t, n, name))

vop_io(s, n, offset, len, write, value) ==
    CASE n = Stdout   -> stdout_io(s, len, write)
      [] IsFile(s, n) -> sfs_io(s, n, offset, len, write, value)
      [] OTHER        -> Fail(s, "assert: vop")

vop_fsync(s, n) == vop(n \notin Device, s, LAMBDA t : sfs_fsync(t, n))

\* dev_tryseek: neither stream can seek.
vop_tryseek(s, n, pos) ==
    CASE n \in {Stdin, Stdout} -> Fail(s, "E_INVAL")
      [] IsFile(s, n)          -> sfs_tryseek(s, n, pos)
      [] OTHER                 -> Fail(s, "assert: vop")

\* dev_fstat: the streams have no blocks.
Size(s, n) == IF n \in Device THEN 0 ELSE s.node[n].din.size

-----------------------------------------------------------------------------
(* Names.                                                                  *)

vfs_get_curdir(s) ==
    IF s.pwd = 0 THEN Fail(s, "E_NOENT") ELSE [vop_ref_inc(s, s.pwd) EXCEPT !.at = s.pwd]

vfs_get_bootfs(s) ==
    IF s.bootfs = 0 THEN Fail(s, "E_NOENT") ELSE [vop_ref_inc(s, s.bootfs) EXCEPT !.at = s.bootfs]

sfs_get_root(s) == sfs_load_inode(s, SFS_BLKN_ROOT)

\* vfs_get_root: disk0 is mounted; the two streams cannot be.
vfs_get_root(s, dev) ==
    CASE dev = "disk0"  -> sfs_get_root(s)
      [] dev = "stdin"  -> [vop_ref_inc(s, Stdin) EXCEPT !.at = Stdin]
      [] dev = "stdout" -> [vop_ref_inc(s, Stdout) EXCEPT !.at = Stdout]
      [] OTHER          -> Fail(s, "E_NO_DEV")

get_device(s, dev) ==
    CASE dev = ""  -> vfs_get_curdir(s)
      [] dev = "/" -> vfs_get_bootfs(s)
      [] dev = ":" -> Then(vfs_get_curdir(s), LAMBDA t :
                           LET cwd == t.at IN vop_ref_dec(sfs_get_root(t), cwd))
      [] OTHER     -> vfs_get_root(s, dev)

vfs_lookup(s, path) ==
    Then(get_device(s, path.dev), LAMBDA t :
         IF path.name = 0 THEN t
         ELSE LET dir == t.at IN vop_ref_dec(vop_lookup(t, dir, path.name), dir))

\* vfs_lookup_parent; nothing in vfs_open gives its reference back.
vfs_lookup_parent(s, path) == get_device(s, path.dev)

\* Mutant: the directory that was the current one keeps its reference.
vfs_set_curdir_keeps(s, n) ==
    CASE n = s.pwd -> s
      [] n # s.pwd /\ IsDir(s, n) -> [vop_ref_inc(s, n) EXCEPT !.pwd = n]
      [] OTHER -> Fail(s, "E_NOTDIR")

vfs_set_curdir(s, n) ==
    CASE n = s.pwd -> s
      [] n # s.pwd /\ IsDir(s, n) ->
            LET t == [vop_ref_inc(s, n) EXCEPT !.pwd = n]
            IN  IF s.pwd = 0 THEN t ELSE vop_ref_dec(t, s.pwd)
      [] OTHER -> Fail(s, "E_NOTDIR")

vfs_chdir(s, path) ==
    Then(vfs_lookup(s, path), LAMBDA t : LET n == t.at IN vop_ref_dec(vfs_set_curdir(t, n), n))

\* vfs_set_bootfs, from a process: u.at is the new one.
change_bootfs(u) ==
    IF u.bootfs = 0 THEN [u EXCEPT !.bootfs = u.at]
    ELSE vop_ref_dec([u EXCEPT !.bootfs = u.at], u.bootfs)

vfs_set_bootfs(s, dev) ==
    Then(Then(vfs_chdir(s, [dev |-> dev, name |-> 0]), vfs_get_curdir), change_bootfs)

vfs_getcwd(s) ==
    Then(vfs_get_curdir(s), LAMBDA t : LET n == t.at IN vop_ref_dec(sfs_namefile(t, n), n))

-----------------------------------------------------------------------------
(* Opening and closing.                                                    *)

\* The end of vfs_open: the inode n is open and, where the flags say so, cut.
open_end(s, n) == IF Ok(s) THEN s ELSE vop_ref_dec(vop_open_dec(s, n), n)
open_inode(s, n, flags) ==
    IF ~Ok(s) THEN vop_ref_dec(s, n)
    ELSE IF {"TRUNC", "CREAT"} \cap flags.opt = {} THEN vop_open_inc(s, n)
    ELSE open_end(vop_truncate(vop_open_inc(s, n), n, 0), n)

\* The middle of vfs_open, with what vfs_lookup found.  A file that is missing
\* cannot be made: no directory has vop_create.
open_found(s, path, flags) ==
    LET create == "CREAT" \in flags.opt
    IN  CASE s.err = "E_NOENT" /\ create ->
                Then(vfs_lookup_parent([s EXCEPT !.err = ""], path), LAMBDA t : Fail(t, "assert: vop"))
          [] ~Ok(s) /\ ~(s.err = "E_NOENT" /\ create) -> s
          [] Ok(s) /\ create /\ "EXCL" \in flags.opt -> Fail(s, "E_EXISTS")
          [] OTHER -> open_inode(vop_open(s, s.at, flags), s.at, flags)

vfs_open(s, path, flags) ==
    IF "TRUNC" \in flags.opt /\ flags.acc = "RDONLY" THEN Fail(s, "E_INVAL")
    ELSE open_found(vfs_lookup(s, path), path, flags)

vfs_close(s, n) == vop_ref_dec(vop_open_dec(s, n), n)
=============================================================================
