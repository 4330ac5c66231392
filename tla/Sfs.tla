--------------------------------- MODULE Sfs ---------------------------------
(***************************************************************************)
(* The simple file system, kern/fs/sfs: the free map, the blocks of a file *)
(* (direct, then one indirect block), the cache of inodes with their       *)
(* reference counts, and reading and writing.                              *)
(*                                                                         *)
(* A block has BLKSIZE words: file data, the entries of an indirect block, *)
(* or a directory entry <<ino, name>>.  The functions take and return the  *)
(* kernel's state s; s.err is what a call returns ("" for 0), or a panic,  *)
(* and s.ino, s.node, s.done and s.buf are results.  Semaphores are left   *)
(* out: nothing sleeps while it holds one, and the kernel is not preempted.*)
(* So is the disk's failure: the ramdisk of driver/ramdisk.c has none.     *)
(***************************************************************************)
EXTENDS Integers, Sequences, FiniteSets, FiniteSetsExt, SequencesExt, Functions, TLC

CONSTANTS
    NBLOCKS,            \* super.blocks
    BLKSIZE,            \* SFS_BLKSIZE and SFS_BLK_NENTRY, in words
    NDIRECT,            \* SFS_NDIRECT
    MAX_FILE_SIZE,      \* SFS_MAX_FILE_SIZE
    Device              \* the device inodes: negative numbers

ASSUME SfsAssumption ==
    /\ NBLOCKS \in Nat /\ BLKSIZE \in Nat \ {0, 1} /\ NDIRECT \in Nat /\ MAX_FILE_SIZE \in Nat
    /\ Device \subseteq Int \ Nat

Block == 0..(NBLOCKS - 1)
SFS_BLKN_ROOT == 1
DOT == 1        \* the names "." and ".."; a name is a positive number
DOTDOT == 2
Zero == [i \in 1..BLKSIZE |-> 0]
NoNode == [ref |-> 0, open |-> 0, reclaim |-> 0, dirty |-> FALSE, din |-> << >>]

Ok(s) == s.err = ""
Fail(s, e) == [s EXCEPT !.err = e]
\* The statements that follow one that may have failed.
Then(s, Op(_)) == IF Ok(s) THEN Op(s) ELSE s
kmalloc(s) ==
    IF s.kleft = 1 THEN Fail(s, "E_NO_MEM") ELSE [s EXCEPT !.kleft = IF @ = 0 THEN 0 ELSE @ - 1]

ceil(n) == (n + BLKSIZE - 1) \div BLKSIZE

-----------------------------------------------------------------------------
(* Blocks.                                                                 *)

bitmap_alloc(freemap) == CHOOSE b \in freemap : \A c \in freemap : b <= c

\* Mutant: the block is not cleared.
sfs_block_alloc_dirty(s) ==
    IF s.freemap = {} THEN Fail(s, "E_NO_MEM")
    ELSE LET b == bitmap_alloc(s.freemap)
         IN  [s EXCEPT !.freemap = @ \ {b}, !.unused = @ - 1, !.super_dirty = TRUE, !.ino = b]

sfs_block_alloc(s) ==
    IF s.freemap = {} THEN Fail(s, "E_NO_MEM")
    ELSE LET b == bitmap_alloc(s.freemap)
         IN  [s EXCEPT !.freemap = @ \ {b}, !.unused = @ - 1, !.super_dirty = TRUE,
                       !.data[b] = Zero, !.ino = b]

sfs_block_free(s, b) ==
    IF b \in s.freemap THEN Fail(s, "assert: sfs_block_inuse")
    ELSE [s EXCEPT !.freemap = @ \cup {b}, !.unused = @ + 1, !.super_dirty = TRUE]

\* Mutant: an indirect block that was allocated for nothing is not freed.
sfs_bmap_get_sub_leak(s, ent, index, create) ==
    LET found == IF ent = 0 THEN 0 ELSE s.data[ent][index + 1]
        s1 == IF ent = 0 THEN sfs_block_alloc(s) ELSE [s EXCEPT !.ino = ent]
        s2 == Then(s1, sfs_block_alloc)
    IN  IF found # 0 \/ ~create THEN [s EXCEPT !.ino = found, !.ent = ent]
        ELSE IF Ok(s2) THEN [s2 EXCEPT !.data[s1.ino][index + 1] = s2.ino, !.ent = s1.ino]
        ELSE s2

\* sfs_bmap_get_sub_nolock: entry index of the indirect block ent.
sfs_bmap_get_sub(s, ent, index, create) ==
    LET found == IF ent = 0 THEN 0 ELSE s.data[ent][index + 1]
        s1 == IF ent = 0 THEN sfs_block_alloc(s) ELSE [s EXCEPT !.ino = ent]
        s2 == Then(s1, sfs_block_alloc)
    IN  IF found # 0 \/ ~create THEN [s EXCEPT !.ino = found, !.ent = ent]
        ELSE IF Ok(s2) THEN [s2 EXCEPT !.data[s1.ino][index + 1] = s2.ino, !.ent = s1.ino]
        ELSE IF ent = 0 /\ Ok(s1) THEN sfs_block_free(s2, s1.ino)
        ELSE s2

\* sfs_bmap_get_nolock: past the indirect block it goes by a variable that
\* nothing has set.
sfs_bmap_get(s, n, index, create) ==
    LET din == s.node[n].din
        s1 == sfs_block_alloc(s)
        s2 == sfs_bmap_get_sub(s, din.indirect, index - NDIRECT, create)
    IN  CASE index < NDIRECT /\ (din.direct[index + 1] # 0 \/ ~create) ->
                [s EXCEPT !.ino = din.direct[index + 1]]
          [] index < NDIRECT /\ din.direct[index + 1] = 0 /\ create ->
                Then(s1, LAMBDA t : [t EXCEPT !.node[n].din.direct[index + 1] = t.ino,
                                              !.node[n].dirty = TRUE])
          [] index >= NDIRECT /\ index < NDIRECT + BLKSIZE ->
                Then(s2, LAMBDA t : IF t.ent = din.indirect THEN t
                                    ELSE [t EXCEPT !.node[n].din.indirect = t.ent,
                                                   !.node[n].dirty = TRUE])
          [] OTHER -> Fail(s, "undefined: ino")

\* sfs_bmap_free_sub_nolock
sfs_bmap_free_sub(s, ent, index) ==
    LET b == s.data[ent][index + 1]
    IN  IF b = 0 THEN s ELSE sfs_block_free([s EXCEPT !.data[ent][index + 1] = 0], b)

\* sfs_bmap_free_nolock
sfs_bmap_free(s, n, index) ==
    LET din == s.node[n].din
    IN  CASE index < NDIRECT /\ din.direct[index + 1] # 0 ->
                [sfs_block_free(s, din.direct[index + 1]) EXCEPT
                    !.node[n].din.direct[index + 1] = 0, !.node[n].dirty = TRUE]
          [] index >= NDIRECT /\ index < NDIRECT + BLKSIZE /\ din.indirect # 0 ->
                sfs_bmap_free_sub(s, din.indirect, index - NDIRECT)
          [] OTHER -> s

\* sfs_bmap_load_nolock: block index of the file, a new one behind its last.
sfs_bmap_load(s, n, index) ==
    LET create == index = s.node[n].din.blocks
    IN  IF index > s.node[n].din.blocks
        THEN Fail(s, "assert: index <= din->blocks")
        ELSE Then(sfs_bmap_get(s, n, index, create), LAMBDA t :
                  IF t.ino \in Block \ ({0} \cup t.freemap)
                  THEN IF create THEN [t EXCEPT !.node[n].din.blocks = @ + 1] ELSE t
                  ELSE Fail(t, "assert: sfs_block_inuse"))

\* sfs_bmap_truncate_nolock
sfs_bmap_truncate(s, n) ==
    Then(sfs_bmap_free(s, n, s.node[n].din.blocks - 1),
         LAMBDA t : [t EXCEPT !.node[n].din.blocks = @ - 1, !.node[n].dirty = TRUE])

-----------------------------------------------------------------------------
(* The cache of inodes.                                                    *)

\* lookup_sfs_nolock, sfs_create_inode and sfs_load_inode.
sfs_load_inode(s, ino) ==
    IF s.node[ino] # NoNode
    THEN [s EXCEPT !.node[ino].ref = @ + 1,
                   !.node[ino].reclaim = IF s.node[ino].ref = 0 THEN @ + 1 ELSE @,
                   !.at = ino]
    ELSE Then(kmalloc(s), LAMBDA t : Then(kmalloc(t), LAMBDA u :
            IF u.dinode[ino].type \notin {"file", "dir"} THEN Fail(u, "panic: sfs_get_ops")
            ELSE [u EXCEPT !.node[ino] = [ref |-> 1, open |-> 0, reclaim |-> 1, dirty |-> FALSE,
                                          din |-> u.dinode[ino]],
                           !.at = ino]))

sfs_fsync(s, n) ==
    IF s.node[n].dirty
    THEN [s EXCEPT !.dinode[n] = s.node[n].din, !.node[n].dirty = FALSE]
    ELSE s

\* sfs_reclaim.  No call lowers nlinks, so the file itself is never freed.
sfs_reclaim(s, n) ==
    IF s.node[n].reclaim > 1 \/ s.node[n].ref # 0
    THEN [s EXCEPT !.node[n].reclaim = @ - 1]
    ELSE [sfs_fsync(s, n) EXCEPT !.node[n] = NoNode]

vop_ref_inc(s, n) == [s EXCEPT !.node[n].ref = @ + 1]
vop_open_inc(s, n) == [s EXCEPT !.node[n].open = @ + 1]

\* inode_ref_dec, and vop_reclaim with the last reference; a device keeps one.
vop_ref_dec(s, n) ==
    LET s1 == [s EXCEPT !.node[n].ref = @ - 1]
    IN  IF s1.node[n].ref = 0 /\ n \notin Device THEN sfs_reclaim(s1, n) ELSE s1

\* inode_open_dec, and vop_close with the last.
vop_open_dec(s, n) ==
    LET s1 == [s EXCEPT !.node[n].open = @ - 1]
    IN  IF s1.node[n].open = 0 /\ n \notin Device THEN sfs_fsync(s1, n) ELSE s1

-----------------------------------------------------------------------------
(* Directories.                                                            *)

\* sfs_dirent_read_nolock
Entry(s, n, slot) == s.data[sfs_bmap_load(s, n, slot).ino]
Slots(s, n) == [i \in 1..s.node[n].din.blocks |-> Entry(s, n, i - 1)]

\* sfs_dirent_search_nolock
sfs_dirent_search(s, n, name) ==
    LET found == {e \in Range(Slots(s, n)) : e[1] # 0 /\ e[2] = name}
    IN  Then(kmalloc(s), LAMBDA t : IF found = {} THEN Fail(t, "E_NOENT")
                                    ELSE [t EXCEPT !.ino = (CHOOSE e \in found : TRUE)[1]])

sfs_lookup_once(s, n, name) ==
    Then(sfs_dirent_search(s, n, name), LAMBDA t : sfs_load_inode(t, t.ino))

sfs_lookup(s, n, path) == vop_ref_dec(sfs_lookup_once(vop_ref_inc(s, n), n, path), n)

\* sfs_namefile: up to the root, one reference at a time.
sfs_namefile(s, n) ==
    LET up[d \in Nat] ==
            IF d = 0 THEN [kmalloc(vop_ref_inc(s, n)) EXCEPT !.at = n]
            ELSE LET t == up[d - 1]
                     u == sfs_lookup_once(t, t.at, DOTDOT)
                 IN  IF ~Ok(t) \/ t.ent = -1 THEN t
                     ELSE IF ~Ok(u) THEN vop_ref_dec([u EXCEPT !.at = t.at], t.at)
                     ELSE IF u.at = t.at THEN [vop_ref_dec(vop_ref_dec(u, t.at), t.at) EXCEPT !.ent = -1]
                     ELSE vop_ref_dec(u, t.at)
    IN  IF Ok(kmalloc(s)) THEN up[NBLOCKS] ELSE kmalloc(s)

-----------------------------------------------------------------------------
(* Reading and writing.                                                    *)

\* The parts of the words from..(to - 1) of a file, by block.
Pieces(from, to) ==
    [i \in 1..(ceil(to) - (from \div BLKSIZE)) |->
        LET b == (from \div BLKSIZE) + i - 1
        IN  [blk |-> b, from |-> Max({from, b * BLKSIZE}), to |-> Min({to, (b + 1) * BLKSIZE})]]

\* sfs_io_nolock: s.done words from offset are read into s.buf, or written.
sfs_io(s, n, offset, len, write, value) ==
    LET size == s.node[n].din.size
        most == Min({offset + len, MAX_FILE_SIZE})
        endpos == IF write THEN most ELSE Min({most, size})
        Piece(t, p) ==
            Then(sfs_bmap_load(t, n, p.blk), LAMBDA u :
                LET o == p.blk * BLKSIZE
                    u1 == [u EXCEPT !.done = @ + p.to - p.from]
                IN  IF write
                    THEN [u1 EXCEPT !.data[u.ino] = [i \in 1..BLKSIZE |->
                                        IF o + i > p.from /\ o + i <= p.to THEN value ELSE @[i]]]
                    ELSE [u1 EXCEPT !.buf = @ \o SubSeq(u.data[u.ino], p.from - o + 1, p.to - o)])
        s1 == FoldLeft(Piece, s, Pieces(offset, endpos))
    IN  CASE offset >= MAX_FILE_SIZE -> Fail(s, "E_INVAL")
          [] offset < MAX_FILE_SIZE /\ (len = 0 \/ endpos <= offset) -> s
          [] OTHER -> IF offset + s1.done > size
                      THEN [s1 EXCEPT !.node[n].din.size = offset + s1.done, !.node[n].dirty = TRUE]
                      ELSE s1

\* sfs_truncfile: when the disk is full the blocks it got stay with the file.
sfs_truncfile(s, n, len) ==
    LET din == s.node[n].din
        grown == FoldLeft(LAMBDA t, i : Then(t, LAMBDA u : sfs_bmap_load(u, n, i - 1)), s,
                          [i \in 1..(ceil(len) - din.blocks) |-> din.blocks + i])
        cut == FoldLeft(LAMBDA t, i : Then(t, LAMBDA u : sfs_bmap_truncate(u, n)), s,
                        [i \in 1..(din.blocks - ceil(len)) |-> i])
    IN  CASE len > MAX_FILE_SIZE -> Fail(s, "E_INVAL")
          [] len <= MAX_FILE_SIZE /\ din.size = len ->
                IF ceil(len) = din.blocks THEN s ELSE Fail(s, "assert: tblks == din->blocks")
          [] OTHER -> Then(IF din.blocks < ceil(len) THEN grown ELSE cut,
                           LAMBDA t : [t EXCEPT !.node[n].din.size = len, !.node[n].dirty = TRUE])

sfs_tryseek(s, n, pos) ==
    CASE pos >= MAX_FILE_SIZE -> Fail(s, "E_INVAL")
      [] pos < MAX_FILE_SIZE /\ pos > s.node[n].din.size -> sfs_truncfile(s, n, pos)
      [] OTHER -> s

\* sfs_getdirentry: s.ino is the inode of the slot-th entry in use.
sfs_getdirentry(s, n, slot) ==
    LET used == SelectSeq(Slots(s, n), LAMBDA e : e[1] # 0)
    IN  Then(kmalloc(s), LAMBDA t : IF slot >= Len(used) THEN Fail(t, "E_NOENT")
                                    ELSE [t EXCEPT !.ino = used[slot + 1][1]])

-----------------------------------------------------------------------------
(* Mounting and cleaning up.                                               *)

\* sfs_do_mount, of an image.
sfs_do_mount(img) ==
    [freemap |-> img.freemap, unused |-> img.unused, super_dirty |-> FALSE,
     data |-> img.data, dinode |-> img.inode,
     node |-> [n \in DOMAIN img.inode \cup Device |-> IF n \in Device THEN [NoNode EXCEPT !.ref = 1] ELSE NoNode],
     disk |-> [freemap |-> img.freemap, unused |-> img.unused]]

\* sfs_sync: the cached inodes, and the super block and the free map.
sfs_sync(s) ==
    LET s1 == [s EXCEPT !.dinode = [n \in DOMAIN @ |-> IF s.node[n].dirty THEN s.node[n].din ELSE @[n]],
                        !.node = [n \in DOMAIN @ |-> [@[n] EXCEPT !.dirty = FALSE]]]
    IN  IF s.super_dirty
        THEN [s1 EXCEPT !.disk = [freemap |-> s.freemap, unused |-> s.unused], !.super_dirty = FALSE]
        ELSE s1
=============================================================================
