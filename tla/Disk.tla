-------------------------------- MODULE Disk --------------------------------
(***************************************************************************)
(* The path of a block between the file system and the disk: sfs_io.c and  *)
(* the free map of bitmap.c on top, the disk0 device that moves the data   *)
(* in pieces through its own buffer (dev_disk0.c, iobuf.c), ide.c and the  *)
(* ram disk (ramdisk.c).  The disk is an array of sectors, a sector one    *)
(* value; lengths and offsets are counted in sectors where the code counts *)
(* bytes.  The disk answers at once and the kernel is not preempted, so an *)
(* operation is one step (the semaphores around it are in module Sem).     *)
(***************************************************************************)
EXTENDS Integers, Sequences, FiniteSets, FiniteSetsExt

CONSTANTS DISK0_BLK_NSECT,  \* sectors of a block
          BUFBLKS,          \* blocks of disk0_buffer
          d_blocks,         \* blocks of the device
          super_blocks,     \* super.blocks: those the file system uses
          MaxOps            \* bound: operations in a row

ASSUME DiskAssumption ==
  /\ DISK0_BLK_NSECT \in Nat \ {0} /\ BUFBLKS \in Nat \ {0}
  /\ super_blocks \in Nat \ {0} /\ d_blocks \in Nat /\ super_blocks <= d_blocks /\ MaxOps \in Nat

BLKSIZE == DISK0_BLK_NSECT
EINVAL == 3
E_NO_MEM == 4
SFS_BLKN_SUPER == 0
SFS_BLKN_FREEMAP == 2

\* sfs_freemap_blocks, sfs_freemap_bits: a sector of the map holds one bit
freemap_blocks == (super_blocks + BLKSIZE - 1) \div BLKSIZE
freemap_bits == freemap_blocks * BLKSIZE

Array(n, f(_)) == [i \in 0..(n - 1) |-> f(i)]
Length(a) == Cardinality(DOMAIN a)
\* memcpy(dst + d, src + s, n)
Copy(dst, d, src, s, n) ==
  [i \in DOMAIN dst |-> IF i >= d /\ i < d + n THEN src[s + i - d] ELSE dst[i]]

VARIABLES disk,     \* the ram disk
          freemap,  \* sfs->freemap->map, 1 for a free block
          op,       \* the last operation: its arguments, state before, results
          ops       \* how many there were (bounded by MaxOps)
diskvars == <<disk, freemap, op, ops>>

-----------------------------------------------------------------------------
(* ramdisk.c and ide.c.  size - secno is unsigned, and never negative here. *)
Sectors(dsk, secno, nsecs) == Min({nsecs, Length(dsk) - secno})
ramdisk_read(dsk, secno, dst, nsecs) == Copy(dst, 0, dsk, secno, Sectors(dsk, secno, nsecs))
ramdisk_write(dsk, secno, src, nsecs) == Copy(dsk, secno, src, 0, Sectors(dsk, secno, nsecs))
ide_read_secs(dsk, secno, dst, nsecs) == ramdisk_read(dsk, secno, dst, nsecs)
ide_write_secs(dsk, secno, src, nsecs) == ramdisk_write(dsk, secno, src, nsecs)

(* iobuf.c: base is the position in the caller's memory.                   *)
iobuf_init(base, len, offset) == [base |-> base, offset |-> offset, resid |-> len]
iobuf_skip(iob, n) ==
  [base |-> iob.base + n, offset |-> iob.offset + n, resid |-> iob.resid - n]

\* m2b: from data to the caller's memory
iobuf_move(mem, iob, data, len, m2b) ==
  LET alen == Min({iob.resid, len})
  IN [mem  |-> IF m2b THEN Copy(mem, iob.base, data, 0, alen) ELSE mem,
      data |-> IF m2b THEN data ELSE Copy(data, 0, mem, iob.base, alen),
      iob  |-> iobuf_skip(iob, alen),
      copied |-> alen]

(* dev_disk0.c                                                             *)
disk0_read_blks(dsk, buffer, blkno, nblks) ==
  ide_read_secs(dsk, blkno * DISK0_BLK_NSECT, buffer, nblks * DISK0_BLK_NSECT)
disk0_write_blks(dsk, buffer, blkno, nblks) ==
  ide_write_secs(dsk, blkno * DISK0_BLK_NSECT, buffer, nblks * DISK0_BLK_NSECT)

DISK0_BUFSIZE == BUFBLKS * BLKSIZE
Garbage == Array(DISK0_BUFSIZE, LAMBDA i : -1)    \* what disk0_buffer holds

\* m: the disk and the caller's memory, as they are left
NextBlock_one(blkno, nblks) == blkno + 1
NextBlock(blkno, nblks) == blkno + nblks

RECURSIVE WriteChunks(_, _, _, _), ReadChunks(_, _, _, _)
WriteChunks(m, iob, blkno, resid) ==
  IF resid = 0 THEN m
  ELSE LET moved == iobuf_move(m.mem, iob, Garbage, DISK0_BUFSIZE, FALSE)
           nblks == moved.copied \div BLKSIZE
       IN WriteChunks([m EXCEPT !.disk = disk0_write_blks(m.disk, moved.data, blkno, nblks),
                                !.ok = @ /\ moved.copied # 0 /\ moved.copied <= resid
                                         /\ moved.copied % BLKSIZE = 0],
                      moved.iob, NextBlock(blkno, nblks), resid - moved.copied)
ReadChunks(m, iob, blkno, resid) ==
  IF resid = 0 THEN m
  ELSE LET alen == Min({DISK0_BUFSIZE, resid})
           nblks == alen \div BLKSIZE
           moved == iobuf_move(m.mem, iob, disk0_read_blks(m.disk, Garbage, blkno, nblks), alen, TRUE)
       IN ReadChunks([m EXCEPT !.mem = moved.mem,
                               !.ok = @ /\ moved.copied = alen /\ moved.copied % BLKSIZE = 0],
                     moved.iob, NextBlock(blkno, nblks), resid - moved.copied)

disk0_io(m, iob, write) ==
  LET blkno == iob.offset \div BLKSIZE
      nblks == iob.resid \div BLKSIZE
  IN IF \/ iob.offset % BLKSIZE # 0 \/ iob.resid % BLKSIZE # 0 \/ blkno + nblks > d_blocks
     THEN [m EXCEPT !.ret = -EINVAL]
     ELSE [IF write THEN WriteChunks(m, iob, blkno, iob.resid)
                    ELSE ReadChunks(m, iob, blkno, iob.resid) EXCEPT !.ret = 0]

-----------------------------------------------------------------------------
(* sfs_io.c.  m.mem is the caller's memory or, for the operations on part  *)
(* of a block, sfs_buffer.                                                 *)
sfs_rwblock_nolock(m, at, blkno, write, check) ==
  disk0_io([m EXCEPT !.ok = @ /\ (blkno # 0 \/ ~check) /\ blkno < super_blocks],
           iobuf_init(at, BLKSIZE, blkno * BLKSIZE), write)

RECURSIVE sfs_rwblock(_, _, _, _, _), ClearBlocks(_, _, _), LoadFreemap(_, _, _)
sfs_rwblock(m, at, blkno, nblks, write) ==
  IF nblks = 0 THEN m
  ELSE LET done == sfs_rwblock_nolock(m, at, blkno, write, TRUE)
       IN IF done.ret # 0 THEN done
          ELSE sfs_rwblock(done, at + BLKSIZE, blkno + 1, nblks - 1, write)

Start(mem) == [disk |-> disk, mem |-> mem, ret |-> 0, ok |-> TRUE]
Block(f(_)) == Array(BLKSIZE, f)
sfs_buffer == Block(LAMBDA i : -2)
Zeros == Block(LAMBDA i : 0)

sfs_rbuf(buf, len, blkno, offset) ==
  LET got == sfs_rwblock_nolock(Start(sfs_buffer), 0, blkno, FALSE, TRUE)
  IN [got EXCEPT !.mem = IF got.ret = 0 THEN Copy(buf, 0, got.mem, offset, len) ELSE buf]

sfs_wbuf(buf, len, blkno, offset) ==
  LET got == sfs_rwblock_nolock(Start(sfs_buffer), 0, blkno, FALSE, TRUE)
  IN IF got.ret # 0 THEN got
     ELSE sfs_rwblock_nolock([got EXCEPT !.mem = Copy(got.mem, offset, buf, 0, len)],
                             0, blkno, TRUE, TRUE)

ClearBlocks(m, blkno, nblks) ==
  IF nblks = 0 THEN m
  ELSE LET done == sfs_rwblock_nolock(m, 0, blkno, TRUE, TRUE)
       IN IF done.ret # 0 THEN done ELSE ClearBlocks(done, blkno + 1, nblks - 1)
sfs_clear_block(blkno, nblks) == ClearBlocks(Start(Zeros), blkno, nblks)

sfs_sync_super(super) ==
  sfs_rwblock_nolock(Start(Copy(Zeros, 0, super, 0, Length(super))), 0, SFS_BLKN_SUPER, TRUE, FALSE)

sfs_sync_freemap == sfs_rwblock(Start(freemap), 0, SFS_BLKN_FREEMAP, freemap_blocks, TRUE)

\* sfs_init_read, block by block, in sfs_init_freemap
LoadFreemap(m, blkno, nblks) ==
  IF nblks = 0 THEN m
  ELSE LET done == disk0_io(m, iobuf_init((blkno - SFS_BLKN_FREEMAP) * BLKSIZE, BLKSIZE,
                                          blkno * BLKSIZE), FALSE)
       IN IF done.ret # 0 THEN done ELSE LoadFreemap(done, blkno + 1, nblks - 1)
bitmap_create(nbits) == Array(nbits, LAMBDA i : 1)
sfs_init_freemap == LoadFreemap(Start(bitmap_create(freemap_bits)), SFS_BLKN_FREEMAP, freemap_blocks)

(* bitmap.c: the first bit that is set, the words in order and in a word   *)
(* from the lowest bit.                                                    *)
Free == {i \in DOMAIN freemap : freemap[i] = 1}
bitmap_alloc == IF Free = {} THEN -E_NO_MEM ELSE Min(Free)
bitmap_test(i) == freemap[i] = 1

-----------------------------------------------------------------------------
Done(name, args, m) ==
  op' = [name |-> name, args |-> args, before |-> disk, map |-> freemap,
         mem |-> m.mem, ret |-> m.ret, ok |-> m.ok]

\* The image mksfs leaves: every sector is told apart by its number, except
\* those of the free map.
InMap(i) == i \div BLKSIZE \in SFS_BLKN_FREEMAP..(SFS_BLKN_FREEMAP + freemap_blocks - 1)
FreeAtFirst(b) == b >= SFS_BLKN_FREEMAP + freemap_blocks /\ b < super_blocks
Image == Array(d_blocks * BLKSIZE,
               LAMBDA i : IF InMap(i) THEN IF FreeAtFirst(i - SFS_BLKN_FREEMAP * BLKSIZE) THEN 1 ELSE 0
                          ELSE 100 + i)
Mounted == [name |-> "mounted", args |-> << >>, before |-> Image, map |-> << >>,
         mem |-> << >>, ret |-> 0, ok |-> TRUE]

DiskInit == /\ disk = Image
            /\ freemap = Array(freemap_bits, LAMBDA i : Image[SFS_BLKN_FREEMAP * BLKSIZE + i])
            /\ op = Mounted /\ ops = 0

Data(n) == Array(n, LAMBDA i : 10 + i)     \* what a caller writes
Room(n) == Array(n, LAMBDA i : 50)         \* where a caller reads to

\* dop_io: any offset and length
Io(offset, resid, write) ==
  LET m == disk0_io(Start(IF write THEN Data(resid) ELSE Room(resid)),
                    iobuf_init(0, resid, offset), write)
  IN disk' = m.disk /\ Done("io", <<offset, resid, write>>, m) /\ UNCHANGED freemap

Blocks(blkno, nblks, write) ==
  LET n == nblks * BLKSIZE
      m == sfs_rwblock(Start(IF write THEN Data(n) ELSE Room(n)), 0, blkno, nblks, write)
  IN disk' = m.disk /\ Done("blocks", <<blkno, nblks, write>>, m) /\ UNCHANGED freemap

Part(blkno, offset, len, write) ==
  LET m == IF write THEN sfs_wbuf(Data(len), len, blkno, offset)
                    ELSE sfs_rbuf(Room(len), len, blkno, offset)
  IN disk' = m.disk /\ Done("part", <<blkno, offset, len, write>>, m) /\ UNCHANGED freemap

Clear(blkno, nblks) ==
  LET m == sfs_clear_block(blkno, nblks)
  IN disk' = m.disk /\ Done("clear", <<blkno, nblks>>, m) /\ UNCHANGED freemap

SyncSuper ==
  LET m == sfs_sync_super(Data(1))
  IN disk' = m.disk /\ Done("super", << >>, m) /\ UNCHANGED freemap
SyncFreemap ==
  LET m == sfs_sync_freemap
  IN disk' = m.disk /\ Done("freemap", << >>, m) /\ UNCHANGED freemap
Remount ==
  LET m == sfs_init_freemap
  IN freemap' = m.mem /\ Done("remount", << >>, m) /\ UNCHANGED disk

AllocBlock ==
  /\ freemap' = IF bitmap_alloc < 0 THEN freemap ELSE [freemap EXCEPT ![bitmap_alloc] = 0]
  /\ Done("alloc", << >>, [mem |-> << >>, ret |-> bitmap_alloc, ok |-> TRUE])
  /\ UNCHANGED disk
\* bitmap_free asserts that the block is in use: callers free what they own.
FreeBlock(i) ==
  /\ ~bitmap_test(i)
  /\ freemap' = [freemap EXCEPT ![i] = 1]
  /\ Done("free", <<i>>, [mem |-> << >>, ret |-> 0, ok |-> i < freemap_bits])
  /\ UNCHANGED disk

DiskReturn == op # Mounted /\ op' = Mounted /\ UNCHANGED <<disk, freemap, ops>>

FirstData == SFS_BLKN_FREEMAP + freemap_blocks
DiskNext ==
  \/ /\ op = Mounted /\ ops < MaxOps /\ ops' = ops + 1
     /\ \/ \E offset \in 0..(d_blocks * BLKSIZE + 1), resid \in 0..(d_blocks * BLKSIZE), w \in BOOLEAN :
             (w => offset >= FirstData * BLKSIZE) /\ Io(offset, resid, w)
        \/ \E b \in FirstData..(super_blocks - 1), n \in 0..super_blocks, w \in BOOLEAN :
             b + n <= super_blocks /\ (Blocks(b, n, w) \/ (w /\ Clear(b, n)))
        \/ \E b \in FirstData..(super_blocks - 1), o \in 0..(BLKSIZE - 1), n \in 1..BLKSIZE, w \in BOOLEAN :
             o + n <= BLKSIZE /\ Part(b, o, n, w)
        \/ SyncSuper \/ SyncFreemap \/ Remount \/ AllocBlock
        \/ \E b \in FirstData..(super_blocks - 1) : FreeBlock(b)
  \/ DiskReturn

-----------------------------------------------------------------------------
\* before, with the n sectors from d on replaced by those of data
With(d, n, data) == Copy(op.before, d, data, 0, n)
Kept(d, n) == disk = op.before /\ op.mem = Array(n, LAMBDA i : op.before[d + i])
Ok == op.ret = 0

\* Every operation moves exactly the sectors it is asked for and no other,
\* however it is cut into pieces: whole blocks in disk0_buffer's size, part
\* of a block with the rest of it kept, zeros, the super block; one that is
\* not aligned or ends past the device is refused and moves nothing; the
\* lowest free block is allocated and no block the file system does not have;
\* a free map that was written is the one read back by the next mount.
DiskExact ==
  LET a == op.args
  IN /\ op.ok
     /\ CASE op.name = "io" ->
               LET legal == /\ a[1] % BLKSIZE = 0 /\ a[2] % BLKSIZE = 0
                            /\ a[1] + a[2] <= d_blocks * BLKSIZE
               IN IF ~legal THEN op.ret = -EINVAL /\ disk = op.before
                  ELSE Ok /\ IF a[3] THEN disk = With(a[1], a[2], Data(a[2])) ELSE Kept(a[1], a[2])
          [] op.name = "blocks" ->
               LET d == a[1] * BLKSIZE
                   n == a[2] * BLKSIZE
               IN Ok /\ IF a[3] THEN disk = With(d, n, Data(n)) ELSE Kept(d, n)
          [] op.name = "part" ->
               LET d == a[1] * BLKSIZE + a[2]
               IN Ok /\ IF a[4] THEN disk = With(d, a[3], Data(a[3])) ELSE Kept(d, a[3])
          [] op.name = "clear" ->
               LET n == a[2] * BLKSIZE
               IN Ok /\ disk = With(a[1] * BLKSIZE, n, Array(n, LAMBDA i : 0))
          [] op.name = "super" ->
               Ok /\ disk = With(0, BLKSIZE, [i \in 0..(BLKSIZE - 1) |-> IF i = 0 THEN 10 ELSE 0])
          [] op.name = "freemap" ->
               Ok /\ disk = With(SFS_BLKN_FREEMAP * BLKSIZE, freemap_bits, freemap)
          [] op.name = "remount" ->
               /\ Ok /\ disk = op.before
               /\ \A i \in DOMAIN freemap : freemap[i] = disk[SFS_BLKN_FREEMAP * BLKSIZE + i]
          [] op.name = "alloc" ->
               IF op.ret < 0 THEN \A i \in DOMAIN op.map : op.map[i] = 0
               ELSE /\ op.ret \in FirstData..(super_blocks - 1)
                    /\ op.map[op.ret] = 1 /\ freemap[op.ret] = 0
                    /\ \A i \in 0..(op.ret - 1) : op.map[i] = 0
          [] op.name = "free" -> disk = op.before /\ freemap = [op.map EXCEPT ![a[1]] = 1]
          [] OTHER -> TRUE
=============================================================================
