-------------------------------- MODULE Mksfs --------------------------------
(***************************************************************************)
(* tools/mksfs.c: the image of the root file system, made from a directory *)
(* of the build host.  It only ever appends: numbers are given to inodes   *)
(* and blocks in order, and the free map is what lies past the last.       *)
(***************************************************************************)
EXTENDS Sfs

CONSTANTS
    HOST_TREE           \* the host's files, by inode: [kind, words, names: a sequence of
                        \* <<name, inode>>, a name being hidden when it is 0]

SFS_BLKN_FREEMAP == 2
NewInode(type) ==
    [size |-> 0, type |-> type, nlinks |-> 0, blocks |-> 0,
     direct |-> [i \in 1..NDIRECT |-> 0], indirect |-> 0]

\* The results of a step that failed stay in t.bug: the tool ends there.
sfs_alloc_ino(t) ==
    IF t.next < NBLOCKS THEN [t EXCEPT !.unused = @ - 1, !.next = @ + 1, !.ino = t.next]
    ELSE [t EXCEPT !.bug = TRUE]

\* alloc_cache_inode
alloc_cache_inode(t, real, type) ==
    LET u == sfs_alloc_ino(t)
    IN  [u EXCEPT !.inode = (u.ino :> NewInode(type)) @@ @, !.cache = (real :> u.ino) @@ @]

write_block(t, words, ino) ==
    [t EXCEPT !.data[ino] = [i \in 1..BLKSIZE |-> IF i <= Len(words) THEN words[i] ELSE 0]]

\* create_sfs: one block holds the whole free map.
create_sfs ==
    [next |-> SFS_BLKN_FREEMAP + 1, unused |-> NBLOCKS - (SFS_BLKN_FREEMAP + 1), ino |-> 0,
     bug |-> FALSE, data |-> [b \in Block |-> Zero],
     inode |-> SFS_BLKN_ROOT :> NewInode("dir"), cache |-> 0 :> SFS_BLKN_ROOT]

\* update_cache: the indirect block of the file, allocated when it has none.
update_cache(t, file) ==
    LET u == sfs_alloc_ino(t)
    IN  IF t.inode[file].indirect # 0 THEN t ELSE [u EXCEPT !.inode[file].indirect = u.ino]

\* append_block: block ino becomes the last of the file.
append_block(t, file, size, ino) ==
    LET nblks == t.inode[file].blocks
        u == update_cache(t, file)
        t1 == IF nblks < NDIRECT THEN [t EXCEPT !.inode[file].direct[nblks + 1] = ino]
              ELSE [u EXCEPT !.data[u.inode[file].indirect][nblks - NDIRECT + 1] = ino]
    IN  IF nblks >= NDIRECT + BLKSIZE \/ nblks * BLKSIZE >= MAX_FILE_SIZE
        THEN [t EXCEPT !.bug = TRUE]
        ELSE [t1 EXCEPT !.inode[file].size = @ + size, !.inode[file].blocks = @ + 1]

add_entry(t, current, file, name) ==
    LET u == sfs_alloc_ino(t)
    IN  [append_block(write_block(u, <<file, name>>, u.ino), current, 1, u.ino)
            EXCEPT !.inode[file].nlinks = @ + 1]

\* A file's blocks; the text of a link is one block.
open_file(t, file, words) ==
    FoldLeft(LAMBDA u, b :
                LET v == sfs_alloc_ino(u)
                    part == SubSeq(words, (b - 1) * BLKSIZE + 1, Min({b * BLKSIZE, Len(words)}))
                IN  append_block(write_block(v, part, v.ino), file, Len(part), v.ino),
             t, [b \in 1..ceil(Len(words)) |-> b])

open_link(t, file, words) ==
    LET u == sfs_alloc_ino(t)
    IN  append_block(write_block(u, words, u.ino), file, Len(words), u.ino)

\* add_file: the second name of a file that was seen before is a hard link.
add_file(t, current, name, real) ==
    LET u == alloc_cache_inode(t, real, "file")
        v == IF real \in DOMAIN t.cache THEN t
             ELSE open_file(u, u.ino, HOST_TREE[real].words)
    IN  add_entry(v, current, v.cache[real], name)

add_link(t, current, name, real) ==
    LET u == alloc_cache_inode(t, real, "link")
    IN  add_entry(open_link(u, u.ino, HOST_TREE[real].words), current, u.ino, name)

RECURSIVE open_dir(_, _, _, _)

add_dir(t, parent, name, real) ==
    LET u == alloc_cache_inode(t, real, "dir")
    IN  add_entry(open_dir(u, u.ino, parent, real), parent, u.ino, name)

open_dir(t, current, parent, real) ==
    LET Add(u, e) ==
            CASE e[1] = 0                             -> u
              [] e[1] # 0 /\ HOST_TREE[e[2]].kind = "link" -> add_link(u, current, e[1], e[2])
              [] e[1] # 0 /\ HOST_TREE[e[2]].kind = "dir"  -> add_dir(u, current, e[1], e[2])
              [] e[1] # 0 /\ HOST_TREE[e[2]].kind = "file" -> add_file(u, current, e[1], e[2])
              [] OTHER                                -> u
        dots == add_entry(add_entry(t, current, current, DOT), current, parent, DOTDOT)
    IN  FoldLeft(Add, dots, HOST_TREE[real].names)

\* create_img and close_sfs: the free map has the blocks that were never given out.
create_img ==
    LET t == open_dir(create_sfs, SFS_BLKN_ROOT, SFS_BLKN_ROOT, 0)
    IN  [bug |-> t.bug, freemap |-> t.next..(NBLOCKS - 1), unused |-> t.unused, data |-> t.data,
         inode |-> t.inode]

\* What sfs_do_mount asserts of the image, and that the tool made one.
ASSUME ImageAssumption ==
    LET img == create_img
    IN  ~img.bug /\ img.unused = Cardinality(img.freemap)
=============================================================================
