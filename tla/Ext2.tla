-------------------------------- MODULE Ext2 --------------------------------
(***************************************************************************)
(* Reading an ext2 volume: inodes (fs/inode.c), the blocks of a file or    *)
(* directory through the direct and the single indirect pointers, the      *)
(* lookup of a name (arch/ext2_lookup.c, arch/path.c) and the loading of a *)
(* file (arch/load.c).                                                     *)
(*                                                                         *)
(* A mounted volume is a record of g_block_size, g_inode_size,             *)
(* bg_inode_table and s_inodes_count, and of its blocks: one of the inode  *)
(* table is a sequence of inodes, a directory block the sequence of its    *)
(* entries, an indirect block one of block numbers, a data block one of    *)
(* bytes.  It has one block group.  left is what the stack holds where an  *)
(* inode is read to.  A path is the sequence of its components.  Block     *)
(* reads, which disk_read either does or never returns from, always        *)
(* succeed here; kmalloc of the buffer for an indirect block of a          *)
(* directory may fail: full.                                               *)
(***************************************************************************)
EXTENDS Uint32, Sequences, SequencesExt

CONSTANTS DIRECT,      \* direct pointers of an inode: 12
          NUMBER,      \* the size of a block number: 4
          BUFFER,      \* 4096, the buffers for blocks that are not on the heap
          SIZEOF_INODE,\* 128, struct ext2_inode
          NAME_BUF,    \* the size of resolve_path's buffer for a component: 32
          Length,      \* the length of a name, for every name
          Pieces       \* a name as resolve_path cuts it to fit into its buffer

ASSUME Ext2Assumption ==
    /\ {DIRECT, NUMBER, BUFFER, SIZEOF_INODE, NAME_BUF} \subseteq Nat \ {0}
    /\ \A name \in DOMAIN Length : Length[name] \in Nat
    /\ Pieces \in [DOMAIN Length -> Seq(DOMAIN Length)]
    /\ \A name \in DOMAIN Length : Length[name] < NAME_BUF => Pieces[name] = <<name>>

ROOT == 2

read_fs_block(vol, id) == vol.block[id]

\* A number that the volume cannot have leaves the caller's inode as it was.
read_inode(vol, num) ==
    LET inodes_per_block == vol.g_block_size \div vol.g_inode_size
        idx == num - 1
    IN  IF num \in 1 .. vol.s_inodes_count
        THEN read_fs_block(vol, vol.bg_inode_table + idx \div inodes_per_block)[(idx % inodes_per_block) + 1]
        ELSE vol.left

\* What every command overruns on such a volume: read_inode's own buffer with a
\* block, or the caller's structure with an inode.
Overrun(vol) == vol.g_block_size > BUFFER \/ vol.g_inode_size > SIZEOF_INODE

\* The blocks that a file or directory needs, and the count of them in uint32_t.
Needed(vol, inode) == (inode.i_size + vol.g_block_size - 1) \div vol.g_block_size

block_count(vol, inode) == ((inode.i_size + vol.g_block_size - 1) % WORD) \div vol.g_block_size

\* The number of the k-th block, counting from 0; 0 for a hole.
block_id(vol, inode, k) ==
    IF k < DIRECT THEN inode.i_block[k + 1]
    ELSE read_fs_block(vol, inode.i_block[DIRECT + 1])[k - DIRECT + 1]

\* How many of n blocks the pointers lead to, without and with the indirect block.
Reach(vol, n, indirect) ==
    Min({n, IF indirect THEN DIRECT + vol.g_block_size \div NUMBER ELSE DIRECT})

\* Blocks in order, those of a walk through the first n.
BlocksOf(vol, inode, n) == [k \in 1 .. n |-> block_id(vol, inode, k - 1)]

\* The entries in use and with a name of a directory block, as far as its records
\* can be followed.
Entries(block) ==
    LET end == {i \in DOMAIN block : block[i].bad}
        seen == IF end = {} THEN block ELSE SubSeq(block, 1, Min(end) - 1)
    IN  FlattenSeq([i \in DOMAIN seen |-> IF seen[i].inode # 0 /\ Length[seen[i].name] > 0
                                          THEN <<seen[i]>> ELSE << >>])

\* A walk that knows the direct blocks alone.
listing_direct(vol, inode, full) ==
    LET ids == BlocksOf(vol, inode, Reach(vol, block_count(vol, inode), FALSE))
    IN  FlattenSeq([k \in DOMAIN ids |-> IF ids[k] = 0 THEN << >>
                                         ELSE Entries(read_fs_block(vol, ids[k]))])

\* The entries that the loop over a directory's blocks meets.
Listing(vol, inode, full) ==
    LET indirect == inode.i_block[DIRECT + 1] # 0 /\ ~full
        ids == BlocksOf(vol, inode, Reach(vol, block_count(vol, inode), indirect))
    IN  FlattenSeq([k \in DOMAIN ids |-> IF ids[k] = 0 THEN << >>
                                         ELSE Entries(read_fs_block(vol, ids[k]))])

\* ext2_lookup, and find_inode_in_dir, which is the same loop: the inode of the
\* first entry of that name, 0 if there is none or if dir is no directory.
ext2_lookup(vol, dir, name, full) ==
    LET inode == read_inode(vol, dir)
        all == Listing(vol, inode, full)
        found == {i \in DOMAIN all : all[i].name = name}
    IN  IF inode.i_mode # "dir" \/ found = {} THEN 0 ELSE all[Min(found)].inode

\* Every path starts at the root directory.  A component that does not fit into
\* the buffer is looked up in pieces, each in the one before.
resolve_path(vol, path, full) ==
    LET step(dir, piece) == IF dir = 0 THEN 0 ELSE ext2_lookup(vol, dir, piece, full)
        down(dir, name) == FoldLeft(step, dir, Pieces[name])
    IN  FoldLeft(down, ROOT, path)

Zeros(vol) == [i \in 1 .. vol.g_block_size |-> 0]

\* Whether load_file_to_memory goes on to the indirect block.
load_indirect(vol, inode) == inode.i_block[DIRECT + 1] # 0 /\ vol.g_block_size <= BUFFER

\* A loader that stops reading at the first hole.
load_to_hole(vol, num) ==
    LET inode == read_inode(vol, num)
        n == Reach(vol, block_count(vol, inode), load_indirect(vol, inode))
        ids == BlocksOf(vol, inode, n)
    IN  [ok    |-> inode.i_size # 0 /\ n = block_count(vol, inode),
         image |-> FlattenSeq([k \in 1 .. n |-> IF \E j \in 1 .. k : ids[j] = 0 THEN Zeros(vol)
                                                ELSE read_fs_block(vol, ids[k])])]

\* load_file_to_memory: whole blocks, zeros for the holes; false for an empty file
\* and for one with blocks that the pointers do not lead to.
load_file_to_memory(vol, num) ==
    LET inode == read_inode(vol, num)
        n == Reach(vol, block_count(vol, inode), load_indirect(vol, inode))
        ids == BlocksOf(vol, inode, n)
    IN  [ok    |-> inode.i_size # 0 /\ n = block_count(vol, inode),
         image |-> FlattenSeq([k \in 1 .. n |-> IF ids[k] = 0 THEN Zeros(vol)
                                                ELSE read_fs_block(vol, ids[k])])]

\* A cat that prints the last block to its end.
cat_blocks(vol, inode) ==
    LET n == Reach(vol, Needed(vol, inode), inode.i_block[DIRECT + 1] # 0)
        ids == BlocksOf(vol, inode, n)
    IN  FlattenSeq([k \in 1 .. n |-> IF ids[k] = 0 THEN << >> ELSE read_fs_block(vol, ids[k])])

\* What ext2_cat prints of a file: its blocks, the last one up to its size, and
\* nothing for a hole.
Printed(vol, inode) ==
    LET n == Reach(vol, Needed(vol, inode), inode.i_block[DIRECT + 1] # 0)
        ids == BlocksOf(vol, inode, n)
        bytes(k) == Min({vol.g_block_size, inode.i_size - (k - 1) * vol.g_block_size})
    IN  FlattenSeq([k \in 1 .. n |-> IF ids[k] = 0 THEN << >>
                                     ELSE SubSeq(read_fs_block(vol, ids[k]), 1, bytes(k))])
-----------------------------------------------------------------------------
\* What the kernel takes a volume to be; used are the inodes that are in use.  The
\* pointers of directories and files lead to blocks that can be read as such, and
\* the entries of directories name inodes in use.  Nothing follows a record with a
\* bad length, behind which nothing can be found.
Records(used) == [inode : used \cup {0}, name : DOMAIN Length, bad : BOOLEAN]

DirBlock(block, used) ==
    /\ block \in Seq(Records(used))
    /\ \A i \in DOMAIN block : block[i].bad => i = Len(block)

Whole(vol, used, inode) ==
    LET last == inode.i_block[DIRECT + 1]
    IN  /\ inode.i_size \in Nat
        /\ inode.i_block \in [1 .. DIRECT + 1 -> Nat]
        /\ last # 0 => vol.block[last] \in [1 .. vol.g_block_size \div NUMBER -> Nat]
        /\ \A k \in 0 .. Reach(vol, Needed(vol, inode), last # 0) - 1 :
              LET id == block_id(vol, inode, k)
              IN  id # 0 => IF inode.i_mode = "file" THEN vol.block[id] \in [1 .. vol.g_block_size -> Nat]
                            ELSE DirBlock(vol.block[id], used)

Readable(vol, used) ==
    /\ vol.g_block_size \in Nat \ {0} /\ vol.s_inodes_count \in Nat
    /\ ROOT \in used /\ used \subseteq 1 .. vol.s_inodes_count
    /\ \A num \in used :
          read_inode(vol, num).i_mode \in {"dir", "file"} => Whole(vol, used, read_inode(vol, num))

\* The directories are a tree: "." is the directory itself and ".." the one that has
\* it, at the root the root.
Tree(vol, used) ==
    /\ ext2_lookup(vol, ROOT, "..", FALSE) = ROOT
    /\ \A num \in used :
          /\ read_inode(vol, num).i_mode = "dir" => ext2_lookup(vol, num, ".", FALSE) = num
          /\ \A name \in DOMAIN Length \ {".", ".."} :
                LET child == ext2_lookup(vol, num, name, FALSE)
                IN  child # 0 /\ read_inode(vol, child).i_mode = "dir"
                       => ext2_lookup(vol, child, "..", FALSE) = num
=============================================================================
