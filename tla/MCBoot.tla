------------------------------- MODULE MCBoot -------------------------------
(***************************************************************************)
(* Two direct pointers, sectors of one unit, blocks of two and more, a     *)
(* block number in every unit.  The root directory has blocks in every     *)
(* position: a full one, a hole, and one behind the indirect pointer that  *)
(* ends in a bad record; on some volumes it has no indirect block where it *)
(* would need one.  The files have every size up to more than the pointers *)
(* can address, or count.  The disks differ from a sound one in one point  *)
(* each.                                                                   *)
(***************************************************************************)
EXTENDS Boot

E(num, name) == [inode |-> num, name |-> name, bad |-> FALSE]
Bad == [inode |-> 7, name |-> "zz", bad |-> TRUE]
Inode(m, size, ptrs) == [i_mode |-> m, i_size |-> size, i_block |-> ptrs]

\* Names of three characters are cut after two.
MCLength == [n \in {"", ".", "..", "a", "b", "f", "dev", "zz", "..a", "de", "v"} |->
                CASE n = "" -> 0 [] n \in {"..", "zz", "de"} -> 2 [] n \in {"dev", "..a"} -> 3
                  [] OTHER -> 1]
MCPieces == [n \in DOMAIN MCLength |->
                CASE n = "dev" -> <<"de", "v">> [] n = "..a" -> <<"..", "a">> [] OTHER -> <<n>>]
MCNames == {".", "..", "a", "b", "f", "dev", "zz"}

MCPaths == { << >>, <<"a">>, <<"f">>, <<"a", "b">>, <<"dev">>, <<"a", "b", "f">>, <<"a", "", "f">>,
             <<"zz">>, <<"a", "..", "f">>, <<"f", "a">>, <<"a", "zz">>, <<"a", "..a">> }

MCRequests == [lba : 0 .. WORD - 1, count : 1 .. 17]

\* The first n units of a block; the rest of it is zeros.
Pad(bs, s) == [i \in 1 .. bs |-> IF i \in DOMAIN s THEN s[i] ELSE 0]

\* Inode 2 is the root, 3 its a, 4 the b of that and 10 the dev of that, 5 the
\* root's dev and 9 the a of that, 6 and 7 the files f of b and of the root, 8 a
\* device zz.
Inodes(bs, root_mode, rootptrs, file, ptrs) ==
    <<Inode("none", 0, <<0, 0, 0>>), Inode(root_mode, 3 * bs, rootptrs),
      Inode("dir", bs, <<22, 0, 0>>), Inode("dir", bs + 1, <<23, 24, 0>>),
      Inode("dir", 1, <<25, 0, 0>>), Inode("file", bs + 1, <<40, 41, 0>>),
      Inode("file", file, ptrs), Inode("device", 0, <<0, 0, 0>>),
      Inode("dir", bs, <<26, 0, 0>>), Inode("dir", 1, <<27, 0, 0>>)>>

\* The inode table starts at block 3, and perb of its inodes are in a block.
Contents(bs, perb, group, table, inodes) ==
    [ id \in {group} \cup 3 .. 12 \cup 20 .. 45 |->
        CASE id = group -> table
          [] id \in 3 .. 12 -> SubSeq(inodes, (id - 3) * perb + 1, Min({10, (id - 2) * perb}))
          [] id = 20 -> <<E(2, "."), E(2, ".."), E(0, "b"), E(3, "a")>>
          [] id = 21 -> <<E(7, "f"), E(5, "dev"), Bad>>
          [] id = 22 -> <<E(3, "."), E(2, ".."), E(6, ""), E(4, "b"), E(8, "zz")>>
          [] id = 23 -> <<E(4, "."), E(3, "..")>>
          [] id = 24 -> <<E(6, "f"), E(10, "dev")>>
          [] id = 25 -> <<E(5, "."), E(2, ".."), E(9, "a")>>
          [] id = 26 -> <<E(9, "."), E(5, "..")>>
          [] id = 27 -> <<E(10, "."), E(4, "..")>>
          [] id = 30 -> Pad(bs, <<21, 0>>)
          [] id = 31 -> Pad(bs, <<44, 45>>)
          [] id = 32 -> Pad(bs, <<0, 45>>)
          [] OTHER   -> [i \in 1 .. bs |-> id + 100 * (i - 1)] ]

P(type, start) == [type |-> type, start |-> start]
Raw == [signature |-> FALSE, partitions |-> << >>]

\* A disk; log and isize are in the superblock, the inodes on it are of the size
\* isize or, with rev 0, of the only one.
D(mbr, start, log, rev, isize, root_mode, rootptrs, file, ptrs) ==
    LET bs == 2 * 2 ^ log
        perb == IF rev = 0 THEN bs ELSE IF isize \in 1 .. bs THEN bs \div isize ELSE 1
        first == IF log = 0 THEN 1 ELSE 0
    IN  [ mbr |-> mbr, start |-> start, block_size |-> bs, group |-> first + 1,
          root_mode |-> root_mode, used |-> 2 .. 10, left |-> Inode("none", 0, <<0, 0, 0>>),
          sb |-> [magic |-> TRUE, s_log_block_size |-> log, s_rev_level |-> rev,
                  s_inode_size |-> isize, s_first_data_block |-> first, s_inodes_count |-> 10],
          block |-> Contents(bs, perb, first + 1, 3, Inodes(bs, root_mode, rootptrs, file, ptrs)) ]

FileDisks ==
    { D(Raw, 0, 0, 1, 1, "dir", r, file, p) :
        r \in {<<20, 0, 30>>, <<20, 21, 0>>}, file \in 0 .. 9 \cup {WORD - 1},
        p \in {<<42, 43, 31>>, <<0, 43, 32>>, <<42, 0, 0>>} }

Some(mbr, start, log, rev, isize, root_mode) ==
    D(mbr, start, log, rev, isize, root_mode, <<20, 0, 30>>, 2 * 2 ^ log + 1, <<42, 0, 31>>)

Base == Some(Raw, 0, 0, 1, 1, "dir")

Partition(start) == [signature |-> TRUE, partitions |-> <<P(LINUX, start)>>]

BootDisks ==
    { Some([signature |-> FALSE, partitions |-> <<P(LINUX, 6)>>], 0, 0, 1, 1, "dir"),
      Some([signature |-> TRUE, partitions |-> <<P(7, 6)>>], 0, 0, 1, 1, "dir"),
      Some([signature |-> TRUE, partitions |-> <<P(7, 9), P(LINUX, 6), P(LINUX, 9)>>], 6, 0, 1, 1, "dir"),
      Some([signature |-> TRUE, partitions |-> <<P(LINUX, 9), P(LINUX, 6)>>], 6, 0, 1, 1, "dir"),
      Some(Raw, 0, 0, 0, 0, "dir"), Some(Raw, 0, 0, 1, 0, "dir"), Some(Raw, 0, 0, 1, 1, "file"),
      Some(Raw, 0, 1, 1, 1, "dir"), Some(Raw, 0, 1, 1, 2, "dir"), Some(Raw, 0, 1, 1, 5, "dir"),
      Some(Raw, 0, 2, 1, 1, "dir"), Some(Raw, 0, 3, 1, 1, "dir"),
      [Base EXCEPT !.sb.magic = FALSE],
      [Base EXCEPT !.sb.s_first_data_block = MAX_BLOCK],
      Some(Partition(LBA_SPACE + 6), 6, 0, 1, 1, "dir"), Some(Partition(WORD - 2), 6, 0, 1, 1, "dir"),
      [Base EXCEPT !.sb.s_first_data_block = WORD - 1],
      [Base EXCEPT !.sb.s_inodes_count = 1],
      [Base EXCEPT !.sb.s_inodes_count = 1, !.left = Inode("dir", 0, <<0, 0, 0>>)],
      [Base EXCEPT !.sb.s_inodes_count = 6, !.left = Inode("file", 3, <<42, 43, 0>>)],
      [Base EXCEPT !.block[2] = 0], [Base EXCEPT !.block[2] = MAX_TABLE + 1] }

MCDisks == FileDisks \cup BootDisks

ASSUME FileDisksConsistent == \A d \in FileDisks \cup {Base} : Consistent(d)
=============================================================================
