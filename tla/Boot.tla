-------------------------------- MODULE Boot --------------------------------
(***************************************************************************)
(* kmain: the kernel sets up its tables, finds the ext2 volume on the disk *)
(* with the driver of Disk, mounts it, turns interrupts on and takes the   *)
(* commands of Files.                                                      *)
(*                                                                         *)
(* The disk is a record: the entries of its MBR, the sector where a volume *)
(* really starts, the sizes that this volume really has, its superblock,   *)
(* its group descriptor, its blocks and the inodes that are in use, which  *)
(* the kernel does not look up, and left, what the stack holds where an    *)
(* inode is read to.  A read delivers what is at the sectors read.  Sizes  *)
(* are in units of which a sector has SECTOR.                              *)
(***************************************************************************)
EXTENDS Disk, Files

CONSTANTS Disks,
          SECTOR,         \* 512
          MIN_BLOCK,      \* 1024
          MAX_BLOCK,      \* 0x100000, in read_fs_block
          MAX_TABLE       \* 0x10000, the limit on bg_inode_table

ASSUME BootAssumption ==
    /\ {SECTOR, MIN_BLOCK, MAX_BLOCK, MAX_TABLE} \subseteq Nat \ {0}
    /\ MIN_BLOCK = 2 * SECTOR

inode_size(sb) == IF sb.s_rev_level >= 1 THEN sb.s_inode_size ELSE SIZEOF_INODE

\* The record of a disk agrees with itself.  Its numbers are of uint32_t; if it has
\* a superblock, its block_size is the one that this gives (1024 << s_log_block_size
\* does not overflow), and its root_mode the one of the root's inode, if the inode
\* can be found.  The drive has no sectors behind those that 28 bits can name.
\* Nothing says that it has a superblock, that this is at the start of a partition,
\* or that the sizes, the group and the table make sense.
Described(d) ==
    LET per == d.block_size \div inode_size(d.sb)
        id == d.block[d.group] + (ROOT - 1) \div per
    IN  /\ d.start \in Nat
        /\ d.mbr.partitions \in Seq([type : Nat, start : 0 .. WORD - 1])
        /\ d.block_size \in MIN_BLOCK .. WORD - 1
        /\ DOMAIN d.block \subseteq Nat
        /\ \A b \in DOMAIN d.block : d.start + (b + 1) * (d.block_size \div SECTOR) <= LBA_SPACE
        /\ d.group \in DOMAIN d.block => d.block[d.group] \in Nat
        /\ d.sb.magic =>
              /\ {d.sb.s_first_data_block, d.sb.s_rev_level, d.sb.s_inode_size, d.sb.s_inodes_count}
                    \subseteq 0 .. WORD - 1
              /\ d.block_size = MIN_BLOCK * 2 ^ d.sb.s_log_block_size
              /\ inode_size(d.sb) # 0 /\ per # 0 /\ d.group \in DOMAIN d.block /\ id \in DOMAIN d.block
                    => d.block[id][((ROOT - 1) % per) + 1].i_mode = d.root_mode

\* The volume on a disk, and whether it is one that the file commands can work on.
Volume(d) ==
    [g_block_size |-> d.block_size, g_inode_size |-> inode_size(d.sb),
     bg_inode_table |-> d.block[d.group], s_inodes_count |-> d.sb.s_inodes_count,
     left |-> d.left, block |-> d.block]

Consistent(d) == Readable(Volume(d), d.used) /\ Tree(Volume(d), d.used)

ASSUME DisksAssumption == \A d \in Disks : Described(d)

VARIABLES
    stage,            \* what kmain waits for, or how it has ended
    disk,
    ext2_start_lba,
    gates,            \* vectors with a present gate in the IDT
    unmasked,         \* IRQs that the PICs let through
    IF_,              \* the interrupt flag of the CPU
    over              \* a write went past the end of the kernel's buffer

kmain_vars == <<stage, disk, ext2_start_lba, gates, unmasked, IF_, over>>

boot_vars == <<vars, files_vars, kmain_vars>>

LINUX == 131

BootInit ==
    /\ Init
    /\ FilesInit
    /\ stage = "ata"
    /\ disk \in Disks
    /\ vol = [g_block_size |-> MIN_BLOCK, g_inode_size |-> SIZEOF_INODE, bg_inode_table |-> 0,
              s_inodes_count |-> 0, left |-> disk.left, block |-> << >>]
    /\ ext2_start_lba = 0
    /\ gates = {}
    /\ unmasked = {}
    /\ IF_ = FALSE
    /\ over = FALSE
-----------------------------------------------------------------------------
\* What a read of the first sector, of the two of the superblock and of a block
\* finds.
Nothing == [magic |-> FALSE]

MBR(sectors) ==
    IF sectors = <<0>> THEN disk.mbr ELSE [signature |-> FALSE, partitions |-> << >>]

Superblock(sectors) == IF sectors = <<disk.start + 2, disk.start + 3>> THEN disk.sb ELSE Nothing

Blocks(sectors) ==
    {id \in DOMAIN disk.block :
        sectors = [k \in 1 .. disk.block_size \div SECTOR |->
                      disk.start + id * (disk.block_size \div SECTOR) + k - 1]}

\* The group descriptor, the first of its block, and an inode of a block.
bg_inode_table(sectors) ==
    IF disk.group \in Blocks(sectors) THEN disk.block[disk.group] ELSE 0

InodeIn(sectors, i) ==
    IF Blocks(sectors) = {} THEN [i_mode |-> "none"]
    ELSE disk.block[CHOOSE id \in Blocks(sectors) : TRUE][i]
-----------------------------------------------------------------------------
\* disk_read into a buffer of that size.
Read(lba, count, size) ==
    /\ disk_read([lba |-> lba, count |-> count])
    /\ over' = (over \/ count * SECTOR > size)

\* A block read with one sector too many.
block_more(v, id, next) ==
    LET sectors == v.g_block_size \div SECTOR + 1
    IN  IF id > MAX_BLOCK
        THEN stage' = "hang" /\ UNCHANGED <<vars, over>>
        ELSE stage' = next /\ Read((ext2_start_lba + id * sectors) % WORD, sectors, BUFFER)

\* read_fs_block, into a buffer of BUFFER.  It never comes back for a number that
\* cannot be one.
read_block(v, id, next) ==
    LET sectors == v.g_block_size \div SECTOR
    IN  IF id > MAX_BLOCK
        THEN stage' = "hang" /\ UNCHANGED <<vars, over>>
        ELSE stage' = next /\ Read((ext2_start_lba + id * sectors) % WORD, sectors, BUFFER)

Stop(how) == stage' = how /\ UNCHANGED <<vars, over>>

\* kmain goes on when ata_init, or the read it waits for, has returned.
At(s) == stage = s /\ pc = "idle"

\* A table that also opens the timer's IRQ.
idt_timer ==
    /\ gates' = {0, 7, 8, 10, 11, 12, 13, 14, 33, 128}
    /\ unmasked' = {0, 1}

\* idt_init: gates for the keyboard, the system call and the exceptions; every IRQ
\* is masked but the keyboard's.
idt_init ==
    /\ gates' = {0, 7, 8, 10, 11, 12, 13, 14, 33, 128}
    /\ unmasked' = {1}

\* The drive is there: the tables are set up, memory_init runs, and the MBR is read.
Tables ==
    /\ At("ata")
    /\ idt_init
    /\ stage' = "mbr"
    /\ Read(0, 1, SECTOR)
    /\ UNCHANGED <<files_vars, disk, ext2_start_lba, IF_>>

\* The start of the first Linux partition, or 0 on a disk without one.
probe_ext2_partition(mbr) ==
    LET linux == {i \in DOMAIN mbr.partitions : mbr.partitions[i].type = LINUX}
    IN  IF mbr.signature /\ linux # {} THEN mbr.partitions[Min(linux)].start ELSE 0

Probe ==
    /\ At("mbr")
    /\ ext2_start_lba' = probe_ext2_partition(MBR(buffer))
    /\ stage' = "superblock"
    /\ Read((ext2_start_lba' + 2) % WORD, 2, 2 * SECTOR)
    /\ UNCHANGED <<files_vars, disk, gates, unmasked, IF_>>

\* A divide error, which finds its gate, or resets the machine.
DivideError == Stop(IF 0 \in gates THEN "dead" ELSE "reset")

fs_init(sb) ==
    [vol EXCEPT !.g_block_size = MIN_BLOCK * 2 ^ sb.s_log_block_size,
                !.g_inode_size = inode_size(sb)]

\* The sizes come from the superblock; the division in fs_init by an inode size of
\* 0 traps.  The group descriptors follow the superblock's block.
CheckSuperblock ==
    /\ At("superblock")
    /\ LET sb == Superblock(buffer)
       IN  IF ~sb.magic THEN Stop("panic") /\ UNCHANGED vol
           ELSE /\ vol' = fs_init(sb)
                /\ IF vol'.g_inode_size = 0 THEN DivideError
                   ELSE read_block(vol', (sb.s_first_data_block + 1) % WORD, "group")
    /\ UNCHANGED <<cwd, g_cwd_path, smashed, out, disk, ext2_start_lba, gates, unmasked, IF_>>

inodes_per_block == vol.g_block_size \div vol.g_inode_size

\* The group descriptor tells where the inodes are, and read_inode(2) looks there,
\* unless it thinks that there is no such inode.
CheckGroup ==
    /\ At("group")
    /\ vol' = [vol EXCEPT !.bg_inode_table = bg_inode_table(buffer),
                          !.s_inodes_count = disk.sb.s_inodes_count]
    /\ IF vol'.bg_inode_table = 0 \/ vol'.bg_inode_table > MAX_TABLE THEN Stop("hang")
       ELSE IF ROOT > vol'.s_inodes_count THEN Stop("uninitialised")
       ELSE IF inodes_per_block = 0 THEN Stop("hang")
       ELSE read_block(vol', vol'.bg_inode_table + (ROOT - 1) \div inodes_per_block, "root")
    /\ UNCHANGED <<cwd, g_cwd_path, smashed, out, disk, ext2_start_lba, gates, unmasked, IF_>>

\* vfs_init, sti, and the shell.
StartShell ==
    /\ stage' = "shell"
    /\ IF_' = TRUE
    /\ vol' = [vol EXCEPT !.block = disk.block]

\* read_inode copies g_inode_size bytes into root_inode, a struct on kmain's stack;
\* once that is written past its end anything may follow.
CheckRoot ==
    /\ At("root")
    /\ over' = (over \/ vol.g_inode_size > SIZEOF_INODE)
    /\ \/ /\ InodeIn(buffer, ((ROOT - 1) % inodes_per_block) + 1).i_mode = "dir"
          /\ StartShell
       \/ /\ InodeIn(buffer, ((ROOT - 1) % inodes_per_block) + 1).i_mode # "dir"
          /\ stage' = "panic" /\ UNCHANGED <<IF_, vol>>
       \/ over' /\ stage' = "wild" /\ UNCHANGED <<IF_, vol>>
    /\ UNCHANGED <<vars, cwd, g_cwd_path, smashed, out, disk, ext2_start_lba, gates, unmasked>>

\* root_inode was never written: kmain looks at what was on the stack, and so will
\* every command.
GuessRoot ==
    /\ At("uninitialised")
    /\ \/ vol.left.i_mode = "dir" /\ StartShell
       \/ vol.left.i_mode # "dir" /\ stage' = "panic" /\ UNCHANGED <<IF_, vol>>
    /\ UNCHANGED <<vars, cwd, g_cwd_path, smashed, out, disk, ext2_start_lba, gates, unmasked, over>>

Kmain == Tables \/ Probe \/ CheckSuperblock \/ CheckGroup \/ CheckRoot \/ GuessRoot

BootNext ==
    \/ (DriveMoves \/ Driver) /\ UNCHANGED <<files_vars, kmain_vars>>
    \/ Kmain
    \/ stage = "shell" /\ FilesNext /\ UNCHANGED <<vars, kmain_vars>>

\* kmain and the driver run, and the drive does not hang for ever.  Nobody has to
\* type a command.
BootSpec ==
    /\ BootInit /\ [][BootNext]_boot_vars
    /\ WF_boot_vars(Driver /\ UNCHANGED <<files_vars, kmain_vars>>)
    /\ WF_boot_vars(DriveMoves /\ UNCHANGED <<files_vars, kmain_vars>>)
    /\ WF_boot_vars(Kmain)
-----------------------------------------------------------------------------
\* A volume from that sector on whose blocks, as far as read_fs_block takes their
\* numbers, are among the sectors that 28 bits can name.
InReach(start, block_size) == start + (MAX_BLOCK + 1) * (block_size \div SECTOR) <= LBA_SPACE

\* The first Linux partition, or the whole disk if it has no partition table, holds
\* a volume with blocks of at most 4096 bytes and inodes of 128, laid out as its
\* superblock says, and a root directory.
Sound(d) ==
    LET linux == IF d.mbr.signature THEN SelectSeq(d.mbr.partitions, LAMBDA p : p.type = LINUX)
                 ELSE << >>
        sb == d.sb
    IN  /\ d.start = IF linux = << >> THEN 0 ELSE Head(linux).start
        /\ InReach(d.start, d.block_size)
        /\ sb.magic
        /\ d.block_size = MIN_BLOCK * 2 ^ sb.s_log_block_size /\ d.block_size <= BUFFER
        /\ sb.s_inode_size = SIZEOF_INODE \/ sb.s_rev_level = 0
        /\ d.group = sb.s_first_data_block + 1
        /\ d.block[d.group] \in 1 .. MAX_TABLE
        /\ sb.s_inodes_count >= ROOT
        /\ d.root_mode = "dir"

\* kmain comes to an end whatever is on the disk, and whichever commands the drive
\* answers late, with errors or not at all, unless it stays busy for ever; on a sound
\* volume it is the shell, unless the drive fails.
BootEnds ==
    <>( \/ stage = "shell"
        \/ pc \in {"panic", "stuck"}
        \/ ~Sound(disk) /\ stage \in {"panic", "hang", "dead", "wild"} )

\* Once interrupts are on, every IRQ that the PICs let through and every exception
\* that has a handler finds its gate, and the shell works on the volume that the
\* disk has: with its sizes and, if the partition is among the sectors that the drive
\* can be asked for, with its start; and with a directory as root, if the volume
\* counts the root among its inodes.
RunsReady ==
    /\ stage # "reset"
    /\ IF_ => \A i \in unmasked : 32 + i \in gates
    /\ stage = "shell" =>
          /\ IF_
          /\ vol.g_block_size = disk.block_size
          /\ InReach(ext2_start_lba, disk.block_size) =>
                /\ ext2_start_lba = disk.start
                /\ disk.sb.s_inodes_count >= ROOT => disk.root_mode = "dir"

\* No read of kmain writes past its buffer, unless blocks are larger than 4096
\* bytes or inodes larger than 128.
BootInside == over => disk.block_size > BUFFER \/ disk.sb.s_inode_size > SIZEOF_INODE
=============================================================================
