------------------------------- MODULE Files -------------------------------
(***************************************************************************)
(* The commands of the kernel shell that work on files: cd (arch/ext2_cd.  *)
(* c), ls (arch/ext2_ls.c), cat (arch/ext2_cat.c) and the start of a       *)
(* program (src/kernel/main.c), with the working directory that they       *)
(* share.  g_cwd_path is the sequence of its components.                   *)
(***************************************************************************)
EXTENDS Ext2

CONSTANTS Names, Paths,            \* what the user types
          SHELL_CWD_PATH_MAX

ASSUME FilesAssumption ==
    /\ Names \subseteq DOMAIN Length
    /\ Paths \subseteq Seq(DOMAIN Length)

VARIABLES
    vol,           \* the mounted volume
    cwd,           \* g_cwd_node.internal_id
    g_cwd_path,
    smashed,       \* a write went past the end of g_cwd_path or of a buffer
    out            \* what the last command gave: its name, inode, and result

files_vars == <<vol, cwd, g_cwd_path, smashed, out>>

\* ls without a path lists the inode in g_cwd_inode, which nothing assigns to.
g_cwd_inode == 2

\* Characters of a path, and of its terminator.
PathSize(path) == FoldLeft(LAMBDA n, name : n + 1 + Length[name], IF path = << >> THEN 2 ELSE 1, path)

Said(what) == [cmd |-> "said", num |-> 0, full |-> FALSE, result |-> what]

Gave(cmd, num, full, result) == [cmd |-> cmd, num |-> num, full |-> full, result |-> result]

\* Blocks can be read once the kernel has found the volume.
Mounted == DOMAIN vol.block # {}

\* All that a command changes that leaves the working directory alone.
Stays == smashed' = Overrun(vol) /\ UNCHANGED <<cwd, g_cwd_path>>

\* Before the first command.
FilesInit ==
    /\ cwd = ROOT
    /\ g_cwd_path = << >>
    /\ smashed = FALSE
    /\ out = Said("prompt")

mode(num) == read_inode(vol, num).i_mode

\* A path that keeps its last component on "..".
path_undone(name) ==
    IF name \in {".", ".."} THEN g_cwd_path ELSE Append(g_cwd_path, name)

\* The path after a cd to a directory.
path_after(name) ==
    CASE name = "."  -> g_cwd_path
      [] name = ".." -> IF g_cwd_path = << >> THEN << >> ELSE Front(g_cwd_path)
      [] OTHER       -> Append(g_cwd_path, name)

ext2_cd(name, full) ==
    LET target == ext2_lookup(vol, cwd, name, full)
    IN  \/ target = 0 /\ out' = Said("no such directory") /\ Stays
        \/ target # 0 /\ mode(target) # "dir" /\ out' = Said("not a directory") /\ Stays
        \/ /\ target # 0 /\ mode(target) = "dir"
           /\ g_cwd_path' = path_after(name)
           /\ smashed' = (Overrun(vol) \/ PathSize(g_cwd_path') > SHELL_CWD_PATH_MAX)
           /\ cwd' = target
           /\ out' = Said("prompt")

ext2_ls(num, full) ==
    \/ mode(num) # "dir" /\ out' = Said("inode is not a directory")
    \/ mode(num) = "dir" /\ out' = Gave("ls", num, full, Listing(vol, read_inode(vol, num), full))

ls(full) == ext2_ls(g_cwd_inode, full) /\ Stays

ls_path(path, full) ==
    LET target == resolve_path(vol, path, full)
    IN  /\ \/ target = 0 /\ out' = Said("no such file or directory")
           \/ target # 0 /\ mode(target) # "dir" /\ out' = Said("not a directory")
           \/ target # 0 /\ mode(target) = "dir" /\ ext2_ls(target, full)
        /\ Stays

ext2_cat(name, full) ==
    LET num == ext2_lookup(vol, cwd, name, full)
    IN  /\ \/ num = 0 /\ out' = Said("file not found")
           \/ num # 0 /\ mode(num) = "dir" /\ out' = Said("cannot cat a directory")
           \/ num # 0 /\ mode(num) \notin {"dir", "file"} /\ out' = Said("not a regular file")
           \/ /\ num # 0 /\ mode(num) = "file"
              /\ out' = Gave("cat", num, full, Printed(vol, read_inode(vol, num)))
        /\ Stays

\* run_user_program_from_file, up to the loading of the file.
run(path, full) ==
    LET num == resolve_path(vol, path, full)
    IN  /\ \/ num = 0 /\ out' = Said("file not found")
           \/ num # 0 /\ mode(num) = "dir" /\ out' = Said("is a directory")
           \/ num # 0 /\ mode(num) \notin {"dir", "file"} /\ out' = Said("invalid file type")
           \/ num # 0 /\ mode(num) = "file" /\ read_inode(vol, num).i_size = 0 /\ out' = Said("empty")
           \/ /\ num # 0 /\ mode(num) = "file" /\ read_inode(vol, num).i_size # 0
              /\ out' = Gave("load", num, full, load_file_to_memory(vol, num))
        /\ Stays

FilesNext ==
    /\ Mounted /\ ~smashed
    /\ \E full \in BOOLEAN :
          \/ \E name \in Names : ext2_cd(name, full) \/ ext2_cat(name, full)
          \/ \E path \in Paths : ls_path(path, full) \/ run(path, full)
          \/ ls(full)
    /\ UNCHANGED vol

-----------------------------------------------------------------------------
\* The prompt shows the directory that the next cd and cat will look into: cd
\* changes g_cwd_path and g_cwd_node together, and the path, resolved from the
\* root, leads to the node, a directory, if its components fit into resolve_path's
\* buffer.
CwdNamed ==
    Mounted /\ ~smashed =>
        /\ mode(cwd) = "dir"
        /\ (\A i \in DOMAIN g_cwd_path : Length[g_cwd_path[i]] < NAME_BUF)
              => resolve_path(vol, g_cwd_path, FALSE) = cwd

\* The bytes of a file, as the volume defines them: byte b is in block b \div g_block_size.
Byte(inode, b) ==
    LET id == block_id(vol, inode, b \div vol.g_block_size)
    IN  IF id = 0 THEN 0 ELSE vol.block[id][(b % vol.g_block_size) + 1]

\* The pointers lead to every block of the file; block_count does not wrap.
Addressed(inode) ==
    Needed(vol, inode) <= IF inode.i_block[DIRECT + 1] = 0 THEN DIRECT ELSE DIRECT + vol.g_block_size \div NUMBER

Countable(inode) == inode.i_size + vol.g_block_size - 1 < WORD

\* load_file_to_memory answers true exactly for the files that it can read as a
\* whole, and puts every byte of them where it belongs, holes as zeros.  Nothing is
\* said of blocks of more than 4096 bytes and inodes of more than 128, with which
\* it overruns its buffers, nor of a file that ends in the last block below 4 GiB.
LoadsWhole ==
    out.cmd = "load" /\ ~smashed =>
        LET inode == read_inode(vol, out.num)
        IN  Countable(inode) =>
            /\ out.result.ok = Addressed(inode)
            /\ out.result.ok => /\ Len(out.result.image) = Needed(vol, inode) * vol.g_block_size
                                /\ \A b \in 0 .. inode.i_size - 1 : out.result.image[b + 1] = Byte(inode, b)

\* ext2_cat prints the bytes of the file in order, without those of its holes, and
\* not one byte behind its end; blocks and inodes no larger than its buffers.
CatPrints ==
    out.cmd = "cat" /\ ~smashed =>
        LET inode == read_inode(vol, out.num)
            shown(b) == IF block_id(vol, inode, b \div vol.g_block_size) = 0 THEN << >>
                        ELSE <<Byte(inode, b)>>
        IN  Addressed(inode) => out.result = FlattenSeq([b \in 1 .. inode.i_size |-> shown(b - 1)])

\* Unless kmalloc fails, ext2_ls shows every entry of the directory, and only
\* entries in use and with a name, in the direct blocks and behind the indirect one;
\* blocks and inodes no larger than its buffers.  A record with a bad length, behind
\* which nothing can be found, ends its block only.
ListsAll ==
    out.cmd = "ls" /\ ~smashed =>
        LET inode == read_inode(vol, out.num)
            ids == {block_id(vol, inode, k) : k \in 0 .. Needed(vol, inode) - 1} \ {0}
            all == UNION {Range(vol.block[id]) : id \in ids}
        IN  Addressed(inode) /\ Countable(inode) /\ ~out.full
                => Range(out.result) = {e \in all : e.inode # 0 /\ Length[e.name] > 0 /\ ~e.bad}
=============================================================================
