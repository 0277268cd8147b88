# Formal models of kernel-custom

kernel-custom is a 32-bit x86 kernel in C and NASM: it boots from GRUB, reads an
ext2 volume over ATA, drives the keyboard and the text screen, runs a shell in
ring 0 and ELF programs in ring 3. This directory holds TLA+ models of its
parts, TLC configurations that check them on small instances, and proofs that
TLAPS checks for every instance. `PROJECT.json` lists the runs, the source lines
behind every definition, the hazards and the findings.

    tlc -workers 4 -config KernelHeap.cfg MCKernelHeap     # one run
    tlapm KernelHeapProofs.tla                             # one module of proofs

## 1. Inventory

There are no documents and no tests in the repository; the reference is the code
and its comments. The makefile also names `src/kernel/task.c`,
`src/kernel/auto_user.c`, `fs/vfs.c`, `fs/exec_elf.c` and `arch/string.c`, which
are absent; what the rest uses of them is external here.

| part | sources | state | operations | what is hard | what makes it correct |
|---|---|---|---|---|---|
| kernel heap | `arch/memory.c` | block list in `g_heap`, `g_heap_ready` | `heap_init`, `kmalloc`, `kfree`, `kcalloc`, `krealloc` | splits and merges in any order of calls; failure in the middle of `krealloc` | blocks tile the heap, live regions never overlap, free space comes back |
| frames and page tables | `arch/memory.c` | `g_frame_bitmap`, `g_total_frames`, page directory and tables | `memory_init`, `pmm_alloc_frame`, `pmm_free_frame`, `page_map`, `page_get_phys`, `paging_mark_user_range` | odd boot reports, sums that wrap, tables that come from the frames they describe | a frame has one use; a mapped page is found; programs reach only their own area |
| ELF loader | `arch/elf.c` | (that of the page tables) | `load_elf` | a program refused halfway; rounding | as above |
| page fault handler | `arch/memory.c`, `boot.s` | interrupt flag, the stack it leaves | `page_fault_handler` | leaves by a jump, re-enters the shell over old state | the shell goes on usably, with interrupts on |
| keyboard driver | `arch/keyboard.c` | `kbd_buffer`, `head`, `tail`, modifier and `g_key_down` flags, `g_is_e0` | `keyboard_handler`, `keyboard_buffer_push`, `keyboard_buffer_pop` | interrupts between any two instructions of a pop; two-byte codes over two interrupts | every character typed is delivered once, in order, or dropped only when the buffer is full |
| interrupt entry | `boot.s`, `arch/idt.c`, `arch/idt.s` | registers, interrupt flag, PIC | `keyboard_handler_asm`, `syscall_handler_asm`, `asm_switch_to_user`, `user_exit_return_stub` | which registers and flags survive | the interrupted code does not notice |
| system calls | `src/kernel/main.c` | the read in progress | `SYS_WRITE`, `SYS_READ`, `SYS_READ_RAW`, `SYS_CLEAR`, `SYS_EXIT` | waiting for input in a handler | a read that can be answered is |
| shell line editor | `src/kernel/main.c` | `input_buffer`, `pos`, `len`, `g_history`, `g_history_count`, `g_history_idx` | `shell_loop`, one key at a time | long sequences of edits, recalls and commands | the screen shows the line, the line is what was typed |
| shell commands | `src/kernel/main.c`, `arch/ext2_cd.c`, `arch/ext2_ls.c`, `arch/ext2_cat.c` | `g_cwd_path`, `g_cwd_node`, `g_cwd_inode` | `cd`, `ls`, `cat`, `./program`, `help`, `clear`, `test_ring3` | two representations of one directory | prompt, inode and listing agree |
| VGA screen | `arch/vga.c` | `video_mem`, `cursor_x`, `cursor_y` | `vga_putc`, `vga_puts`, `vga_scroll`, `clear_screen` | ends of rows | stays on the screen |
| ATA driver | `arch/ata.c`, `arch/disk.c` | loop counters, `error_count`, the drive | `ata_init`, `disk_read_ex`, `disk_read` | late answers, timeouts, retries | the sectors asked for, in order, and an end to every read |
| ext2 | `fs/inode.c`, `arch/ext2_lookup.c`, `arch/path.c`, `arch/load.c` | superblock values | `read_inode`, `ext2_lookup`, `resolve_path`, `load_file_to_memory` | holes, indirect blocks, boundaries, an allocation that fails | the bytes and names that the volume defines |
| block layer | `fs/disk_io.c` | `ext2_start_lba`, `g_block_size`, `g_inode_size` | `probe_ext2_partition`, `fs_init`, `read_fs_block` | values that come from the disk; buffers of fixed size | the start and the sizes that the volume has, writes inside the buffers |
| boot | `src/kernel/main.c`, `arch/idt.c`, `boot.s`, `arch/gdt_flush.s` | gates, interrupt masks, interrupt flag, the stage of `kmain` | `kmain`, `idt_init`, `pic_remap` | order of initialisations; a drive that fails at any read; disks that are not what they seem | it ends; what is let through finds its gate; the shell gets the volume that the disk has |
| exception reports | `src/kernel/main.c`, `boot.s` | interrupt flag | `generic_exception_handler` | - | ends in a halt |
| serial port | `arch/serial.c`, `arch/panic.c` | - | output | - | - |
| user shell | `user/shell.c` | `line`, `pos`, `len`, `history`, `hist_idx`, `env_vars`, `last_exit_status` | `read_line`, `history_add`, `expand_vars`, `tokenize`, `env_set`, `env_get`, `execute_builtin`, `execute_command` | an array never cleared, scans that pass the terminator, recalls after long sequences | the line is what was typed or recalled, and the command run is the one on it |

How they meet: the keyboard interrupt and the code it interrupts share the ring
buffer; the shell loop pops characters, edits its line on the screen, and calls
the commands; these call ext2, which reads blocks through the disk driver and
takes buffers from the heap; `./program` loads an ELF file into the heap, opens
pages of the identity mapping and goes to ring 3; the program returns by
`SYS_EXIT`, or by a page fault that enters `run_shell` again. There is one CPU and
no preemption: the only concurrency in the kernel is between an interrupt handler
and what it interrupts, and between the driver and the devices.

`PROJECT.json`, "hazards", lists what a test of this code would hardly reach, each
at its line and with the properties that watch it.

## 2. Modules

### Kernel heap: `Allocator`, `KernelHeap`, `KernelHeapProofs`

`KernelHeap` has the list as a function `heap` from header addresses to
`heap_block_t` records; `g_heap_head` is address 0. `split_block`,
`merge_with_next`, the walk of `kmalloc` (`Walk`, `FirstFit`), the marking
(`Take`) and the two merges of `kfree` (`Release`) are operators on heaps, and
`kmalloc`, `kfree`, `kcalloc` and `krealloc` are actions; `krealloc` goes through
`kmalloc` and `kfree` in the code's order. `owned` records the bytes that each
live pointer asked for. `CallerWrites` stores into a region (`Store` also marks
headers it would overwrite), so that a region that reaches into a header shows.
Contents of the regions are left out. `size_t` wraps at `SIZE_T`.

`Allocator` is the promise: live regions lie in the heap and are disjoint, a call
adds, moves or removes one region. `AllocatorSpec` states that the heap implements it.

### Keyboard: `KbdFifo`, `KbdBuffer`, `KbdBufferProofs`, `KbdInterrupt`, `Scancodes`, `Console`, `ConsoleProofs`

`KbdBuffer` splits `keyboard_buffer_pop` at its accesses to shared memory (load of
`head`, comparison with `tail`, read of the slot, store of `tail`, return) and lets an
interrupt run `keyboard_buffer_push` between any two. `KbdFifo` is the bounded queue
it implements (`FifoSpec`): the mapping takes `Contents`, the slots from
`tail` up to `head`, and `Answer`, what the pop has taken already. The history variable
`typed`, which both have, changes with every character that arrives, so that a push which drops its
character is a step of the queue too (`Refuse`) and not a stutter; the queue allows it only when it is full.

`KbdInterrupt` is the same pop as instructions with EAX, ECX and EDX, interrupted
by `keyboard_handler_asm` of `boot.s`, whose `mov al, 0x20` comes after `popa`.

`Scancodes` has the tables and modifier rules of `keyboard_handler`. `Console`
composes the keyboard (keys held, key repeat, its output bytes), IRQ1 of the PIC
(`irr`, `isr`), the interrupt flag, the handler, and the readers: `shell_loop` with
its pop, `hlt` and character, and a program in `SYS_READ` or `SYS_READ_RAW`. `owed`
is a history variable with the characters that the user typed, computed from the
keys held and not from the driver's flags. The handler runs with interrupts off,
so it is one action; `IrqEnter` and `IrqReturn` stand around it. A program leaves
ring 3 in each way the gates allow: a read, another call (`OtherCall`, `CallReturn`),
`Exit`, a page fault, or another exception, which halts the CPU for good (`dead`).
`FaultReturn` is the jump of `page_fault_handler` to `run_shell`. Its assembly writes `ax`
without saying so to the compiler, which may keep the stack pointer or the address
there, so the action may also end in `wild`.

### Shell line: `Vga`, `LineEditor`, `ShellLine`, `ShellLineProofs`

`ShellLine` has one action per kind of key of `shell_loop`: `Insert`, `Erase`,
`Left`, `Right`, `Up`, `Down`, `Enter`. Each does the buffer, `pos`, `len` and the
screen in the code's order, through `Vga`'s `vga_putc` and `vga_puts`. `Enter`
stores the line in the history and runs the command, which returns, exits, or
faults. `smashed` notes a write behind `input_buffer`. Two history variables say where a line comes
from: `origin` is `typed` since the line was blank, `left` when a program died and `run_shell` found the line of its
command, and `recalled` once Up or Down has copied an entry of the history into it; `plain` says that it was typed and has
not reached the last column. `len` is followed down to `-LEN_BELOW` only: after a recall backspace can take it below 0, which
the code does not stop; the guard in `Erase` is a bound of the model and is met on recalled lines alone.

`LineEditor` is a text with a cursor. `EditorSpec` states that a typed line, of any length up to the limit of the buffer, implements
it; after a recall, and on a line that a dead program left, nothing is promised (`Lose`). After a recall the code
works with a stale `len` (finding `shell_recall`). `EditsInside` is about every line that was not recalled: with 80 columns and
a buffer of 256 a line reaches the limit of the buffer after several rows, and it is one of these.

### Frames, page tables, programs: `Memory`, `MemoryProofs`

`memory_init` takes a boot report (whether there is a memory map, its usable entries, and the kilobytes that
`mem_lower` and `mem_upper` give, whose product with 1024 wraps), sizes memory, frees what the map gives and
reserves the low, kernel, program and stack ranges, all with `uint32_t` sums at
`WORD`; then it builds the identity mapping and turns paging on. `used` is the
bitmap, `pd` says for each directory entry whether it is absent, static or a frame,
`vm` has the entries of the tables. `page_map` takes a frame for a missing table
and clears it through the identity mapping: a frame above that mapping faults in
the kernel (`halted`). No code in the repository calls `page_map`; the model calls it for pages above the identity mapping
(`VPages`), where it is of use, and not for those that `memory_init` has mapped. `load_elf` checks the segments in turn and opens pages as it goes, so
a refusal leaves the pages of the segments before it open. `held` and `wanted` are
history variables.

### Disk: `Disk`, `StorageProofs`

The driver moves one poll at a time; `drive` (what the status register shows) moves
by itself: it gets ready, perhaps after spinning up, has a sector or reports an error at any time, or is absent, and `job`
counts the sectors of the command it has yet to deliver. The registers keep 28 bits of the sector number and 8 of the
count (`sent_lba`, `sent_count`; a count of 0 is 256): what a read of more, or of a sector behind them, delivers is what the drive was
really asked for. `Fail` is the retry path of
`disk_read_ex`, which starts the poll loop again and sends no new command; after the third
failure it halts (`stuck`). `InitBusy` and `InitReady` are the two loops of `ata_init` with their
counters, wrapping at `WORD`.

### Volumes and commands: `Ext2`, `Files`

`Ext2` has the pure part over a mounted volume `vol` (block size, inode size, start of the
inode table, number of inodes, blocks): `read_inode`, the block of an index (`block_id`), the entries of a
directory (`Listing`), `ext2_lookup`, `resolve_path`, `load_file_to_memory`, and what
`ext2_cat` prints. A block is a sequence of bytes, numbers, inodes or entries; `full` says
that a `kmalloc` on the way fails. `block_count` is in `uint32_t` and wraps, as in the code, for a file that ends in the last block
below 4 GiB; `Needed` is the count without the wrap, which the loop of `ext2_cat` finds by subtraction. An inode number
that the volume does not have leaves the caller's structure as it was: `left` is what the stack holds there, chosen once for
a behaviour. `resolve_path` cuts a component of 32 and more characters into `Pieces` and looks each up in the one before. `Files` has `cd`, `ls`,
`ls path`, `cat` and the checks before a program is started as actions, with `g_cwd_path` as the sequence of its names.
`smashed` notes a write behind the 128 bytes of `g_cwd_path`, and also one behind the buffers of 4096 bytes for a block or the
structures of 128 for an inode, which every command makes on a volume with larger ones (`Overrun`); after it nothing is claimed and
no command follows. `Uint32` has the width that the two share with the driver.

### Boot: `Boot`, which composes `Disk`, `Ext2` and `Files`; `StorageProofs`

`kmain` is a sequence of stages, each of which starts a read of the driver and goes on when
the driver is idle again: `ata_init`, then `Tables` (`idt_init`, `memory_init` and the read of the
MBR), `Probe` (`probe_ext2_partition`), `CheckSuperblock` (`fs_init`), `CheckGroup`, `CheckRoot`,
and `StartShell` with its `sti`, after which the commands of `Files` run on what was mounted.
A stage may end in `panic`, `hang` (the loops without an end), `dead` (a divide error that finds
its gate), `reset` (one that does not) or `wild`. The disk is a record: partition entries,
where a volume really starts and how large its blocks really are, the superblock,
the group descriptor and the blocks. A read gives what is at the sectors that the
*driver's buffer* holds, so a wrong start or size reads something else. `over` notes a
read longer than its buffer, or an inode copied into a smaller structure. `GuessRoot` is the look at a
`root_inode` that `read_inode` returned from without writing it; if it looks like a directory the commands run on that volume, and every
inode they cannot read is `left`. Sums of sector and block numbers wrap at 32 bits. `Described` says that no block of the
volume lies behind the 2^28 sectors that the registers can name, which is the most that such a drive has; the start in the
partition table is any 32-bit number.

After boot a command reads the mounted volume in one step: the driver, which boot
exercises step by step, either delivers the sectors asked for (`ReadsRight`) or halts the
kernel.

### User shell: `CommandReader`, `UserShell`, `UserShellProofs`

`UserShell` has one action per key of `read_line`; `Enter` also adds to the history and
runs `execute_command`, that is `expand_vars`, `tokenize` and the builtin commands, which are
operators. A cell of the array `line` holds a symbol: a word (a run of letters) or one of the
characters that the shell treats specially. Keys that do nothing are left out, as no
state changes. The array is never cleared in the code, nor here: it starts as zeros or as
`JUNK` (it is on the stack) and keeps what earlier lines left. `expand_vars` reads cells by index, also past the
terminator; what it reads behind the array is `OUTSIDE`, and then the state is `wild`.
`ran` remembers the last line as typed, the environment and status it was run with, and the arguments that came of it. Nothing printed is
modelled: the shell writes to descriptor 0, which `c_syscall_handler` rejects.

`CommandReader` is a text, a cursor, the lines entered and the one that is shown.
`ReaderSpec` states that `read_line` implements it for every sequence of edits and recalls,
which the kernel's own editor does not (finding `shell_recall`).

### `SequenceFacts`

No model: facts about `FoldLeft`, `FlattenSeq` and texts with a character inserted or removed, for every
operator and every sequence, which the proofs about `Console`, `ShellLine`, the file commands and `UserShell` take with `INSTANCE`.

The MC modules only give constants their values.

## 3. Runs

| run | result | bounds | what it shows |
|---|---|---|---|
| `heap` | pass | 256 bytes (headers of 32), requests 0, 1, 33, 80, counts 2, 40, `SIZE_T` 512 | structure of the list (`Tiled`, `LinksMirror`, `Coalesced`, `HeadersIntact`), `OwnedExactly`, `WholeWhenIdle`, `AllocatorSpec`. The requests leave exact fits, remainders too small to split, and splits; 40 * 33 wraps `size_t` |
| `kbd_buffer` | pass | 4 slots, 2 characters | `BufInv`, `FifoSpec`; the buffer fills, refuses and wraps |
| `kbd_interrupt` | violation | 128 slots, one character | `PopUndisturbed`: AL is changed after `popa` |
| `console` | pass | 4 keys, 2 bytes in the keyboard, 2 characters in the buffer, reads of up to 2 | `DecodesTyping`, `NoByteForgotten`, and the liveness of the readers, `ShellReads`, `ReadsWhatWaits` |
| `console_read` | violation | same | `ReadAnswers`: a read on an empty buffer halts with interrupts off |
| `shell_line` | pass | 3 characters to a line, history of 2, row of 5 | `ScreenShows`, `EditsInside`, `HistoryInv`, `EditorSpec` |
| `shell_recall` | violation | row of 8, 3 rows | `SendsCursorBack` after Up or Down |
| `memory` | pass | 10 frames of 4 bytes, tables of 4 entries, 32 bytes mapped one to one, 7 boot reports, 6 programs | `OneUse`, `TablesApart`, `FoundWhereMapped`, `FaultsWhenFull`, `UserPagesReserved` for aligned segments |
| `memory_user` | violation | and one program that starts within a page | `UserPagesReserved`: one page too many |
| `disk_init` | violation | 3 polls, `WORD` 64 | `InitTells`: a counter that wraps is taken for an answer |
| `storage` | pass | 88 disks; 3 polls, 3 attempts; sectors of 1 unit, blocks of 2 to 16, buffers of 8; `WORD` 2048, 1024 sectors, 8 to a command; 2 direct pointers, names in a buffer of 3, paths of 8 bytes | boot: `BootEnds`, `RunsReady`, `BootInside`; the driver under it: `ReadsRight`, `InStep`; the commands after it: `CwdNamed`, `LoadsWhole`, `CatPrints`, `ListsAll` |
| `user_shell` | pass | lines of 4 symbols, history of 2, 7 keys from one of 7 alphabets | `ReaderSpec`, `RunsFirstWord` |

Each passing property has a mutant in `PROJECT.json`: a changed definition, as a
plausible mistake in that code would change it, under which TLC finds the property
violated. The mutated forms stand next to the definitions they change.

Why the bounds are enough to be of interest: each limit that the code has (buffer
full and wrapped, history full, last column, no frame left, table boundary, last
attempt, last direct and last indirect block, path at its limit, block larger than its buffer, full line and
history of the user shell) is reached in its run. The disks of `storage` are 66 sound ones, on which the files have every size up
to more than the pointers address, and one at which their count wraps, and the directories a hole, entries without a name or no indirect block, and 22 that differ in one point
each: other partitions, a stale table, each block size, revision 0, inodes of size 0, larger than their structure or
than a block, a root that is no directory, inodes that are not counted, a missing magic number, numbers out of range, starts that the
registers cut or that wrap. Seven keys are enough
to enter a line, recall it and edit it, and for a line that runs into what an earlier one left. Section 5
says what is proved without bounds.

`shell_line` uses the symmetry of the two characters (no liveness is checked
there) and a view that leaves out the screen once the line is not plain; on one
row the next Enter scrolls it away and no property looks at it before.

Deadlock is not checked where the system may stop: a program that halts for ever
in `SYS_READ` or in an exception (`console`), a kernel page fault (`memory`), a driver that gave up,
a boot that panics or a write out of an array (`storage`), a shell that exits or a user
who has pressed all keys (`user_shell`).

### Fairness

* `Console`: the CPU executes, so the handler and its return are weakly fair, and
  the code that is interrupted again and again is strongly fair (`SF Cpu`: each
  interrupt takes finitely many instructions and the keyboard is slower than the CPU);
  a raised IRQ1 is taken if interrupts are on again and again (`SF IrqEnter`). Nothing
  is assumed of the user. The violation of `ReadAnswers` is under this fairness.
* `Boot`: the CPU executes, so the driver polls (`WF Driver`) and `kmain` goes on when a read has
  returned (`WF Kmain`). The drive, however slow, does not stay busy for ever (`WF DriveMoves`): before
  it sends a command `disk_read_ex` waits for a drive that is not busy without a limit, so `BootEnds`
  could not hold otherwise. The answer may come after any number of failed attempts, and may be an error.
  Nobody has to type a command.

## 4. Findings

| run | line | what |
|---|---|---|
| `kbd_interrupt` | `boot.s:67` | the keyboard wrapper sends the EOI with AL after `popa`, so interrupted code goes on with 0x20 in AL |
| `console_read` | `main.c:266` | `SYS_READ` and `SYS_READ_RAW` wait with `hlt` and interrupts off |
| `shell_recall` | `main.c:427` | Up and Down set `pos` without `len` |
| `memory_user` | `elf.c:129` | sizes are rounded to pages before the range is: one page too many |
| `disk_init` | `ata.c:43` | `while (... && poll--)` leaves 0xFFFFFFFF, so running out is not noticed |

Read in passing and not made into runs: `ls` without an argument lists
`g_cwd_inode`, which `cd` never changes, though `main.c:679` says that it lists the
current directory, and `./program` is resolved from the root though the help text
(`main.c:625`) says current directory (both are modelled as the code has them);
"a//b" is not found by `resolve_path`; an answer of the drive at the very last
poll of `disk_read_ex` counts as a failure; `generic_exception_handler` has a shifted table of names
(`main.c:157`: vector 13, a general protection fault, is reported as "#NP", vector 8 as "#NM"); a superblock with an inode size of 0 and revision 1 is a divide
error in `fs_init`, one with `s_inodes_count` below 2 makes `kmain` look at a `root_inode` that nobody wrote, and inodes of 256
bytes, which `b.img` in the repository has, are copied over the end of it (`inode.c:51`; all in `storage`, where `BootInside` says
that nothing else is overrun, and where commands on such a volume end in `smashed`); a file that ends in the last block below 4 GiB has 0 blocks for `load_file_to_memory`
(`load.c:13`), which answers true with nothing loaded; a sector number of 28 bits and more, and a count above 256, are cut (`disk.c:26`); the kernel stack is never unwound after a program (`boot.s:142`), although the comment at `main.c:534`
speaks of an end to recursion; `page_fault_handler` overwrites `ax` behind the compiler's back (`memory.c:232`);
the user shell prints to descriptor 0 (`shell.c:20`), which `c_syscall_handler` rejects (`main.c:236`), so nothing it prints is seen;
its `tokenize` writes a terminator behind the first argument and then takes it for the end of the line (`shell.c:187`), so that `export`,
`unset`, `echo` and `exit` never get the arguments that its help promises ("export n=v Set env var", `shell.c:202`), and
no line ever changes the environment; `RunsFirstWord` is about the command alone, so a `tokenize` that works as the help says would satisfy it too; its `expand_vars` steps over the terminator after `${name}` and after a `$` at the end of the line, which is why
`RunsFirstWord` speaks of plain variables only; the comment at `boot.s:165` says EFLAGS 0x02 where
0x202 is pushed; `page_map` does not add the user bit to a directory entry that exists.

## 5. Proofs

Every theorem is for every value of the constants that the named assumptions allow. "Property" is what a
run checks on a small instance and the theorem states.

| theorem | module | property |
|---|---|---|
| `HeapCorrect` | `KernelHeapProofs` | (the inductive invariant `HeapInv`) |
| `HeapBlocks`, `HeapTiled`, `HeapLinked`, `HeapMerged`, `HeapHeaders`, `HeapOwned` | | `TypeOK`, `Tiled`, `LinksMirror`, `Coalesced`, `HeadersIntact`, `OwnedExactly` |
| `HeapWhole` | | `WholeWhenIdle` |
| `HeapImplementsAllocator` | | `AllocatorSpec` |
| `BufferCorrect` | `KbdBufferProofs` | `BufInv` |
| `BufferImplementsFifo` | | `FifoSpec` |
| `ConsoleCorrect` | `ConsoleProofs` | (`ConsoleInv`) |
| `Decoding`, `BytesRead`, `QueueBounded` | | `DecodesTyping`, `NoByteForgotten`, `TypeOK` |
| `LineCorrect` | `ShellLineProofs` | (`LineInv`) |
| `EditsStayInside`, `HistoryKept`, `LineBounded` | | `EditsInside`, `HistoryInv`, `TypeOK` |
| `LineShown` | | `ScreenShows`, if `NoBackspaces` |
| `LineRefinesEditor` | | `EditorSpec` |
| `MemoryCorrect` | `MemoryProofs` | (`MemInv`) |
| `FramesOnce`, `TablesOwn`, `PagesFound`, `FaultsLate`, `MemoryTyped` | | `OneUse`, `TablesApart`, `FoundWhereMapped`, `FaultsWhenFull`, `TypeOK` |
| `UserPagesClosed` | | `UserPagesReserved`, if `PageAligned` |
| `DiskCorrect` | `StorageProofs` | (`DiskInv`, `DiskTypes`) |
| `DiskReads`, `DiskInStep`, `DiskTyped` | | `ReadsRight`, `InStep`, `TypeOK` of the driver with any 32-bit requests |
| `BootCorrect` | | (`BootInv` with those) |
| `BootReady`, `BootStaysInside` | | `RunsReady`, `BootInside` |
| `BootReads` | | `ReadsRight` and `InStep` of the driver under `kmain` |
| `FilesCorrect` | | (`FilesInv`), if `Consistent(disk)` |
| `PromptNames`, `LoadsRight`, `CatsRight`, `ListsRight` | | `CwdNamed`, `LoadsWhole`, `CatPrints`, `ListsAll`, if `Consistent(disk)` |
| `ReadCorrect` | `UserShellProofs` | (`ReadInv`) |
| `ReadTyped` | | `TypeOK` |
| `ReadImplementsReader` | | `ReaderSpec` |
| `RunsRight` | | `RunsFirstWord` |

**Heap.** From `HeapAssumption`: a heap of at least 64 bytes, `size_t` larger than it
by more than 128, and requests (and products in `kcalloc`) that do not come within 128 of `SIZE_T`, where
`align_up` would wrap. `HeapInv` is the conjunction of the type invariant, an empty list before
`heap_init`, `Tiled`, `LinksMirror`, `Coalesced`, `HeadersIntact` and `OwnedExactly`. None is
inductive alone: a merge is right only when `next` is the adjacent block (`Tiled`), it repairs `prev`
of the block behind only if that mirrors `next` (`LinksMirror`), `Coalesced` needs both merges to see
what they should, and a caller's stores miss the headers only because blocks in use are
as large as their pointers own (`OwnedExactly`). The conjuncts are stated
of any heap, so that lemmas say what each operator (`cut`, `split_block`, `merge_with_next`,
`Take`, `Release`) does to them, and the actions, `krealloc` included, are chains of these lemmas.
`WholeWhenIdle` follows without induction over the list: with nothing owned every
block is free, and a block with a successor would contradict `Coalesced`. The refinement
maps a step of the heap to one step of `Allocator`, or to none.

**Ring buffer.** From a size of at least 2 and characters other than 0. `BufInv` adds to the ranges what
the pop may rely on at each of its steps: from the test to the store of `tail` the buffer is not
empty, and the slot read stays as it was, since a push stops before `tail`. The refinement
shows that a push appends to `Contents` or finds it full, and that the store of `tail` is
the step that takes the first character.

**Console.** From `ConsoleAssumption`: any set of keys with make codes up to 95, and any sizes of the
keyboard's and the driver's queue. `DecodesTyping` speaks of the state that the driver reaches when it has handled
all the bytes that still wait, which is a fold of `handle` over them. Two facts carry the proof. A byte sent goes to the
end of the fold, so pressing, repeating or releasing a key is one or two more applications of `handle` (`FoldLast`) and is
compared with what the user owes for it, case by case: modifier, arrow or other extended key, plain key held or not. A byte read
goes from the head of the fold into the flags (`FoldFirst`), and what has been pushed before only stays in front of what comes
(`AfterBefore`). `NoByteForgotten` has to be carried along, since the controller raises its
line for the first byte only.

**Shell line.** From `LineAssumption` and `VgaAssumption`: any size of buffer, history and screen, any
characters other than the ones `shell_loop` treats specially. `LineInv` says of the screen that it is one that `vga_putc`
can make, of a line that was not recalled that the cursor is in the text (so that Enter and an insertion at the limit write inside the
buffer, which is `EditsInside`), and of a plain line that the text is in the rest of its row. `ScreenShows` is carried through the redraws of an insertion or
erasure, each a string of letters and backspaces whose effect on the row is a lemma about the fold
`vga_puts`. It needs `NoBackspaces`, that commands and programs print no backspaces: these move the cursor left without erasing,
so that a prompt printed after them stands in front of remains of the old row. The run's instance satisfies it, and the kernel's own
texts do; the output of a program or of `cat` need not. `EditorSpec` maps in-place shifts of the
array to insertion and removal in a sequence (`TextInsert`, `TextRemove`).

**Memory.** From `LayoutAssumption`, the relations between the constants of `memory.h` (aligned areas in their order,
physical memory and identity mapping below the end of the address space), and `InputAssumption`, that boot
reports and program headers have 32-bit fields. `MemInv` adds to the properties that the entries of the
identity mapping name their own pages (`IdentityKept`), that the tables hold what `page_map` last entered (`Entered`), and that nothing is there before
`memory_init` (`NotYet`). `page_map` clears a new table through the identity mapping, which hits no live frame because the frame
came from the bitmap (`OneUse`). `UserPagesReserved` is proved if program segments start on pages (`PageAligned`); the
run `memory_user` shows that it fails otherwise. That proof is about the wrapping sums of
`validate_segment`: one that accepts a segment bounds its last page even when the sum wraps.

**Disk and boot.** From `DiskAssumption` (the counters and requests fit their width) the driver's invariant ties the two sides together: while a command runs, the sectors
stored and those the drive still has make up what was sent to it, and the ones stored are those in
their order; what was sent is the request if 28 bits can name its sectors and it is for at most 256 of them; for more, the driver waits for sectors that the drive
does not have, and does not return; the drive offers data only while it has some to deliver. A timeout changes neither, which is why
a retry that sends no command stays in step. `BootInv` holds of every disk of which `DisksAssumption` holds: its record does not contradict itself. It
may be unpartitioned, without a superblock, with sizes and block numbers that make no sense. The invariant says
which read each stage waits for; with the driver's invariant this gives what is in the buffer. A superblock with the magic number can
only have been found at the real start, or where the registers make that of it, and a root inode only in the block that holds it, since blocks of one length
start at different sectors; `RunsReady` speaks of the start and the root if the partition is within reach of the drive (`InReach`). `BootInside` is part of the invariant because the lengths of later reads come from
what earlier ones found.

**File commands.** `Consistent(disk)` is a hypothesis of these theorems, not an assumption on all disks, since `kmain`
mounts disks that do not meet it (the damaged ones of `storage`). It has two parts. `Readable`: the inodes in use have pointers to blocks that can be read as
what they are, and entries of directories name inodes in use. `Tree`: "." is the directory itself, ".." the one that
has it. The assumption `FileDisksConsistent` in `MCBoot` lets TLC evaluate it on all 66 sound disks of the run and on the disk of which the damaged ones
are variations, so it is no empty hypothesis; what the volume holds, its sizes, holes, names and depth are arbitrary.
`FilesInv` says that the volume in use is the one on the disk (from `BootInv`), that the prompt's path is a way
of lookups from the root to the working directory (`Way`), and that what a command gave is what its operator yields on an inode in use. `CwdNamed` alone is not
inductive: `cd ..` drops the last name, which is right only if every directory on the way, not just the last, has the one
before it as its "..". The other three hold while nothing is overrun, that is for blocks of at most 4096 bytes and inodes of at most 128 (`smashed`), and `LoadsWhole` and `ListsAll` for files whose count of blocks
does not wrap (`Countable`). They compare the kernel's loops over blocks with what the inode defines: an image is
`FlattenSeq` of the file's blocks, all of one length (`FlatEqual`); what `cat` prints block by block is the same bytes in other groups (`FlatRegroup`); and a listing
has the entries that the directory's blocks have (`FlatRange`), or the first of them if an allocation fails (`FlatPrefix`).

**User shell.** From `UserShellAssumption` (sizes other than 0, and room for at least one argument beside the null pointer that ends `argv`) and
`AlphabetAssumption` (words are none of the special characters): any sizes, any words. `ReadInv` says that the cells up to `len` were typed
or recalled, though those behind are left from earlier lines, and that every line of the
history fits the array with its terminator. Submitting a line to a full history is shown to be the same as appending it and dropping
the oldest.

`RunsFirstWord` is about what `Enter` computes. `expand_vars`, `tokenize` and `ArgEnd` are recursive functions, so the
first step is that such functions exist (`ExpandExists`, `TokensExist`, `ScanExists`): a round of each
looks only at rounds with a larger index, or with more arguments, and there is a last one. That the environment is always a list of variables comes from the lemma
`EnvStays`, which says what the code as it is does: no line changes it. It needs that `tokenize` finds no second argument behind a word
`export` or `unset` (`NoArguments`): an argument that is ended is the last, and one that is not ended runs to the end of the line, so that it is a single
word only if it is the last thing on it. `RunsFirstWord` needs three facts. A round of `expand_vars` on a plain line
adds the value of what stands there and stops behind its name (`RoundPlain`), never at the terminator or beyond, since the line that `Enter` ended holds
its text and a `NUL` (`Holding`, from `ReadInv`). By induction from the end of the line, what the rounds from a place on add is what the rest of the line
stands for, if it all fits, and they never leave the arrays even if it does not (`ExpandPlain`). And in a text without quotes the
scan stops at the first blank (`TameEnd`), so the first argument is the first word (`FirstWord`).

**Technique.** `FoldLeft`, `FlattenSeq` and the functions of the user shell are recursive, and the library's induction theorems take an operator, which no
installed prover instantiates. `SequenceFacts` proves from `NatLessThanWellFounded`, which takes no operator, that a set which has 0 and with each
number the next has them all (`NatSet`); every induction here is about such a set. It has the operator of a fold as a constant, shows that the recursive function
exists and what it computes, and is instantiated with `handle`, with `vga_putc`, and with the steps of the other folds.

Only model-checked: liveness (`ShellReads`, `ReadsWhatWaits`, `BootEnds`), which is out of the prover's reach. The properties of the
five runs that expect a violation do not hold; for `memory_user` section 5 has the theorem with the condition that is missing there.

## 6. Not modelled

* The contents of the GDT and the TSS, segment registers: constants set up in a straight line.
* Text: exception reports, serial port, colours, hexadecimal output, what the user shell would print.
* Drives of more than 2^28 sectors (`Described`), which 28 bits cannot address; 48-bit commands are not in the code.
* `page_map` of pages below the identity mapping's end, which no code calls for; `len` below `-LEN_BELOW` (a bound).
* Block sizes at which `1024 << s_log_block_size` overflows 32 bits (a logarithm of 22 or more).
* Inodes outside the first block group: `read_inode` does not support them; on both images in the
  repository every used inode is in the first group. Block numbers above 0x100000 in a mounted volume.
* The driver's steps under a command after boot: each read of a command is the driver's read that boot shows.
* The copying of ELF segments, `test_ring3`, and the program itself: a program is what it calls.
* The depth of the kernel stack, which depends on the frames that the compiler makes.
* Parts that the makefile names and the repository lacks (`task.c`, `auto_user.c`, `vfs.c`, `exec_elf.c`,
  `string.c`); `parse_init_cmdline`, whose `g_init_path` only the absent `auto_user.c` reads; old copies under
  other names.

## 7. Plan

1. Done: every module with its run, and proofs of every safety property that a passing run checks.
2. Extend: the inode groups of `read_inode`; `ls` and `./program` against the working directory the prompt
   shows; `kmalloc` within 128 bytes of 2^32; the lines of the user shell that are not plain, once `expand_vars` stops at its terminator.
