------------------------------- MODULE Memory -------------------------------
(***************************************************************************)
(* Physical frames and page tables of arch/memory.c, and the ELF loader of *)
(* arch/elf.c as the one who opens pages to user programs.                 *)
(*                                                                         *)
(* Addresses are bytes and wrap at WORD, as uint32_t does; a frame and a   *)
(* page are named by their number.  The frame bitmap is the set used of    *)
(* the frames whose bit is set.  A page table belongs to one directory     *)
(* entry, so the tables are one function of the page, vm, and a directory  *)
(* entry says which table it has: none, the static identity table, or a    *)
(* frame.  What the pages contain is left out.                             *)
(***************************************************************************)
EXTENDS Integers, Sequences, FiniteSetsExt

CONSTANTS
    PAGE_SIZE, WORD, TABLE,            \* TABLE: pages that one table maps
    KB,                                \* 1024
    MAX_PHYS_MEM_BYTES, IDENTITY_MAP_BYTES, DEFAULT_BYTES,
    LOW, KERNEL_END,                   \* 1 MiB, and the end of the kernel
    USER_PROGRAM_BASE, USER_PROGRAM_MAX_SIZE, USER_STACK_TOP, USER_STACK_SIZE,
    BootInfos,                         \* what the boot loader may report
    Programs,                          \* the programs: sequences of segments
    VPages                             \* the pages that kernel code maps

ASSUME LayoutAssumption ==
    /\ {PAGE_SIZE, WORD, TABLE, KB, MAX_PHYS_MEM_BYTES, IDENTITY_MAP_BYTES} \subseteq Nat \ {0}
    /\ {DEFAULT_BYTES, LOW, KERNEL_END, USER_PROGRAM_BASE, USER_PROGRAM_MAX_SIZE,
        USER_STACK_TOP, USER_STACK_SIZE} \subseteq Nat
    /\ WORD % (PAGE_SIZE * TABLE) = 0
    /\ MAX_PHYS_MEM_BYTES % PAGE_SIZE = 0
    /\ IDENTITY_MAP_BYTES % (PAGE_SIZE * TABLE) = 0
    /\ LOW < KERNEL_END /\ KERNEL_END <= USER_PROGRAM_BASE
    /\ USER_PROGRAM_BASE + USER_PROGRAM_MAX_SIZE <= USER_STACK_TOP - USER_STACK_SIZE
    /\ USER_STACK_TOP <= IDENTITY_MAP_BYTES
    /\ MAX_PHYS_MEM_BYTES + PAGE_SIZE <= WORD
    /\ IDENTITY_MAP_BYTES + PAGE_SIZE <= WORD
    /\ VPages \subseteq (IDENTITY_MAP_BYTES \div PAGE_SIZE) .. (WORD \div PAGE_SIZE) - 1

\* Boot reports and program headers have fields of uint32_t.
ASSUME InputAssumption ==
    /\ \A info \in BootInfos :
          /\ info.mapped \in BOOLEAN /\ (~info.mapped => info.mmap = << >>)
          /\ info.kb \in 0 .. WORD - 1
          /\ \A i \in DOMAIN info.mmap :
                info.mmap[i].start \in 0 .. WORD - 1 /\ info.mmap[i].size \in 0 .. WORD - 1
    /\ \A prog \in Programs : \A i \in DOMAIN prog :
          i \in Nat \ {0} /\ prog[i].vaddr \in 0 .. WORD - 1 /\ prog[i].memsz \in 0 .. WORD - 1

VARIABLES
    g_paging_ready,
    g_total_frames,
    used,           \* g_frame_bitmap
    pd,             \* g_page_directory
    vm,             \* the entries of the page tables
    held,           \* history: frames that callers of pmm_alloc_frame have
    wanted,         \* history: the frame that page_map last entered for a page
    halted          \* the kernel has taken a page fault

vars == <<g_paging_ready, g_total_frames, used, pd, vm, held, wanted, halted>>

Frames == 0 .. MAX_PHYS_MEM_BYTES \div PAGE_SIZE - 1
Pages  == 0 .. WORD \div PAGE_SIZE - 1
Dirs   == 0 .. WORD \div (PAGE_SIZE * TABLE) - 1
Identity == 0 .. IDENTITY_MAP_BYTES \div PAGE_SIZE - 1

Dir(page) == page \div TABLE

NoTable == -1
StaticTable == -2

None == [table |-> NoTable, user |-> FALSE]
Static(u) == [table |-> StaticTable, user |-> u]
InFrame(f, u) == [table |-> f, user |-> u]

Absent == [present |-> FALSE, frame |-> 0, user |-> FALSE]
Entry(f, u) == [present |-> TRUE, frame |-> f, user |-> u]

align_up_u32(a) == (((a + PAGE_SIZE - 1) % WORD) \div PAGE_SIZE) * PAGE_SIZE

\* The pages of size bytes at start, ends rounded outwards, cut at limit.
Span(start, size, limit) ==
    IF size = 0 THEN {}
    ELSE {f \in Pages : /\ f >= start \div PAGE_SIZE
                        /\ f * PAGE_SIZE < Min({align_up_u32((start + size) % WORD), limit})}

\* The areas that no frame is handed out from.
Reserved(limit) ==
    Span(0, LOW, limit)
        \cup Span(LOW, KERNEL_END - LOW, limit)
        \cup Span(USER_PROGRAM_BASE, USER_PROGRAM_MAX_SIZE, limit)
        \cup Span(USER_STACK_TOP - USER_STACK_SIZE, USER_STACK_SIZE, limit)

\* The pages that programs may touch.
UserArea ==
    Span(USER_PROGRAM_BASE, USER_PROGRAM_MAX_SIZE, WORD)
        \cup Span(USER_STACK_TOP - USER_STACK_SIZE, USER_STACK_SIZE, WORD)

Init ==
    /\ g_paging_ready = FALSE
    /\ g_total_frames = 0
    /\ used = {}
    /\ pd = [d \in Dirs |-> None]
    /\ vm = [p \in Pages |-> Absent]
    /\ held = {}
    /\ wanted = [p \in VPages |-> -1]
    /\ halted = FALSE
-----------------------------------------------------------------------------
\* A boot report is [mapped, mmap, kb]: whether it has a memory map, the entries of
\* type 1 of this, and the sum of mem_lower and mem_upper, 0 if absent.
detect_memory_bytes(info) ==
    LET max_end == Max({(info.mmap[i].start + info.mmap[i].size) % WORD : i \in DOMAIN info.mmap}
                       \cup {0})
    IN  IF max_end # 0 THEN max_end
        ELSE IF info.kb # 0 THEN (info.kb * KB) % WORD
        ELSE DEFAULT_BYTES

\* The frames that memory_init frees before it reserves any.
Usable(info, total) ==
    IF info.mapped
    THEN UNION {LET e == info.mmap[i]
                    size == IF (e.start + e.size) % WORD > total THEN total - e.start ELSE e.size
                IN  IF e.start < total THEN Span(e.start, size, total) ELSE {}
                    : i \in DOMAIN info.mmap}
    ELSE Span(LOW, Max({total - LOW, 0}), total)

\* identity_map_page for every page of ps: the directory as given by d, the
\* entries by e.  A page at or above IDENTITY_MAP_BYTES is left alone.
MapDirs(d, ps, u) ==
    [i \in Dirs |-> IF \E p \in ps \cap Identity : Dir(p) = i THEN Static(d[i].user \/ u) ELSE d[i]]

MapPages(e, ps, u) == [p \in Pages |-> IF p \in ps \cap Identity THEN Entry(p, u) ELSE e[p]]

\* Initialisation that frees usable memory after it has reserved the areas.
init_frees_last(info) ==
    /\ ~g_paging_ready
    /\ LET total == align_up_u32(Min({detect_memory_bytes(info), MAX_PHYS_MEM_BYTES}))
           ident == Span(0, Min({total, IDENTITY_MAP_BYTES}), IDENTITY_MAP_BYTES)
       IN  /\ g_total_frames' = total \div PAGE_SIZE
           /\ used' = Frames \ Usable(info, total)
           /\ pd' = MapDirs(MapDirs(pd, ident, FALSE), UserArea, TRUE)
           /\ vm' = MapPages(MapPages(vm, ident, FALSE), UserArea, TRUE)
    /\ g_paging_ready' = TRUE
    /\ UNCHANGED <<held, wanted, halted>>

\* Initialisation without the limit of what the bitmap covers.
init_unlimited(info) ==
    /\ ~g_paging_ready
    /\ LET total == align_up_u32(detect_memory_bytes(info))
           ident == Span(0, Min({total, IDENTITY_MAP_BYTES}), IDENTITY_MAP_BYTES)
       IN  /\ g_total_frames' = total \div PAGE_SIZE
           /\ used' = (Frames \ Usable(info, total)) \cup Reserved(total)
           /\ pd' = MapDirs(MapDirs(pd, ident, FALSE), UserArea, TRUE)
           /\ vm' = MapPages(MapPages(vm, ident, FALSE), UserArea, TRUE)
    /\ g_paging_ready' = TRUE
    /\ UNCHANGED <<held, wanted, halted>>

memory_init(info) ==
    /\ ~g_paging_ready
    /\ LET total == align_up_u32(Min({detect_memory_bytes(info), MAX_PHYS_MEM_BYTES}))
           ident == Span(0, Min({total, IDENTITY_MAP_BYTES}), IDENTITY_MAP_BYTES)
       IN  /\ g_total_frames' = total \div PAGE_SIZE
           /\ used' = (Frames \ Usable(info, total)) \cup Reserved(total)
           /\ pd' = MapDirs(MapDirs(pd, ident, FALSE), UserArea, TRUE)
           /\ vm' = MapPages(MapPages(vm, ident, FALSE), UserArea, TRUE)
    /\ g_paging_ready' = TRUE
    /\ UNCHANGED <<held, wanted, halted>>

Free == {f \in Frames : f < g_total_frames /\ f \notin used}

\* The last free frame.
next_last == Max(Free)

\* The frame that pmm_alloc_frame returns: the first that is free.
NextFrame == Min(Free)

pmm_alloc_frame ==
    /\ g_paging_ready /\ ~halted
    /\ Free # {}
    /\ used' = used \cup {NextFrame}
    /\ held' = held \cup {NextFrame}
    /\ UNCHANGED <<g_paging_ready, g_total_frames, pd, vm, wanted, halted>>

\* A caller gives back a frame that it has and that it has not mapped.
pmm_free_frame(f) ==
    /\ ~halted
    /\ f \in held
    /\ \A p \in VPages : wanted[p] # f
    /\ used' = used \ {f}
    /\ held' = held \ {f}
    /\ UNCHANGED <<g_paging_ready, g_total_frames, pd, vm, wanted, halted>>

\* A table in a frame that is not marked.
map_unmarked(page, f, u) ==
    /\ g_paging_ready /\ ~halted
    /\ pd[Dir(page)].table # NoTable \/ Free # {}
    /\ pd' = IF pd[Dir(page)].table = NoTable THEN [pd EXCEPT ![Dir(page)] = InFrame(NextFrame, u)] ELSE pd
    /\ vm' = [vm EXCEPT ![page] = Entry(f, u)]
    /\ wanted' = [wanted EXCEPT ![page] = f]
    /\ UNCHANGED <<g_paging_ready, g_total_frames, used, held, halted>>

\* A mapping that always starts a new table.
map_anew(page, f, u) ==
    /\ g_paging_ready /\ ~halted
    /\ Free # {}
    /\ wanted' = [wanted EXCEPT ![page] = f]
    /\ used' = used \cup {NextFrame}
    /\ pd' = [pd EXCEPT ![Dir(page)] = InFrame(NextFrame, u)]
    /\ vm' = [p \in Pages |-> IF p = page THEN Entry(f, u)
                              ELSE IF Dir(p) = Dir(page) THEN Absent ELSE vm[p]]
    /\ UNCHANGED <<g_paging_ready, g_total_frames, held, halted>>

\* page_map: without a frame for a new table it returns and says nothing.  It
\* clears the table through the identity mapping, and faults above it.
page_map(page, f, u) ==
    /\ g_paging_ready /\ ~halted
    /\ LET new == pd[Dir(page)].table = NoTable
       IN  IF new /\ Free = {}
           THEN UNCHANGED <<used, pd, vm, wanted, halted>>
           ELSE IF new /\ NextFrame \notin Identity
           THEN /\ used' = used \cup {NextFrame}
                /\ halted' = TRUE
                /\ UNCHANGED <<pd, vm, wanted>>
           ELSE /\ used' = IF new THEN used \cup {NextFrame} ELSE used
                /\ pd' = IF new THEN [pd EXCEPT ![Dir(page)] = InFrame(NextFrame, u)] ELSE pd
                /\ vm' = [vm EXCEPT ![page] = Entry(f, u)]
                /\ wanted' = [wanted EXCEPT ![page] = f]
                /\ UNCHANGED halted
    /\ UNCHANGED <<g_paging_ready, g_total_frames, held>>

\* The frame that page_get_phys finds for a page, -1 if none.
page_get_phys(page) ==
    IF pd[Dir(page)].table = NoTable \/ ~vm[page].present THEN -1 ELSE vm[page].frame
-----------------------------------------------------------------------------
\* A loader that checks only where a segment starts.
segment_starts(seg) ==
    seg.memsz = 0 \/ (seg.vaddr >= USER_PROGRAM_BASE
                      /\ seg.vaddr < USER_PROGRAM_BASE + USER_PROGRAM_MAX_SIZE)

validate_segment(seg) ==
    LET end == (seg.vaddr + seg.memsz) % WORD
    IN  seg.memsz = 0 \/ ( /\ seg.vaddr >= USER_PROGRAM_BASE
                           /\ end >= seg.vaddr
                           /\ end <= USER_PROGRAM_BASE + USER_PROGRAM_MAX_SIZE )

\* The pages that paging_mark_user_range opens for a segment, whose size the
\* loader has already rounded up to pages.
Opened(seg) == Span(seg.vaddr, align_up_u32(seg.memsz), WORD)

\* load_elf_program_from_vfs on a file with a sound header: its loadable segments
\* in order, up to the first that is refused, and those before it stay loaded.
\* infile: the segment's bytes are in the file and no more than its memory.
load_elf(prog) ==
    /\ g_paging_ready /\ ~halted
    /\ LET good == {i \in DOMAIN prog : \A j \in 1 .. i : prog[j].infile /\ validate_segment(prog[j])}
           open == UNION {Opened(prog[i]) : i \in good}
       IN  /\ pd' = MapDirs(pd, open, TRUE)
           /\ vm' = MapPages(vm, open, TRUE)
    /\ UNCHANGED <<g_paging_ready, g_total_frames, used, held, wanted, halted>>

Next ==
    \/ \E info \in BootInfos : memory_init(info)
    \/ pmm_alloc_frame
    \/ \E f \in Frames : pmm_free_frame(f)
    \/ \E page \in VPages, f \in held, u \in BOOLEAN : page_map(page, f, u)
    \/ \E prog \in Programs : load_elf(prog)

Spec == Init /\ [][Next]_vars
-----------------------------------------------------------------------------
\* The bitmap has a bit for every frame that is managed, and every entry of a page
\* table names a page.
TypeOK ==
    /\ g_paging_ready \in BOOLEAN
    /\ g_total_frames \in 0 .. MAX_PHYS_MEM_BYTES \div PAGE_SIZE
    /\ used \subseteq Frames
    /\ pd \in [Dirs -> [table : {NoTable, StaticTable} \cup Frames, user : BOOLEAN]]
    /\ vm \in [Pages -> [present : BOOLEAN, frame : Pages, user : BOOLEAN]]
    /\ held \subseteq Frames
    /\ wanted \in [VPages -> Frames \cup {-1}]
    /\ halted \in BOOLEAN

\* The frames that page tables are in.
Tables == {pd[d].table : d \in Dirs} \cap Frames

\* Every frame has one use: what callers of pmm_alloc_frame have, what the page
\* tables are in, and what memory_init reserved for the kernel and the program
\* do not overlap, however frames were freed and taken again; and the bitmap has
\* a bit for each of them.
OneUse ==
    g_paging_ready =>
        /\ held \cap Tables = {}
        /\ Reserved(g_total_frames * PAGE_SIZE) \cap (held \cup Tables) = {}
        /\ held \cup Tables \cup Reserved(g_total_frames * PAGE_SIZE) \subseteq used

\* Two directory entries never share a table.
TablesApart ==
    \A d, e \in Dirs : pd[d].table \in Frames /\ pd[d].table = pd[e].table => d = e

\* page_get_phys finds every page where page_map last put it, whatever was mapped
\* beside it since, and the kernel's own pages where they are.
FoundWhereMapped ==
    g_paging_ready =>
        /\ \A p \in VPages : page_get_phys(p) = wanted[p]
        /\ \A p \in Identity : page_get_phys(p) \in {p, -1}

\* The kernel runs into a page table that it cannot reach only when it has no
\* frame left below IDENTITY_MAP_BYTES.
FaultsWhenFull == halted => \A f \in Identity : f < g_total_frames => f \in used

\* memory.h reserves a fixed area for user programs ("预留给用户态程序的固定地址区"), and
\* the loader refuses what is outside of it ("segment outside user range"): the
\* identity-mapped pages open to programs are those of the program area and of
\* the stack.
UserPagesReserved == {p \in Identity : vm[p].present /\ vm[p].user} \subseteq UserArea
=============================================================================
