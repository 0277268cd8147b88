---------------------------- MODULE MemoryProofs ----------------------------
(***************************************************************************)
(* Proofs about physical frames and page tables, for every layout that     *)
(* LayoutAssumption allows, every boot report and every program.           *)
(***************************************************************************)
EXTENDS Memory, WellFoundedInduction, TLAPS

\* Every set of naturals that is not empty has a least element.
LEMMA MinNat ==
  ASSUME NEW S \in SUBSET Nat, S # {}
  PROVE  Min(S) \in S /\ \A y \in S : Min(S) <= y
<1>1. PICK x \in S : \A y \in S : ~(<<y, x>> \in OpToRel(<, Nat))
  BY NatLessThanWellFounded, WFMin
<1>0. OpToRel(<, Nat) = {ss \in Nat \X Nat : ss[1] < ss[2]}
  BY DEF OpToRel
<1>2. \A y \in S : x <= y
  <2> SUFFICES ASSUME NEW y \in S, y < x PROVE FALSE
    OBVIOUS
  <2>1. <<y, x>> \in {ss \in Nat \X Nat : ss[1] < ss[2]}
    OBVIOUS
  <2> QED BY <1>0, <1>1, <2>1
<1> QED BY <1>2 DEF Min

\* Every bounded one has a greatest.
LEMMA MaxNat ==
  ASSUME NEW b \in Nat, NEW S \in SUBSET (0 .. b), S # {}
  PROVE  Max(S) \in S /\ \A y \in S : Max(S) >= y
<1> DEFINE T == {b - x : x \in S}
<1>0. \A x \in S : x \in Nat /\ b - x \in Nat
  OBVIOUS
<1>1. T \in SUBSET Nat /\ T # {}
  BY <1>0, Zenon
<1>2. Min(T) \in T /\ \A y \in T : Min(T) <= y
  BY <1>1, MinNat
<1>3. PICK x \in S : Min(T) = b - x
  BY <1>2
<1>4. \A y \in S : x >= y
  BY <1>2, <1>3
<1> QED BY <1>4 DEF Max

\* The lesser of two sizes, as memory_init takes it.
LEMMA MinTwo ==
  ASSUME NEW a \in Int, NEW b \in Int
  PROVE  /\ Min({a, b}) \in {a, b} /\ Min({a, b}) <= a /\ Min({a, b}) <= b
BY DEF Min

\* Division by the page size.
LEMMA Division ==
  ASSUME NEW a \in Int, NEW p \in Nat \ {0}
  PROVE  /\ a \div p \in Int /\ a % p \in 0 .. p - 1
         /\ a = p * (a \div p) + (a % p)
OBVIOUS

\* The end of a page is not behind the start of a later one.
LEMMA Multiply ==
  ASSUME NEW p \in Nat \ {0}, NEW x \in Int, NEW y \in Int, x < y
  PROVE  p * x + p <= p * y
<1>1. PICK d \in Nat : y = x + 1 + d
  <2> WITNESS y - x - 1 \in Nat
  <2> QED OBVIOUS
<1>2. p * y = p * x + p + p * d /\ p * d >= 0
  BY <1>1
<1> QED BY <1>2

\* The constants are numbers.
LEMMA Layout ==
  /\ PAGE_SIZE \in Nat \ {0} /\ WORD \in Nat \ {0} /\ TABLE \in Nat \ {0}
  /\ MAX_PHYS_MEM_BYTES \in Nat \ {0} /\ IDENTITY_MAP_BYTES \in Nat \ {0}
  /\ DEFAULT_BYTES \in Nat /\ LOW \in Nat /\ KERNEL_END - LOW \in Nat
  /\ USER_PROGRAM_BASE \in Nat /\ USER_PROGRAM_MAX_SIZE \in Nat
  /\ USER_STACK_TOP - USER_STACK_SIZE \in Nat /\ USER_STACK_SIZE \in Nat
  /\ USER_PROGRAM_BASE + USER_PROGRAM_MAX_SIZE <= IDENTITY_MAP_BYTES
  /\ MAX_PHYS_MEM_BYTES + PAGE_SIZE <= WORD
  /\ IDENTITY_MAP_BYTES + PAGE_SIZE <= WORD
BY LayoutAssumption

\* align_up_u32 rounds to a multiple of the page size, up where nothing wraps.
LEMMA AlignType ==
  ASSUME NEW a \in Int
  PROVE  align_up_u32(a) \in Int
BY Layout DEF align_up_u32

\* align_up_u32 goes to the next page boundary, unless the sum wraps.
LEMMA AlignUp ==
  ASSUME NEW a \in Nat, a + PAGE_SIZE <= WORD
  PROVE  /\ align_up_u32(a) = PAGE_SIZE * ((a + PAGE_SIZE - 1) \div PAGE_SIZE)
         /\ a <= align_up_u32(a) /\ align_up_u32(a) < a + PAGE_SIZE
<1>1. (a + PAGE_SIZE - 1) % WORD = a + PAGE_SIZE - 1
  BY Layout
<1> DEFINE n == a + PAGE_SIZE - 1
<1>2. n \in Int
  BY Layout
<1> HIDE DEF n
<1>3. /\ n \div PAGE_SIZE \in Int /\ n % PAGE_SIZE \in 0 .. PAGE_SIZE - 1
      /\ n = PAGE_SIZE * (n \div PAGE_SIZE) + (n % PAGE_SIZE)
  BY <1>2, Layout, Division
<1>4. align_up_u32(a) = PAGE_SIZE * (n \div PAGE_SIZE)
  BY <1>1, <1>3, Layout DEF align_up_u32, n
<1>5. PAGE_SIZE * (n \div PAGE_SIZE) \in Int
  BY <1>3, Layout
<1>6. a <= align_up_u32(a) /\ align_up_u32(a) < a + PAGE_SIZE
  <2> DEFINE m == PAGE_SIZE * (n \div PAGE_SIZE)
             r == n % PAGE_SIZE
  <2>1. m \in Int /\ r \in 0 .. PAGE_SIZE - 1 /\ n = m + r /\ align_up_u32(a) = m
    BY <1>3, <1>4, <1>5
  <2> HIDE DEF m, r
  <2> QED BY <2>1, Layout DEF n
<1> QED BY <1>4, <1>6 DEF n

\* It does not pass a multiple of the page size.
LEMMA AlignBelow ==
  ASSUME NEW a \in Nat, NEW m \in Nat, a <= m, m % PAGE_SIZE = 0, m + PAGE_SIZE <= WORD
  PROVE  align_up_u32(a) <= m
<1> DEFINE q == (a + PAGE_SIZE - 1) \div PAGE_SIZE
           k == m \div PAGE_SIZE
<1>1. q \in Int /\ k \in Int /\ m = PAGE_SIZE * k
  BY Layout, Division
<1>2. align_up_u32(a) = PAGE_SIZE * q /\ align_up_u32(a) < m + PAGE_SIZE
  BY AlignUp, Layout
<1>3. ~(k < q)
  <2> HIDE DEF q, k
  <2> SUFFICES ASSUME k < q PROVE FALSE
    OBVIOUS
  <2>1. PAGE_SIZE * k + PAGE_SIZE <= PAGE_SIZE * q
    BY <1>1, Multiply, Layout
  <2> QED BY <1>1, <1>2, <2>1, Layout
<1>4. CASE q = k
  BY <1>1, <1>2, <1>4
<1>5. CASE q < k
  <2> HIDE DEF q, k
  <2>1. PAGE_SIZE * q + PAGE_SIZE <= PAGE_SIZE * k
    BY <1>1, <1>5, Multiply, Layout
  <2> QED BY <1>1, <1>2, <2>1, Layout
<1> HIDE DEF q, k
<1> QED BY <1>1, <1>3, <1>4, <1>5

\* A page whose address is below m has a number below that of m.
LEMMA PageBelow ==
  ASSUME NEW f \in Int, NEW m \in Nat, m % PAGE_SIZE = 0
  PROVE  f * PAGE_SIZE < m <=> f < m \div PAGE_SIZE
<1> DEFINE k == m \div PAGE_SIZE
<1>1. k \in Int /\ m = PAGE_SIZE * k
  BY Layout, Division
<1> HIDE DEF k
<1>2. CASE f < k
  BY <1>1, <1>2, Multiply, Layout
<1>3. CASE k < f
  BY <1>1, <1>3, Multiply, Layout
<1>4. CASE k = f
  BY <1>1, <1>4, Layout
<1> QED BY <1>1, <1>2, <1>3, <1>4, Layout DEF k

\* The pages of a range, which memory_init reserves or maps, are below its limit.
LEMMA SpanBelow ==
  ASSUME NEW start \in Int, NEW size \in Int, NEW limit \in Nat, NEW f \in Span(start, size, limit)
  PROVE  f \in Pages /\ f \in Nat /\ f * PAGE_SIZE < limit
<1> DEFINE end == align_up_u32((start + size) % WORD)
<1>1. end \in Int
  <2>1. (start + size) % WORD \in Int
    BY Layout
  <2> QED BY <2>1, AlignType
<1>4. f \in Pages /\ f * PAGE_SIZE < Min({end, limit})
  BY DEF Span
<1> HIDE DEF end
<1>2. Min({end, limit}) <= limit
  BY <1>1, MinTwo
<1>3. Min({end, limit}) \in Int
  <2>1. limit \in Int
    OBVIOUS
  <2>2. Min({end, limit}) \in {end, limit}
    BY <1>1, <2>1, MinTwo
  <2> QED BY <1>1, <2>1, <2>2
<1>5. f \in Nat /\ f * PAGE_SIZE \in Int
  BY <1>4, Layout DEF Pages
<1> QED BY <1>2, <1>3, <1>4, <1>5

\* What is reserved has a bit in the bitmap.
LEMMA ReservedInFrames ==
  ASSUME NEW limit \in Nat, limit <= MAX_PHYS_MEM_BYTES
  PROVE  Reserved(limit) \subseteq Frames
<1> SUFFICES ASSUME NEW f \in Reserved(limit) PROVE f \in Frames
  OBVIOUS
<1>1. f \in Nat /\ f * PAGE_SIZE < limit
  BY SpanBelow, Layout DEF Reserved
<1>2. f * PAGE_SIZE < MAX_PHYS_MEM_BYTES /\ MAX_PHYS_MEM_BYTES % PAGE_SIZE = 0
  <2>1. f * PAGE_SIZE \in Int
    BY <1>1, Layout
  <2> QED BY <1>1, <2>1, Layout, LayoutAssumption
<1>3. f < MAX_PHYS_MEM_BYTES \div PAGE_SIZE
  BY <1>1, <1>2, PageBelow, Layout
<1> QED BY <1>1, <1>3, Layout DEF Frames

\* detect_memory_bytes finds a size, whatever the memory map says.
LEMMA DetectedBytes ==
  ASSUME NEW info \in BootInfos
  PROVE  detect_memory_bytes(info) \in Nat
<1> DEFINE end(i) == (info.mmap[i].start + info.mmap[i].size) % WORD
           ends == {end(i) : i \in DOMAIN info.mmap} \cup {0}
<1>0. ASSUME NEW i \in DOMAIN info.mmap PROVE end(i) \in 0 .. WORD - 1
  <2>1. /\ info.mmap[i].start \in 0 .. WORD - 1 /\ info.mmap[i].size \in 0 .. WORD - 1
        /\ WORD \in Nat \ {0}
    BY InputAssumption, Layout
  <2> QED BY <2>1
<1>1. ends \in SUBSET (0 .. WORD - 1) /\ ends # {}
  <2> HIDE DEF end
  <2>1. 0 \in 0 .. WORD - 1
    BY Layout
  <2> QED BY <1>0, <2>1, Zenon
<1> HIDE DEF ends
<1>2. Max(ends) \in Nat
  <2>1. WORD - 1 \in Nat
    BY Layout
  <2>2. Max(ends) \in ends
    BY <1>1, <2>1, MaxNat
  <2>3. Max(ends) \in 0 .. WORD - 1
    BY <1>1, <2>2, Zenon
  <2> QED BY <2>1, <2>3
<1>3. (info.kb * KB) % WORD \in Nat /\ DEFAULT_BYTES \in Nat
  <2>1. info.kb \in Nat /\ KB \in Nat /\ WORD \in Nat \ {0} /\ DEFAULT_BYTES \in Nat
    BY InputAssumption, LayoutAssumption, Layout
  <2>2. info.kb * KB \in Nat
    BY <2>1
  <2> DEFINE k == info.kb * KB
  <2> HIDE DEF k
  <2>3. k \in Nat
    BY <2>2 DEF k
  <2>4. k % WORD \in Nat
    BY <2>1, <2>3
  <2> QED BY <2>1, <2>4 DEF k
<1> QED BY <1>2, <1>3, Zenon DEF detect_memory_bytes, ends

\* memory_init rounds the memory it manages to frames, of which the bitmap has all.
LEMMA TotalBytes ==
  ASSUME NEW info \in BootInfos, NEW total,
         total = align_up_u32(Min({detect_memory_bytes(info), MAX_PHYS_MEM_BYTES}))
  PROVE  /\ total \in Nat /\ total <= MAX_PHYS_MEM_BYTES
         /\ total \div PAGE_SIZE \in 0 .. MAX_PHYS_MEM_BYTES \div PAGE_SIZE
         /\ (total \div PAGE_SIZE) * PAGE_SIZE = total
<1> DEFINE a == Min({detect_memory_bytes(info), MAX_PHYS_MEM_BYTES})
<1>1. a \in Nat /\ a <= MAX_PHYS_MEM_BYTES
  <2>1. detect_memory_bytes(info) \in Nat
    BY DetectedBytes
  <2> DEFINE d == detect_memory_bytes(info)
  <2> HIDE DEF d
  <2>2. d \in Int /\ d \in Nat /\ MAX_PHYS_MEM_BYTES \in Int
    BY <2>1, Layout DEF d
  <2>3. Min({d, MAX_PHYS_MEM_BYTES}) \in {d, MAX_PHYS_MEM_BYTES} /\ Min({d, MAX_PHYS_MEM_BYTES}) <= MAX_PHYS_MEM_BYTES
    BY <2>2, MinTwo
  <2>4. a = Min({d, MAX_PHYS_MEM_BYTES})
    BY DEF d
  <2> HIDE DEF a
  <2> QED BY <2>2, <2>3, <2>4, Layout
<1> HIDE DEF a
<1>2. /\ total = PAGE_SIZE * ((a + PAGE_SIZE - 1) \div PAGE_SIZE)
      /\ a <= total /\ total <= MAX_PHYS_MEM_BYTES
  <2>1. total = align_up_u32(a)
    BY DEF a
  <2>2. a + PAGE_SIZE <= WORD /\ MAX_PHYS_MEM_BYTES % PAGE_SIZE = 0 /\ MAX_PHYS_MEM_BYTES \in Nat
    BY <1>1, Layout, LayoutAssumption
  <2>3. align_up_u32(a) <= MAX_PHYS_MEM_BYTES
    BY <1>1, <2>2, AlignBelow, Layout
  <2> QED BY <1>1, <2>1, <2>2, <2>3, AlignUp
<1> DEFINE q == (a + PAGE_SIZE - 1) \div PAGE_SIZE
<1>3. q \in Int
  BY <1>1, Division, Layout
<1> HIDE DEF q
<1>4. total \in Nat /\ total = PAGE_SIZE * q
  BY <1>1, <1>2, <1>3, Layout DEF q
<1>5. total \div PAGE_SIZE = q
  BY <1>3, <1>4, Layout, Division
<1>6. q >= 0 /\ q <= MAX_PHYS_MEM_BYTES \div PAGE_SIZE
  <2> DEFINE k == MAX_PHYS_MEM_BYTES \div PAGE_SIZE
  <2>1. k \in Int /\ MAX_PHYS_MEM_BYTES = PAGE_SIZE * k
    BY Layout, LayoutAssumption, Division
  <2> HIDE DEF k
  <2>2. ~(k < q)
    BY <1>2, <1>3, <1>4, <2>1, Multiply, Layout
  <2>3. ~(q < 0)
    BY <1>3, <1>4, Multiply, Layout
  <2> QED BY <1>3, <2>1, <2>2, <2>3 DEF k
<1> QED BY <1>2, <1>3, <1>4, <1>5, <1>6, Layout

\* The directory entry of a page is one of the directory.
LEMMA DirType ==
  ASSUME NEW p \in Pages
  PROVE  Dir(p) \in Dirs
<1> DEFINE k == WORD \div (PAGE_SIZE * TABLE)
           d == p \div TABLE
<1>1. PAGE_SIZE * TABLE \in Nat \ {0}
  BY Layout
<1>2. k \in Int /\ WORD = (PAGE_SIZE * TABLE) * k
  <2> DEFINE m == PAGE_SIZE * TABLE
  <2>1. m \in Nat \ {0} /\ WORD % m = 0 /\ WORD \in Int
    BY <1>1, Layout, LayoutAssumption
  <2> HIDE DEF m
  <2>2. WORD \div m \in Int /\ WORD = m * (WORD \div m) + (WORD % m)
    BY <2>1, Division
  <2>3. m * (WORD \div m) \in Int
    BY <2>1, <2>2
  <2> QED BY <2>1, <2>2, <2>3 DEF m
<1>3. p \in Nat /\ p < WORD \div PAGE_SIZE
  BY Layout DEF Pages
<1>4. d \in Int /\ p % TABLE \in 0 .. TABLE - 1 /\ p = TABLE * d + (p % TABLE)
  BY <1>3, Layout, Division
<1> HIDE DEF k, d
<1>5. WORD = PAGE_SIZE * (TABLE * k) /\ TABLE * k \in Int
  BY <1>2, Layout
<1>6. WORD \div PAGE_SIZE = TABLE * k
  BY <1>5, Layout
<1>7. ~(k <= d)
  <2> SUFFICES ASSUME k <= d PROVE FALSE
    OBVIOUS
  <2>1. k = d \/ TABLE * k + TABLE <= TABLE * d
    BY <1>2, <1>4, Multiply, Layout
  <2>2. TABLE * k <= TABLE * d
    BY <1>2, <1>4, <2>1, Layout
  <2> QED BY <1>2, <1>3, <1>4, <1>6, <2>2, Layout
<1>8. ~(d < 0)
  BY <1>3, <1>4, Multiply, Layout
<1> QED BY <1>2, <1>4, <1>7, <1>8 DEF Dir, Dirs, k, d

\* Frames, the pages of the kernel and the pages it maps are pages, and the last
\* two are apart.
LEMMA PageSets ==
  /\ Frames \subseteq Pages /\ Identity \subseteq Pages /\ VPages \subseteq Pages
  /\ VPages \cap Identity = {} /\ -1 \notin Frames /\ -2 \notin Frames /\ 0 \in Pages
  /\ MAX_PHYS_MEM_BYTES \div PAGE_SIZE \in Nat
<1> DEFINE w == WORD \div PAGE_SIZE
           m == MAX_PHYS_MEM_BYTES \div PAGE_SIZE
           k == IDENTITY_MAP_BYTES \div PAGE_SIZE
<1>1. /\ w \in Int /\ WORD % PAGE_SIZE \in 0 .. PAGE_SIZE - 1
      /\ WORD = PAGE_SIZE * w + (WORD % PAGE_SIZE)
  BY Division, Layout
<1>2. /\ m \in Int /\ MAX_PHYS_MEM_BYTES % PAGE_SIZE \in 0 .. PAGE_SIZE - 1
      /\ MAX_PHYS_MEM_BYTES = PAGE_SIZE * m + (MAX_PHYS_MEM_BYTES % PAGE_SIZE)
  BY Division, Layout
<1>3. /\ k \in Int /\ IDENTITY_MAP_BYTES % PAGE_SIZE \in 0 .. PAGE_SIZE - 1
      /\ IDENTITY_MAP_BYTES = PAGE_SIZE * k + (IDENTITY_MAP_BYTES % PAGE_SIZE)
  BY Division, Layout
<1>0. VPages \subseteq k .. w - 1
  BY LayoutAssumption
<1> HIDE DEF w, m, k
<1>4. ~(w < m)
  BY <1>1, <1>2, Multiply, Layout
<1>5. ~(w < k)
  BY <1>1, <1>3, Multiply, Layout
<1>6. 0 < w
  <2>1. ~(w < 0)
    BY <1>1, Multiply, Layout
  <2>2. w # 0
    BY <1>1, Layout
  <2> QED BY <1>1, <2>1, <2>2
<1>7. ~(k < 0)
  BY <1>3, Multiply, Layout
<1>8. Frames = 0 .. m - 1 /\ Pages = 0 .. w - 1 /\ Identity = 0 .. k - 1
  BY DEF Frames, Pages, Identity, w, m, k
<1>9. ~(m < 0)
  BY <1>2, Multiply, Layout
<1> QED BY <1>0, <1>1, <1>2, <1>3, <1>4, <1>5, <1>6, <1>7, <1>8, <1>9 DEF m

\* What pmm_alloc_frame returns is free, and no free frame is below it.
LEMMA Allocated ==
  ASSUME Free # {}
  PROVE  NextFrame \in Free /\ \A f \in Free : NextFrame <= f
BY MinNat DEF NextFrame, Free, Frames
-----------------------------------------------------------------------------
\* The entries of the identity table name their own pages.
IdentityKept == \A p \in Identity : vm[p].present => vm[p].frame = p

\* The tables hold what page_map last entered, and nothing else for the pages that
\* only page_map maps.
Entered ==
    \A p \in VPages :
        IF wanted[p] = -1 THEN ~vm[p].present
        ELSE pd[Dir(p)].table # NoTable /\ vm[p].present /\ vm[p].frame = wanted[p]

\* Before memory_init nothing is handed out and nothing is mapped.
NotYet ==
    ~g_paging_ready => /\ ~halted /\ held = {}
                       /\ pd = [d \in Dirs |-> None]
                       /\ vm = [p \in Pages |-> Absent]

\* The inductive invariant of memory.c.
MemInv ==
    /\ TypeOK /\ OneUse /\ TablesApart /\ FaultsWhenFull
    /\ IdentityKept /\ Entered /\ NotYet

\* Before memory_init nothing is mapped, taken or handed out.
LEMMA InitMem == Init => MemInv
<1> SUFFICES ASSUME Init PROVE MemInv
  OBVIOUS
<1>1. TypeOK
  <2>1. pd \in [Dirs -> [table : {NoTable, StaticTable} \cup Frames, user : BOOLEAN]]
    BY DEF Init, None
  <2>2. vm \in [Pages -> [present : BOOLEAN, frame : Pages, user : BOOLEAN]]
    BY PageSets DEF Init, Absent
  <2>3. g_total_frames \in 0 .. MAX_PHYS_MEM_BYTES \div PAGE_SIZE
    BY PageSets DEF Init
  <2> QED BY <2>1, <2>2, <2>3 DEF Init, TypeOK
<1>2. OneUse /\ FaultsWhenFull /\ NotYet
  BY DEF Init, OneUse, FaultsWhenFull, NotYet
<1>3. TablesApart
  BY PageSets DEF Init, TablesApart, None, NoTable
<1>4. IdentityKept /\ Entered
  BY PageSets DEF Init, IdentityKept, Entered, Absent
<1> QED BY <1>1, <1>2, <1>3, <1>4 DEF MemInv

\* Directories and page tables.
Directories == [Dirs -> [table : {NoTable, StaticTable} \cup Frames, user : BOOLEAN]]
Entries == [Pages -> [present : BOOLEAN, frame : Pages, user : BOOLEAN]]

\* identity_map_page gives no frame to a table.
LEMMA MapDirsKeeps ==
  ASSUME NEW d \in Directories, NEW ps, NEW u \in BOOLEAN
  PROVE  /\ MapDirs(d, ps, u) \in Directories
         /\ \A i \in Dirs : MapDirs(d, ps, u)[i].table \in {d[i].table, StaticTable}
<1>1. \A i \in Dirs : Static(d[i].user \/ u) \in [table : {NoTable, StaticTable} \cup Frames, user : BOOLEAN]
  BY DEF Static
<1>2. \A x : Static(x).table = StaticTable
  BY DEF Static
<1> QED BY <1>1, <1>2 DEF MapDirs, Directories

\* It enters pages of the kernel only, each at its own place.
LEMMA MapPagesKeeps ==
  ASSUME NEW e \in Entries, NEW ps, NEW u \in BOOLEAN
  PROVE  /\ MapPages(e, ps, u) \in Entries
         /\ \A p \in VPages : MapPages(e, ps, u)[p] = e[p]
         /\ \A p \in Identity : \/ MapPages(e, ps, u)[p] = e[p]
                                \/ p \in ps /\ MapPages(e, ps, u)[p] = Entry(p, u)
<1>1. \A p \in Pages : Entry(p, u) \in [present : BOOLEAN, frame : Pages, user : BOOLEAN]
  BY DEF Entry
<1>2. MapPages(e, ps, u) \in Entries
  BY <1>1 DEF MapPages, Entries
<1>3. \A p \in VPages : MapPages(e, ps, u)[p] = e[p]
  BY PageSets DEF MapPages
<1>4. \A p \in Identity : \/ MapPages(e, ps, u)[p] = e[p]
                          \/ p \in ps /\ MapPages(e, ps, u)[p] = Entry(p, u)
  BY PageSets DEF MapPages
<1> QED BY <1>2, <1>3, <1>4

\* memory_init starts from an empty directory: no frame holds a table, and what it
\* reserves is marked after usable memory was freed.
LEMMA memory_initKeeps ==
  ASSUME MemInv, NEW info \in BootInfos, memory_init(info)
  PROVE  MemInv'
<1> DEFINE total == align_up_u32(Min({detect_memory_bytes(info), MAX_PHYS_MEM_BYTES}))
           ident == Span(0, Min({total, IDENTITY_MAP_BYTES}), IDENTITY_MAP_BYTES)
           d1 == MapDirs(pd, ident, FALSE)
           e1 == MapPages(vm, ident, FALSE)
<1>1. /\ g_total_frames' = total \div PAGE_SIZE
      /\ used' = (Frames \ Usable(info, total)) \cup Reserved(total)
      /\ pd' = MapDirs(d1, UserArea, TRUE) /\ vm' = MapPages(e1, UserArea, TRUE)
      /\ g_paging_ready' = TRUE /\ held' = held /\ wanted' = wanted /\ halted' = halted
      /\ ~g_paging_ready
  BY DEF memory_init
<1>2. /\ total \in Nat /\ total <= MAX_PHYS_MEM_BYTES
      /\ total \div PAGE_SIZE \in 0 .. MAX_PHYS_MEM_BYTES \div PAGE_SIZE
      /\ (total \div PAGE_SIZE) * PAGE_SIZE = total
  BY TotalBytes
<1> HIDE DEF total, ident
<1>3. /\ ~halted /\ held = {} /\ pd = [d \in Dirs |-> None] /\ vm = [p \in Pages |-> Absent]
      /\ TypeOK
  BY <1>1 DEF MemInv, NotYet
<1>4. /\ d1 \in Directories
      /\ e1 \in Entries
      /\ \A i \in Dirs : d1[i].table \in {pd[i].table, StaticTable}
      /\ \A p \in VPages : e1[p] = vm[p]
      /\ \A p \in Identity : e1[p] = vm[p] \/ e1[p] = Entry(p, FALSE)
  <2>1. pd \in Directories /\ vm \in Entries
    BY <1>3 DEF TypeOK, Directories, Entries
  <2> QED BY <2>1, MapDirsKeeps, MapPagesKeeps, ZenonT(60)
<1> HIDE DEF d1, e1
<1>5. /\ pd' \in Directories
      /\ vm' \in Entries
      /\ \A i \in Dirs : pd'[i].table \in {d1[i].table, StaticTable}
      /\ \A p \in VPages : vm'[p] = e1[p]
      /\ \A p \in Identity : vm'[p] = e1[p] \/ vm'[p] = Entry(p, TRUE)
  BY <1>1, <1>4, MapDirsKeeps, MapPagesKeeps
<1>6. \A i \in Dirs : pd'[i].table \notin Frames
  <2>1. \A i \in Dirs : pd[i].table = NoTable
    BY <1>3 DEF None
  <2> QED BY <1>4, <1>5, <2>1, PageSets DEF NoTable, StaticTable
<1>7. Reserved(total) \subseteq Frames
  BY <1>2, ReservedInFrames
<1>8. TypeOK'
  BY <1>1, <1>2, <1>3, <1>5, <1>7 DEF TypeOK, Directories, Entries
<1>9. OneUse' /\ TablesApart'
  <2>1. Tables' = {}
    BY <1>6 DEF Tables
  <2>2. held' = {} /\ Reserved(g_total_frames' * PAGE_SIZE) = Reserved(total)
    BY <1>1, <1>2, <1>3
  <2>3. OneUse'
    BY <1>1, <2>1, <2>2 DEF OneUse, Reserved, Span, align_up_u32, Pages
  <2>4. TablesApart'
    BY <1>6 DEF TablesApart
  <2> QED BY <2>3, <2>4
<1>10. FaultsWhenFull' /\ NotYet'
  BY <1>1, <1>3 DEF FaultsWhenFull, NotYet
<1>11. IdentityKept'
  <2>1. \A p \in Identity : ~vm[p].present
    BY <1>3, PageSets DEF Absent
  <2>2. \A p, u : Entry(p, u).frame = p
    BY DEF Entry
  <2>3. \A p \in Identity : vm'[p].present => vm'[p].frame = p
    <3> TAKE p \in Identity
    <3>1. CASE vm'[p] = Entry(p, TRUE)
      BY <3>1, <2>2
    <3>2. CASE e1[p] = Entry(p, FALSE) /\ vm'[p] = e1[p]
      BY <3>2, <2>2
    <3>3. CASE vm'[p] = vm[p]
      BY <3>3, <2>1
    <3> QED BY <1>4, <1>5, <3>1, <3>2, <3>3
  <2> QED BY <2>3 DEF IdentityKept
<1>12. Entered'
  <2>1. \A p \in VPages : ~vm[p].present /\ wanted[p] = -1
    BY <1>3, PageSets DEF Absent, MemInv, Entered
  <2>2. \A p \in VPages : wanted'[p] = -1 /\ ~vm'[p].present
    BY <1>1, <1>4, <1>5, <2>1
  <2> QED BY <2>2 DEF Entered
<1> QED BY <1>8, <1>9, <1>10, <1>11, <1>12 DEF MemInv

\* pmm_alloc_frame hands out a frame that nothing else has.
LEMMA pmm_alloc_frameKeeps ==
  ASSUME MemInv, pmm_alloc_frame
  PROVE  MemInv'
<1> USE DEF MemInv, pmm_alloc_frame
<1>1. NextFrame \in Frames /\ NextFrame \notin used
  BY Allocated DEF Free
<1>2. TypeOK'
  BY <1>1 DEF TypeOK
<1>3. OneUse'
  <2>1. Tables' = Tables
    BY DEF Tables
  <2> QED BY <1>1, <2>1 DEF OneUse
<1>4. TablesApart' /\ IdentityKept' /\ Entered'
  BY DEF TablesApart, IdentityKept, Entered
<1>5. FaultsWhenFull' /\ NotYet'
  BY DEF FaultsWhenFull, NotYet
<1> QED BY <1>2, <1>3, <1>4, <1>5

\* pmm_free_frame clears the bit of a frame that its caller has, so of no table
\* and of no reserved area.
LEMMA pmm_free_frameKeeps ==
  ASSUME MemInv, NEW f \in Frames, pmm_free_frame(f)
  PROVE  MemInv'
<1> USE DEF MemInv, pmm_free_frame
<1>1. TypeOK'
  BY DEF TypeOK
<1>2. OneUse'
  <2>1. Tables' = Tables
    BY DEF Tables
  <2> QED BY <2>1 DEF OneUse
<1>3. TablesApart' /\ IdentityKept' /\ Entered'
  BY DEF TablesApart, IdentityKept, Entered
<1>4. FaultsWhenFull' /\ NotYet'
  BY DEF FaultsWhenFull, NotYet
<1> QED BY <1>1, <1>2, <1>3, <1>4

\* page_map gives a new table a frame that nothing else has, and stops the kernel
\* only when the first free frame is above the identity mapping.
LEMMA page_mapKeeps ==
  ASSUME MemInv, NEW page \in VPages, NEW f \in held, NEW u \in BOOLEAN, page_map(page, f, u)
  PROVE  MemInv'
<1> USE DEF MemInv
<1> DEFINE new == pd[Dir(page)].table = NoTable
<1>1. /\ g_paging_ready /\ ~halted /\ held' = held
      /\ g_paging_ready' = g_paging_ready /\ g_total_frames' = g_total_frames
  BY DEF page_map
<1>2. /\ page \in Pages /\ page \notin Identity /\ Dir(page) \in Dirs
      /\ f \in Frames /\ f \in Pages /\ f # -1
  BY PageSets, DirType DEF TypeOK
<1>3. CASE new /\ Free = {}
  <2>1. UNCHANGED vars
    BY <1>1, <1>3 DEF page_map, vars
  <2> QED BY <2>1 DEF vars, TypeOK, OneUse, Tables, TablesApart, FaultsWhenFull, IdentityKept,
                      Entered, NotYet, page_get_phys
<1>4. CASE new /\ Free # {} /\ NextFrame \notin Identity
  <2>1. /\ used' = used \cup {NextFrame} /\ halted' = TRUE
        /\ UNCHANGED <<pd, vm, wanted>>
    BY <1>4 DEF page_map
  <2>2. NextFrame \in Free /\ \A x \in Free : NextFrame <= x
    BY <1>4, Allocated
  <2>3. TypeOK' /\ OneUse'
    <3>1. TypeOK'
      BY <1>1, <2>1, <2>2 DEF TypeOK, Free
    <3>2. Tables' = Tables
      BY <2>1 DEF Tables
    <3> QED BY <1>1, <2>1, <3>1, <3>2 DEF OneUse
  <2>4. FaultsWhenFull'
    <3> SUFFICES ASSUME NEW x \in Identity, x < g_total_frames, x \notin used PROVE FALSE
      BY <1>1, <2>1 DEF FaultsWhenFull
    <3>1. x \in Frames
      BY Layout, PageSets DEF TypeOK, Frames, Identity
    <3>2. NextFrame <= x /\ NextFrame \in Nat
      BY <2>2, <3>1 DEF Free, Frames
    <3> QED BY <1>4, <3>2, Layout DEF Identity
  <2>5. TablesApart' /\ IdentityKept' /\ Entered' /\ NotYet'
    BY <1>1, <2>1 DEF TablesApart, IdentityKept, Entered, NotYet
  <2> QED BY <2>3, <2>4, <2>5
<1>5. CASE ~new \/ (Free # {} /\ NextFrame \in Identity)
  <2>1. /\ used' = IF new THEN used \cup {NextFrame} ELSE used
        /\ pd' = IF new THEN [pd EXCEPT ![Dir(page)] = InFrame(NextFrame, u)] ELSE pd
        /\ vm' = [vm EXCEPT ![page] = Entry(f, u)]
        /\ wanted' = [wanted EXCEPT ![page] = f]
        /\ halted' = halted
    BY <1>5 DEF page_map
  <2>2. new => NextFrame \in Frames /\ NextFrame \notin used
    BY <1>5, Allocated DEF Free
  <2>3. /\ \A d \in Dirs : d # Dir(page) => pd'[d] = pd[d]
        /\ pd'[Dir(page)].table = IF new THEN NextFrame ELSE pd[Dir(page)].table
        /\ pd' \in Directories
    <3>1. pd \in Directories
      BY DEF TypeOK, Directories
    <3>2. CASE new
      <4>1. InFrame(NextFrame, u) \in [table : {NoTable, StaticTable} \cup Frames, user : BOOLEAN]
        BY <2>2, <3>2 DEF InFrame
      <4>2. InFrame(NextFrame, u).table = NextFrame
        BY DEF InFrame
      <4> QED BY <1>2, <2>1, <3>1, <3>2, <4>1, <4>2 DEF Directories
    <3>3. CASE ~new
      BY <2>1, <3>1, <3>3
    <3> QED BY <3>2, <3>3
  <2>4. TypeOK'
    <3>1. vm' \in Entries
      BY <1>2, <2>1 DEF TypeOK, Entries, Entry
    <3>2. used' \subseteq Frames
      BY <2>1, <2>2 DEF TypeOK
    <3> QED BY <1>1, <1>2, <2>1, <2>3, <3>1, <3>2 DEF TypeOK, Directories, Entries
  <2>5. Tables' = IF new THEN Tables \cup {NextFrame} ELSE Tables
    <3>1. CASE new
      BY <1>2, <2>2, <2>3, <3>1, PageSets DEF Tables, NoTable
    <3>2. CASE ~new
      BY <2>1, <3>2 DEF Tables
    <3> QED BY <3>1, <3>2
  <2>6. OneUse'
    BY <1>1, <2>1, <2>2, <2>5 DEF OneUse
  <2>7. TablesApart'
    <3>1. CASE new
      <4>1. \A d \in Dirs : pd[d].table # NextFrame
        BY <1>1, <2>2, <3>1 DEF OneUse, Tables
      <4> QED BY <1>2, <2>3, <3>1, <4>1 DEF TablesApart
    <3>2. CASE ~new
      BY <2>1, <3>2 DEF TablesApart
    <3> QED BY <3>1, <3>2
  <2>8. FaultsWhenFull' /\ NotYet'
    BY <1>1, <2>1 DEF FaultsWhenFull, NotYet
  <2>9. IdentityKept'
    BY <1>2, <2>1, PageSets DEF IdentityKept, TypeOK
  <2>10. Entered'
    <3> SUFFICES ASSUME NEW p \in VPages
                 PROVE  IF wanted'[p] = -1 THEN ~vm'[p].present
                        ELSE pd'[Dir(p)].table # NoTable /\ vm'[p].present /\ vm'[p].frame = wanted'[p]
      BY DEF Entered
    <3>1. p \in Pages /\ Dir(p) \in Dirs
      BY PageSets, DirType
    <3>2. pd[Dir(p)].table # NoTable => pd'[Dir(p)].table # NoTable
      BY <2>3, <3>1
    <3>3. CASE p = page
      <4>1. vm'[p] = Entry(f, u) /\ wanted'[p] = f
        BY <1>2, <2>1, <3>3 DEF TypeOK
      <4>2. pd'[Dir(page)].table # NoTable
        BY <2>2, <2>3, PageSets DEF NoTable
      <4>3. vm'[p].present /\ vm'[p].frame = f
        BY <4>1 DEF Entry
      <4> QED BY <1>2, <3>3, <4>1, <4>2, <4>3
    <3>4. CASE p # page
      <4>1. vm'[p] = vm[p] /\ wanted'[p] = wanted[p]
        BY <2>1, <3>1, <3>4 DEF TypeOK
      <4> QED BY <3>2, <4>1 DEF Entered
    <3> QED BY <3>3, <3>4
  <2> QED BY <2>4, <2>6, <2>7, <2>8, <2>9, <2>10
<1> QED BY <1>3, <1>4, <1>5

\* The loader takes no frame and enters pages of the kernel only.
LEMMA load_elfKeeps ==
  ASSUME MemInv, NEW prog \in Programs, load_elf(prog)
  PROVE  MemInv'
<1> USE DEF MemInv
<1>1. PICK open : pd' = MapDirs(pd, open, TRUE) /\ vm' = MapPages(vm, open, TRUE)
  BY DEF load_elf
<1>2. /\ g_paging_ready /\ g_paging_ready' = g_paging_ready /\ g_total_frames' = g_total_frames
      /\ used' = used /\ held' = held /\ wanted' = wanted /\ halted' = halted
  BY DEF load_elf
<1>3. pd \in Directories /\ vm \in Entries
  BY DEF TypeOK, Directories, Entries
<1>4. pd' \in Directories /\ \A i \in Dirs : pd'[i].table \in {pd[i].table, StaticTable}
  BY <1>1, <1>3, MapDirsKeeps
<1>5. /\ vm' \in Entries /\ \A p \in VPages : vm'[p] = vm[p]
      /\ \A p \in Identity : vm'[p] = vm[p] \/ vm'[p] = Entry(p, TRUE)
  BY <1>1, <1>3, MapPagesKeeps
<1>6. TypeOK'
  BY <1>2, <1>4, <1>5 DEF TypeOK, Directories, Entries
<1>7. OneUse'
  <2>1. Tables' \subseteq Tables
    BY <1>4, PageSets DEF Tables, StaticTable
  <2> QED BY <1>2, <2>1 DEF OneUse
<1>8. TablesApart'
  BY <1>4, PageSets DEF TablesApart, StaticTable
<1>9. FaultsWhenFull' /\ NotYet'
  BY <1>2 DEF FaultsWhenFull, NotYet
<1>10. IdentityKept'
  <2>1. \A p, u : Entry(p, u).frame = p
    BY DEF Entry
  <2>2. \A p \in Identity : vm'[p].present => vm'[p].frame = p
    <3> TAKE p \in Identity
    <3>1. CASE vm'[p] = Entry(p, TRUE)
      BY <3>1, <2>1
    <3>2. CASE vm'[p] = vm[p]
      BY <3>2 DEF IdentityKept
    <3> QED BY <1>5, <3>1, <3>2
  <2> QED BY <2>2 DEF IdentityKept
<1>11. Entered'
  <2> SUFFICES ASSUME NEW p \in VPages
               PROVE  IF wanted'[p] = -1 THEN ~vm'[p].present
                      ELSE pd'[Dir(p)].table # NoTable /\ vm'[p].present /\ vm'[p].frame = wanted'[p]
    BY DEF Entered
  <2>1. Dir(p) \in Dirs
    BY PageSets, DirType
  <2>2. pd[Dir(p)].table # NoTable => pd'[Dir(p)].table # NoTable
    BY <1>4, <2>1 DEF StaticTable, NoTable
  <2> QED BY <1>2, <1>5, <2>2 DEF Entered
<1> QED BY <1>6, <1>7, <1>8, <1>9, <1>10, <1>11

\* The inductive invariant holds for every layout, boot report, program and order
\* of calls.
THEOREM MemoryCorrect == Spec => []MemInv
<1>1. MemInv /\ [Next]_vars => MemInv'
  <2> SUFFICES ASSUME MemInv, [Next]_vars PROVE MemInv'
    OBVIOUS
  <2>1. CASE UNCHANGED vars
    BY <2>1 DEF MemInv, vars, TypeOK, OneUse, Tables, TablesApart, FaultsWhenFull, IdentityKept,
                Entered, NotYet
  <2>2. CASE Next
    BY <2>2, memory_initKeeps, pmm_alloc_frameKeeps, pmm_free_frameKeeps, page_mapKeeps,
       load_elfKeeps DEF Next
  <2> QED BY <2>1, <2>2
<1> QED BY <1>1, InitMem, PTL DEF Spec

\* Every frame has one use, however frames were freed and taken again: callers of
\* pmm_alloc_frame, page tables and reserved areas never share one, and the bitmap
\* has the bit of each set.
THEOREM FramesOnce == Spec => []OneUse
<1>1. MemInv => OneUse
  BY DEF MemInv
<1> QED BY <1>1, MemoryCorrect, PTL

\* No two entries of the page directory lead to the same frame: page_map makes
\* every table in a frame of its own.
THEOREM TablesOwn == Spec => []TablesApart
<1>1. MemInv => TablesApart
  BY DEF MemInv
<1> QED BY <1>1, MemoryCorrect, PTL

\* page_get_phys finds every page where page_map last put it, and the kernel's own
\* pages where they are.
THEOREM PagesFound == Spec => []FoundWhereMapped
<1>1. MemInv => FoundWhereMapped
  <2> SUFFICES ASSUME MemInv PROVE FoundWhereMapped
    OBVIOUS
  <2>1. \A p \in VPages : page_get_phys(p) = wanted[p]
    BY DEF MemInv, Entered, page_get_phys
  <2>2. \A p \in Identity : page_get_phys(p) \in {p, -1}
    BY DEF MemInv, IdentityKept, page_get_phys
  <2> QED BY <2>1, <2>2 DEF FoundWhereMapped
<1> QED BY <1>1, MemoryCorrect, PTL

\* The kernel faults on a page table above the identity mapping only when every
\* managed frame below it is taken.
THEOREM FaultsLate == Spec => []FaultsWhenFull
<1>1. MemInv => FaultsWhenFull
  BY DEF MemInv
<1> QED BY <1>1, MemoryCorrect, PTL

\* The bitmap, the counters and the tables of arch/memory.c stay in their ranges.
THEOREM MemoryTyped == Spec => []TypeOK
<1>1. MemInv => TypeOK
  BY DEF MemInv
<1> QED BY <1>1, MemoryCorrect, PTL
-----------------------------------------------------------------------------
\* Of two multiples of the page size less than a page apart neither is greater.
LEMMA MultipleBelow ==
  ASSUME NEW x \in Int, NEW y \in Int, PAGE_SIZE * x < PAGE_SIZE * y + PAGE_SIZE
  PROVE  PAGE_SIZE * x <= PAGE_SIZE * y
<1>1. ~(y < x)
  BY Multiply, Layout
<1>2. x = y \/ PAGE_SIZE * x + PAGE_SIZE <= PAGE_SIZE * y
  BY <1>1, Multiply, Layout
<1>3. PAGE_SIZE * x \in Int /\ PAGE_SIZE * y \in Int
  BY Layout
<1> QED BY <1>2, <1>3, Layout

\* Division by the page size is monotone.
LEMMA DivideMono ==
  ASSUME NEW x \in Nat, NEW y \in Nat, x <= y
  PROVE  x \div PAGE_SIZE <= y \div PAGE_SIZE
<1> DEFINE a == x \div PAGE_SIZE
           b == y \div PAGE_SIZE
           r == x % PAGE_SIZE
           t == y % PAGE_SIZE
<1>1. a \in Int /\ r \in 0 .. PAGE_SIZE - 1 /\ x = PAGE_SIZE * a + r
  BY Division, Layout
<1>2. b \in Int /\ t \in 0 .. PAGE_SIZE - 1 /\ y = PAGE_SIZE * b + t
  BY Division, Layout
<1> HIDE DEF a, b, r, t
<1>3. ~(b < a)
  <2> SUFFICES ASSUME b < a PROVE FALSE
    OBVIOUS
  <2>1. PAGE_SIZE * b + PAGE_SIZE <= PAGE_SIZE * a
    BY <1>1, <1>2, Multiply, Layout
  <2>2. PAGE_SIZE * b \in Int /\ PAGE_SIZE * a \in Int
    BY <1>1, <1>2, Layout
  <2> QED BY <1>1, <1>2, <2>1, <2>2, Layout
<1> QED BY <1>1, <1>2, <1>3 DEF a, b

\* A segment that validate_segment lets pass and that starts on a page opens pages
\* of the program area only, its size rounded up to pages twice over.
LEMMA OpenedInside ==
  ASSUME NEW seg, seg.vaddr \in 0 .. WORD - 1, seg.memsz \in 0 .. WORD - 1,
         seg.vaddr % PAGE_SIZE = 0, validate_segment(seg)
  PROVE  Opened(seg) \subseteq UserArea
<1> DEFINE v == seg.vaddr
           n == seg.memsz
           B == USER_PROGRAM_BASE
           M == USER_PROGRAM_MAX_SIZE
           A == align_up_u32(n)
<1>1. v \in Nat /\ n \in Nat /\ v < WORD /\ n < WORD /\ B \in Nat /\ M \in Nat
      /\ B + M + PAGE_SIZE <= WORD /\ v % PAGE_SIZE = 0
  BY Layout
<1>2. CASE n = 0
  <2>1. 0 + PAGE_SIZE <= WORD
    BY Layout
  <2>2. A = PAGE_SIZE * ((0 + PAGE_SIZE - 1) \div PAGE_SIZE)
    BY <1>2, <2>1, AlignUp
  <2>3. (0 + PAGE_SIZE - 1) \div PAGE_SIZE = 0
    BY Layout
  <2>4. A = 0
    BY <2>2, <2>3, Layout
  <2> QED BY <2>4 DEF Opened, Span
<1>3. CASE n # 0
  <2> DEFINE end == (v + n) % WORD
  <2>1. v >= B /\ end >= v /\ end <= B + M
    BY <1>3 DEF validate_segment
  <2>2. v + n <= B + M
    <3>1. CASE v + n < WORD
      <4>1. end = v + n
        <5>1. v + n \in 0 .. WORD - 1
          BY <1>1, <3>1, Layout
        <5> HIDE DEF v, n
        <5> QED BY <5>1, Layout
      <4> QED BY <2>1, <4>1
    <3>2. CASE v + n >= WORD
      <4>1. end = v + n - WORD
        BY <1>1, <3>2, Layout
      <4> QED BY <1>1, <2>1, <4>1, Layout
    <3> QED BY <1>1, <3>1, <3>2, Layout
  <2> HIDE DEF v, n, end, B, M
  <2>3. M # 0 /\ n + PAGE_SIZE <= WORD
    BY <1>1, <1>3, <2>1, <2>2, Layout
  <2> DEFINE q == (n + PAGE_SIZE - 1) \div PAGE_SIZE
             k == v \div PAGE_SIZE
  <2>4. A = PAGE_SIZE * q /\ n <= A /\ A < n + PAGE_SIZE /\ q \in Int
    <3>1. A = PAGE_SIZE * q /\ n <= A /\ A < n + PAGE_SIZE
      BY <1>1, <2>3, AlignUp
    <3>2. n + PAGE_SIZE - 1 \in Int
      BY <1>1, Layout
    <3> QED BY <3>1, <3>2, Division, Layout
  <2>5. v = PAGE_SIZE * k /\ k \in Int
    BY <1>1, Division, Layout
  <2> HIDE DEF q, k, A
  <2>6. v + A = PAGE_SIZE * (k + q) /\ v + A \in Nat /\ A \in Nat
    BY <1>1, <2>4, <2>5, Layout
  \* the end of the program area, rounded up
  <2> DEFINE c == (B + M + PAGE_SIZE - 1) \div PAGE_SIZE
             E == align_up_u32(B + M)
  <2>7. E = PAGE_SIZE * c /\ B + M <= E /\ c \in Int /\ E \in Int
    <3>0. B + M \in Nat
      BY <1>1
    <3>1. E = PAGE_SIZE * c /\ B + M <= E
      BY <1>1, <3>0, AlignUp
    <3>2. B + M + PAGE_SIZE - 1 \in Int
      BY <1>1, Layout
    <3>3. c \in Int
      BY <3>2, Division, Layout
    <3> QED BY <3>1, <3>3, Layout
  <2> HIDE DEF c, E
  <2>8. v + A <= E
    <3>1. v + A < E + PAGE_SIZE
      BY <1>1, <2>2, <2>4, <2>6, <2>7, Layout
    <3>2. k + q \in Int
      BY <2>4, <2>5
    <3> QED BY <2>6, <2>7, <3>1, <3>2, MultipleBelow
  <2>9. v + A < B + M + PAGE_SIZE
    BY <1>1, <2>2, <2>4, <2>6, Layout
  <2>10. (v + A) % WORD = v + A
    BY <1>1, <2>6, <2>9, Layout
  <2>11. align_up_u32(v + A) <= v + A
    <3> DEFINE s == v + A + PAGE_SIZE - 1
               w == s % WORD
               g == w \div PAGE_SIZE
    <3>1. s \in Nat /\ s < 2 * WORD
      BY <1>1, <2>6, <2>9, Layout
    <3>2. w \in Nat /\ w <= s
      BY <3>1, Layout
    <3> HIDE DEF w
    <3>3. g \in Int /\ w % PAGE_SIZE \in 0 .. PAGE_SIZE - 1 /\ w = PAGE_SIZE * g + (w % PAGE_SIZE)
      <4>1. w \in Int
        BY <3>2
      <4> QED BY <4>1, Division, Layout
    <3> HIDE DEF g
    <3>4. PAGE_SIZE * g <= w /\ PAGE_SIZE * g \in Int
      BY <3>2, <3>3, Layout
    <3>5. PAGE_SIZE * g < PAGE_SIZE * (k + q) + PAGE_SIZE
      BY <2>6, <3>1, <3>2, <3>4, Layout
    <3>6. k + q \in Int
      BY <2>4, <2>5
    <3>7. PAGE_SIZE * g <= v + A
      BY <2>6, <3>3, <3>5, <3>6, MultipleBelow
    <3>8. align_up_u32(v + A) = PAGE_SIZE * g
      BY <3>3, Layout DEF align_up_u32, g, w
    <3> QED BY <3>7, <3>8
  <2>12. align_up_u32(v + A) \in Int /\ WORD \in Int
    BY <2>6, AlignType, Layout
  <2> SUFFICES ASSUME NEW f \in Opened(seg) PROVE f \in UserArea
    OBVIOUS
  <2>13. f \in Pages /\ f >= k /\ f * PAGE_SIZE < Min({align_up_u32(v + A), WORD})
    BY <2>10 DEF Opened, Span, v, n, A, k
  <2>14. f * PAGE_SIZE < E /\ f * PAGE_SIZE < WORD
    <3> DEFINE m == Min({align_up_u32(v + A), WORD})
    <3>1. m \in {align_up_u32(v + A), WORD} /\ m <= align_up_u32(v + A) /\ m <= WORD
      BY <2>12, MinTwo
    <3>2. f \in Int /\ f * PAGE_SIZE \in Int
      BY <2>13, Layout DEF Pages
    <3>3. f * PAGE_SIZE < m
      BY <2>13
    <3> HIDE DEF m
    <3>4. m \in Int
      BY <2>12, <3>1
    <3> QED BY <2>6, <2>7, <2>8, <2>11, <2>12, <3>1, <3>2, <3>3, <3>4
  <2>15. f >= B \div PAGE_SIZE
    <3>1. B \div PAGE_SIZE <= k
      BY <1>1, <2>1, DivideMono DEF k
    <3>2. B \div PAGE_SIZE \in Int
      BY <1>1, Division, Layout
    <3> QED BY <2>5, <2>13, <3>1, <3>2, Layout DEF Pages
  <2>16. f * PAGE_SIZE < Min({E, WORD})
    <3>1. WORD \in Int
      BY Layout
    <3>2. Min({E, WORD}) \in {E, WORD}
      BY <2>7, <3>1, MinTwo
    <3> QED BY <2>14, <3>2
  <2>17. (B + M) % WORD = B + M
    BY <1>1, Layout
  <2>18. f \in Span(USER_PROGRAM_BASE, USER_PROGRAM_MAX_SIZE, WORD)
    BY <2>3, <2>13, <2>15, <2>16, <2>17 DEF Span, B, M, E
  <2> QED BY <2>18 DEF UserArea
<1> QED BY <1>2, <1>3

\* Programs whose segments start on pages.
PageAligned == \A prog \in Programs : \A i \in DOMAIN prog : prog[i].vaddr % PAGE_SIZE = 0

\* For programs whose segments start on pages, the identity-mapped pages that are
\* open to programs are those of the program area and of the stack, whatever sizes
\* the headers give and however the sums in validate_segment wrap.
THEOREM UserPagesClosed == PageAligned /\ Spec => []UserPagesReserved
<1> SUFFICES ASSUME PageAligned PROVE Spec => []UserPagesReserved
  OBVIOUS
<1>1. Init => UserPagesReserved
  BY PageSets DEF Init, UserPagesReserved, Absent
<1>2. MemInv /\ UserPagesReserved /\ [Next]_vars => UserPagesReserved'
  <2> SUFFICES ASSUME MemInv, UserPagesReserved, [Next]_vars,
                      NEW p \in Identity, vm'[p].present, vm'[p].user
               PROVE  p \in UserArea
    BY DEF UserPagesReserved, UserArea, Span, align_up_u32, Pages, Identity
  <2>1. vm \in Entries
    BY DEF MemInv, TypeOK, Entries
  <2>2. CASE vm'[p] = vm[p]
    BY <2>2 DEF UserPagesReserved
  <2>3. ASSUME NEW info \in BootInfos, memory_init(info) PROVE p \in UserArea
    <3> DEFINE total == align_up_u32(Min({detect_memory_bytes(info), MAX_PHYS_MEM_BYTES}))
               e == MapPages(vm, Span(0, Min({total, IDENTITY_MAP_BYTES}), IDENTITY_MAP_BYTES), FALSE)
    <3>1. vm' = MapPages(e, UserArea, TRUE)
      BY <2>3 DEF memory_init
    <3>2. e \in Entries /\ (e[p] = vm[p] \/ e[p] = Entry(p, FALSE))
      <4>1. \A ps : /\ MapPages(vm, ps, FALSE) \in Entries
                    /\ \A x \in Identity : \/ MapPages(vm, ps, FALSE)[x] = vm[x]
                                           \/ x \in ps /\ MapPages(vm, ps, FALSE)[x] = Entry(x, FALSE)
        BY <2>1, MapPagesKeeps
      <4> QED BY <4>1
    <3> HIDE DEF e
    <3>3. vm'[p] = e[p] \/ p \in UserArea
      BY <3>1, <3>2, MapPagesKeeps
    <3>4. CASE e[p] = Entry(p, FALSE) /\ vm'[p] = e[p]
      BY <3>4 DEF Entry
    <3> QED BY <2>2, <3>2, <3>3, <3>4
  <2>4. ASSUME NEW prog \in Programs, load_elf(prog) PROVE p \in UserArea
    <3> DEFINE good == {i \in DOMAIN prog : \A j \in 1 .. i : prog[j].infile /\ validate_segment(prog[j])}
               open == UNION {Opened(prog[i]) : i \in good}
    <3>1. vm' = MapPages(vm, open, TRUE)
      BY <2>4 DEF load_elf
    <3>2. \A i \in good : Opened(prog[i]) \subseteq UserArea
      <4> TAKE i \in good
      <4>0. i \in DOMAIN prog /\ i \in 1 .. i
        BY InputAssumption
      <4>1. validate_segment(prog[i]) /\ i \in DOMAIN prog
        BY <4>0
      <4>2. prog[i].vaddr \in 0 .. WORD - 1 /\ prog[i].memsz \in 0 .. WORD - 1
        BY <4>1, InputAssumption
      <4> QED BY <4>1, <4>2, OpenedInside DEF PageAligned
    <3>3. open \subseteq UserArea
      BY <3>2
    <3> HIDE DEF open
    <3>4. vm'[p] = vm[p] \/ p \in open
      BY <2>1, <3>1, MapPagesKeeps
    <3> QED BY <2>2, <3>3, <3>4
  <2>5. ASSUME NEW page \in VPages, NEW f \in held, NEW u \in BOOLEAN, page_map(page, f, u)
        PROVE  p \in UserArea
    <3>1. vm' = vm \/ vm' = [vm EXCEPT ![page] = Entry(f, u)]
      BY <2>5 DEF page_map
    <3>2. p # page /\ p \in Pages
      BY PageSets
    <3>3. vm'[p] = vm[p]
      BY <2>1, <3>1, <3>2 DEF Entries
    <3> QED BY <2>2, <3>3
  <2>6. CASE vm' = vm
    BY <2>2, <2>6
  <2> QED BY <2>3, <2>4, <2>5, <2>6 DEF Next, vars, pmm_alloc_frame, pmm_free_frame
<1> QED BY <1>1, <1>2, MemoryCorrect, PTL DEF Spec
=============================================================================
