----------------------------- MODULE KernelHeap -----------------------------
(***************************************************************************)
(* The kernel heap of arch/memory.c: one static array g_heap cut into      *)
(* blocks, each with a header in front of its payload, the headers chained *)
(* in a doubly linked list.  kmalloc takes the first block that fits and   *)
(* splits it, kfree marks a block free and merges it with its neighbours.  *)
(*                                                                         *)
(* Addresses are byte offsets into g_heap.  The heap is a function from    *)
(* the addresses of the headers in the list to the headers; a header that  *)
(* merge_with_next drops from the list is dropped from the function, as    *)
(* nothing reads it again.  Sizes are size_t: sums wrap at SIZE_T.         *)
(***************************************************************************)
EXTENDS Integers

CONSTANTS HEAP_SIZE,   \* bytes of g_heap
          SIZE_T,      \* number of values of size_t, 2^32 in the build
          Requests,    \* sizes the callers ask for
          Counts       \* element counts given to kcalloc

HEAP_ALIGN == 16

sizeof_heap_block == 20

NULL == -1

align_up(value, align) == (((value + align - 1) % SIZE_T) \div align) * align

header_size == align_up(sizeof_heap_block, HEAP_ALIGN)

\* Requests are small enough for the sums of kmalloc and split_block not to
\* wrap; kcalloc's product is guarded by the code itself.
ASSUME HeapAssumption ==
    /\ HEAP_SIZE \in Nat /\ HEAP_SIZE >= 64
    /\ SIZE_T \in Nat /\ SIZE_T > HEAP_SIZE + 128
    /\ Requests \subseteq 0 .. SIZE_T - 128
    /\ Counts \subseteq Nat
    /\ \A n \in Counts, s \in Requests :
           n * s <= SIZE_T - 128 \/ n * s >= SIZE_T

VARIABLES
    heap,           \* header address |-> heap_block_t, for the headers in the list
    g_heap_ready,
    owned           \* payload pointer |-> bytes asked for, for each live pointer

vars == <<heap, g_heap_ready, owned>>

Addr == 0 .. HEAP_SIZE - 1

Header == [magic : BOOLEAN,           \* magic = BLOCK_MAGIC
           size  : 0 .. HEAP_SIZE,
           free  : BOOLEAN,
           next  : Addr \cup {NULL},
           prev  : Addr \cup {NULL}]

g_heap_head == 0

Blocks == DOMAIN heap

block_payload(block) == block + header_size

payload_block(ptr) == ptr - header_size
-----------------------------------------------------------------------------
(* split_block, merge_with_next and their callers, as functions of the heap *)

\* A split that forgets new_block->next->prev.
cut_unlinked(h, block, total_needed) ==
    LET new_block == block + total_needed
    IN [a \in DOMAIN h \cup {new_block} |->
          IF a = new_block
          THEN [magic |-> TRUE, size |-> h[block].size - total_needed,
                free |-> TRUE, next |-> h[block].next, prev |-> block]
          ELSE IF a = block
          THEN [h[a] EXCEPT !.size = total_needed, !.next = new_block]
          ELSE h[a]]

\* A split that forgets block->size.
cut_unsized(h, block, total_needed) ==
    LET new_block == block + total_needed
    IN [a \in DOMAIN h \cup {new_block} |->
          IF a = new_block
          THEN [magic |-> TRUE, size |-> h[block].size - total_needed,
                free |-> TRUE, next |-> h[block].next, prev |-> block]
          ELSE IF a = block THEN [h[a] EXCEPT !.next = new_block]
          ELSE IF a = h[block].next THEN [h[a] EXCEPT !.prev = new_block]
          ELSE h[a]]

\* The split itself: a free block of what is left goes into the list.
cut(h, block, total_needed) ==
    LET new_block == block + total_needed
        next == h[block].next
    IN [a \in DOMAIN h \cup {new_block} |->
          IF a = new_block
          THEN [magic |-> TRUE, size |-> h[block].size - total_needed,
                free |-> TRUE, next |-> next, prev |-> block]
          ELSE IF a = block
          THEN [h[a] EXCEPT !.size = total_needed, !.next = new_block]
          ELSE IF a = next
          THEN [h[a] EXCEPT !.prev = new_block]
          ELSE h[a]]

\* A split_block that leaves no room for the header of what is left.
split_tight(h, block, size) ==
    LET total_needed == (header_size + align_up(size, HEAP_ALIGN)) % SIZE_T
    IN IF h[block].size < total_needed THEN h ELSE cut(h, block, total_needed)

split_block(h, block, size) ==
    LET total_needed == (header_size + align_up(size, HEAP_ALIGN)) % SIZE_T
    IN IF h[block].size <= (total_needed + header_size + HEAP_ALIGN) % SIZE_T
       THEN h
       ELSE cut(h, block, total_needed)

merge_with_next(h, block) ==
    LET next == h[block].next
    IN IF next = NULL THEN h
       ELSE IF ~h[next].free \/ next # block + h[block].size THEN h
       ELSE [a \in DOMAIN h \ {next} |->
               IF a = block
               THEN [h[a] EXCEPT !.size = @ + h[next].size, !.next = h[next].next]
               ELSE IF a = h[next].next
               THEN [h[a] EXCEPT !.prev = block]
               ELSE h[a]]

\* The heap after heap_init has run once.
fresh_heap == [a \in {g_heap_head} |->
                 [magic |-> TRUE, size |-> HEAP_SIZE, free |-> TRUE,
                  next |-> NULL, prev |-> NULL]]

\* A heap_init without its test of g_heap_ready.
heap_init_again(h) == fresh_heap

heap_init(h) == IF g_heap_ready THEN h ELSE fresh_heap

\* A kmalloc that compares the block with the payload alone.
fits_payload(h, cur, size) ==
    h[cur].magic /\ h[cur].free /\ h[cur].size >= align_up(size, HEAP_ALIGN)

Fits(h, cur, size) ==
    /\ h[cur].magic
    /\ h[cur].free
    /\ h[cur].size >= (align_up(size, HEAP_ALIGN) + header_size) % SIZE_T

\* kmalloc's loop leaves the list at stop (a block or NULL) after passing over
\* the blocks of passed, none of which fits.
Walk(h, size, passed, stop) ==
    /\ g_heap_head \in passed \cup {stop}
    /\ \A cur \in passed : ~Fits(h, cur, size) /\ h[cur].next \in passed \cup {stop}

FirstFit(h, size, block) ==
    /\ block \in DOMAIN h
    /\ Fits(h, block, size)
    /\ \E passed \in SUBSET (DOMAIN h \ {block}) : Walk(h, size, passed, block)

NoFit(h, size) == \E passed \in SUBSET DOMAIN h : Walk(h, size, passed, NULL)

\* A kmalloc that forgets cur->free = 0.
take_unmarked(h, block, size) == split_block(h, block, align_up(size, HEAP_ALIGN))

Take(h, block, size) ==
    LET s == split_block(h, block, align_up(size, HEAP_ALIGN))
    IN [s EXCEPT ![block].free = FALSE]

\* A kfree that merges to the right only, and one that merges to the left only.
release_right(h, ptr) ==
    LET block == payload_block(ptr)
    IN merge_with_next([h EXCEPT ![block].free = TRUE], block)

release_left(h, ptr) ==
    LET block == payload_block(ptr)
        marked == [h EXCEPT ![block].free = TRUE]
        prev == marked[block].prev
    IN IF prev = NULL THEN marked
       ELSE IF marked[prev].free THEN merge_with_next(marked, prev)
       ELSE marked

\* kfree of a live pointer.
Release(h, ptr) ==
    LET block  == payload_block(ptr)
        marked == [h EXCEPT ![block].free = TRUE]
        merged == merge_with_next(marked, block)
        prev   == merged[block].prev
    IN IF ~h[block].magic THEN h
       ELSE IF prev = NULL THEN merged
       ELSE IF merged[prev].free THEN merge_with_next(merged, prev)
       ELSE merged

\* Storing n bytes at ptr overwrites the headers that lie in their way.
Store(h, ptr, n) ==
    [a \in DOMAIN h |->
       IF \E i \in a .. a + sizeof_heap_block - 1 : i \in ptr .. ptr + n - 1
       THEN [h[a] EXCEPT !.magic = FALSE] ELSE h[a]]

Without(f, ptr) == [q \in DOMAIN f \ {ptr} |-> f[q]]

With(f, ptr, n) == [q \in DOMAIN f \cup {ptr} |-> IF q = ptr THEN n ELSE f[q]]
-----------------------------------------------------------------------------
Init ==
    /\ heap = [a \in {} |-> 0]
    /\ g_heap_ready = FALSE
    /\ owned = [q \in {} |-> 0]

\* memory_init's call of heap_init.
HeapInit ==
    /\ heap' = heap_init(heap)
    /\ g_heap_ready' = TRUE
    /\ UNCHANGED owned

kmalloc(size) ==
    LET h == heap_init(heap)
    IN /\ size # 0
       /\ g_heap_ready' = TRUE
       /\ \/ \E block \in DOMAIN h :
               /\ FirstFit(h, size, block)
               /\ heap' = Take(h, block, size)
               /\ owned' = With(owned, block_payload(block), size)
          \/ /\ NoFit(h, size)
             /\ heap' = h
             /\ UNCHANGED owned

kfree(ptr) ==
    /\ heap' = Release(heap, ptr)
    /\ owned' = Without(owned, ptr)
    /\ UNCHANGED g_heap_ready

\* kmalloc of the product, then memset over it; an overflowing product and
\* a product of zero are refused.
kcalloc(count, size) ==
    LET h == heap_init(heap)
        total == (count * size) % SIZE_T
    IN /\ count # 0 => size <= (SIZE_T - 1) \div count
       /\ total # 0
       /\ g_heap_ready' = TRUE
       /\ \/ \E block \in DOMAIN h :
               /\ FirstFit(h, total, block)
               /\ heap' = Store(Take(h, block, total), block_payload(block), total)
               /\ owned' = With(owned, block_payload(block), total)
          \/ /\ NoFit(h, total)
             /\ heap' = h
             /\ UNCHANGED owned

\* krealloc of a live pointer (or NULL, which asks for a new one).  It stays where
\* it is when its block is large enough; otherwise it moves to a new block, with
\* memcpy of the old block's bytes, and the old block is freed.
krealloc(ptr, size) ==
    LET block == payload_block(ptr)
        old_size == heap[block].size - header_size
    IN \/ ptr = NULL /\ kmalloc(size)
       \/ ptr # NULL /\ size = 0 /\ kfree(ptr)
       \/ /\ ptr # NULL /\ size # 0
          /\ heap[block].magic
          /\ UNCHANGED g_heap_ready
          /\ \/ /\ size <= old_size
                /\ owned' = With(owned, ptr, size)
                /\ UNCHANGED heap
             \/ /\ size > old_size
                /\ \E new \in Blocks :
                     /\ FirstFit(heap, size, new)
                     /\ heap' = Release(Store(Take(heap, new, size),
                                              block_payload(new), old_size), ptr)
                     /\ owned' = With(Without(owned, ptr), block_payload(new), size)
             \/ /\ size > old_size
                /\ NoFit(heap, size)
                /\ UNCHANGED <<heap, owned>>

\* A caller fills the bytes it asked for.
CallerWrites(ptr) ==
    /\ heap' = Store(heap, ptr, owned[ptr])
    /\ UNCHANGED <<g_heap_ready, owned>>

Next ==
    \/ HeapInit
    \/ \E size \in Requests : kmalloc(size)
    \/ \E count \in Counts, size \in Requests : kcalloc(count, size)
    \/ \E ptr \in DOMAIN owned :
          kfree(ptr) \/ CallerWrites(ptr)
    \/ \E ptr \in DOMAIN owned \cup {NULL}, size \in Requests : krealloc(ptr, size)

Spec == Init /\ [][Next]_vars
-----------------------------------------------------------------------------
(* Properties.  What is said of the list is said of any heap h, so that it can
   be asked of the heaps in the middle of an operation too. *)

\* Headers lie in g_heap and their fields are in range; no live pointer owns zero
\* bytes.
TypeOK ==
    /\ heap \in [Blocks -> Header]
    /\ Blocks \subseteq Addr
    /\ g_heap_ready \in BOOLEAN
    /\ DOMAIN owned \subseteq Addr
    /\ owned \in [DOMAIN owned -> Nat \ {0}]

\* Where the block after b starts.
End(h, b) == b + h[b].size

\* The list runs through g_heap from its first byte to its last: each block has
\* room for its header, starts on the alignment, ends where its next block
\* starts or at the end of g_heap, and no two overlap.
WellTiled(h) ==
    /\ g_heap_head \in DOMAIN h
    /\ \A b \in DOMAIN h :
          /\ b % HEAP_ALIGN = 0
          /\ h[b].size >= header_size
          /\ End(h, b) <= HEAP_SIZE
          /\ End(h, b) < HEAP_SIZE => h[b].next = End(h, b)
          /\ End(h, b) = HEAP_SIZE => h[b].next = NULL
          /\ h[b].next # NULL => h[b].next \in DOMAIN h
    /\ \A b, c \in DOMAIN h : b < c => End(h, b) <= c

\* Once the heap is ready its blocks cover g_heap without gap or overlap, after
\* any sequence of splits and merges.
Tiled == g_heap_ready => WellTiled(heap)

Mirrored(h) ==
    \A b \in DOMAIN h :
        /\ h[b].next # NULL => h[h[b].next].prev = b
        /\ h[b].prev # NULL => h[b].prev \in DOMAIN h /\ h[h[b].prev].next = b
        /\ h[b].prev = NULL => b = g_heap_head

\* Following next and then prev (or prev and then next) leads back: kfree
\* reaches its left neighbour only through prev, which split_block and
\* merge_with_next have to keep up to date in the block after the one they
\* change.
LinksMirror == Mirrored(heap)

Merged(h) ==
    \A b \in DOMAIN h : h[b].free /\ h[b].next # NULL => ~h[h[b].next].free

\* Two neighbours are never both free: kfree merges on both sides, so free
\* memory is not lost to fragments that could be one block.
Coalesced == Merged(heap)

Intact(h) == \A b \in DOMAIN h : h[b].magic

\* No store into a live payload reaches a header, so kmalloc and kfree never
\* find a header of the list without its magic number.
HeadersIntact == Intact(heap)

\* The blocks in use are exactly those of the live pointers (none leaked, none
\* free while a caller still holds it) and each has room for what was asked.
OwnedExactly ==
    /\ \A p \in DOMAIN owned :
          /\ payload_block(p) \in Blocks
          /\ ~heap[payload_block(p)].free
          /\ owned[p] <= heap[payload_block(p)].size - header_size
    /\ \A b \in Blocks : ~heap[b].free => block_payload(b) \in DOMAIN owned

\* When every pointer has been freed the heap is one free block again, in
\* whatever order the blocks were allocated, moved and freed.
WholeWhenIdle ==
    g_heap_ready /\ DOMAIN owned = {} => heap = fresh_heap

\* The inductive invariant.
HeapInv ==
    /\ TypeOK
    /\ ~g_heap_ready => Blocks = {} /\ DOMAIN owned = {}
    /\ Tiled
    /\ LinksMirror
    /\ Coalesced
    /\ HeadersIntact
    /\ OwnedExactly

Promise == INSTANCE Allocator WITH Arena <- Addr

\* The heap keeps the promise of an allocator: regions handed out lie in
\* g_heap and never overlap, whichever of kmalloc, kcalloc and krealloc
\* handed them out.
AllocatorSpec == Promise!Spec
=============================================================================
