-------------------------- MODULE KernelHeapProofs --------------------------
(***************************************************************************)
(* Proofs about KernelHeap for every heap size and every set of requests.  *)
(*                                                                         *)
(* The operations are functions from heaps to heaps, so the proof is one   *)
(* lemma for each of Take, merge_with_next, Release and Store: it keeps a  *)
(* well formed heap well formed and changes nothing else about the blocks  *)
(* in use.  The actions then follow from the lemmas.                       *)
(***************************************************************************)
EXTENDS KernelHeap, TLAPS

\* A heap in the middle of kfree: everything holds but Merged.
Linked(h) ==
    /\ h \in [DOMAIN h -> Header]
    /\ DOMAIN h \subseteq Addr
    /\ WellTiled(h)
    /\ Mirrored(h)
    /\ Intact(h)

\* The blocks in use, with their sizes, are those of h except for b.
SameUseBut(g, h, b) ==
    /\ \A c \in DOMAIN g : ~g[c].free /\ c # b =>
          c \in DOMAIN h /\ ~h[c].free /\ g[c].size = h[c].size
    /\ \A c \in DOMAIN h : ~h[c].free /\ c # b =>
          c \in DOMAIN g /\ ~g[c].free /\ g[c].size = h[c].size

\* t is h but for the free mark of b.
MarkedOnly(t, h, b, x) ==
    /\ t \in [DOMAIN h -> Header] /\ DOMAIN t = DOMAIN h
    /\ t[b].free = x
    /\ \A a \in DOMAIN h :
         /\ t[a].magic = h[a].magic /\ t[a].size = h[a].size
         /\ t[a].next = h[a].next /\ t[a].prev = h[a].prev
         /\ a # b => t[a].free = h[a].free

\* u is h with block b cut after tn bytes, at n; nx follows b in h.
CutInTwo(u, h, b, tn, n, nx) ==
    /\ n \notin DOMAIN h /\ n \in Addr /\ n > b /\ n % 16 = 0
    /\ u \in [DOMAIN u -> Header] /\ DOMAIN u = DOMAIN h \cup {n}
    /\ u[n].magic /\ u[n].size = h[b].size - tn /\ u[n].free
    /\ u[n].next = nx /\ u[n].prev = b
    /\ u[b].size = tn /\ u[b].next = n /\ u[b].prev = h[b].prev
    /\ \A a \in DOMAIN h :
         /\ u[a].magic = h[a].magic /\ u[a].free = h[a].free
         /\ a # b => u[a].size = h[a].size /\ u[a].next = h[a].next
         /\ a # b /\ a = nx => u[a].prev = n
         /\ a # b /\ a # nx => u[a].prev = h[a].prev

\* g is h with block nx, which nn follows, absorbed by block b in front of it.
Joined(g, h, b, nx, nn) ==
    /\ g \in [DOMAIN g -> Header] /\ DOMAIN g = DOMAIN h \ {nx}
    /\ g[b].size = h[b].size + h[nx].size
    /\ g[b].next = nn /\ g[b].prev = h[b].prev
    /\ \A a \in DOMAIN g :
         /\ g[a].magic = h[a].magic /\ g[a].free = h[a].free
         /\ a # b => g[a].size = h[a].size /\ g[a].next = h[a].next
         /\ a # b /\ a = nn => g[a].prev = b
         /\ a # b /\ a # nn => g[a].prev = h[a].prev

\* Arithmetic that does not reach SIZE_T does not wrap.
LEMMA ModSmall == ASSUME NEW m \in Nat, NEW x \in Nat, x < m PROVE x % m = x
OBVIOUS

\* A header takes 32 bytes: sizeof(heap_block_t) rounded up to HEAP_ALIGN.
LEMMA HeaderSize == header_size = 32
<1>1. 35 % SIZE_T = 35
  BY ModSmall, HeapAssumption
<1> QED BY <1>1 DEF header_size, align_up, HEAP_ALIGN, sizeof_heap_block

\* align_up rounds up to a multiple of HEAP_ALIGN when the sum does not wrap.
LEMMA AlignUp ==
  ASSUME NEW s \in Nat, s + 15 < SIZE_T
  PROVE  /\ align_up(s, HEAP_ALIGN) \in Nat
         /\ align_up(s, HEAP_ALIGN) >= s
         /\ align_up(s, HEAP_ALIGN) <= s + 15
         /\ align_up(s, HEAP_ALIGN) % HEAP_ALIGN = 0
<1>1. (s + 15) % SIZE_T = s + 15
  BY ModSmall, HeapAssumption
<1> QED BY <1>1 DEF align_up, HEAP_ALIGN

\* What kmalloc and split_block compute for a request they are given.
LEMMA Needed ==
  ASSUME NEW s \in Nat, s <= SIZE_T - 128,
         NEW al, al = align_up(s, HEAP_ALIGN),
         NEW tn, tn = (header_size + align_up(al, HEAP_ALIGN)) % SIZE_T
  PROVE  /\ tn \in Nat /\ tn % 16 = 0 /\ tn >= s + 32
         /\ (al + header_size) % SIZE_T = tn
         /\ (tn + header_size + HEAP_ALIGN) % SIZE_T = tn + 48
<1>0. PICK a2 : a2 = align_up(al, HEAP_ALIGN)
  OBVIOUS
<1>1. al \in Nat /\ al >= s /\ al <= s + 15 /\ al % 16 = 0
  BY AlignUp, HeapAssumption DEF HEAP_ALIGN
<1>2. a2 \in Nat /\ a2 >= al /\ a2 <= al + 15 /\ a2 % 16 = 0
  BY <1>0, <1>1, AlignUp, HeapAssumption DEF HEAP_ALIGN
<1>3. a2 = al
  BY <1>1, <1>2
<1>4. (32 + al) % SIZE_T = al + 32
  BY <1>1, ModSmall, HeapAssumption
<1>5. (al + 32 + 48) % SIZE_T = al + 32 + 48
  BY <1>1, ModSmall, HeapAssumption
<1>6. tn = al + 32
  BY <1>0, <1>3, <1>4, HeaderSize
<1> QED BY <1>1, <1>4, <1>5, <1>6, HeaderSize DEF HEAP_ALIGN

\* The fields of a header q that is r with an assignment to some of them.
LEMMA SetFree ==
  ASSUME NEW r \in Header, NEW x \in BOOLEAN, NEW q, q = [r EXCEPT !.free = x]
  PROVE  /\ q \in Header /\ q.magic = r.magic /\ q.size = r.size
         /\ q.free = x /\ q.next = r.next /\ q.prev = r.prev
BY DEF Header

\* The store to one block's prev (split_block, merge_with_next) changes that field only.
LEMMA SetPrev ==
  ASSUME NEW r \in Header, NEW x \in Addr \cup {NULL},
         NEW q, q = [r EXCEPT !.prev = x]
  PROVE  /\ q \in Header /\ q.magic = r.magic /\ q.size = r.size
         /\ q.free = r.free /\ q.next = r.next /\ q.prev = x
BY DEF Header

\* A heap t that is h after block->free = x.
LEMMA MarkFree ==
  ASSUME NEW h, h \in [DOMAIN h -> Header], NEW b \in DOMAIN h, NEW x \in BOOLEAN,
         NEW t, t = [h EXCEPT ![b].free = x]
  PROVE  MarkedOnly(t, h, b, x)
<1>1. t = [a \in DOMAIN h |-> IF a = b THEN [h[a] EXCEPT !.free = x] ELSE h[a]]
  BY Zenon
<1>2. \A a \in DOMAIN h : h[a] \in Header
  OBVIOUS
<1>3. ASSUME NEW a \in DOMAIN h
      PROVE  /\ t[a] \in Header
             /\ t[a].magic = h[a].magic /\ t[a].size = h[a].size
             /\ t[a].next = h[a].next /\ t[a].prev = h[a].prev
             /\ a = b => t[a].free = x
             /\ a # b => t[a].free = h[a].free
  <2>1. CASE a = b
    <3>1. t[a] = [h[a] EXCEPT !.free = x]
      BY <1>1, <2>1, Zenon
    <3> QED BY <3>1, <1>2, <2>1, SetFree
  <2>2. CASE a # b
    BY <1>1, <1>2, <2>2, Zenon
  <2> QED BY <2>1, <2>2
<1>4. DOMAIN t = DOMAIN h /\ t = [a \in DOMAIN h |-> t[a]]
  BY <1>1, Zenon
<1>5. t \in [DOMAIN h -> Header]
  BY <1>3, <1>4
<1> QED BY <1>3, <1>4, <1>5 DEF MarkedOnly

\* Whether a block is free plays no part in the shape of the list.
LEMMA MarkLinked ==
  ASSUME NEW h, Linked(h), NEW b \in DOMAIN h, NEW x \in BOOLEAN,
         NEW t, MarkedOnly(t, h, b, x)
  PROVE  Linked(t)
<1>1. /\ t \in [DOMAIN h -> Header] /\ DOMAIN t = DOMAIN h
      /\ \A a \in DOMAIN h :
           /\ t[a].magic = h[a].magic /\ t[a].size = h[a].size
           /\ t[a].next = h[a].next /\ t[a].prev = h[a].prev
  BY DEF MarkedOnly
<1>2. WellTiled(t)
  BY <1>1 DEF Linked, WellTiled, End
<1>3. Mirrored(t)
  BY <1>1 DEF Linked, Mirrored, WellTiled
<1>4. Intact(t)
  BY <1>1 DEF Linked, Intact
<1> QED BY <1>1, <1>2, <1>3, <1>4 DEF Linked

\* What Linked says of one block, in numbers.
LEMMA LinkedBlock ==
  ASSUME NEW h, Linked(h), NEW b \in DOMAIN h
  PROVE  /\ h[b] \in Header /\ h[b].magic
         /\ b \in Nat /\ b \in Addr /\ b # NULL /\ b % 16 = 0
         /\ h[b].size \in Nat /\ h[b].size >= 32 /\ h[b].size <= HEAP_SIZE
         /\ End(h, b) = b + h[b].size /\ End(h, b) \in Nat
         /\ End(h, b) > b /\ End(h, b) <= HEAP_SIZE
         /\ End(h, b) < HEAP_SIZE => h[b].next = End(h, b)
         /\ End(h, b) = HEAP_SIZE => h[b].next = NULL
         /\ h[b].next # b /\ h[b].prev # b
         /\ h[b].next \in Addr \cup {NULL} /\ h[b].prev \in Addr \cup {NULL}
         /\ h[b].next # NULL => /\ h[b].next \in DOMAIN h
                                /\ h[h[b].next].prev = b
         /\ h[b].prev # NULL => /\ h[b].prev \in DOMAIN h
                                /\ h[h[b].prev].next = b
         /\ h[b].prev = NULL => b = g_heap_head
<1>0. HEAP_SIZE \in Nat /\ NULL = -1 /\ HEAP_ALIGN = 16
  BY HeapAssumption DEF NULL, HEAP_ALIGN
<1>1. h[b] \in Header /\ h[b].magic /\ b \in Addr
  BY DEF Linked, Intact
<1>2. b \in Nat /\ b # NULL /\ h[b].size \in Nat
      /\ h[b].next \in Addr \cup {NULL} /\ h[b].prev \in Addr \cup {NULL}
  BY <1>0, <1>1 DEF Header, Addr
<1>3. /\ b % HEAP_ALIGN = 0
      /\ h[b].size >= header_size
      /\ End(h, b) <= HEAP_SIZE
      /\ End(h, b) < HEAP_SIZE => h[b].next = End(h, b)
      /\ End(h, b) = HEAP_SIZE => h[b].next = NULL
      /\ h[b].next # NULL => h[b].next \in DOMAIN h
  BY DEF Linked, WellTiled
<1>4. End(h, b) = b + h[b].size
  BY DEF End
<1>5. /\ h[b].next # NULL => h[h[b].next].prev = b
      /\ h[b].prev # NULL => h[b].prev \in DOMAIN h /\ h[h[b].prev].next = b
      /\ h[b].prev = NULL => b = g_heap_head
  BY DEF Linked, Mirrored
<1>6. h[b].next # b /\ h[b].size <= HEAP_SIZE /\ End(h, b) > b /\ End(h, b) \in Nat
  BY <1>0, <1>2, <1>3, <1>4, HeaderSize
<1>7. h[b].prev # b
  BY <1>2, <1>5, <1>6
<1> QED BY <1>0, <1>1, <1>2, <1>3, <1>4, <1>5, <1>6, <1>7, HeaderSize

\* A block that has a next one ends where that one starts.
LEMMA NextBlock ==
  ASSUME NEW h, Linked(h), NEW b \in DOMAIN h, NEW nx, nx = h[b].next, nx # NULL
  PROVE  /\ nx \in DOMAIN h /\ h[nx].prev = b
         /\ nx = b + h[b].size /\ nx = End(h, b)
         /\ nx # b /\ nx \in Nat /\ b < nx
<1>1. HEAP_SIZE \in Nat
  BY HeapAssumption
<1>2. /\ b \in Nat /\ End(h, b) \in Nat /\ End(h, b) <= HEAP_SIZE /\ End(h, b) > b
      /\ End(h, b) = b + h[b].size
      /\ End(h, b) < HEAP_SIZE => h[b].next = End(h, b)
      /\ End(h, b) = HEAP_SIZE => h[b].next = NULL
      /\ nx \in DOMAIN h /\ h[nx].prev = b
  BY LinkedBlock
<1> QED BY <1>1, <1>2

\* Blocks do not overlap.
LEMMA LinkedApart ==
  ASSUME NEW h, Linked(h), NEW b \in DOMAIN h, NEW c \in DOMAIN h, b < c
  PROVE  End(h, b) <= c
BY DEF Linked, WellTiled

\* The heap u after split_block has cut block b after tn bytes, field by field.
LEMMA SplitFields ==
  ASSUME NEW h, Linked(h), NEW b \in DOMAIN h,
         NEW al, NEW tn \in Nat, tn = (header_size + align_up(al, HEAP_ALIGN)) % SIZE_T,
         tn >= 32, tn % 16 = 0, h[b].size > tn + 48,
         (tn + header_size + HEAP_ALIGN) % SIZE_T = tn + 48,
         NEW nx, nx = h[b].next, NEW n, n = b + tn,
         NEW u, u = split_block(h, b, al)
  PROVE  CutInTwo(u, h, b, tn, n, nx)
<1>0. HEAP_SIZE \in Nat /\ NULL = -1
  BY HeapAssumption DEF NULL
<1>1. b \in Nat /\ h[b].size \in Nat /\ b % 16 = 0 /\ End(h, b) <= HEAP_SIZE
      /\ (\A c \in DOMAIN h : b < c => End(h, b) <= c)
      /\ nx \in Addr \cup {NULL} /\ b \in Addr
      /\ h[b].size <= HEAP_SIZE
  BY LinkedBlock, LinkedApart
<1>2. n \notin DOMAIN h /\ n \in Addr /\ n > b /\ n % 16 = 0
  BY <1>0, <1>1 DEF End, Addr
<1>3. \A a \in DOMAIN h : h[a] \in Header
  BY DEF Linked
<1>4. u = [a \in DOMAIN h \cup {n} |->
             IF a = n
             THEN [magic |-> TRUE, size |-> h[b].size - tn,
                   free |-> TRUE, next |-> nx, prev |-> b]
             ELSE IF a = b
             THEN [h[a] EXCEPT !.size = tn, !.next = n]
             ELSE IF a = nx
             THEN [h[a] EXCEPT !.prev = n]
             ELSE h[a]]
  <2>1. ~(h[b].size <= (tn + header_size + HEAP_ALIGN) % SIZE_T)
    BY <1>1
  <2> QED BY <2>1 DEF split_block, cut
<1>5. /\ u[n].magic /\ u[n].size = h[b].size - tn /\ u[n].free
      /\ u[n].next = nx /\ u[n].prev = b /\ u[n] \in Header
  <2>1. h[b].size - tn \in 0 .. HEAP_SIZE
    BY <1>0, <1>1
  <2>2. u[n] = [magic |-> TRUE, size |-> h[b].size - tn, free |-> TRUE,
                next |-> nx, prev |-> b]
    BY <1>4, Zenon
  <2> QED BY <1>1, <2>2, <2>1 DEF Header
<1>7. /\ u[b].size = tn /\ u[b].next = n /\ u[b].prev = h[b].prev
      /\ u[b].magic = h[b].magic /\ u[b].free = h[b].free /\ u[b] \in Header
  <2>1. tn \in 0 .. HEAP_SIZE
    BY <1>0, <1>1
  <2>2. u[b] = [h[b] EXCEPT !.size = tn, !.next = n]
    BY <1>2, <1>4, Zenon
  <2>3. h[b] \in Header /\ n \in Addr \cup {NULL}
    BY <1>2, <1>3
  <2> QED BY <2>1, <2>2, <2>3 DEF Header
<1>8. ASSUME NEW a \in DOMAIN h, a # b
      PROVE  /\ u[a].magic = h[a].magic /\ u[a].free = h[a].free
             /\ u[a].size = h[a].size /\ u[a].next = h[a].next
             /\ a = nx => u[a].prev = n
             /\ a # nx => u[a].prev = h[a].prev
             /\ u[a] \in Header
  <2>1. CASE a = nx
    <3>1. u[a] = [h[a] EXCEPT !.prev = n]
      BY <1>2, <1>4, <1>8, <2>1, Zenon
    <3> QED BY <3>1, <2>1, <1>2, <1>3, SetPrev
  <2>2. CASE a # nx
    <3>1. u[a] = h[a]
      BY <1>2, <1>4, <1>8, <2>2, Zenon
    <3> QED BY <3>1, <2>2, <1>3, Zenon
  <2> QED BY <2>1, <2>2
<1>9. DOMAIN u = DOMAIN h \cup {n} /\ u = [a \in DOMAIN u |-> u[a]]
  BY <1>4, Zenon
<1>10. \A a \in DOMAIN u : u[a] \in Header
  BY <1>5, <1>7, <1>8, <1>9, Zenon
<1>11. u \in [DOMAIN u -> Header]
  BY <1>9, <1>10, Zenon
<1> QED BY <1>2, <1>5, <1>7, <1>8, <1>9, <1>11 DEF CutInTwo

\* Cutting a free block in two keeps the list linked.
LEMMA SplitLinked ==
  ASSUME NEW h, Linked(h), NEW b \in DOMAIN h,
         NEW tn \in Nat, tn >= 32, tn % 16 = 0, h[b].size > tn + 48,
         NEW nx, nx = h[b].next, NEW n, n = b + tn,
         NEW u, CutInTwo(u, h, b, tn, n, nx)
  PROVE  Linked(u)
<1> USE DEF CutInTwo
<1>0. HEAP_SIZE \in Nat /\ NULL = -1 /\ g_heap_head = 0 /\ HEAP_ALIGN = 16
  BY HeapAssumption DEF NULL, g_heap_head, HEAP_ALIGN
<1>1. DOMAIN u \subseteq Addr
  BY DEF Linked
<1>2. n \in Nat /\ b \in Nat /\ h[b].size \in Nat
  BY <1>0, LinkedBlock DEF Addr
<1>3. WellTiled(u)
  <2>1. \A a \in DOMAIN h : a # b => End(u, a) = End(h, a)
    BY DEF End
  <2>2. End(u, n) = End(h, b) /\ End(u, b) = n /\ n < End(h, b)
    BY <1>2 DEF End
  <2>3. g_heap_head \in DOMAIN u
    BY DEF Linked, WellTiled
  <2>4. ASSUME NEW a \in DOMAIN u
        PROVE /\ a % 16 = 0
              /\ u[a].size >= 32
              /\ End(u, a) <= HEAP_SIZE
              /\ End(u, a) < HEAP_SIZE => u[a].next = End(u, a)
              /\ End(u, a) = HEAP_SIZE => u[a].next = NULL
              /\ u[a].next # NULL => u[a].next \in DOMAIN u
    <3>1. CASE a = n
      BY <3>1, <2>2, <1>0, <1>2, LinkedBlock
    <3>2. CASE a = b
      BY <3>2, <2>2, <1>0, <1>2, LinkedBlock
    <3>3. CASE a # n /\ a # b
      <4>1. a \in DOMAIN h /\ End(u, a) = End(h, a)
            /\ u[a].size = h[a].size /\ u[a].next = h[a].next
        BY <3>3, <2>1
      <4> QED BY <4>1, <1>0, LinkedBlock
    <3> QED BY <3>1, <3>2, <3>3
  <2>5. ASSUME NEW a \in DOMAIN u, NEW c \in DOMAIN u, a < c
        PROVE  End(u, a) <= c
    <3>0. /\ \A x, y \in DOMAIN h : x < y => End(h, x) <= y
          /\ \A x \in DOMAIN h : End(h, x) \in Nat /\ End(h, x) > x /\ x \in Nat
      BY LinkedBlock, LinkedApart
    <3>1. CASE a = n
      BY <3>0, <3>1, <2>2, <2>5, <1>2
    <3>2. CASE a = b
      BY <3>0, <3>2, <2>2, <2>5, <1>2
    <3>3. CASE a # n /\ a # b /\ c = n
      BY <3>0, <3>3, <2>1, <2>5, <2>2, <1>2
    <3>4. CASE a # n /\ a # b /\ c # n
      BY <3>0, <3>4, <2>1, <2>5
    <3> QED BY <3>1, <3>2, <3>3, <3>4
  <2> QED BY <2>3, <2>4, <2>5, HeaderSize, <1>0 DEF WellTiled
<1>4. Mirrored(u)
  <2>0. ASSUME NEW a \in DOMAIN h
        PROVE  /\ h[a].next # NULL => h[a].next \in DOMAIN h /\ h[h[a].next].prev = a
               /\ h[a].prev # NULL => h[a].prev \in DOMAIN h /\ h[h[a].prev].next = a
               /\ h[a].prev = NULL => a = g_heap_head
               /\ a # NULL
    BY LinkedBlock
  <2>1. nx # b /\ n # NULL
    BY <1>0, <1>2, LinkedBlock
  <2>2. ASSUME NEW a \in DOMAIN u
        PROVE /\ u[a].next # NULL => u[u[a].next].prev = a
              /\ u[a].prev # NULL => u[a].prev \in DOMAIN u /\ u[u[a].prev].next = a
              /\ u[a].prev = NULL => a = g_heap_head
    <3>1. CASE a = n
      BY <3>1, <2>0, <2>1
    <3>2. CASE a = b
      <4>1. h[b].prev # b
        BY <2>0, <2>1
      <4> QED BY <3>2, <4>1, <2>0, <2>1
    <3>3. CASE a # n /\ a # b
      <4>1. a \in DOMAIN h /\ u[a].next = h[a].next
        BY <3>3
      <4>2. u[a].next # NULL => u[u[a].next].prev = a
        <5>1. SUFFICES ASSUME h[a].next # NULL PROVE u[h[a].next].prev = a
          BY <4>1
        <5>2. h[a].next \in DOMAIN h /\ h[h[a].next].prev = a
          BY <5>1, <4>1, <2>0
        <5>3. CASE h[a].next = b
          BY <5>2, <5>3
        <5>4. CASE h[a].next # b
          <6>1. h[a].next # nx
            BY <5>1, <5>2, <2>0, <3>3
          <6> QED BY <6>1, <5>2, <5>4
        <5> QED BY <5>3, <5>4
      <4>3. CASE a = nx
        BY <4>1, <4>2, <4>3, <3>3, <2>1
      <4>4. CASE a # nx
        <5>1. u[a].prev = h[a].prev
          BY <4>1, <4>4, <3>3
        <5>2. h[a].prev # NULL => h[a].prev \in DOMAIN h /\ h[h[a].prev].next = a
          BY <4>1, <2>0
        <5>3. h[a].prev # NULL => h[a].prev # b
          BY <5>2, <4>4
        <5> QED BY <5>1, <5>2, <5>3, <4>1, <4>2, <2>0
      <4> QED BY <4>3, <4>4
    <3> QED BY <3>1, <3>2, <3>3
  <2> QED BY <2>2 DEF Mirrored
<1>5. Intact(u)
  BY DEF Linked, Intact
<1> QED BY <1>1, <1>3, <1>4, <1>5 DEF Linked

\* kmalloc's split and mark keep the heap well formed and coalesced, and the
\* block has room for the request.
LEMMA TakeGood ==
  ASSUME NEW h, Linked(h), Merged(h), NEW b \in DOMAIN h,
         NEW s \in Nat, s # 0, s <= SIZE_T - 128, Fits(h, b, s),
         NEW t, t = Take(h, b, s)
  PROVE  /\ Linked(t) /\ Merged(t)
         /\ DOMAIN h \subseteq DOMAIN t
         /\ ~t[b].free /\ s <= t[b].size - header_size
         /\ SameUseBut(t, h, b)
<1>0. PICK al, tn :
        /\ al = align_up(s, HEAP_ALIGN)
        /\ tn = (header_size + align_up(al, HEAP_ALIGN)) % SIZE_T
  OBVIOUS
<1>N. /\ tn \in Nat /\ tn % 16 = 0 /\ tn >= s + 32
      /\ (al + header_size) % SIZE_T = tn
      /\ (tn + header_size + HEAP_ALIGN) % SIZE_T = tn + 48
  BY <1>0, Needed
<1>1. h[b].free /\ h[b].size >= tn
  BY <1>0, <1>N DEF Fits
<1>2. h \in [DOMAIN h -> Header]
  BY DEF Linked
<1>3. CASE h[b].size <= tn + 48
  <2>1. t = [h EXCEPT ![b].free = FALSE]
    <3>1. split_block(h, b, al) = h
      BY <1>0, <1>N, <1>3 DEF split_block
    <3> QED BY <1>0, <3>1, Zenon DEF Take
  <2>2. MarkedOnly(t, h, b, FALSE)
    BY <1>2, <2>1, MarkFree, Zenon
  <2>3. Linked(t)
    BY <2>2, MarkLinked
  <2>4. Merged(t)
    BY <2>2, LinkedBlock DEF Merged, MarkedOnly
  <2>5. s <= t[b].size - header_size
    <3>1. t[b].size = h[b].size
      BY <2>2 DEF MarkedOnly
    <3>2. h[b].size \in Nat
      BY LinkedBlock
    <3>3. header_size = 32
      BY HeaderSize
    <3> QED BY <3>1, <3>2, <3>3, <1>N, <1>1
  <2> QED BY <2>2, <2>3, <2>4, <2>5 DEF SameUseBut, MarkedOnly
<1>4. CASE ~(h[b].size <= tn + 48)
  <2>0. PICK n, nx, u : n = b + tn /\ nx = h[b].next /\ u = split_block(h, b, al)
    OBVIOUS
  <2>1. h[b].size > tn + 48 /\ tn >= 32
    BY <1>N, <1>4, LinkedBlock
  <2>2. CutInTwo(u, h, b, tn, n, nx)
    BY <1>0, <1>N, <2>0, <2>1, SplitFields
  <2>3. Linked(u)
    BY <1>N, <2>0, <2>1, <2>2, SplitLinked
  <2>4. t = [u EXCEPT ![b].free = FALSE]
    BY <1>0, <2>0, Zenon DEF Take
  <2>M. b \in DOMAIN u /\ u \in [DOMAIN u -> Header]
    BY <2>2 DEF CutInTwo
  <2>5. MarkedOnly(t, u, b, FALSE)
    BY <2>M, <2>4, MarkFree, Zenon
  <2>6. Linked(t)
    BY <2>M, <2>3, <2>5, MarkLinked
  <2>7. Merged(t)
    <3>1. SUFFICES ASSUME NEW a \in DOMAIN t, t[a].free, t[a].next # NULL
                   PROVE  ~t[t[a].next].free
      BY DEF Merged
    <3>2. CASE a = n
      <4>1. t[a].next = nx /\ nx \in DOMAIN h /\ ~h[nx].free
        BY <3>1, <3>2, <2>0, <2>2, <2>5, <1>1, LinkedBlock DEF Merged, CutInTwo, MarkedOnly
      <4> QED BY <4>1, <2>2, <2>5, LinkedBlock DEF CutInTwo, MarkedOnly
    <3>3. CASE a # n
      <4>1. a \in DOMAIN h /\ a # b /\ h[a].free /\ t[a].next = h[a].next
        BY <3>1, <3>3, <2>2, <2>5 DEF CutInTwo, MarkedOnly
      <4>2. h[a].next \in DOMAIN h /\ ~h[h[a].next].free
        BY <3>1, <4>1, LinkedBlock DEF Merged
      <4> QED BY <4>1, <4>2, <2>2, <2>5 DEF CutInTwo, MarkedOnly
    <3> QED BY <3>2, <3>3
  <2>8. s <= t[b].size - header_size
    BY <2>2, <2>5, <1>N, HeaderSize DEF CutInTwo, MarkedOnly
  <2> QED BY <2>2, <2>5, <2>6, <2>7, <2>8 DEF SameUseBut, CutInTwo, MarkedOnly
<1> QED BY <1>3, <1>4

\* merge_with_next leaves the heap alone when there is nothing to merge.
LEMMA MergeNone ==
  ASSUME NEW h, Linked(h), NEW b \in DOMAIN h,
         h[b].next = NULL \/ ~h[h[b].next].free
  PROVE  merge_with_next(h, b) = h
BY DEF merge_with_next

\* Otherwise the block absorbs the next one, field by field.
LEMMA JoinFields ==
  ASSUME NEW h, Linked(h), NEW b \in DOMAIN h,
         NEW nx, nx = h[b].next, nx # NULL, h[nx].free,
         NEW nn, nn = h[nx].next,
         NEW g, g = merge_with_next(h, b)
  PROVE  Joined(g, h, b, nx, nn)
<1>0. HEAP_SIZE \in Nat
  BY HeapAssumption
<1>1. nx \in DOMAIN h /\ nx = b + h[b].size /\ nx # b /\ nx = End(h, b)
  BY NextBlock
<1>2. \A a \in DOMAIN h : h[a] \in Header
  BY DEF Linked
<1>3. g = [a \in DOMAIN h \ {nx} |->
             IF a = b
             THEN [h[a] EXCEPT !.size = @ + h[nx].size, !.next = nn]
             ELSE IF a = nn
             THEN [h[a] EXCEPT !.prev = b]
             ELSE h[a]]
  BY <1>1 DEF merge_with_next
<1>4. /\ g[b].size = h[b].size + h[nx].size
      /\ g[b].next = nn /\ g[b].prev = h[b].prev
      /\ g[b].magic = h[b].magic /\ g[b].free = h[b].free /\ g[b] \in Header
  <2>1. h[b].size + h[nx].size \in 0 .. HEAP_SIZE
    BY <1>0, <1>1, LinkedBlock
  <2>2. g[b] = [h[b] EXCEPT !.size = h[b].size + h[nx].size, !.next = nn]
    BY <1>1, <1>3, Zenon
  <2>3. h[b] \in Header /\ nn \in Addr \cup {NULL}
    BY <1>1, LinkedBlock
  <2> QED BY <2>1, <2>2, <2>3 DEF Header
<1>5. ASSUME NEW a \in DOMAIN h \ {nx}, a # b
      PROVE  /\ g[a].magic = h[a].magic /\ g[a].free = h[a].free
             /\ g[a].size = h[a].size /\ g[a].next = h[a].next
             /\ a = nn => g[a].prev = b
             /\ a # nn => g[a].prev = h[a].prev
             /\ g[a] \in Header
  <2>1. CASE a = nn
    <3>1. g[a] = [h[a] EXCEPT !.prev = b]
      BY <1>3, <1>5, <2>1, Zenon
    <3>2. b \in Addr
      BY LinkedBlock
    <3> QED BY <3>1, <3>2, <2>1, <1>2, SetPrev
  <2>2. CASE a # nn
    <3>1. g[a] = h[a]
      BY <1>3, <1>5, <2>2, Zenon
    <3> QED BY <3>1, <2>2, <1>2, Zenon
  <2> QED BY <2>1, <2>2
<1>6. DOMAIN g = DOMAIN h \ {nx} /\ g = [a \in DOMAIN g |-> g[a]]
  BY <1>3, Zenon
<1>7. \A a \in DOMAIN g : g[a] \in Header
  BY <1>4, <1>5, <1>6, Zenon
<1>8. g \in [DOMAIN g -> Header]
  BY <1>6, <1>7, Zenon
<1> QED BY <1>4, <1>5, <1>6, <1>8 DEF Joined

\* Absorbing the next block keeps the list linked.
LEMMA JoinLinked ==
  ASSUME NEW h, Linked(h), NEW b \in DOMAIN h,
         NEW nx, nx = h[b].next, nx # NULL,
         NEW nn, nn = h[nx].next,
         NEW g, Joined(g, h, b, nx, nn)
  PROVE  Linked(g)
<1>0. HEAP_SIZE \in Nat /\ NULL = -1 /\ g_heap_head = 0 /\ HEAP_ALIGN = 16
  BY HeapAssumption DEF NULL, g_heap_head, HEAP_ALIGN
<1>1. DOMAIN g \subseteq Addr
  BY DEF Linked, Joined
<1>2. nx \in DOMAIN h /\ nx = b + h[b].size /\ nx # b /\ nx = End(h, b)
      /\ h[nx].prev = b /\ b < nx
  BY NextBlock
<1>A. nn # b
  <2>1. b # NULL /\ b \in Nat
    BY LinkedBlock
  <2>2. nn # NULL => nn \in Nat /\ nx \in Nat /\ nx < nn
    <3>1. nx \in DOMAIN h /\ nx \in Nat
      BY <1>2, LinkedBlock
    <3>2. ASSUME nn # NULL PROVE nn \in Nat /\ nx < nn
      BY <3>1, <3>2, NextBlock, Zenon
    <3> QED BY <3>1, <3>2
  <2> QED BY <2>1, <2>2, <1>2
<1> USE DEF Joined
<1>3. b \in DOMAIN g /\ End(g, b) = End(h, nx)
  BY <1>2, LinkedBlock DEF End
<1>4. \A a \in DOMAIN g : a # b => End(g, a) = End(h, a) /\ h[a].next # nx
  BY <1>2, LinkedBlock DEF End
<1>5. WellTiled(g)
  <2>1. g_heap_head \in DOMAIN g
    <3>1. g_heap_head \in DOMAIN h
      BY DEF Linked, WellTiled
    <3> QED BY <3>1, <1>0, <1>2, LinkedBlock
  <2>2. ASSUME NEW a \in DOMAIN g
        PROVE /\ a % 16 = 0
              /\ g[a].size >= 32
              /\ End(g, a) <= HEAP_SIZE
              /\ End(g, a) < HEAP_SIZE => g[a].next = End(g, a)
              /\ End(g, a) = HEAP_SIZE => g[a].next = NULL
              /\ g[a].next # NULL => g[a].next \in DOMAIN g
    <3>1. CASE a = b
      <4>1. nn # NULL => nn \in DOMAIN g
        BY <1>2, LinkedBlock
      <4> QED BY <3>1, <4>1, <1>2, <1>3, LinkedBlock
    <3>2. CASE a # b
      <4>1. a \in DOMAIN h /\ End(g, a) = End(h, a)
            /\ g[a].size = h[a].size /\ g[a].next = h[a].next
            /\ h[a].next # nx
        BY <3>2, <1>4
      <4> QED BY <4>1, LinkedBlock
    <3> QED BY <3>1, <3>2
  <2>3. ASSUME NEW a \in DOMAIN g, NEW c \in DOMAIN g, a < c
        PROVE  End(g, a) <= c
    <3>0. /\ \A x, y \in DOMAIN h : x < y => End(h, x) <= y
          /\ \A x \in DOMAIN h : End(h, x) \in Nat /\ End(h, x) > x /\ x \in Nat
      BY LinkedBlock, LinkedApart
    <3>1. CASE a = b
      BY <3>0, <3>1, <1>2, <1>3, <2>3
    <3>2. CASE a # b
      BY <3>0, <3>2, <1>4, <2>3
    <3> QED BY <3>1, <3>2
  <2> QED BY <2>1, <2>2, <2>3, HeaderSize, <1>0 DEF WellTiled
<1>6. Mirrored(g)
  <2>0. ASSUME NEW a \in DOMAIN h
        PROVE  /\ h[a].next # NULL => h[a].next \in DOMAIN h /\ h[h[a].next].prev = a
               /\ h[a].prev # NULL => h[a].prev \in DOMAIN h /\ h[h[a].prev].next = a
               /\ h[a].prev = NULL => a = g_heap_head
               /\ a # NULL /\ h[a].next # a /\ h[a].prev # a
    BY LinkedBlock
  <2>1. nn # b
    BY <1>A
  <2>2. ASSUME NEW a \in DOMAIN g
        PROVE /\ g[a].next # NULL => g[g[a].next].prev = a
              /\ g[a].prev # NULL => g[a].prev \in DOMAIN g /\ g[g[a].prev].next = a
              /\ g[a].prev = NULL => a = g_heap_head
    <3>1. CASE a = b
      <4>1. g[a].next # NULL => g[g[a].next].prev = a
        BY <3>1, <2>0, <2>1, <1>2
      <4>2. h[b].prev # nx
        BY <2>0, <2>1, <1>2
      <4> QED BY <3>1, <4>1, <4>2, <2>0, <1>3
    <3>2. CASE a # b
      <4>1. a \in DOMAIN h /\ a # nx /\ g[a].next = h[a].next
        BY <3>2
      <4>2. g[a].next # NULL => g[g[a].next].prev = a
        <5>1. SUFFICES ASSUME h[a].next # NULL PROVE g[h[a].next].prev = a
          BY <4>1
        <5>2. h[a].next \in DOMAIN h /\ h[h[a].next].prev = a /\ h[a].next # nx
          BY <5>1, <4>1, <2>0, <1>4, <3>2
        <5>3. CASE h[a].next = b
          BY <5>2, <5>3
        <5>4. CASE h[a].next # b
          <6>1. h[a].next # nn
            BY <5>1, <5>2, <2>0, <4>1, <1>2
          <6> QED BY <6>1, <5>2, <5>4
        <5> QED BY <5>3, <5>4
      <4>3. CASE a = nn
        BY <4>1, <4>2, <4>3, <3>2, <1>3, <2>0
      <4>4. CASE a # nn
        <5>1. g[a].prev = h[a].prev
          BY <4>1, <4>4, <3>2
        <5>2. h[a].prev # NULL => h[a].prev \in DOMAIN h /\ h[h[a].prev].next = a
          BY <4>1, <2>0
        <5>3. h[a].prev # NULL => h[a].prev # b /\ h[a].prev # nx
          BY <5>2, <4>1, <4>4, <3>2
        <5> QED BY <5>1, <5>2, <5>3, <4>1, <4>2, <2>0
      <4> QED BY <4>3, <4>4
    <3> QED BY <3>1, <3>2
  <2> QED BY <2>2 DEF Mirrored
<1>7. Intact(g)
  BY DEF Linked, Intact
<1> QED BY <1>1, <1>5, <1>6, <1>7 DEF Linked

\* kfree restores a coalesced heap, whichever of the neighbours are free, and
\* leaves every other block in use as it is.
LEMMA ReleaseGood ==
  ASSUME NEW h, Linked(h), Merged(h), NEW b \in DOMAIN h, ~h[b].free,
         NEW t, t = Release(h, block_payload(b))
  PROVE  /\ Linked(t) /\ Merged(t)
         /\ b \in DOMAIN t => t[b].free
         /\ SameUseBut(t, h, b)
<1>0. payload_block(block_payload(b)) = b /\ h[b].magic
  BY LinkedBlock, HeaderSize DEF payload_block, block_payload
<1>1. PICK m : m = [h EXCEPT ![b].free = TRUE]
  OBVIOUS
<1>2. MarkedOnly(m, h, b, TRUE)
  <2>1. h \in [DOMAIN h -> Header]
    BY DEF Linked
  <2> QED BY <1>1, <2>1, MarkFree, Zenon
<1>3. Linked(m) /\ DOMAIN m = DOMAIN h /\ m[b].free
  BY <1>2, MarkLinked DEF MarkedOnly
<1>4. PICK r, p : r = merge_with_next(m, b) /\ p = r[b].prev
  OBVIOUS
\* After the merge to the right only the pair of b and its left neighbour may
\* be free on both sides.
<1>5. /\ Linked(r) /\ b \in DOMAIN r /\ r[b].free
      /\ SameUseBut(r, h, b)
      /\ \A a \in DOMAIN r :
           r[a].free /\ r[a].next # NULL /\ r[r[a].next].free => r[a].next = b
  <2>1. CASE m[b].next = NULL \/ ~m[m[b].next].free
    <3>1. r = m
      BY <1>3, <1>4, <2>1, MergeNone
    <3>2. ASSUME NEW a \in DOMAIN r, r[a].free, r[a].next # NULL, r[r[a].next].free
          PROVE  r[a].next = b
      <4>1. a # b
        BY <3>1, <3>2, <2>1
      <4>2. h[a].free /\ h[a].next = m[a].next /\ h[a].next \in DOMAIN h
        BY <3>1, <3>2, <4>1, <1>2, LinkedBlock DEF MarkedOnly
      <4>3. ~h[h[a].next].free
        BY <3>1, <3>2, <4>2, <1>3 DEF Merged
      <4> QED BY <3>1, <3>2, <4>2, <4>3, <1>2 DEF MarkedOnly
    <3> QED BY <3>1, <3>2, <1>2, <1>3 DEF SameUseBut, MarkedOnly
  <2>2. CASE m[b].next # NULL /\ m[m[b].next].free
    <3>1. PICK nx, nn : nx = m[b].next /\ nn = m[nx].next
      OBVIOUS
    <3>2. Joined(r, m, b, nx, nn)
      BY <1>3, <1>4, <2>2, <3>1, JoinFields
    <3>3. Linked(r)
      BY <1>3, <2>2, <3>1, <3>2, JoinLinked
    <3>4. nx \in DOMAIN h /\ nx # b /\ h[nx].free /\ nx # NULL
          /\ nn = h[nx].next
      BY <1>2, <1>3, <2>2, <3>1, LinkedBlock DEF MarkedOnly
    <3>5. nn # NULL => nn \in DOMAIN h /\ ~h[nn].free
      BY <3>4, LinkedBlock DEF Merged
    <3>6. ASSUME NEW a \in DOMAIN r, r[a].free, r[a].next # NULL, r[r[a].next].free
          PROVE  r[a].next = b
      <4>1. CASE a = b
        <5>1. r[a].next = nn /\ nn \in DOMAIN r
          BY <3>2, <3>3, <3>6, <4>1, LinkedBlock DEF Joined
        <5>2. r[nn].free = m[nn].free
          BY <3>2, <5>1 DEF Joined
        <5>3. nn = b
          BY <5>1, <5>2, <3>5, <3>6, <1>2 DEF MarkedOnly
        <5> QED BY <5>1, <5>3
      <4>2. CASE a # b
        <5>1. a \in DOMAIN h /\ r[a].next = h[a].next /\ h[a].free
          BY <3>2, <3>6, <4>2, <1>2 DEF Joined, MarkedOnly
        <5>2. r[a].next \in DOMAIN r /\ r[a].next \in DOMAIN h
          BY <3>2, <3>3, <3>6, <1>2, LinkedBlock DEF Joined, MarkedOnly
        <5>3. ~h[r[a].next].free
          BY <3>6, <5>1 DEF Merged
        <5>4. r[r[a].next].free = m[r[a].next].free
          BY <3>2, <5>2 DEF Joined
        <5> QED BY <3>6, <5>2, <5>3, <5>4, <1>2 DEF MarkedOnly
      <4> QED BY <4>1, <4>2
    <3>7. b \in DOMAIN r /\ r[b].free
      BY <3>2, <3>4, <1>2, <1>3 DEF Joined, MarkedOnly
    <3>8. SameUseBut(r, h, b)
      BY <3>2, <3>4, <1>2 DEF SameUseBut, Joined, MarkedOnly
    <3> QED BY <3>3, <3>6, <3>7, <3>8
  <2> QED BY <2>1, <2>2
<1>6. t = IF p = NULL THEN r ELSE IF r[p].free THEN merge_with_next(r, p) ELSE r
  BY <1>0, <1>1, <1>4, Zenon DEF Release
<1>7. p # NULL => p \in DOMAIN r /\ r[p].next = b /\ p # b
  BY <1>4, <1>5, LinkedBlock
<1>8. CASE p = NULL \/ ~r[p].free
  <2>1. t = r
    BY <1>6, <1>8
  <2>2. Merged(r)
    <3>1. SUFFICES ASSUME NEW a \in DOMAIN r, r[a].free, r[a].next # NULL,
                          r[r[a].next].free
                   PROVE  FALSE
      BY DEF Merged
    <3>2. r[a].next = b
      BY <1>5, <3>1
    <3>3. p = a
      BY <1>4, <1>5, <3>1, <3>2, LinkedBlock
    <3>4. a # NULL
      BY <1>5, LinkedBlock
    <3> QED BY <1>8, <3>1, <3>3, <3>4
  <2> QED BY <2>1, <2>2, <1>5
<1>9. CASE p # NULL /\ r[p].free
  <2>0. PICK nn : nn = r[b].next
    OBVIOUS
  <2>1. t = merge_with_next(r, p)
    BY <1>6, <1>9
  <2>2. b # NULL
    BY LinkedBlock
  <2>3. Joined(t, r, p, b, nn)
    BY <1>5, <1>7, <1>9, <2>0, <2>1, <2>2, JoinFields
  <2>4. Linked(t)
    BY <1>5, <1>7, <1>9, <2>0, <2>2, <2>3, JoinLinked
  <2>5. Merged(t)
    <3>1. SUFFICES ASSUME NEW a \in DOMAIN t, t[a].free, t[a].next # NULL,
                          t[t[a].next].free
                   PROVE  FALSE
      BY DEF Merged
    <3>2. t[a].next \in DOMAIN t
      BY <2>4, <3>1, LinkedBlock
    <3>3. a \in DOMAIN r /\ r[a].free /\ r[t[a].next].free /\ t[a].next # b
      BY <2>3, <3>1, <3>2 DEF Joined
    <3>4. CASE a = p
      <4>1. t[a].next = nn
        BY <2>3, <3>4 DEF Joined
      <4> QED BY <4>1, <3>1, <3>3, <2>0, <1>5
    <3>5. CASE a # p
      <4>1. t[a].next = r[a].next
        BY <2>3, <3>5, <3>1 DEF Joined
      <4> QED BY <4>1, <3>1, <3>3, <1>5
    <3> QED BY <3>4, <3>5
  <2>6. SameUseBut(t, h, b)
    <3>1. \A c \in DOMAIN t : ~t[c].free =>
             /\ c # p /\ c # b /\ c \in DOMAIN r /\ ~r[c].free /\ t[c].size = r[c].size
      BY <2>3, <1>7, <1>9 DEF Joined
    <3>2. \A c \in DOMAIN r : ~r[c].free =>
             /\ c # b => c \in DOMAIN t /\ ~t[c].free /\ t[c].size = r[c].size
      BY <2>3, <1>7, <1>9 DEF Joined
    <3> QED BY <3>1, <3>2, <1>5 DEF SameUseBut
  <2>7. b \notin DOMAIN t
    BY <2>3 DEF Joined
  <2> QED BY <2>4, <2>5, <2>6, <2>7
<1> QED BY <1>8, <1>9

\* Bytes stored inside a block's payload reach no header.
LEMMA StoreInside ==
  ASSUME NEW h, Linked(h), NEW b \in DOMAIN h, NEW n \in Nat,
         n <= h[b].size - header_size
  PROVE  Store(h, block_payload(b), n) = h
<1>1. ASSUME NEW a \in DOMAIN h
      PROVE  ~ \E i \in a .. a + sizeof_heap_block - 1 :
                 i \in block_payload(b) .. block_payload(b) + n - 1
  <2>0. a \in Nat /\ b \in Nat /\ h[b].size \in Nat /\ End(h, b) = b + h[b].size
        /\ h[a].size \in Nat /\ End(h, a) = a + h[a].size /\ h[a].size >= 32
        /\ block_payload(b) = b + 32 /\ header_size = 32 /\ sizeof_heap_block = 20
    BY LinkedBlock, HeaderSize DEF block_payload, sizeof_heap_block
  <2>1. CASE a = b
    BY <2>0, <2>1
  <2>2. CASE a < b
    BY <2>0, <2>2, LinkedApart
  <2>3. CASE b < a
    BY <2>0, <2>3, LinkedApart
  <2> QED BY <2>0, <2>1, <2>2, <2>3
<1>2. h = [a \in DOMAIN h |-> h[a]]
  BY DEF Linked
<1> QED BY <1>1, <1>2, Zenon DEF Store

\* A ready heap h whose live pointers are o.
Good(h, o) ==
    /\ Linked(h) /\ Merged(h)
    /\ DOMAIN o \subseteq Addr /\ o \in [DOMAIN o -> Nat \ {0}]
    /\ \A p \in DOMAIN o :
          /\ payload_block(p) \in DOMAIN h
          /\ ~h[payload_block(p)].free
          /\ o[p] <= h[payload_block(p)].size - header_size
    /\ \A b \in DOMAIN h : ~h[b].free => block_payload(b) \in DOMAIN o

\* payload_block undoes block_payload.
LEMMA PayloadInverse ==
  /\ \A b \in Int : payload_block(block_payload(b)) = b /\ block_payload(b) \in Int
  /\ \A p \in Int : block_payload(payload_block(p)) = p /\ payload_block(p) \in Int
BY HeaderSize DEF payload_block, block_payload

\* The inductive invariant as one predicate of the headers and of what is owned.
LEMMA GoodInv == HeapInv <=> /\ g_heap_ready \in BOOLEAN
                             /\ g_heap_ready => Good(heap, owned)
                             /\ ~g_heap_ready => /\ heap = [a \in {} |-> 0]
                                                 /\ owned = [q \in {} |-> 0]
<1>1. ASSUME HeapInv, g_heap_ready PROVE Good(heap, owned)
  BY <1>1 DEF HeapInv, TypeOK, Tiled, LinksMirror, Coalesced, HeadersIntact,
     OwnedExactly, Good, Linked, Blocks
<1>2. ASSUME g_heap_ready = TRUE, Good(heap, owned) PROVE HeapInv
  BY <1>2 DEF HeapInv, TypeOK, Tiled, LinksMirror, Coalesced, HeadersIntact,
     OwnedExactly, Good, Linked, Blocks
<1>3. ASSUME HeapInv, ~g_heap_ready
      PROVE  heap = [a \in {} |-> 0] /\ owned = [q \in {} |-> 0]
  <2>1. /\ heap = [a \in DOMAIN heap |-> heap[a]] /\ DOMAIN heap = {}
        /\ owned = [a \in DOMAIN owned |-> owned[a]] /\ DOMAIN owned = {}
    BY <1>3 DEF HeapInv, TypeOK, Blocks
  <2> QED BY <2>1
<1>4. ASSUME g_heap_ready = FALSE, heap = [a \in {} |-> 0], owned = [q \in {} |-> 0]
      PROVE  HeapInv
  <2>1. DOMAIN heap = {} /\ DOMAIN owned = {}
    BY <1>4
  <2>2. TypeOK
    BY <1>4, <2>1 DEF TypeOK, Blocks
  <2> QED BY <1>4, <2>1, <2>2 DEF HeapInv, Tiled, LinksMirror, Coalesced,
        HeadersIntact, OwnedExactly, Blocks, Mirrored, Merged, Intact
<1>5. HeapInv => g_heap_ready \in BOOLEAN
  BY DEF HeapInv, TypeOK
<1> QED BY <1>1, <1>2, <1>3, <1>4, <1>5

\* The same after a step that leaves the heap initialised.
LEMMA GoodInvNext == g_heap_ready' = TRUE /\ Good(heap', owned') => HeapInv'
BY DEF HeapInv, TypeOK, Tiled, LinksMirror, Coalesced, HeadersIntact,
   OwnedExactly, Good, Linked, Blocks

\* heap_init makes one free block of g_heap.
LEMMA FreshGood == Good(fresh_heap, [q \in {} |-> 0])
<1>0. HEAP_SIZE \in Nat /\ HEAP_SIZE >= 64 /\ NULL = -1
  BY HeapAssumption DEF NULL
<1>1. PICK f : f = fresh_heap
  OBVIOUS
<1>2. /\ DOMAIN f = {0} /\ f[0].magic /\ f[0].size = HEAP_SIZE /\ f[0].free
      /\ f[0].next = NULL /\ f[0].prev = NULL
      /\ f = [a \in DOMAIN f |-> f[a]]
  BY <1>1 DEF fresh_heap, g_heap_head
<1>3. f[0] \in Header
  BY <1>0, <1>1 DEF fresh_heap, g_heap_head, Header
<1>4. f \in [DOMAIN f -> Header] /\ DOMAIN f \subseteq Addr
  BY <1>0, <1>2, <1>3 DEF Addr
<1>5. WellTiled(f)
  BY <1>0, <1>2, HeaderSize DEF WellTiled, End, g_heap_head, HEAP_ALIGN
<1>6. Mirrored(f) /\ Intact(f) /\ Merged(f)
  BY <1>0, <1>2 DEF Mirrored, Intact, Merged, g_heap_head
<1> QED BY <1>1, <1>2, <1>4, <1>5, <1>6 DEF Good, Linked

\* heap_init, called by kmalloc on first use, gives a good heap.
LEMMA HeapInitGood == HeapInv => Good(heap_init(heap), owned)
BY GoodInv, FreshGood DEF heap_init

\* A pointer handed out by kmalloc.
LEMMA AllocGood ==
  ASSUME NEW h, NEW o, Good(h, o), NEW b \in DOMAIN h,
         NEW s \in Nat, s # 0, s <= SIZE_T - 128, Fits(h, b, s),
         NEW t, t = Take(h, b, s), NEW o2, o2 = With(o, block_payload(b), s)
  PROVE  /\ Good(t, o2)
         /\ DOMAIN h \subseteq DOMAIN t /\ s <= t[b].size - header_size
         /\ block_payload(b) \notin DOMAIN o
         /\ \A c \in DOMAIN h : ~h[c].free => ~t[c].free /\ t[c].size = h[c].size
<1>0. Linked(h) /\ Merged(h) /\ HEAP_SIZE \in Nat
  BY HeapAssumption DEF Good
<1>1. /\ Linked(t) /\ Merged(t)
      /\ DOMAIN h \subseteq DOMAIN t
      /\ ~t[b].free /\ s <= t[b].size - header_size
      /\ SameUseBut(t, h, b)
  BY <1>0, TakeGood
<1>2. h[b].free /\ b \in Int
  BY <1>0, LinkedBlock DEF Fits
<1>3. \A p \in DOMAIN o : p \in Int
  BY <1>0 DEF Good, Addr
<1>4. block_payload(b) \notin DOMAIN o
  BY <1>2, PayloadInverse DEF Good
<1>5. /\ DOMAIN o2 = DOMAIN o \cup {block_payload(b)}
      /\ o2[block_payload(b)] = s
      /\ \A p \in DOMAIN o : o2[p] = o[p]
      /\ o2 = [p \in DOMAIN o2 |-> o2[p]]
  BY <1>4 DEF With
<1>6. block_payload(b) \in Addr
  <2>1. b + t[b].size <= HEAP_SIZE /\ b \in Nat /\ t[b].size \in Nat
    BY <1>1, LinkedBlock
  <2> QED BY <1>0, <1>1, <2>1, HeaderSize DEF block_payload, Addr
<1>7. o2 \in [DOMAIN o2 -> Nat \ {0}] /\ DOMAIN o2 \subseteq Addr
  BY <1>5, <1>6 DEF Good
<1>8. ASSUME NEW p \in DOMAIN o2
      PROVE  /\ payload_block(p) \in DOMAIN t
             /\ ~t[payload_block(p)].free
             /\ o2[p] <= t[payload_block(p)].size - header_size
  <2>1. CASE p = block_payload(b)
    BY <2>1, <1>1, <1>2, <1>5, PayloadInverse
  <2>2. CASE p # block_payload(b)
    <3>1. p \in DOMAIN o /\ payload_block(p) # b
      BY <2>2, <1>3, <1>5, PayloadInverse
    <3> QED BY <3>1, <1>1, <1>5 DEF Good, SameUseBut
  <2> QED BY <2>1, <2>2
<1>9. ASSUME NEW c \in DOMAIN t, ~t[c].free PROVE block_payload(c) \in DOMAIN o2
  BY <1>9, <1>1, <1>5 DEF Good, SameUseBut
<1>10. Good(t, o2)
  BY <1>1, <1>7, <1>8, <1>9 DEF Good
<1> QED BY <1>1, <1>2, <1>4, <1>10 DEF SameUseBut

\* A pointer given back to kfree.
LEMMA FreeGood ==
  ASSUME NEW h, NEW o, Good(h, o), NEW p \in DOMAIN o,
         NEW t, t = Release(h, p), NEW o2, o2 = Without(o, p)
  PROVE  Good(t, o2)
<1>0. /\ Linked(h) /\ Merged(h) /\ HEAP_SIZE \in Nat
      /\ \A q \in DOMAIN o : q \in Int
  BY HeapAssumption DEF Good, Addr
<1>1. PICK b \in DOMAIN h : b = payload_block(p) /\ ~h[b].free
  BY DEF Good
<1>2. p = block_payload(b)
  BY <1>0, <1>1, PayloadInverse
<1>3. /\ Linked(t) /\ Merged(t)
      /\ b \in DOMAIN t => t[b].free
      /\ SameUseBut(t, h, b)
  BY <1>0, <1>1, <1>2, ReleaseGood
<1>4. /\ DOMAIN o2 = DOMAIN o \ {p}
      /\ \A q \in DOMAIN o2 : o2[q] = o[q]
      /\ o2 = [q \in DOMAIN o2 |-> o2[q]]
  BY DEF Without
<1>5. o2 \in [DOMAIN o2 -> Nat \ {0}] /\ DOMAIN o2 \subseteq Addr
  BY <1>4 DEF Good
<1>6. ASSUME NEW q \in DOMAIN o2
      PROVE  /\ payload_block(q) \in DOMAIN t
             /\ ~t[payload_block(q)].free
             /\ o2[q] <= t[payload_block(q)].size - header_size
  <2>1. payload_block(q) # b /\ q \in DOMAIN o
    BY <1>0, <1>1, <1>4, PayloadInverse
  <2> QED BY <2>1, <1>3, <1>4 DEF Good, SameUseBut
<1>7. ASSUME NEW c \in DOMAIN t, ~t[c].free PROVE block_payload(c) \in DOMAIN o2
  <2>1. c # b /\ c \in DOMAIN h /\ ~h[c].free
    BY <1>3, <1>7 DEF SameUseBut
  <2>2. c \in Int /\ b \in Int
    BY <1>0, <2>1, LinkedBlock
  <2>3. block_payload(c) # p
    BY <2>1, <2>2, <1>2, PayloadInverse
  <2> QED BY <2>1, <2>3, <1>4 DEF Good
<1> QED BY <1>3, <1>5, <1>6, <1>7 DEF Good

\* kcalloc's overflow test: past it the product fits and is small.
LEMMA ProductFits ==
  ASSUME NEW c \in Counts, NEW s \in Requests, c # 0 => s <= (SIZE_T - 1) \div c,
         NEW total, total = (c * s) % SIZE_T, total # 0
  PROVE  total \in Nat /\ total <= SIZE_T - 128
<1>0. c \in Nat /\ s \in Nat /\ SIZE_T \in Nat /\ SIZE_T > 0
      /\ (c * s <= SIZE_T - 128 \/ c * s >= SIZE_T)
  BY HeapAssumption
<1>1. c # 0
  BY <1>0
<1>2. PICK q \in Nat : q = (SIZE_T - 1) \div c /\ c * q <= SIZE_T - 1 /\ s <= q
  BY <1>0, <1>1
<1>3. c * s <= c * q
  BY <1>0, <1>2
<1>4. c * s \in Nat /\ c * s <= SIZE_T - 128
  BY <1>0, <1>2, <1>3
<1> QED BY <1>0, <1>4, ModSmall

\* Each operation keeps the invariant.
LEMMA HeapInitKeeps == HeapInv /\ HeapInit => HeapInv'
<1> SUFFICES ASSUME HeapInv, HeapInit PROVE HeapInv'
  OBVIOUS
<1>1. Good(heap', owned') /\ g_heap_ready' = TRUE
  BY HeapInitGood DEF HeapInit
<1> QED BY <1>1, GoodInvNext

\* Whatever kmalloc finds, it keeps the invariant.
LEMMA KmallocKeeps == \A size \in Requests : HeapInv /\ kmalloc(size) => HeapInv'
<1> SUFFICES ASSUME NEW size \in Requests, HeapInv, kmalloc(size) PROVE HeapInv'
  OBVIOUS
<1>0. size \in Nat /\ size # 0 /\ size <= SIZE_T - 128 /\ g_heap_ready' = TRUE
  BY HeapAssumption DEF kmalloc
<1>1. PICK h : h = heap_init(heap) /\ Good(h, owned)
  BY HeapInitGood
<1>2. CASE \E block \in DOMAIN h :
             /\ FirstFit(h, size, block)
             /\ heap' = Take(h, block, size)
             /\ owned' = With(owned, block_payload(block), size)
  <2>1. PICK block \in DOMAIN h :
             /\ Fits(h, block, size)
             /\ heap' = Take(h, block, size)
             /\ owned' = With(owned, block_payload(block), size)
    BY <1>2 DEF FirstFit
  <2>2. Good(heap', owned')
    BY <1>0, <1>1, <2>1, AllocGood
  <2> QED BY <1>0, <2>2, GoodInvNext
<1>3. CASE heap' = h /\ owned' = owned
  BY <1>0, <1>1, <1>3, GoodInvNext
<1> QED BY <1>1, <1>2, <1>3 DEF kmalloc

\* So does kcalloc, whose product does not overflow once its test has passed.
LEMMA KcallocKeeps == \A count \in Counts, size \in Requests :
                         HeapInv /\ kcalloc(count, size) => HeapInv'
<1> SUFFICES ASSUME NEW count \in Counts, NEW size \in Requests, HeapInv,
                    kcalloc(count, size)
             PROVE  HeapInv'
  OBVIOUS
<1>0. PICK total : total = (count * size) % SIZE_T
  OBVIOUS
<1>1. total \in Nat /\ total # 0 /\ total <= SIZE_T - 128 /\ g_heap_ready' = TRUE
  BY <1>0, ProductFits DEF kcalloc
<1>2. PICK h : h = heap_init(heap) /\ Good(h, owned)
  BY HeapInitGood
<1>3. CASE \E block \in DOMAIN h :
             /\ FirstFit(h, total, block)
             /\ heap' = Store(Take(h, block, total), block_payload(block), total)
             /\ owned' = With(owned, block_payload(block), total)
  <2>1. PICK block \in DOMAIN h :
             /\ Fits(h, block, total)
             /\ heap' = Store(Take(h, block, total), block_payload(block), total)
             /\ owned' = With(owned, block_payload(block), total)
    BY <1>3 DEF FirstFit
  <2>2. PICK t : t = Take(h, block, total)
    OBVIOUS
  <2>3. Good(t, owned') /\ block \in DOMAIN t /\ total <= t[block].size - header_size
    BY <1>1, <1>2, <2>1, <2>2, AllocGood
  <2>4. heap' = t
    BY <1>1, <2>1, <2>2, <2>3, StoreInside DEF Good
  <2> QED BY <1>1, <2>3, <2>4, GoodInvNext
<1>4. CASE heap' = h /\ owned' = owned
  BY <1>1, <1>2, <1>4, GoodInvNext
<1> QED BY <1>0, <1>2, <1>3, <1>4 DEF kcalloc

\* A live pointer means the heap is ready.
LEMMA LiveReady == HeapInv /\ DOMAIN owned # {} => g_heap_ready = TRUE /\ Good(heap, owned)
BY GoodInv

\* So does kfree of anything that is owned.
LEMMA KfreeKeeps == \A ptr \in DOMAIN owned : HeapInv /\ kfree(ptr) => HeapInv'
<1> SUFFICES ASSUME NEW ptr \in DOMAIN owned, HeapInv, kfree(ptr) PROVE HeapInv'
  OBVIOUS
<1>1. g_heap_ready' = TRUE /\ Good(heap, owned)
  BY LiveReady DEF kfree
<1>2. Good(heap', owned')
  BY <1>1, FreeGood DEF kfree
<1> QED BY <1>1, <1>2, GoodInvNext

\* A caller's writes within its allocation reach no header.
LEMMA WritesKeep == \A ptr \in DOMAIN owned : HeapInv /\ CallerWrites(ptr) => HeapInv'
<1> SUFFICES ASSUME NEW ptr \in DOMAIN owned, HeapInv, CallerWrites(ptr) PROVE HeapInv'
  OBVIOUS
<1>1. g_heap_ready' = TRUE /\ Good(heap, owned)
  BY LiveReady DEF CallerWrites
<1>2. PICK b \in DOMAIN heap : b = payload_block(ptr) /\ ptr = block_payload(b)
  BY <1>1, PayloadInverse DEF Good, Addr
<1>3. owned[ptr] \in Nat /\ owned[ptr] <= heap[b].size - header_size
  BY <1>1, <1>2 DEF Good
<1>4. heap' = heap /\ owned' = owned
  BY <1>1, <1>2, <1>3, StoreInside DEF Good, CallerWrites
<1> QED BY <1>1, <1>4, GoodInvNext

\* krealloc keeps the invariant when it stays in place, moves, frees or fails.
LEMMA KreallocKeeps == \A ptr \in DOMAIN owned \cup {NULL}, size \in Requests :
                          HeapInv /\ krealloc(ptr, size) => HeapInv'
<1> SUFFICES ASSUME NEW ptr \in DOMAIN owned \cup {NULL}, NEW size \in Requests,
                    HeapInv, krealloc(ptr, size)
             PROVE  HeapInv'
  OBVIOUS
<1>1. CASE ptr = NULL /\ kmalloc(size)
  BY <1>1, KmallocKeeps
<1>2. CASE ptr # NULL /\ size = 0 /\ kfree(ptr)
  BY <1>2, KfreeKeeps
<1>3. CASE ptr # NULL /\ size # 0 /\ UNCHANGED g_heap_ready
  <2>0. size \in Nat /\ size <= SIZE_T - 128 /\ ptr \in DOMAIN owned
        /\ g_heap_ready' = TRUE /\ Good(heap, owned)
    BY <1>3, HeapAssumption, LiveReady
  <2>1. PICK b \in DOMAIN heap :
             b = payload_block(ptr) /\ ptr = block_payload(b) /\ ~heap[b].free
    BY <2>0, PayloadInverse DEF Good, Addr
  <2>2. PICK old_size : old_size = heap[b].size - header_size
    OBVIOUS
  <2>3. old_size \in Nat
    <3>1. Linked(heap)
      BY <2>0 DEF Good
    <3>2. heap[b].size \in Nat /\ heap[b].size >= 32
      BY <3>1, LinkedBlock
    <3> QED BY <3>2, <2>2, HeaderSize
  <2>4. CASE size <= old_size /\ owned' = With(owned, ptr, size) /\ heap' = heap
    <3>1. /\ DOMAIN owned' = DOMAIN owned /\ owned'[ptr] = size
          /\ \A q \in DOMAIN owned : q # ptr => owned'[q] = owned[q]
          /\ owned' = [q \in DOMAIN owned' |-> owned'[q]]
      BY <2>0, <2>4 DEF With
    <3>2. owned' \in [DOMAIN owned' -> Nat \ {0}]
      BY <1>3, <2>0, <3>1 DEF Good
    <3>3. Good(heap', owned')
      BY <2>0, <2>1, <2>2, <2>4, <3>1, <3>2 DEF Good
    <3> QED BY <2>0, <3>3, GoodInvNext
  <2>5. CASE /\ size > old_size
             /\ \E new \in Blocks :
                  /\ FirstFit(heap, size, new)
                  /\ heap' = Release(Store(Take(heap, new, size),
                                           block_payload(new), old_size), ptr)
                  /\ owned' = With(Without(owned, ptr), block_payload(new), size)
    <3>1. PICK new \in DOMAIN heap :
                  /\ Fits(heap, new, size)
                  /\ heap' = Release(Store(Take(heap, new, size),
                                           block_payload(new), old_size), ptr)
                  /\ owned' = With(Without(owned, ptr), block_payload(new), size)
      BY <2>5 DEF FirstFit, Blocks
    <3>2. PICK t, o : t = Take(heap, new, size) /\ o = With(owned, block_payload(new), size)
      OBVIOUS
    <3>3. /\ Good(t, o) /\ new \in DOMAIN t /\ size <= t[new].size - header_size
          /\ block_payload(new) \notin DOMAIN owned
      BY <1>3, <2>0, <3>1, <3>2, AllocGood
    <3>4. t[new].size - header_size \in Int
      BY <3>3, LinkedBlock, HeaderSize DEF Good
    <3>5. Store(t, block_payload(new), old_size) = t
      <4>1. old_size <= t[new].size - header_size
        BY <2>0, <2>3, <2>5, <3>3, <3>4
      <4> QED BY <2>3, <3>3, <4>1, StoreInside DEF Good
    <3>6. ptr \in DOMAIN o /\ owned' = Without(o, ptr)
      <4>1. ptr # block_payload(new)
        BY <2>0, <3>3
      <4> QED BY <2>0, <3>1, <3>2, <4>1 DEF With, Without
    <3>7. Good(heap', owned')
      BY <3>1, <3>2, <3>3, <3>5, <3>6, FreeGood
    <3> QED BY <2>0, <3>7, GoodInvNext
  <2>6. CASE UNCHANGED <<heap, owned>>
    BY <2>0, <2>6, GoodInvNext
  <2> QED BY <1>3, <2>1, <2>2, <2>4, <2>5, <2>6 DEF krealloc
<1> QED BY <1>1, <1>2, <1>3 DEF krealloc

\* HeapInv holds in every state of the kernel heap: the list tiles g_heap, its
\* links agree both ways, no two neighbours are free, no header is overwritten,
\* and the blocks in use are those of the live pointers.
THEOREM HeapCorrect == Spec => []HeapInv
<1>1. Init => HeapInv
  BY GoodInv DEF Init
<1>2. HeapInv /\ [Next]_vars => HeapInv'
  <2> SUFFICES ASSUME HeapInv, [Next]_vars PROVE HeapInv'
    OBVIOUS
  <2>1. CASE HeapInit
    BY <2>1, HeapInitKeeps
  <2>2. CASE \E size \in Requests : kmalloc(size)
    BY <2>2, KmallocKeeps
  <2>3. CASE \E count \in Counts, size \in Requests : kcalloc(count, size)
    BY <2>3, KcallocKeeps
  <2>4. CASE \E ptr \in DOMAIN owned : kfree(ptr) \/ CallerWrites(ptr)
    BY <2>4, KfreeKeeps, WritesKeep
  <2>5. CASE \E ptr \in DOMAIN owned \cup {NULL}, size \in Requests : krealloc(ptr, size)
    BY <2>5, KreallocKeeps
  <2>6. CASE UNCHANGED vars
    BY <2>6 DEF vars, HeapInv, TypeOK, Tiled, LinksMirror, Coalesced,
       HeadersIntact, OwnedExactly, Blocks
  <2> QED BY <2>1, <2>2, <2>3, <2>4, <2>5, <2>6 DEF Next
<1> QED BY <1>1, <1>2, PTL DEF Spec

\* Every header of the list lies in g_heap with its fields in range, and no live
\* pointer of kmalloc owns zero bytes.
THEOREM HeapBlocks == Spec => []TypeOK
<1>1. HeapInv => TypeOK
  BY DEF HeapInv
<1> QED BY <1>1, HeapCorrect, PTL

\* However blocks are split and merged, the list has every byte of g_heap in one
\* block.
THEOREM HeapTiled == Spec => []Tiled
<1>1. HeapInv => Tiled
  BY DEF HeapInv
<1> QED BY <1>1, HeapCorrect, PTL

\* The next and prev that split_block and the merges of kfree write agree.
THEOREM HeapLinked == Spec => []LinksMirror
<1>1. HeapInv => LinksMirror
  BY DEF HeapInv
<1> QED BY <1>1, HeapCorrect, PTL

\* kfree and krealloc leave no two free blocks side by side.
THEOREM HeapMerged == Spec => []Coalesced
<1>1. HeapInv => Coalesced
  BY DEF HeapInv
<1> QED BY <1>1, HeapCorrect, PTL

\* No caller that writes only into what it was given reaches the header of a block.
THEOREM HeapHeaders == Spec => []HeadersIntact
<1>1. HeapInv => HeadersIntact
  BY DEF HeapInv
<1> QED BY <1>1, HeapCorrect, PTL

\* The blocks in use are those of the pointers that callers hold: none leaks, and
\* none is handed out twice.
THEOREM HeapOwned == Spec => []OwnedExactly
<1>1. HeapInv => OwnedExactly
  BY DEF HeapInv
<1> QED BY <1>1, HeapCorrect, PTL

\* Once every pointer has been given back to kfree, g_heap is one free block.
THEOREM HeapWhole == Spec => []WholeWhenIdle
<1>1. HeapInv => WholeWhenIdle
  <2> SUFFICES ASSUME HeapInv, g_heap_ready, DOMAIN owned = {} PROVE heap = fresh_heap
    BY DEF WholeWhenIdle
  <2>0. Good(heap, owned) /\ Linked(heap) /\ HEAP_SIZE \in Nat /\ NULL = -1
    BY GoodInv, HeapAssumption DEF Good, NULL
  <2>1. \A b \in DOMAIN heap : heap[b].free
    BY <2>0 DEF Good
  <2>2. 0 \in DOMAIN heap
    BY <2>0 DEF Linked, WellTiled, g_heap_head
  <2>3. heap[0].next = NULL
    BY <2>0, <2>1, <2>2, NextBlock DEF Good, Merged
  <2>4. heap[0].size = HEAP_SIZE /\ End(heap, 0) = HEAP_SIZE
    <3>1. /\ End(heap, 0) = 0 + heap[0].size /\ heap[0].size \in Nat
          /\ End(heap, 0) <= HEAP_SIZE /\ End(heap, 0) > 0
          /\ End(heap, 0) < HEAP_SIZE => heap[0].next = End(heap, 0)
      BY <2>0, <2>2, LinkedBlock
    <3> QED BY <2>0, <2>3, <3>1
  <2>5. DOMAIN heap = {0}
    <3>1. ASSUME NEW c \in DOMAIN heap, c # 0 PROVE FALSE
      <4>1. c \in 0 .. HEAP_SIZE - 1
        BY <2>0 DEF Linked, Addr
      <4>2. End(heap, 0) <= c
        BY <2>0, <2>2, <3>1, <4>1, LinkedApart
      <4> QED BY <2>0, <2>4, <4>1, <4>2
    <3> QED BY <3>1, <2>2
  <2>6. heap[0].prev = NULL
    BY <2>0, <2>2, <2>5, LinkedBlock
  <2>7. heap[0] = [magic |-> TRUE, size |-> HEAP_SIZE, free |-> TRUE,
                   next |-> NULL, prev |-> NULL]
    <3>1. heap[0] \in Header /\ heap[0].magic /\ heap[0].free
      BY <2>0, <2>1, <2>2, LinkedBlock
    <3>2. heap[0].magic = TRUE /\ heap[0].free = TRUE
      BY <3>1 DEF Header
    <3>3. heap[0] = [magic |-> heap[0].magic, size |-> heap[0].size, free |-> heap[0].free,
                     next |-> heap[0].next, prev |-> heap[0].prev]
      BY <3>1 DEF Header
    <3> QED BY <3>2, <3>3, <2>3, <2>4, <2>6
  <2>8. heap = [a \in DOMAIN heap |-> heap[a]]
    BY <2>0 DEF Linked
  <2> QED BY <2>5, <2>7, <2>8 DEF fresh_heap, g_heap_head
<1> QED BY <1>1, HeapCorrect, PTL

\* Regions of live pointers lie in g_heap and apart from each other.
LEMMA GoodApart ==
  ASSUME NEW h, NEW o, Good(h, o), NEW p \in DOMAIN o
  PROVE  /\ o[p] \in Nat
         /\ p .. p + o[p] - 1 \subseteq Addr
         /\ \A q \in DOMAIN o : q # p =>
               (p .. p + o[p] - 1) \cap (q .. q + o[q] - 1) = {}
<1>0. Linked(h) /\ HEAP_SIZE \in Nat
  BY HeapAssumption DEF Good
<1>1. ASSUME NEW q \in DOMAIN o
      PROVE  /\ payload_block(q) \in DOMAIN h /\ payload_block(q) \in Nat
             /\ q = payload_block(q) + 32 /\ o[q] \in Nat
             /\ q + o[q] <= End(h, payload_block(q))
             /\ End(h, payload_block(q)) \in Nat
             /\ End(h, payload_block(q)) <= HEAP_SIZE
  <2>1. /\ payload_block(q) \in DOMAIN h /\ q \in Int /\ o[q] \in Nat
        /\ o[q] <= h[payload_block(q)].size - header_size
    BY <1>0 DEF Good, Addr
  <2>2. q = payload_block(q) + 32
    BY <2>1, HeaderSize DEF payload_block
  <2>3. /\ payload_block(q) \in Nat /\ h[payload_block(q)].size \in Nat
        /\ End(h, payload_block(q)) = payload_block(q) + h[payload_block(q)].size
        /\ End(h, payload_block(q)) \in Nat /\ End(h, payload_block(q)) <= HEAP_SIZE
    BY <1>0, <2>1, LinkedBlock
  <2> QED BY <2>1, <2>2, <2>3, HeaderSize
<1>2. p .. p + o[p] - 1 \subseteq Addr
  <2>1. p \in Nat /\ o[p] \in Nat /\ p + o[p] <= HEAP_SIZE
    BY <1>0, <1>1
  <2> QED BY <1>0, <2>1 DEF Addr
<1>3. ASSUME NEW q \in DOMAIN o, q # p
      PROVE  (p .. p + o[p] - 1) \cap (q .. q + o[q] - 1) = {}
  <2>1. PICK b, c : b = payload_block(p) /\ c = payload_block(q)
    OBVIOUS
  <2>2. /\ b \in DOMAIN h /\ c \in DOMAIN h /\ b \in Nat /\ c \in Nat
        /\ p = b + 32 /\ q = c + 32 /\ o[p] \in Nat /\ o[q] \in Nat
        /\ p + o[p] <= End(h, b) /\ q + o[q] <= End(h, c)
        /\ End(h, b) \in Nat /\ End(h, c) \in Nat
    BY <1>1, <2>1
  <2>3. (b < c => End(h, b) <= c) /\ (c < b => End(h, c) <= b)
    BY <1>0, <2>2, LinkedApart
  <2>4. b < c \/ c < b
    BY <2>2, <1>3
  <2> QED BY <2>2, <2>3, <2>4
<1> QED BY <1>1, <1>2, <1>3

\* A new pointer p beside the old ones is a step Alloc of the promise.
LEMMA AllocPromised ==
  ASSUME NEW p, p \notin DOMAIN owned, NEW s,
         owned' = With(owned, p, s), NEW h, Good(h, owned')
  PROVE  Promise!Alloc
<1>1. /\ DOMAIN owned' = DOMAIN owned \cup {p}
      /\ \A q \in DOMAIN owned : owned'[q] = owned[q] /\ q # p
  BY DEF With
<1>2. /\ owned'[p] \in Nat
      /\ p .. p + owned'[p] - 1 \subseteq Addr
      /\ \A q \in DOMAIN owned' : q # p =>
            (p .. p + owned'[p] - 1) \cap (q .. q + owned'[q] - 1) = {}
  BY <1>1, GoodApart
<1>3. Promise!Apart(p, owned'[p], DOMAIN owned)
  BY <1>1, <1>2 DEF Promise!Apart, Promise!Bytes
<1>4. Promise!KeepAllBut({})
  BY <1>1 DEF Promise!KeepAllBut
<1> QED BY <1>1, <1>3, <1>4 DEF Promise!Alloc

\* Giving up a payload is a Free of the abstract allocator.
LEMMA FreePromised ==
  ASSUME NEW p \in DOMAIN owned, owned' = Without(owned, p)
  PROVE  Promise!Free
BY DEF Without, Promise!Free, Promise!KeepAllBut

\* Keeping a payload under a new size is a Resize of the abstract allocator.
LEMMA ResizePromised ==
  ASSUME NEW p \in DOMAIN owned, NEW s,
         owned' = With(owned, p, s), NEW h, Good(h, owned')
  PROVE  Promise!Resize
<1>1. /\ DOMAIN owned' = DOMAIN owned
      /\ \A q \in DOMAIN owned : q # p => owned'[q] = owned[q]
  BY DEF With
<1>2. /\ owned'[p] \in Nat
      /\ p .. p + owned'[p] - 1 \subseteq Addr
      /\ \A q \in DOMAIN owned' : q # p =>
            (p .. p + owned'[p] - 1) \cap (q .. q + owned'[q] - 1) = {}
  BY <1>1, GoodApart
<1>3. Promise!Apart(p, owned'[p], DOMAIN owned \ {p})
  BY <1>1, <1>2 DEF Promise!Apart, Promise!Bytes
<1>4. Promise!KeepAllBut({p})
  BY <1>1 DEF Promise!KeepAllBut
<1> QED BY <1>1, <1>3, <1>4 DEF Promise!Resize

\* While krealloc copies, the old region and the new one are both in use.
LEMMA MovePromised ==
  ASSUME NEW p \in DOMAIN owned, NEW q, q \notin DOMAIN owned, NEW s,
         owned' = With(Without(owned, p), q, s),
         NEW o, o = With(owned, q, s), NEW h, Good(h, o)
  PROVE  Promise!Move
<1>1. /\ DOMAIN owned' = (DOMAIN owned \ {p}) \cup {q}
      /\ owned'[q] = s
      /\ \A r \in DOMAIN owned \ {p} : owned'[r] = owned[r]
  BY DEF With, Without
<1>2. /\ DOMAIN o = DOMAIN owned \cup {q} /\ o[q] = s
      /\ \A r \in DOMAIN owned : o[r] = owned[r] /\ r # q
  BY DEF With
<1>3. /\ s \in Nat
      /\ q .. q + s - 1 \subseteq Addr
      /\ \A r \in DOMAIN o : r # q =>
            (q .. q + s - 1) \cap (r .. r + o[r] - 1) = {}
  BY <1>2, GoodApart
<1>4. Promise!Apart(q, owned'[q], DOMAIN owned)
  BY <1>1, <1>2, <1>3 DEF Promise!Apart, Promise!Bytes
<1>5. Promise!KeepAllBut({p})
  BY <1>1 DEF Promise!KeepAllBut
<1> QED BY <1>1, <1>4, <1>5 DEF Promise!Move

\* kmalloc is an Alloc of the abstract allocator, or changes nothing that is owned.
LEMMA KmallocPromised ==
  \A size \in Requests : HeapInv /\ kmalloc(size) => [Promise!Next]_owned
<1> SUFFICES ASSUME NEW size \in Requests, HeapInv, kmalloc(size), owned' # owned
             PROVE  Promise!Alloc
  BY DEF Promise!Next
<1>0. size \in Nat /\ size # 0 /\ size <= SIZE_T - 128
  BY HeapAssumption DEF kmalloc
<1>1. PICK h : h = heap_init(heap) /\ Good(h, owned)
  BY HeapInitGood
<1>2. PICK block \in DOMAIN h :
           /\ Fits(h, block, size)
           /\ owned' = With(owned, block_payload(block), size)
  BY <1>1 DEF kmalloc, FirstFit
<1>3. PICK t : t = Take(h, block, size)
  OBVIOUS
<1>4. Good(t, owned') /\ block_payload(block) \notin DOMAIN owned
  BY <1>0, <1>1, <1>2, <1>3, AllocGood
<1> QED BY <1>2, <1>4, AllocPromised

\* So is kcalloc.
LEMMA KcallocPromised ==
  \A count \in Counts, size \in Requests :
     HeapInv /\ kcalloc(count, size) => [Promise!Next]_owned
<1> SUFFICES ASSUME NEW count \in Counts, NEW size \in Requests, HeapInv,
                    kcalloc(count, size), owned' # owned
             PROVE  Promise!Alloc
  BY DEF Promise!Next
<1>0. PICK total : total = (count * size) % SIZE_T
  OBVIOUS
<1>1. total \in Nat /\ total # 0 /\ total <= SIZE_T - 128
  BY <1>0, ProductFits DEF kcalloc
<1>2. PICK h : h = heap_init(heap) /\ Good(h, owned)
  BY HeapInitGood
<1>3. PICK block \in DOMAIN h :
           /\ Fits(h, block, total)
           /\ owned' = With(owned, block_payload(block), total)
  BY <1>0, <1>2 DEF kcalloc, FirstFit
<1>4. PICK t : t = Take(h, block, total)
  OBVIOUS
<1>5. Good(t, owned') /\ block_payload(block) \notin DOMAIN owned
  BY <1>1, <1>2, <1>3, <1>4, AllocGood
<1> QED BY <1>3, <1>5, AllocPromised

\* krealloc is an Alloc, Free, Resize or Move of the abstract allocator, or a stutter.
LEMMA KreallocPromised ==
  \A ptr \in DOMAIN owned \cup {NULL}, size \in Requests :
     HeapInv /\ krealloc(ptr, size) => [Promise!Next]_owned
<1> SUFFICES ASSUME NEW ptr \in DOMAIN owned \cup {NULL}, NEW size \in Requests,
                    HeapInv, krealloc(ptr, size)
             PROVE  [Promise!Next]_owned
  OBVIOUS
<1>1. CASE ptr = NULL /\ kmalloc(size)
  BY <1>1, KmallocPromised
<1>2. CASE ptr # NULL /\ size = 0 /\ kfree(ptr)
  <2>1. Promise!Free
    BY <1>2, FreePromised DEF kfree
  <2> QED BY <2>1 DEF Promise!Next
<1>3. CASE ptr # NULL /\ size # 0 /\ UNCHANGED g_heap_ready
  <2>0. size \in Nat /\ size <= SIZE_T - 128 /\ ptr \in DOMAIN owned
        /\ Good(heap, owned)
    BY <1>3, HeapAssumption, LiveReady
  <2>1. CASE owned' = With(owned, ptr, size) /\ heap' = heap
    <3>1. HeapInv'
      BY KreallocKeeps
    <3>2. g_heap_ready = TRUE /\ g_heap_ready' = TRUE
      BY <1>3, <2>0, LiveReady
    <3>3. Good(heap', owned')
      BY <3>1, <3>2 DEF HeapInv, TypeOK, Tiled, LinksMirror, Coalesced, HeadersIntact,
         OwnedExactly, Good, Linked, Blocks
    <3>4. Promise!Resize
      BY <2>0, <2>1, <3>3, ResizePromised
    <3> QED BY <3>4 DEF Promise!Next
  <2>2. CASE \E new \in Blocks :
                  /\ FirstFit(heap, size, new)
                  /\ owned' = With(Without(owned, ptr), block_payload(new), size)
    <3>1. PICK new \in DOMAIN heap :
                  /\ Fits(heap, new, size)
                  /\ owned' = With(Without(owned, ptr), block_payload(new), size)
      BY <2>2 DEF FirstFit, Blocks
    <3>2. PICK t, o : t = Take(heap, new, size) /\ o = With(owned, block_payload(new), size)
      OBVIOUS
    <3>3. Good(t, o) /\ block_payload(new) \notin DOMAIN owned
      BY <1>3, <2>0, <3>1, <3>2, AllocGood
    <3>4. Promise!Move
      BY <2>0, <3>1, <3>2, <3>3, MovePromised
    <3> QED BY <3>4 DEF Promise!Next
  <2>3. CASE UNCHANGED owned
    BY <2>3
  <2> QED BY <1>3, <2>1, <2>2, <2>3 DEF krealloc
<1> QED BY <1>1, <1>2, <1>3 DEF krealloc

\* The kernel heap implements the allocator: every region that kmalloc, kcalloc
\* and krealloc hand out lies in g_heap, has the bytes asked for and shares none
\* with a region that is still in use.
THEOREM HeapImplementsAllocator == Spec => AllocatorSpec
<1>1. Init => Promise!Init
  BY DEF Init, Promise!Init
<1>2. HeapInv /\ [Next]_vars => [Promise!Next]_owned
  <2> SUFFICES ASSUME HeapInv, [Next]_vars PROVE [Promise!Next]_owned
    OBVIOUS
  <2>1. CASE HeapInit
    BY <2>1 DEF HeapInit
  <2>2. CASE \E size \in Requests : kmalloc(size)
    BY <2>2, KmallocPromised
  <2>3. CASE \E count \in Counts, size \in Requests : kcalloc(count, size)
    BY <2>3, KcallocPromised
  <2>4. CASE \E ptr \in DOMAIN owned : kfree(ptr)
    <3>1. Promise!Free
      BY <2>4, FreePromised DEF kfree
    <3> QED BY <3>1 DEF Promise!Next
  <2>5. CASE \E ptr \in DOMAIN owned : CallerWrites(ptr)
    BY <2>5 DEF CallerWrites
  <2>6. CASE \E ptr \in DOMAIN owned \cup {NULL}, size \in Requests : krealloc(ptr, size)
    BY <2>6, KreallocPromised
  <2>7. CASE UNCHANGED vars
    BY <2>7 DEF vars
  <2> QED BY <2>1, <2>2, <2>3, <2>4, <2>5, <2>6, <2>7 DEF Next
<1> QED BY <1>1, <1>2, HeapCorrect, PTL DEF Spec, AllocatorSpec, Promise!Spec
=============================================================================
