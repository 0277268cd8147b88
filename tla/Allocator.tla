----------------------------- MODULE Allocator -----------------------------
(***************************************************************************)
(* What a memory allocator promises its callers: every live pointer owns   *)
(* the bytes it was asked for, inside the arena and apart from the bytes   *)
(* of every other live pointer.  KernelHeap is shown to implement it.      *)
(*                                                                         *)
(* The actions constrain the pair owned, owned' instead of enumerating     *)
(* pointers and sizes: they are only ever evaluated on steps of the        *)
(* implementation.                                                         *)
(***************************************************************************)
EXTENDS Integers

CONSTANT Arena        \* the byte offsets the allocator manages

VARIABLE owned        \* live pointers, each with the bytes asked for

Bytes(p, n) == p .. p + n - 1

\* Bytes p .. p+n-1 lie in the arena and in nobody else's region.
Apart(p, n, others) ==
    /\ n \in Nat
    /\ Bytes(p, n) \subseteq Arena
    /\ \A q \in others : Bytes(p, n) \cap Bytes(q, owned[q]) = {}

Init == owned = [q \in {} |-> 0]

\* Live pointers outside S are neither freed nor resized.
KeepAllBut(S) ==
    \A q \in DOMAIN owned \ S : q \in DOMAIN owned' /\ owned'[q] = owned[q]

Alloc == \E p \in DOMAIN owned' \ DOMAIN owned :
    /\ DOMAIN owned' = DOMAIN owned \cup {p}
    /\ KeepAllBut({})
    /\ Apart(p, owned'[p], DOMAIN owned)

Free == \E p \in DOMAIN owned :
    /\ DOMAIN owned' = DOMAIN owned \ {p}
    /\ KeepAllBut({p})

Resize == \E p \in DOMAIN owned :
    /\ DOMAIN owned' = DOMAIN owned
    /\ KeepAllBut({p})
    /\ Apart(p, owned'[p], DOMAIN owned \ {p})

\* The contents move: old and new region are both in use while they do.
Move == \E p \in DOMAIN owned, q \in DOMAIN owned' \ DOMAIN owned :
    /\ DOMAIN owned' = (DOMAIN owned \ {p}) \cup {q}
    /\ KeepAllBut({p})
    /\ Apart(q, owned'[q], DOMAIN owned)

Next == Alloc \/ Free \/ Resize \/ Move

Spec == Init /\ [][Next]_owned
=============================================================================
