---------------------------- MODULE MCKernelHeap ----------------------------
(* KernelHeap on a heap of a few blocks. *)
EXTENDS KernelHeap

MCRequests == {0, 1, 33, 80}

MCCounts == {2, 40}
=============================================================================
