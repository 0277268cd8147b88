------------------------------- MODULE MCDisk -------------------------------
(* Reads of one, two and three sectors, the last more than a command can ask *)
(* for, and of a sector behind those that the registers can name.            *)
EXTENDS Disk

MCRequests == {[lba |-> 5, count |-> 1], [lba |-> 7, count |-> 2], [lba |-> 6, count |-> 3],
               [lba |-> 21, count |-> 1]}
=============================================================================
