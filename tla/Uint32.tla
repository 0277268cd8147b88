------------------------------- MODULE Uint32 -------------------------------
(***************************************************************************)
(* The width of uint32_t, in which the driver counts and the file system   *)
(* computes sizes and addresses.                                           *)
(***************************************************************************)
EXTENDS Integers

CONSTANT WORD      \* the number of values of uint32_t: 2^32

ASSUME WordAssumption == WORD \in Nat \ {0}
=============================================================================
