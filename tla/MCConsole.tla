----------------------------- MODULE MCConsole -----------------------------
(* The letter J, whose Ctrl form is the newline that ends a SYS_READ, a plain *)
(* and an extended modifier, and an arrow key.                                *)
EXTENDS Console

MCKeys == {<<FALSE, 36>>, LSHIFT, RCTRL, UP}
=============================================================================
