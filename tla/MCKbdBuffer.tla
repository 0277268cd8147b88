---------------------------- MODULE MCKbdBuffer ----------------------------
(* KbdBuffer with a buffer that fills and wraps after a few characters. *)
EXTENDS KbdBuffer

MCChars == {97, 98}
=============================================================================
