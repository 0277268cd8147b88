---------------------------- MODULE MCShellLine ----------------------------
(***************************************************************************)
(* Lines of up to three characters, a history of two, and a row that is    *)
(* long enough for the longest line behind one prompt and too short behind *)
(* the other.                                                              *)
(*                                                                         *)
(* Shown leaves the screen out of the states in which the line is not      *)
(* plain.  On a screen of one row that is sound: no property of the run    *)
(* looks at it then, and the newline of the next Enter scrolls it away.    *)
(***************************************************************************)
EXTENDS ShellLine

CONSTANTS a, b

MCChars == {a, b}
MCPrompts == {<<62>>, <<47, 62>>}
MCOutputs == {<< >>}
Swap == Permutations(MCChars)
Shown == <<input_buffer, pos, len, g_history, g_history_idx, smashed, home, origin, plain,
           IF plain THEN scr ELSE << >> >>
=============================================================================
