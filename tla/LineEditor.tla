----------------------------- MODULE LineEditor -----------------------------
(***************************************************************************)
(* What a line editor promises: a text, a cursor in it, and keys that      *)
(* insert at the cursor, erase before it and move it.  A line is known     *)
(* until something else is written to it; once it is not, nothing is said  *)
(* of it until it is finished.  ShellLine is shown to implement this.      *)
(***************************************************************************)
EXTENDS Naturals, Sequences, SequencesExt

CONSTANTS Chars, MaxLen

VARIABLES known, text, cursor

vars == <<known, text, cursor>>

Blank == known' = TRUE /\ text' = << >> /\ cursor' = 0

Init == known = TRUE /\ text = << >> /\ cursor = 0

Insert(c) ==
    /\ known
    /\ Len(text) < MaxLen
    /\ text' = InsertAt(text, cursor + 1, c)
    /\ cursor' = cursor + 1
    /\ UNCHANGED known

Erase ==
    /\ known
    /\ cursor > 0
    /\ text' = RemoveAt(text, cursor)
    /\ cursor' = cursor - 1
    /\ UNCHANGED known

Move ==
    /\ known
    /\ cursor' \in {cursor - 1, cursor + 1} \cap 0 .. Len(text)
    /\ UNCHANGED <<known, text>>

Lose == known' = FALSE /\ text' = << >> /\ cursor' = 0

Next == (\E c \in Chars : Insert(c)) \/ Erase \/ Move \/ Lose \/ Blank

Spec == Init /\ [][Next]_vars
=============================================================================
