--------------------------- MODULE CommandReader ---------------------------
(***************************************************************************)
(* What the reader of a command line promises: a text with a cursor, keys  *)
(* that edit it, keys that replace it by an older or a newer line, and a   *)
(* record of the last Depth lines entered.  read_line of user/shell.c is   *)
(* shown to implement this (UserShell).                                    *)
(***************************************************************************)
EXTENDS Naturals, Sequences, SequencesExt

CONSTANTS Chars, MaxLen, Depth

VARIABLES text, cursor, lines,
          chosen      \* the line shown, Len(lines) for a new one

vars == <<text, cursor, lines, chosen>>

Show(t) == text' = t /\ cursor' = Len(t)

Init == text = << >> /\ cursor = 0 /\ lines = << >> /\ chosen = 0

Insert(c) ==
    /\ Len(text) < MaxLen
    /\ text' = InsertAt(text, cursor + 1, c)
    /\ cursor' = cursor + 1
    /\ UNCHANGED <<lines, chosen>>

Erase ==
    /\ cursor > 0
    /\ text' = RemoveAt(text, cursor)
    /\ cursor' = cursor - 1
    /\ UNCHANGED <<lines, chosen>>

Left == cursor > 0 /\ cursor' = cursor - 1 /\ UNCHANGED <<text, lines, chosen>>

End == cursor' = Len(text) /\ UNCHANGED <<text, lines, chosen>>

Older ==
    /\ chosen > 0
    /\ chosen' = chosen - 1
    /\ Show(lines[chosen])
    /\ UNCHANGED lines

Newer ==
    /\ chosen < Len(lines)
    /\ chosen' = chosen + 1
    /\ Show(IF chosen' = Len(lines) THEN << >> ELSE lines[chosen' + 1])
    /\ UNCHANGED lines

\* The line is entered.  An empty one, and a repetition, are not recorded.
Submit ==
    LET news == text # << >> /\ (lines = << >> \/ Last(lines) # text)
        all  == IF news THEN Append(lines, text) ELSE lines
    IN  /\ lines' = IF Len(all) > Depth THEN Tail(all) ELSE all
        /\ chosen' = Len(lines')
        /\ Show(<< >>)

Next == (\E c \in Chars : Insert(c)) \/ Erase \/ Left \/ End \/ Older \/ Newer \/ Submit

Spec == Init /\ [][Next]_vars
=============================================================================
