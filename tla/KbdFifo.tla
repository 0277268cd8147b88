------------------------------ MODULE KbdFifo ------------------------------
(***************************************************************************)
(* What the keyboard buffer promises: a character that is typed is kept    *)
(* unless Capacity of them are already waiting, characters come out in the *)
(* order in which they were typed, none twice, and a reader that finds     *)
(* nothing is told so.                                                     *)
(*                                                                         *)
(* typed is the input: it changes with every character that is typed, so   *)
(* that one that is typed and not kept is a step of its own, Refuse, which *)
(* only a full queue allows.                                               *)
(*                                                                         *)
(* A read has two visible points: Take decides what it returns, Return     *)
(* gives it to the caller.  Nothing is the answer of a read that found no  *)
(* character.  KbdBuffer is shown to implement this.                       *)
(***************************************************************************)
EXTENDS Naturals, Sequences

CONSTANTS Chars, Capacity, Nothing

VARIABLES typed,    \* the character typed last, and the parity of their number
          queue,    \* the characters waiting
          result    \* <<>>, or <<r>> between Take and Return of a read of r

vars == <<typed, queue, result>>

Init == typed = <<Nothing, 0>> /\ queue = << >> /\ result = << >>

Arrive(c) ==
    /\ typed' = <<c, 1 - typed[2]>>
    /\ Len(queue) < Capacity
    /\ queue' = Append(queue, c)
    /\ UNCHANGED result

Refuse(c) ==
    /\ typed' = <<c, 1 - typed[2]>>
    /\ Len(queue) = Capacity
    /\ UNCHANGED <<queue, result>>

TakeNothing ==
    /\ result = << >>
    /\ queue = << >>
    /\ result' = <<Nothing>>
    /\ UNCHANGED <<typed, queue>>

Take ==
    /\ result = << >>
    /\ queue # << >>
    /\ result' = <<Head(queue)>>
    /\ queue' = Tail(queue)
    /\ UNCHANGED typed

Return ==
    /\ result # << >>
    /\ result' = << >>
    /\ UNCHANGED <<typed, queue>>

Next == (\E c \in Chars : Arrive(c) \/ Refuse(c)) \/ TakeNothing \/ Take \/ Return

Spec == Init /\ [][Next]_vars
=============================================================================
