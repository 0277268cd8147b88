----------------------------- MODULE Scancodes -----------------------------
(***************************************************************************)
(* The decoding half of keyboard_handler (arch/keyboard.c): what one byte  *)
(* read from port 0x60 does to the flags of the driver, and the character, *)
(* if any, that it pushes.                                                 *)
(*                                                                         *)
(* A key is a pair <<extended, make code>>.  The six g_..._down flags of   *)
(* the modifiers are the set mods of the modifiers that are down.          *)
(***************************************************************************)
EXTENDS Integers, Sequences

LSHIFT == <<FALSE, 42>>
RSHIFT == <<FALSE, 54>>
LCTRL  == <<FALSE, 29>>
RCTRL  == <<TRUE, 29>>
LALT   == <<FALSE, 56>>
RALT   == <<TRUE, 56>>
UP     == <<TRUE, 72>>
DOWN   == <<TRUE, 80>>
LEFT   == <<TRUE, 75>>
RIGHT  == <<TRUE, 77>>

Modifiers == {LSHIFT, RSHIFT, LCTRL, RCTRL, LALT, RALT}

Arrows == {UP, DOWN, LEFT, RIGHT}

E0 == 224

scan_code_map_normal ==
  << 0, 0, 49, 50, 51, 52, 53, 54, 55, 56, 57, 48, 45, 61, 8,
     9, 113, 119, 101, 114, 116, 121, 117, 105, 111, 112, 91, 93, 10,
     0, 97, 115, 100, 102, 103, 104, 106, 107, 108, 59, 39, 96, 0, 92,
     122, 120, 99, 118, 98, 110, 109, 44, 46, 47, 0, 42, 0, 32,
     0, 0, 0, 0, 0, 0, 0, 0, 0, 0, 0, 0, 0,
     55, 56, 57, 45, 52, 53, 54, 43, 49, 50, 51, 48, 46 >>

scan_code_map_shift ==
  << 0, 0, 33, 64, 35, 36, 37, 94, 38, 42, 40, 41, 95, 43, 8,
     9, 81, 87, 69, 82, 84, 89, 85, 73, 79, 80, 123, 125, 10,
     0, 65, 83, 68, 70, 71, 72, 74, 75, 76, 58, 34, 126, 0, 124,
     90, 88, 67, 86, 66, 78, 77, 60, 62, 63, 0, 42, 0, 32,
     0, 0, 0, 0, 0, 0, 0, 0, 0, 0, 0, 0, 0,
     55, 56, 57, 45, 52, 53, 54, 43, 49, 50, 51, 48, 46 >>

\* Both tables are static arrays of 128: the entries not listed are 0.
Lookup(map, code) == IF code < Len(map) THEN map[code + 1] ELSE 0

\* The character of a plain key with the modifiers in mods down, 0 for none.
Character(code, mods) ==
    LET shift == mods \cap {LSHIFT, RSHIFT} # {}
        ctrl  == mods \cap {LCTRL, RCTRL} # {}
        c     == Lookup(IF shift THEN scan_code_map_shift ELSE scan_code_map_normal, code)
    IN  CASE ctrl /\ c \in 97 .. 122 -> c - 96
          [] ctrl /\ c \in 65 .. 90  -> c - 64
          [] OTHER                   -> c

\* What an arrow key pushes: 0x11 to 0x14.
Arrow(key) ==
    CASE key = UP   -> 17
      [] key = DOWN -> 18
      [] key = LEFT -> 19
      [] OTHER      -> 20

\* The driver's flags; typed are the characters pushed, oldest first.
NoKeys == [is_e0 |-> FALSE, mods |-> {}, key_down |-> {}, typed |-> << >>]

Push(st, c) == [st EXCEPT !.typed = IF c = 0 THEN @ ELSE Append(@, c)]

\* A decoder that forgets the prefix when the key behind it is no modifier.
handle_unprefixed(st, b) ==
    LET key == <<st.is_e0, b % 128>>
    IN  CASE b = E0 -> [st EXCEPT !.is_e0 = TRUE]
          [] b # E0 /\ key \in Modifiers ->
                [st EXCEPT !.is_e0 = FALSE,
                           !.mods = IF b < 128 THEN @ \cup {key} ELSE @ \ {key}]
          [] b # E0 /\ key \notin Modifiers /\ st.is_e0 ->
                IF b < 128 /\ key \in Arrows THEN Push(st, Arrow(key)) ELSE st
          [] OTHER -> IF b >= 128
                      THEN [st EXCEPT !.key_down = @ \ {b - 128}]
                      ELSE Push([st EXCEPT !.key_down = @ \cup {b}], Character(b, st.mods))

\* One byte through keyboard_handler.
handle(st, b) ==
    LET key == <<st.is_e0, b % 128>>
        end == [st EXCEPT !.is_e0 = FALSE]
    IN  CASE b = E0 -> [st EXCEPT !.is_e0 = TRUE]
          [] b # E0 /\ key \in Modifiers ->
                [end EXCEPT !.mods = IF b < 128 THEN @ \cup {key} ELSE @ \ {key}]
          [] b # E0 /\ key \notin Modifiers /\ st.is_e0 ->
                IF b < 128 /\ key \in Arrows THEN Push(end, Arrow(key)) ELSE end
          [] OTHER -> IF b >= 128
                      THEN [st EXCEPT !.key_down = @ \ {b - 128}]
                      ELSE IF b \in st.key_down THEN st
                      ELSE Push([st EXCEPT !.key_down = @ \cup {b}], Character(b, st.mods))
=============================================================================
