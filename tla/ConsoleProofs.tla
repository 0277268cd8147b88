--------------------------- MODULE ConsoleProofs ---------------------------
(***************************************************************************)
(* Proofs about the way of a keystroke, for every keyboard and every size  *)
(* of the controller's and of the driver's buffer: no byte is forgotten,   *)
(* and what the driver decodes is what the user typed.                     *)
(***************************************************************************)
EXTENDS Console, TLAPS

Decoder == INSTANCE SequenceFacts WITH op <- handle

\* The driver after the bytes of q.
After(st, q) == Decoder!Fold(st, q)

\* The flags of the driver.
Flags == [is_e0 : BOOLEAN, mods : SUBSET Modifiers, key_down : SUBSET (0 .. 127),
          typed : Seq(1 .. 255)]

\* What inb(0x60) returns.
Bytes == 0 .. 255

\* Bytes are numbers.
LEMMA ByteNat == ASSUME NEW b \in Bytes PROVE b \in Nat
BY DEF Bytes

\* The tables of characters hold no more than 7 bits.
LEMMA Tables ==
  /\ Len(scan_code_map_normal) = 84 /\ Len(scan_code_map_shift) = 84
  /\ \A i \in 1 .. 84 : scan_code_map_normal[i] \in 0 .. 126 /\ scan_code_map_shift[i] \in 0 .. 126
<1>1. Len(scan_code_map_normal) = 84 /\ \A i \in 1 .. 84 : scan_code_map_normal[i] \in 0 .. 126
  BY DEF scan_code_map_normal
<1>2. Len(scan_code_map_shift) = 84 /\ \A i \in 1 .. 84 : scan_code_map_shift[i] \in 0 .. 126
  BY DEF scan_code_map_shift
<1> QED BY <1>1, <1>2

\* A character is a byte.
LEMMA CharacterType ==
  ASSUME NEW code \in Nat, NEW mods
  PROVE  Character(code, mods) \in 0 .. 126
<1> DEFINE shift == mods \cap {LSHIFT, RSHIFT} # {}
           c == Lookup(IF shift THEN scan_code_map_shift ELSE scan_code_map_normal, code)
<1>1. c \in 0 .. 126
  <2>1. Lookup(scan_code_map_shift, code) \in 0 .. 126
    <3> DEFINE map == scan_code_map_shift
    <3>1. Len(map) = 84 /\ \A i \in 1 .. 84 : map[i] \in 0 .. 126
      BY Tables
    <3> HIDE DEF map
    <3>2. CASE code < 84
      <4>1. code + 1 \in 1 .. 84
        BY <3>2
      <4>2. Lookup(map, code) = map[code + 1]
        BY <3>1, <3>2 DEF Lookup
      <4> QED BY <3>1, <4>1, <4>2 DEF map
    <3>3. CASE ~(code < 84)
      <4>1. Lookup(map, code) = 0
        BY <3>1, <3>3 DEF Lookup
      <4> QED BY <4>1 DEF map
    <3> QED BY <3>2, <3>3
  <2>2. Lookup(scan_code_map_normal, code) \in 0 .. 126
    <3> DEFINE map == scan_code_map_normal
    <3>1. Len(map) = 84 /\ \A i \in 1 .. 84 : map[i] \in 0 .. 126
      BY Tables
    <3> HIDE DEF map
    <3>2. CASE code < 84
      <4>1. code + 1 \in 1 .. 84
        BY <3>2
      <4>2. Lookup(map, code) = map[code + 1]
        BY <3>1, <3>2 DEF Lookup
      <4> QED BY <3>1, <4>1, <4>2 DEF map
    <3>3. CASE ~(code < 84)
      <4>1. Lookup(map, code) = 0
        BY <3>1, <3>3 DEF Lookup
      <4> QED BY <4>1 DEF map
    <3> QED BY <3>2, <3>3
  <2> QED BY <2>1, <2>2
<1> HIDE DEF c
<1>2. \/ Character(code, mods) = c
      \/ c \in 97 .. 122 /\ Character(code, mods) = c - 96
      \/ c \in 65 .. 90 /\ Character(code, mods) = c - 64
  BY DEF Character, c
<1> QED BY <1>1, <1>2

\* Flags that agree in every field are the same.
LEMMA SameFlags ==
  ASSUME NEW s \in Flags, NEW t \in Flags,
         s.is_e0 <=> t.is_e0, s.mods = t.mods, s.key_down = t.key_down, s.typed = t.typed
  PROVE  s = t
<1>1. s.is_e0 = t.is_e0
  BY DEF Flags
<1> QED BY <1>1 DEF Flags

\* Assignments to one of the flags.
LEMMA SetMods ==
  ASSUME NEW st \in Flags, NEW x \in SUBSET Modifiers
  PROVE  LET r == [st EXCEPT !.mods = x]
         IN  /\ r \in Flags /\ (r.is_e0 <=> st.is_e0) /\ r.mods = x
             /\ r.key_down = st.key_down /\ r.typed = st.typed
BY DEF Flags

\* The flags of keyboard_handler with another set of keys held down.
LEMMA SetDown ==
  ASSUME NEW st \in Flags, NEW x \in SUBSET (0 .. 127)
  PROVE  LET r == [st EXCEPT !.key_down = x]
         IN  /\ r \in Flags /\ (r.is_e0 <=> st.is_e0) /\ r.mods = st.mods
             /\ r.key_down = x /\ r.typed = st.typed
BY DEF Flags

\* The flags with another text in the buffer.
LEMMA SetTyped ==
  ASSUME NEW st \in Flags, NEW x \in Seq(1 .. 255)
  PROVE  LET r == [st EXCEPT !.typed = x]
         IN  /\ r \in Flags /\ (r.is_e0 <=> st.is_e0) /\ r.mods = st.mods
             /\ r.key_down = st.key_down /\ r.typed = x
BY DEF Flags

\* What pushing a character does.
LEMMA PushTyped ==
  ASSUME NEW st \in Flags, NEW c \in 0 .. 255
  PROVE  /\ Push(st, c) \in Flags /\ (Push(st, c).is_e0 <=> st.is_e0)
         /\ Push(st, c).mods = st.mods /\ Push(st, c).key_down = st.key_down
         /\ Push(st, c).typed = IF c = 0 THEN st.typed ELSE Append(st.typed, c)
<1> DEFINE x == IF c = 0 THEN st.typed ELSE Append(st.typed, c)
<1>1. Push(st, c) = [st EXCEPT !.typed = x]
  BY DEF Push
<1>2. x \in Seq(1 .. 255)
  <2>1. st.typed \in Seq(1 .. 255)
    BY DEF Flags
  <2>2. c # 0 => c \in 1 .. 255
    OBVIOUS
  <2> DEFINE B == 1 .. 255
  <2> HIDE DEF B
  <2>3. CASE c = 0
    BY <2>1, <2>3
  <2>4. CASE c # 0
    <3>1. st.typed \in Seq(B) /\ c \in B
      BY <2>1, <2>2, <2>4 DEF B
    <3>2. Append(st.typed, c) \in Seq(B)
      BY <3>1
    <3> QED BY <2>4, <3>2 DEF B
  <2> QED BY <2>3, <2>4
<1> HIDE DEF x
<1>3. /\ Push(st, c) \in Flags /\ (Push(st, c).is_e0 <=> st.is_e0)
      /\ Push(st, c).mods = st.mods /\ Push(st, c).key_down = st.key_down /\ Push(st, c).typed = x
  BY <1>1, <1>2, SetTyped
<1> QED BY <1>3 DEF x

\* What keyboard_handler does with a byte, case by case: the prefix, a modifier,
\* an extended key, and a plain key that is released, repeated or pressed.
LEMMA HandlePrefix ==
  ASSUME NEW st \in Flags
  PROVE  /\ handle(st, E0) \in Flags /\ handle(st, E0).is_e0
         /\ handle(st, E0).mods = st.mods /\ handle(st, E0).key_down = st.key_down
         /\ handle(st, E0).typed = st.typed
<1>1. handle(st, E0) = [st EXCEPT !.is_e0 = TRUE]
  BY DEF handle
<1> QED BY <1>1 DEF Flags

\* A byte that is not the prefix ends the prefix, and changes nothing else by that.
LEMMA EndPrefix ==
  ASSUME NEW st \in Flags
  PROVE  LET end == [st EXCEPT !.is_e0 = FALSE]
         IN  /\ end \in Flags /\ ~end.is_e0 /\ end.mods = st.mods
             /\ end.key_down = st.key_down /\ end.typed = st.typed
BY DEF Flags

\* The code of Shift, Ctrl or Alt sets or clears that modifier and nothing else.
LEMMA HandleModifier ==
  ASSUME NEW st \in Flags, NEW b \in Bytes, b # E0, <<st.is_e0, b % 128>> \in Modifiers
  PROVE  /\ handle(st, b) \in Flags /\ ~handle(st, b).is_e0
         /\ b < 128 => handle(st, b).mods = st.mods \cup {<<st.is_e0, b % 128>>}
         /\ ~(b < 128) => handle(st, b).mods = st.mods \ {<<st.is_e0, b % 128>>}
         /\ handle(st, b).key_down = st.key_down /\ handle(st, b).typed = st.typed
<1> DEFINE key == <<st.is_e0, b % 128>>
<1> DEFINE end == [st EXCEPT !.is_e0 = FALSE]
<1>1. /\ end \in Flags /\ ~end.is_e0 /\ end.mods = st.mods
      /\ end.key_down = st.key_down /\ end.typed = st.typed
  BY EndPrefix
<1> DEFINE x == IF b < 128 THEN st.mods \cup {key} ELSE st.mods \ {key}
<1>2. handle(st, b) = [end EXCEPT !.mods = IF b < 128 THEN @ \cup {key} ELSE @ \ {key}]
  BY DEF handle
<1> HIDE DEF end
<1>3. handle(st, b) = [end EXCEPT !.mods = x]
  BY <1>1, <1>2
<1>4. x \in SUBSET Modifiers
  BY DEF Flags
<1> HIDE DEF x
<1>5. /\ handle(st, b) \in Flags /\ (handle(st, b).is_e0 <=> end.is_e0) /\ handle(st, b).mods = x
      /\ handle(st, b).key_down = end.key_down /\ handle(st, b).typed = end.typed
  BY <1>1, <1>3, <1>4, SetMods
<1> QED BY <1>1, <1>5 DEF x

\* A prefixed code that is no modifier types an arrow key when pressed, or nothing.
LEMMA HandleExtended ==
  ASSUME NEW st \in Flags, NEW b, b # E0, NEW key, key = <<st.is_e0, b % 128>>,
         key \notin Modifiers, st.is_e0
  PROVE  /\ handle(st, b) \in Flags /\ ~handle(st, b).is_e0
         /\ handle(st, b).mods = st.mods /\ handle(st, b).key_down = st.key_down
         /\ handle(st, b).typed = IF b < 128 /\ key \in Arrows THEN Append(st.typed, Arrow(key))
                                  ELSE st.typed
<1> DEFINE end == [st EXCEPT !.is_e0 = FALSE]
<1>1. /\ end \in Flags /\ ~end.is_e0 /\ end.mods = st.mods
      /\ end.key_down = st.key_down /\ end.typed = st.typed
  BY EndPrefix
<1>2. handle(st, b) = IF b < 128 /\ key \in Arrows THEN Push(end, Arrow(key)) ELSE end
  BY DEF handle
<1>3. Arrow(key) \in 0 .. 255 /\ Arrow(key) # 0
  BY DEF Arrow
<1> HIDE DEF end
<1> DEFINE c == Arrow(key)
<1>4. c \in 0 .. 255 /\ c # 0
  BY <1>3
<1> HIDE DEF c
<1>5. /\ Push(end, c) \in Flags /\ (Push(end, c).is_e0 <=> end.is_e0)
      /\ Push(end, c).mods = end.mods /\ Push(end, c).key_down = end.key_down
      /\ Push(end, c).typed = Append(end.typed, c)
  BY <1>1, <1>4, PushTyped
<1>6. CASE b < 128 /\ key \in Arrows
  <2>1. handle(st, b) = Push(end, c)
    BY <1>2, <1>6 DEF c
  <2> QED BY <1>1, <1>5, <1>6, <2>1, ZenonT(60) DEF c
<1>7. CASE ~(b < 128 /\ key \in Arrows)
  <2>1. handle(st, b) = end
    BY <1>2, <1>7
  <2> QED BY <1>1, <1>7, <2>1
<1> QED BY <1>6, <1>7

\* A plain code types its character when its key goes down, and not while it is held.
LEMMA HandlePlain ==
  ASSUME NEW st \in Flags, NEW b \in Bytes, b # E0, <<st.is_e0, b % 128>> \notin Modifiers, ~st.is_e0
  PROVE  /\ handle(st, b) \in Flags /\ ~handle(st, b).is_e0 /\ handle(st, b).mods = st.mods
         /\ handle(st, b).key_down = IF b >= 128 THEN st.key_down \ {b - 128} ELSE st.key_down \cup {b}
         /\ handle(st, b).typed =
               IF b < 128 /\ b \notin st.key_down /\ Character(b, st.mods) # 0
               THEN Append(st.typed, Character(b, st.mods)) ELSE st.typed
<1> DEFINE c == Character(b, st.mods)
<1>0. c \in 0 .. 255 /\ b \in Nat /\ st.key_down \in SUBSET (0 .. 127)
  <2>1. b \in Nat
    BY DEF Bytes
  <2>2. c \in 0 .. 126
    BY <2>1, CharacterType
  <2> HIDE DEF c
  <2>3. c \in 0 .. 255
    BY <2>2
  <2>4. st.key_down \in SUBSET (0 .. 127)
    BY DEF Flags
  <2> QED BY <2>1, <2>3, <2>4
<1>1. CASE b >= 128
  <2> DEFINE x == st.key_down \ {b - 128}
  <2>1. handle(st, b) = [st EXCEPT !.key_down = x]
    BY <1>1 DEF handle
  <2>2. x \in SUBSET (0 .. 127)
    BY <1>0
  <2>3. ~(b < 128)
    BY <1>0, <1>1
  <2> HIDE DEF x
  <2>4. /\ handle(st, b) \in Flags /\ (handle(st, b).is_e0 <=> st.is_e0)
        /\ handle(st, b).mods = st.mods /\ handle(st, b).key_down = x
        /\ handle(st, b).typed = st.typed
    BY <2>1, <2>2, SetDown
  <2> QED BY <1>1, <2>3, <2>4 DEF x
<1>2. CASE b < 128 /\ b \in st.key_down
  <2>1. handle(st, b) = st
    BY <1>0, <1>2 DEF handle
  <2>2. ~(b >= 128) /\ st.key_down = st.key_down \cup {b}
    BY <1>0, <1>2
  <2> QED BY <1>2, <2>1, <2>2
<1>3. CASE b < 128 /\ b \notin st.key_down
  <2> DEFINE x == st.key_down \cup {b}
             more == [st EXCEPT !.key_down = x]
  <2>1. handle(st, b) = Push(more, c)
    BY <1>0, <1>3 DEF handle
  <2>2. x \in SUBSET (0 .. 127) /\ ~(b >= 128)
    BY <1>0, <1>3
  <2> HIDE DEF x, c
  <2>3. /\ more \in Flags /\ (more.is_e0 <=> st.is_e0) /\ more.mods = st.mods
        /\ more.key_down = x /\ more.typed = st.typed
    BY <2>2, SetDown
  <2> HIDE DEF more
  <2>4. /\ Push(more, c) \in Flags /\ (Push(more, c).is_e0 <=> more.is_e0)
        /\ Push(more, c).mods = more.mods /\ Push(more, c).key_down = more.key_down
        /\ Push(more, c).typed = IF c = 0 THEN more.typed ELSE Append(more.typed, c)
    BY <1>0, <2>3, PushTyped
  <2> QED BY <1>3, <2>1, <2>2, <2>3, <2>4 DEF c, x
<1> QED BY <1>0, <1>1, <1>2, <1>3

\* keyboard_handler keeps its flags and its buffer well formed, whatever byte comes.
LEMMA HandleType ==
  ASSUME NEW st \in Flags, NEW b \in Bytes
  PROVE  handle(st, b) \in Flags
<1> DEFINE key == <<st.is_e0, b % 128>>
<1>1. CASE b = E0
  BY <1>1, HandlePrefix
<1>2. CASE b # E0 /\ key \in Modifiers
  BY <1>2, HandleModifier
<1>3. CASE b # E0 /\ key \notin Modifiers /\ st.is_e0
  BY <1>3, HandleExtended
<1>4. CASE b # E0 /\ key \notin Modifiers /\ ~st.is_e0
  BY <1>4, HandlePlain
<1> QED BY <1>1, <1>2, <1>3, <1>4

\* The driver with the characters of p typed before.
Before(p, st) == [st EXCEPT !.typed = p \o st.typed]

\* What was in the buffer before a byte is handled stays in front, untouched.
LEMMA BeforeFlags ==
  ASSUME NEW st \in Flags, NEW p \in Seq(1 .. 255)
  PROVE  /\ Before(p, st) \in Flags /\ (Before(p, st).is_e0 <=> st.is_e0)
         /\ Before(p, st).mods = st.mods /\ Before(p, st).key_down = st.key_down
         /\ Before(p, st).typed = p \o st.typed
<1>1. p \o st.typed \in Seq(1 .. 255)
  <2> DEFINE B == 1 .. 255
  <2>1. st.typed \in Seq(B) /\ p \in Seq(B)
    BY DEF Flags
  <2> HIDE DEF B
  <2>2. p \o st.typed \in Seq(B)
    BY <2>1
  <2> QED BY <2>2 DEF B
<1> DEFINE x == p \o st.typed
<1> HIDE DEF x
<1>2. Before(p, st) = [st EXCEPT !.typed = x]
  BY DEF Before, x
<1>3. x \in Seq(1 .. 255)
  BY <1>1 DEF x
<1>4. /\ Before(p, st) \in Flags /\ (Before(p, st).is_e0 <=> st.is_e0)
      /\ Before(p, st).mods = st.mods /\ Before(p, st).key_down = st.key_down
      /\ Before(p, st).typed = x
  BY <1>2, <1>3, SetTyped
<1> QED BY <1>4 DEF x

\* What was typed before does not matter to the driver.
LEMMA HandleBefore ==
  ASSUME NEW st \in Flags, NEW p \in Seq(1 .. 255), NEW b \in Bytes
  PROVE  handle(Before(p, st), b) = Before(p, handle(st, b))
<1> DEFINE su == Before(p, st)
           r == handle(st, b)
           ru == handle(su, b)
           key == <<st.is_e0, b % 128>>
<1>1. /\ su \in Flags /\ (su.is_e0 <=> st.is_e0) /\ su.mods = st.mods
      /\ su.key_down = st.key_down /\ su.typed = p \o st.typed
  BY BeforeFlags
<1>2. r \in Flags
  BY HandleType
<1>3. /\ Before(p, r) \in Flags /\ (Before(p, r).is_e0 <=> r.is_e0) /\ Before(p, r).mods = r.mods
      /\ Before(p, r).key_down = r.key_down /\ Before(p, r).typed = p \o r.typed
  BY <1>2, BeforeFlags
<1> HIDE DEF su
<1>4. ru \in Flags
  BY <1>1, HandleType
<1>5. su.is_e0 = st.is_e0
  BY <1>1 DEF Flags
<1>6. \A c \in 1 .. 255 : Append(p \o st.typed, c) = p \o Append(st.typed, c)
  <2> DEFINE B == 1 .. 255
  <2>1. st.typed \in Seq(B) /\ p \in Seq(B)
    BY DEF Flags
  <2> HIDE DEF B
  <2>2. \A c \in B : Append(p \o st.typed, c) = p \o Append(st.typed, c)
    BY <2>1, SMTT(30)
  <2> QED BY <2>2 DEF B
<1>7. /\ ru.is_e0 <=> r.is_e0
      /\ ru.mods = r.mods /\ ru.key_down = r.key_down /\ ru.typed = p \o r.typed
  <2>1. CASE b = E0
    <3>1. r.is_e0 /\ r.mods = st.mods /\ r.key_down = st.key_down /\ r.typed = st.typed
      BY <2>1, HandlePrefix
    <3>2. ru.is_e0 /\ ru.mods = su.mods /\ ru.key_down = su.key_down /\ ru.typed = su.typed
      BY <1>1, <2>1, HandlePrefix
    <3> QED BY <1>1, <3>1, <3>2
  <2>2. CASE b # E0 /\ key \in Modifiers
    <3>1. /\ ~r.is_e0
          /\ b < 128 => r.mods = st.mods \cup {key}
          /\ ~(b < 128) => r.mods = st.mods \ {key}
          /\ r.key_down = st.key_down /\ r.typed = st.typed
      BY <2>2, HandleModifier
    <3>2. /\ ~ru.is_e0
          /\ b < 128 => ru.mods = su.mods \cup {key}
          /\ ~(b < 128) => ru.mods = su.mods \ {key}
          /\ ru.key_down = su.key_down /\ ru.typed = su.typed
      <4> DEFINE kk == <<su.is_e0, b % 128>>
      <4>1. key = kk
        BY <1>5
      <4>2. su \in Flags /\ b # E0 /\ kk \in Modifiers
        BY <1>1, <2>2, <4>1
      <4>3. /\ ~ru.is_e0
            /\ b < 128 => ru.mods = su.mods \cup {kk}
            /\ ~(b < 128) => ru.mods = su.mods \ {kk}
            /\ ru.key_down = su.key_down /\ ru.typed = su.typed
        BY <4>2, HandleModifier
      <4> HIDE DEF key, ru, kk
      <4> QED BY <4>1, <4>3
    <3> QED BY <1>1, <3>1, <3>2, ZenonT(60)
  <2>3. CASE b # E0 /\ key \notin Modifiers /\ st.is_e0
    <3>1. /\ ~r.is_e0 /\ r.mods = st.mods /\ r.key_down = st.key_down
          /\ r.typed = IF b < 128 /\ key \in Arrows THEN Append(st.typed, Arrow(key)) ELSE st.typed
      BY <2>3, HandleExtended
    <3>2. /\ ~ru.is_e0 /\ ru.mods = su.mods /\ ru.key_down = su.key_down
          /\ ru.typed = IF b < 128 /\ key \in Arrows THEN Append(su.typed, Arrow(key)) ELSE su.typed
      BY <1>1, <1>5, <2>3, HandleExtended, ZenonT(60)
    <3>3. Arrow(key) \in 1 .. 255
      BY DEF Arrow
    <3> QED BY <1>1, <1>6, <3>1, <3>2, <3>3, ZenonT(60)
  <2>4. CASE b # E0 /\ key \notin Modifiers /\ ~st.is_e0
    <3> DEFINE c == Character(b, st.mods)
    <3>1. /\ ~r.is_e0 /\ r.mods = st.mods
          /\ r.key_down = IF b >= 128 THEN st.key_down \ {b - 128} ELSE st.key_down \cup {b}
          /\ r.typed = IF b < 128 /\ b \notin st.key_down /\ c # 0 THEN Append(st.typed, c) ELSE st.typed
      BY <2>4, HandlePlain
    <3>2. /\ ~ru.is_e0 /\ ru.mods = su.mods
          /\ ru.key_down = IF b >= 128 THEN su.key_down \ {b - 128} ELSE su.key_down \cup {b}
          /\ ru.typed = IF b < 128 /\ b \notin su.key_down /\ Character(b, su.mods) # 0
                        THEN Append(su.typed, Character(b, su.mods)) ELSE su.typed
      BY <1>1, <1>5, <2>4, HandlePlain
    <3>3. c # 0 => c \in 1 .. 255
      <4>0. b \in Nat
        BY DEF Bytes
      <4>1. c \in 0 .. 126
        BY <4>0, CharacterType
      <4> HIDE DEF c
      <4> QED BY <4>1
    <3>4. ru.typed = p \o r.typed
      <4>1. CASE b < 128 /\ b \notin st.key_down /\ c # 0
        <5>1. r.typed = Append(st.typed, c) /\ ru.typed = Append(p \o st.typed, c)
          BY <1>1, <3>1, <3>2, <4>1
        <5> HIDE DEF r, ru, c
        <5> QED BY <1>6, <3>3, <4>1, <5>1
      <4>2. CASE ~(b < 128 /\ b \notin st.key_down /\ c # 0)
        BY <1>1, <3>1, <3>2, <4>2
      <4> QED BY <4>1, <4>2
    <3> HIDE DEF r, ru, c
    <3> QED BY <1>1, <3>1, <3>2, <3>4, ZenonT(60)
  <2> QED BY <2>1, <2>2, <2>3, <2>4
<1> DEFINE rb == Before(p, r)
<1>8. /\ rb \in Flags /\ (ru.is_e0 <=> rb.is_e0) /\ ru.mods = rb.mods
      /\ ru.key_down = rb.key_down /\ ru.typed = rb.typed
  BY <1>3, <1>7
<1> HIDE DEF r, ru, rb
<1>9. ru = rb
  BY <1>4, <1>8, SameFlags
<1> QED BY <1>9 DEF ru, rb, su, r

\* A sequence and the part of it before its last element.
LEMMA Fronts ==
  ASSUME NEW T, NEW n \in Nat, NEW q \in Seq(T), Len(q) = n + 1
  PROVE  /\ SubSeq(q, 1, n) \in Seq(T) /\ Len(SubSeq(q, 1, n)) = n /\ q[n + 1] \in T
         /\ q = Append(SubSeq(q, 1, n), q[n + 1])
OBVIOUS

\* Nor to what the driver does with many bytes.
LEMMA AfterBefore ==
  ASSUME NEW st \in Flags, NEW p \in Seq(1 .. 255), NEW q \in Seq(Bytes)
  PROVE  After(st, q) \in Flags /\ After(Before(p, st), q) = Before(p, After(st, q))
<1> DEFINE Good == {n \in Nat : \A s \in Seq(Bytes) : Len(s) = n =>
                       After(st, s) \in Flags /\ After(Before(p, st), s) = Before(p, After(st, s))}
<1>1. 0 \in Good
  <2> SUFFICES ASSUME NEW s \in Seq(Bytes), Len(s) = 0
               PROVE  After(st, s) \in Flags /\ After(Before(p, st), s) = Before(p, After(st, s))
    OBVIOUS
  <2>1. s = << >>
    OBVIOUS
  <2> QED BY <2>1, Decoder!FoldNone DEF After
<1>2. ASSUME NEW n \in Nat, n \in Good PROVE n + 1 \in Good
  <2> SUFFICES ASSUME NEW s \in Seq(Bytes), Len(s) = n + 1
               PROVE  After(st, s) \in Flags /\ After(Before(p, st), s) = Before(p, After(st, s))
    OBVIOUS
  <2> DEFINE f == SubSeq(s, 1, n)
             b == s[n + 1]
  <2>1. f \in Seq(Bytes) /\ Len(f) = n /\ b \in Bytes /\ s = Append(f, b)
    BY Fronts
  <2>2. After(st, f) \in Flags /\ After(Before(p, st), f) = Before(p, After(st, f))
    BY <1>2, <2>1
  <2> HIDE DEF f, b
  <2>3. After(st, s) = handle(After(st, f), b)
    BY <2>1, Decoder!FoldLast DEF After
  <2>4. After(Before(p, st), s) = handle(After(Before(p, st), f), b)
    BY <2>1, Decoder!FoldLast DEF After
  <2> QED BY <2>1, <2>2, <2>3, <2>4, HandleType, HandleBefore
<1>3. Len(q) \in Nat
  OBVIOUS
<1> HIDE DEF Good
<1>4. Len(q) \in Good
  BY <1>1, <1>2, <1>3, Decoder!NatSet
<1> QED BY <1>4 DEF Good
-----------------------------------------------------------------------------
\* The plain keys among the keys of ks.
Plain(ks) == {k[2] : k \in {j \in ks \ Modifiers : ~j[1]}}

\* The driver as the bytes still to be read leave it.
End == After([kbd EXCEPT !.typed = << >>], port)

\* DecodesTyping, its fold named.
LEMMA Decodes ==
  DecodesTyping <=> /\ ~End.is_e0 /\ End.mods = down \cap Modifiers
                    /\ End.key_down = Plain(down) /\ End.typed = owed
BY DEF DecodesTyping, Plain, End, After, FoldLeft, MapThenFoldSet, Max, Decoder!Fold,
       Decoder!Step, Decoder!Greatest

\* DecodesTyping in the next state, with its fold over the bytes as SequenceFacts names it.
LEMMA DecodesNext ==
  DecodesTyping' <=> /\ ~End'.is_e0 /\ End'.mods = down' \cap Modifiers
                     /\ End'.key_down = Plain(down') /\ End'.typed = owed'
BY DEF DecodesTyping, Plain, End, After, FoldLeft, MapThenFoldSet, Max, Decoder!Fold,
       Decoder!Step, Decoder!Greatest

\* A key is a flag and a make code; both of its codes are bytes and not the prefix.
LEMMA KeyCodes ==
  ASSUME NEW k \in Keys
  PROVE  /\ k[1] \in BOOLEAN /\ k[2] \in 0 .. 95 /\ k = <<k[1], k[2]>>
         /\ k[2] \in Bytes /\ k[2] + 128 \in Bytes /\ k[2] # E0 /\ k[2] + 128 # E0
         /\ k[2] % 128 = k[2] /\ (k[2] + 128) % 128 = k[2] /\ E0 \in Bytes
<1>1. k \in BOOLEAN \X (0 .. 95)
  BY ConsoleAssumption
<1>2. k[1] \in BOOLEAN /\ k[2] \in 0 .. 95 /\ k = <<k[1], k[2]>>
  BY <1>1
<1> DEFINE n == k[2]
<1>3. n \in 0 .. 95
  BY <1>2
<1> HIDE DEF n
<1>4. /\ n \in Bytes /\ n + 128 \in Bytes /\ n # E0 /\ n + 128 # E0
      /\ n % 128 = n /\ (n + 128) % 128 = n /\ E0 \in Bytes
  BY <1>3 DEF Bytes, E0
<1> QED BY <1>2, <1>4 DEF n

\* The arrow keys are extended and no modifiers.
LEMMA ArrowsExtended == \A j \in Arrows : j[1] /\ j \notin Modifiers
<1>1. \A b, n : <<b, n>>[1] = b /\ <<b, n>>[2] = n
  OBVIOUS
<1>2. ASSUME NEW j \in Arrows PROVE \E n \in {72, 75, 77, 80} : j = <<TRUE, n>>
  BY Zenon DEF Arrows, UP, DOWN, LEFT, RIGHT
<1>3. ASSUME NEW j \in Modifiers PROVE \E b, n : n \in {29, 42, 54, 56} /\ j = <<b, n>>
  BY Zenon DEF Modifiers, LSHIFT, RSHIFT, LCTRL, RCTRL, LALT, RALT
<1>4. ASSUME NEW j \in Arrows PROVE j[1] /\ j[2] \in {72, 75, 77, 80}
  <2>1. PICK n \in {72, 75, 77, 80} : j = <<TRUE, n>>
    BY <1>2
  <2>2. j[1] = TRUE /\ j[2] = n
    BY <1>1, <2>1, Zenon
  <2> QED BY <2>2
<1>5. ASSUME NEW j \in Modifiers PROVE j[2] \in {29, 42, 54, 56}
  <2>1. PICK b, n : n \in {29, 42, 54, 56} /\ j = <<b, n>>
    BY <1>3
  <2>2. j[2] = n
    BY <1>1, <2>1, Zenon
  <2> QED BY <2>1, <2>2
<1> QED BY <1>4, <1>5

\* What the codes of a key do to a driver whose flags are those of the keys in ks.
\* Going down, or repeating:
LEMMA DecodesMake ==
  ASSUME NEW st \in Flags, NEW k \in Keys, NEW ks \in SUBSET Keys, ~st.is_e0,
         st.mods = ks \cap Modifiers, st.key_down = Plain(ks)
  PROVE  LET r == IF k[1] THEN handle(handle(st, E0), k[2]) ELSE handle(st, k[2])
             c == Character(k[2], st.mods)
         IN  /\ ~r.is_e0 /\ r.mods = (ks \cup {k}) \cap Modifiers
             /\ r.key_down = Plain(ks \cup {k})
             /\ r.typed = CASE k \in Arrows -> Append(st.typed, Arrow(k))
                            [] k \notin Arrows /\ ~k[1] /\ k \notin Modifiers /\ k \notin ks /\ c # 0
                                 -> Append(st.typed, c)
                            [] OTHER -> st.typed
<1> DEFINE n == k[2]
           c == Character(n, st.mods)
<1>1. /\ k[1] \in BOOLEAN /\ n \in 0 .. 95 /\ k = <<k[1], n>> /\ n \in Bytes /\ n # E0
      /\ n % 128 = n /\ n < 128 /\ ~(n >= 128)
  BY KeyCodes
<1>2. \A j \in Arrows : j[1] /\ j \notin Modifiers
  BY ArrowsExtended
<1>3. CASE k[1]
  <2> DEFINE s1 == handle(st, E0)
             r == handle(s1, n)
  <2>1. s1 \in Flags /\ s1.is_e0 /\ s1.mods = st.mods /\ s1.key_down = st.key_down /\ s1.typed = st.typed
    BY HandlePrefix
  <2>2. k = <<s1.is_e0, n % 128>>
    <3>1. s1.is_e0 = k[1]
      BY <1>1, <1>3, <2>1 DEF Flags
    <3> QED BY <1>1, <3>1
  <2>3. Plain(ks \cup {k}) = Plain(ks)
    BY <1>3 DEF Plain
  <2> HIDE DEF s1, n
  <2>4. CASE k \in Modifiers
    <3>1. /\ ~r.is_e0 /\ r.mods = st.mods \cup {k} /\ r.key_down = st.key_down /\ r.typed = st.typed
      <4> DEFINE kk == <<s1.is_e0, n % 128>>
      <4>1. kk \in Modifiers /\ k = kk
        BY <2>2, <2>4
      <4>2. /\ ~r.is_e0 /\ r.mods = s1.mods \cup {kk} /\ r.key_down = s1.key_down
            /\ r.typed = s1.typed
        BY <1>1, <2>1, <4>1, HandleModifier, ZenonT(60)
      <4> HIDE DEF r, kk
      <4> QED BY <2>1, <4>1, <4>2
    <3>2. st.mods \cup {k} = (ks \cup {k}) \cap Modifiers
      BY <2>4
    <3> QED BY <1>2, <1>3, <2>3, <2>4, <3>1, <3>2 DEF s1, n
  <2>5. CASE k \notin Modifiers
    <3>1. /\ ~r.is_e0 /\ r.mods = st.mods /\ r.key_down = st.key_down
          /\ r.typed = IF k \in Arrows THEN Append(st.typed, Arrow(k)) ELSE st.typed
      BY <1>1, <2>1, <2>2, <2>5, HandleExtended, ZenonT(60)
    <3>2. st.mods = (ks \cup {k}) \cap Modifiers
      BY <2>5
    <3> QED BY <1>3, <2>3, <3>1, <3>2 DEF s1, n
  <2> QED BY <2>4, <2>5
<1>4. CASE ~k[1]
  <2> DEFINE r == handle(st, n)
  <2>1. k = <<st.is_e0, n % 128>> /\ k \notin Arrows
    <3>1. st.is_e0 = k[1]
      BY <1>1, <1>4 DEF Flags
    <3> QED BY <1>1, <1>2, <1>4, <3>1
  <2>2. CASE k \in Modifiers
    <3>1. Plain(ks \cup {k}) = Plain(ks)
      BY <2>2 DEF Plain
    <3>2. st.mods \cup {k} = (ks \cup {k}) \cap Modifiers
      BY <2>2
    <3> HIDE DEF n
    <3>3. /\ ~r.is_e0 /\ r.mods = st.mods \cup {k} /\ r.key_down = st.key_down /\ r.typed = st.typed
      BY <1>1, <2>1, <2>2, HandleModifier
    <3> QED BY <1>4, <2>1, <2>2, <3>1, <3>2, <3>3 DEF n
  <2>3. CASE k \notin Modifiers
    <3>1. Plain(ks \cup {k}) = Plain(ks) \cup {n}
      BY <1>4, <2>3 DEF Plain
    <3>2. st.mods = (ks \cup {k}) \cap Modifiers
      BY <2>3
    <3>3. n \in Plain(ks) <=> k \in ks
      <4>1. ASSUME NEW j \in ks \ Modifiers, ~j[1], j[2] = n PROVE k \in ks
        <5>1. j \in Keys
          OBVIOUS
        <5>2. j[1] \in BOOLEAN /\ j = <<j[1], j[2]>>
          BY <5>1, KeyCodes
        <5>3. j[1] = k[1]
          BY <1>1, <1>4, <4>1, <5>2
        <5> QED BY <1>1, <4>1, <5>2, <5>3
      <4> QED BY <1>4, <2>3, <4>1 DEF Plain
    <3> HIDE DEF n
    <3>4. /\ ~r.is_e0 /\ r.mods = st.mods /\ r.key_down = st.key_down \cup {n}
          /\ r.typed = IF n \notin st.key_down /\ c # 0 THEN Append(st.typed, c) ELSE st.typed
      BY <1>1, <2>1, <2>3, HandlePlain
    <3> QED BY <1>4, <2>1, <2>3, <3>1, <3>2, <3>3, <3>4 DEF n
  <2> QED BY <2>2, <2>3
<1> QED BY <1>1, <1>3, <1>4

\* Going up:
LEMMA DecodesBreak ==
  ASSUME NEW st \in Flags, NEW k \in Keys, NEW ks \in SUBSET Keys, ~st.is_e0,
         st.mods = ks \cap Modifiers, st.key_down = Plain(ks)
  PROVE  LET r == IF k[1] THEN handle(handle(st, E0), k[2] + 128) ELSE handle(st, k[2] + 128)
         IN  /\ ~r.is_e0 /\ r.mods = (ks \ {k}) \cap Modifiers
             /\ r.key_down = Plain(ks \ {k}) /\ r.typed = st.typed
<1> DEFINE n == k[2] + 128
<1>1. /\ k[1] \in BOOLEAN /\ k[2] \in 0 .. 95 /\ k = <<k[1], k[2]>> /\ n \in Bytes /\ n # E0
      /\ n % 128 = k[2] /\ ~(n < 128) /\ n >= 128 /\ n - 128 = k[2]
  BY KeyCodes
<1> HIDE DEF n
<1>3. CASE k[1]
  <2> DEFINE s1 == handle(st, E0)
             r == handle(s1, n)
             kk == <<s1.is_e0, n % 128>>
  <2>1. s1 \in Flags /\ s1.is_e0 /\ s1.mods = st.mods /\ s1.key_down = st.key_down /\ s1.typed = st.typed
    BY HandlePrefix
  <2>2. k = kk
    <3>1. s1.is_e0 = k[1]
      BY <1>1, <1>3, <2>1 DEF Flags
    <3> QED BY <1>1, <3>1
  <2>3. Plain(ks \ {k}) = Plain(ks)
    BY <1>3 DEF Plain
  <2> HIDE DEF s1
  <2>4. CASE k \in Modifiers
    <3>0. kk \in Modifiers
      BY <2>2, <2>4
    <3>1. /\ ~r.is_e0 /\ r.mods = s1.mods \ {kk} /\ r.key_down = s1.key_down /\ r.typed = s1.typed
      <4>1. s1 \in Flags /\ n \in Bytes /\ n # E0 /\ ~(n < 128)
        BY <1>1, <2>1
      <4> QED BY <4>1, <3>0, HandleModifier
    <3>2. st.mods \ {k} = (ks \ {k}) \cap Modifiers
      OBVIOUS
    <3> HIDE DEF r, kk
    <3>3. /\ ~r.is_e0 /\ r.mods = st.mods \ {k} /\ r.key_down = st.key_down /\ r.typed = st.typed
      BY <2>1, <2>2, <3>1
    <3> QED BY <1>3, <2>3, <3>2, <3>3 DEF s1, n, r
  <2>5. CASE k \notin Modifiers
    <3>1. /\ ~r.is_e0 /\ r.mods = st.mods /\ r.key_down = st.key_down /\ r.typed = st.typed
      <4>1. s1 \in Flags /\ s1.is_e0 /\ n \in Bytes /\ n # E0 /\ ~(n < 128) /\ kk \notin Modifiers
        BY <1>1, <2>1, <2>2, <2>5
      <4>2. /\ ~r.is_e0 /\ r.mods = s1.mods /\ r.key_down = s1.key_down
            /\ r.typed = s1.typed
        BY <4>1, HandleExtended
      <4> HIDE DEF r
      <4> QED BY <2>1, <4>2
    <3>2. st.mods = (ks \ {k}) \cap Modifiers
      BY <2>5
    <3> QED BY <1>3, <2>3, <3>1, <3>2 DEF s1, n
  <2> QED BY <2>4, <2>5
<1>4. CASE ~k[1]
  <2> DEFINE r == handle(st, n)
             kk == <<st.is_e0, n % 128>>
  <2>1. k = kk
    <3>1. st.is_e0 = k[1]
      BY <1>1, <1>4 DEF Flags
    <3> QED BY <1>1, <3>1
  <2>2. CASE k \in Modifiers
    <3>1. Plain(ks \ {k}) = Plain(ks)
      BY <2>2 DEF Plain
    <3>2. st.mods \ {k} = (ks \ {k}) \cap Modifiers
      OBVIOUS
    <3>0. kk \in Modifiers
      BY <2>1, <2>2
    <3>3. /\ ~r.is_e0 /\ r.mods = st.mods \ {kk} /\ r.key_down = st.key_down /\ r.typed = st.typed
      BY <1>1, <3>0, HandleModifier
    <3> HIDE DEF r, kk
    <3> QED BY <1>4, <2>1, <3>1, <3>2, <3>3 DEF n, r
  <2>3. CASE k \notin Modifiers
    <3>1. Plain(ks \ {k}) = Plain(ks) \ {k[2]}
      <4>1. ASSUME NEW j \in ks \ Modifiers, ~j[1], j[2] = k[2] PROVE j = k
        <5>1. j \in Keys
          OBVIOUS
        <5>2. j[1] \in BOOLEAN /\ j = <<j[1], j[2]>>
          BY <5>1, KeyCodes
        <5>3. j[1] = k[1]
          BY <1>1, <1>4, <4>1, <5>2
        <5> QED BY <1>1, <4>1, <5>2, <5>3
      <4> QED BY <4>1 DEF Plain
    <3>2. st.mods = (ks \ {k}) \cap Modifiers
      BY <2>3
    <3>4. /\ ~r.is_e0 /\ r.mods = st.mods /\ r.key_down = st.key_down \ {k[2]}
          /\ r.typed = st.typed
      BY <1>1, <2>1, <2>3, HandlePlain, ZenonT(60)
    <3> QED BY <1>4, <2>3, <3>1, <3>2, <3>4 DEF n
  <2> QED BY <2>2, <2>3
<1> QED BY <1>1, <1>3, <1>4 DEF n
-----------------------------------------------------------------------------
\* A round of SYS_READ has something left to read.
ReadsMore == at = "read" => left >= 1

\* The inductive invariant of the console.
ConsoleInv ==
    /\ TypeOK /\ NoByteForgotten /\ DecodesTyping
    /\ kbd \in Flags /\ ReadsMore

\* What the bytes that reach the controller do at the end of those before them.
LEMMA SendsBytes ==
  ASSUME kbd \in Flags, port \in Seq(Bytes), kbd' = kbd
  PROVE  /\ End \in Flags
         /\ \A b \in Bytes : port' = port \o <<b>> => End' = handle(End, b)
         /\ \A b, c \in Bytes : port' = port \o <<b, c>> => End' = handle(handle(End, b), c)
<1> DEFINE st == [kbd EXCEPT !.typed = << >>]
<1>1. st \in Flags /\ << >> \in Seq(1 .. 255)
  <2>1. << >> \in Seq(1 .. 255)
    OBVIOUS
  <2> QED BY <2>1, SetTyped
<1>2. End = After(st, port) /\ End' = After(st, port')
  BY DEF End
<1> HIDE DEF st
<1>3. End \in Flags
  BY <1>1, <1>2, AfterBefore
<1>4. ASSUME NEW b \in Bytes, port' = port \o <<b>> PROVE End' = handle(End, b)
  <2>1. port' = Append(port, b)
    BY <1>4
  <2> QED BY <1>2, <2>1, Decoder!FoldLast DEF After
<1>5. ASSUME NEW b \in Bytes, NEW c \in Bytes, port' = port \o <<b, c>>
      PROVE  End' = handle(handle(End, b), c)
  <2>1. port' = Append(Append(port, b), c) /\ Append(port, b) \in Seq(Bytes)
    BY <1>5
  <2>2. After(st, Append(port, b)) = handle(End, b)
    BY <1>2, Decoder!FoldLast DEF After
  <2>3. After(st, Append(Append(port, b), c)) = handle(After(st, Append(port, b)), c)
    BY <2>1, Decoder!FoldLast DEF After
  <2> QED BY <1>2, <2>1, <2>2, <2>3
<1> QED BY <1>3, <1>4, <1>5

\* The keyboard sends the codes of a key to the controller, which has room.
LEMMA SendKeeps ==
  ASSUME ConsoleInv, NEW bytes \in Seq(Bytes), bytes # << >>, Send(bytes)
  PROVE  /\ port' \in Seq(Bytes) /\ Len(port') <= PORT_SIZE /\ NoByteForgotten' /\ kbd' = kbd
         /\ isr' = isr /\ IF_' = IF_ /\ irq' = irq /\ at' = at /\ left' = left /\ irr' \in BOOLEAN
<1> USE DEF ConsoleInv, Send
<1>1. port \in Seq(Bytes) /\ irr \in BOOLEAN
  BY DEF TypeOK, Bytes
<1>2. port' \in Seq(Bytes) /\ Len(port') = Len(port) + Len(bytes)
  BY <1>1
<1>3. NoByteForgotten'
  BY DEF NoByteForgotten
<1>4. irr' \in BOOLEAN
  BY <1>1
<1> QED BY <1>2, <1>3, <1>4

\* What a key sends when pressed and when released.
LEMMA MakeBreak ==
  ASSUME NEW k \in Keys
  PROVE  /\ Make(k) \in Seq(Bytes) /\ Break(k) \in Seq(Bytes) /\ Make(k) # << >> /\ Break(k) # << >>
<1>1. k[2] \in Bytes /\ k[2] + 128 \in Bytes /\ E0 \in Bytes
  BY KeyCodes
<1> QED BY <1>1 DEF Make, Break

\* Pressing a key keeps the invariant: its make code waits, its meaning is owed.
LEMMA PressKeeps ==
  ASSUME ConsoleInv, NEW k \in Keys, Press(k)
  PROVE  ConsoleInv'
<1> USE DEF ConsoleInv
<1>1. /\ k \notin down /\ Send(Make(k)) /\ down' = down \cup {k} /\ repeats' = {k}
      /\ owed' = owed \o Meaning(k)
  BY DEF Press
<1>2. /\ port' \in Seq(Bytes) /\ Len(port') <= PORT_SIZE /\ NoByteForgotten' /\ kbd' = kbd
      /\ isr' = isr /\ IF_' = IF_ /\ irq' = irq /\ at' = at /\ left' = left /\ irr' \in BOOLEAN
  BY <1>1, MakeBreak, SendKeeps
<1>3. TypeOK' /\ kbd' \in Flags /\ ReadsMore'
  BY <1>1, <1>2 DEF TypeOK, ReadsMore, Bytes
<1>4. DecodesTyping'
  <2>1. /\ ~End.is_e0 /\ End.mods = down \cap Modifiers
        /\ End.key_down = Plain(down) /\ End.typed = owed
    BY Decodes
  <2>2. kbd \in Flags /\ port \in Seq(Bytes) /\ kbd' = kbd /\ down \in SUBSET Keys
    BY <1>2 DEF TypeOK, Bytes
  <2>3. /\ End \in Flags
        /\ End' = IF k[1] THEN handle(handle(End, E0), k[2]) ELSE handle(End, k[2])
    <3>1. k[2] \in Bytes /\ E0 \in Bytes
      BY KeyCodes
    <3>2. port' = port \o Make(k)
      BY <1>1 DEF Send
    <3> QED BY <2>2, <3>1, <3>2, SendsBytes DEF Make
  <2> DEFINE c == Character(k[2], End.mods)
  <2>4. /\ ~End'.is_e0 /\ End'.mods = (down \cup {k}) \cap Modifiers
        /\ End'.key_down = Plain(down \cup {k})
        /\ End'.typed = CASE k \in Arrows -> Append(End.typed, Arrow(k))
                          [] k \notin Arrows /\ ~k[1] /\ k \notin Modifiers /\ k \notin down /\ c # 0
                               -> Append(End.typed, c)
                          [] OTHER -> End.typed
    BY <2>1, <2>2, <2>3, DecodesMake
  <2>5. End'.typed = owed \o Meaning(k)
    <3> HIDE DEF c
    <3>0. owed \in Seq(1 .. 255)
      BY <2>1, <2>3 DEF Flags
    <3>1. CASE k \in Arrows
      BY <2>1, <2>4, <3>0, <3>1 DEF Meaning
    <3>2. CASE k \notin Arrows /\ (k[1] \/ k \in Modifiers)
      <4>1. Meaning(k) = << >>
        BY <3>2 DEF Meaning
      <4>2. End'.typed = owed
        BY <2>1, <2>4, <3>2
      <4> QED BY <3>0, <4>1, <4>2
    <3>3. CASE k \notin Arrows /\ ~k[1] /\ k \notin Modifiers
      <4>1. Meaning(k) = IF c = 0 THEN << >> ELSE <<c>>
        BY <2>1, <3>3 DEF Meaning, c
      <4>2. End'.typed = IF c = 0 THEN owed ELSE Append(owed, c)
        BY <1>1, <2>1, <2>4, <3>3
      <4> QED BY <3>0, <4>1, <4>2
    <3> QED BY <3>1, <3>2, <3>3
  <2> QED BY <1>1, <2>4, <2>5, DecodesNext
<1> QED BY <1>2, <1>3, <1>4

\* A key that repeats sends its make code again, which types only an arrow again.
LEMMA RepeatKeeps ==
  ASSUME ConsoleInv, NEW k \in Keys, Repeat(k)
  PROVE  ConsoleInv'
<1> USE DEF ConsoleInv
<1>1. /\ k \in repeats /\ Send(Make(k)) /\ down' = down /\ repeats' = repeats
      /\ owed' = IF k \in Arrows THEN owed \o Meaning(k) ELSE owed
  BY DEF Repeat
<1>2. /\ port' \in Seq(Bytes) /\ Len(port') <= PORT_SIZE /\ NoByteForgotten' /\ kbd' = kbd
      /\ isr' = isr /\ IF_' = IF_ /\ irq' = irq /\ at' = at /\ left' = left /\ irr' \in BOOLEAN
  BY <1>1, MakeBreak, SendKeeps
<1>3. TypeOK' /\ kbd' \in Flags /\ ReadsMore'
  BY <1>1, <1>2 DEF TypeOK, ReadsMore, Bytes
<1>4. DecodesTyping'
  <2>1. /\ ~End.is_e0 /\ End.mods = down \cap Modifiers
        /\ End.key_down = Plain(down) /\ End.typed = owed
    BY Decodes
  <2>2. kbd \in Flags /\ port \in Seq(Bytes) /\ kbd' = kbd /\ down \in SUBSET Keys /\ k \in down
    BY <1>1, <1>2 DEF TypeOK, Bytes
  <2>3. /\ End \in Flags
        /\ End' = IF k[1] THEN handle(handle(End, E0), k[2]) ELSE handle(End, k[2])
    <3>1. k[2] \in Bytes /\ E0 \in Bytes
      BY KeyCodes
    <3>2. port' = port \o Make(k)
      BY <1>1 DEF Send
    <3> QED BY <2>2, <3>1, <3>2, SendsBytes DEF Make
  <2>4. down \cup {k} = down
    BY <2>2
  <2>5. /\ ~End'.is_e0 /\ End'.mods = (down \cup {k}) \cap Modifiers
        /\ End'.key_down = Plain(down \cup {k})
        /\ End'.typed = CASE k \in Arrows -> Append(End.typed, Arrow(k))
                          [] k \notin Arrows /\ ~k[1] /\ k \notin Modifiers /\ k \notin down
                                /\ Character(k[2], End.mods) # 0
                               -> Append(End.typed, Character(k[2], End.mods))
                          [] OTHER -> End.typed
    BY <2>1, <2>2, <2>3, DecodesMake
  <2>6. End'.typed = owed'
    <3>0. owed \in Seq(1 .. 255)
      BY <2>1, <2>3 DEF Flags
    <3>1. CASE k \in Arrows
      BY <1>1, <2>1, <2>5, <3>0, <3>1 DEF Meaning
    <3>2. CASE k \notin Arrows
      BY <1>1, <2>1, <2>2, <2>5, <3>2
    <3> QED BY <3>1, <3>2
  <2> QED BY <1>1, <2>4, <2>5, <2>6, DecodesNext
<1> QED BY <1>2, <1>3, <1>4

\* Releasing a key sends a code that types nothing.
LEMMA ReleaseKeeps ==
  ASSUME ConsoleInv, NEW k \in Keys, Release(k)
  PROVE  ConsoleInv'
<1> USE DEF ConsoleInv
<1>1. /\ k \in down /\ Send(Break(k)) /\ down' = down \ {k} /\ repeats' = repeats \ {k} /\ owed' = owed
  BY DEF Release
<1>2. /\ port' \in Seq(Bytes) /\ Len(port') <= PORT_SIZE /\ NoByteForgotten' /\ kbd' = kbd
      /\ isr' = isr /\ IF_' = IF_ /\ irq' = irq /\ at' = at /\ left' = left /\ irr' \in BOOLEAN
  BY <1>1, MakeBreak, SendKeeps
<1>3. TypeOK' /\ kbd' \in Flags /\ ReadsMore'
  BY <1>1, <1>2 DEF TypeOK, ReadsMore, Bytes
<1>4. DecodesTyping'
  <2>1. /\ ~End.is_e0 /\ End.mods = down \cap Modifiers
        /\ End.key_down = Plain(down) /\ End.typed = owed
    BY Decodes
  <2>2. kbd \in Flags /\ port \in Seq(Bytes) /\ kbd' = kbd /\ down \in SUBSET Keys
    BY <1>2 DEF TypeOK, Bytes
  <2>3. /\ End \in Flags
        /\ End' = IF k[1] THEN handle(handle(End, E0), k[2] + 128) ELSE handle(End, k[2] + 128)
    <3>1. k[2] + 128 \in Bytes /\ E0 \in Bytes
      BY KeyCodes
    <3>2. port' = port \o Break(k)
      BY <1>1 DEF Send
    <3> QED BY <2>2, <3>1, <3>2, SendsBytes DEF Break
  <2>4. /\ ~End'.is_e0 /\ End'.mods = (down \ {k}) \cap Modifiers
        /\ End'.key_down = Plain(down \ {k}) /\ End'.typed = End.typed
    <3> DEFINE e == End
               r == IF k[1] THEN handle(handle(e, E0), k[2] + 128) ELSE handle(e, k[2] + 128)
    <3>1. e \in Flags /\ ~e.is_e0 /\ e.mods = down \cap Modifiers /\ e.key_down = Plain(down)
      BY <2>1, <2>3
    <3>2. End' = r
      BY <2>3
    <3> HIDE DEF e
    <3>3. /\ ~r.is_e0 /\ r.mods = (down \ {k}) \cap Modifiers
          /\ r.key_down = Plain(down \ {k}) /\ r.typed = e.typed
      BY <2>2, <3>1, DecodesBreak, SMTT(30)
    <3> HIDE DEF r
    <3> QED BY <3>2, <3>3 DEF e
  <2> QED BY <1>1, <2>1, <2>4, DecodesNext
<1> QED BY <1>2, <1>3, <1>4

\* keyboard_handler pushes at most one character for a byte.
LEMMA HandlePushes ==
  ASSUME NEW st \in Flags, NEW b \in Bytes, st.typed = << >>
  PROVE  \/ handle(st, b).typed = << >>
         \/ \E c \in 1 .. 255 : handle(st, b).typed = <<c>>
<1>0. b \in Nat
  BY ByteNat
<1> DEFINE key == <<st.is_e0, b % 128>>
           r == handle(st, b)
<1>1. CASE b = E0
  BY <1>1, HandlePrefix
<1>2. CASE b # E0 /\ key \in Modifiers
  BY <1>2, HandleModifier
<1>3. CASE b # E0 /\ key \notin Modifiers /\ st.is_e0
  <2>1. r.typed = IF b < 128 /\ key \in Arrows THEN Append(st.typed, Arrow(key)) ELSE st.typed
    BY <1>3, HandleExtended, ZenonT(60)
  <2>2. Arrow(key) \in 1 .. 255
    BY DEF Arrow
  <2> HIDE DEF r, key
  <2>3. r.typed = << >> \/ r.typed = <<Arrow(key)>>
    BY <2>1
  <2> QED BY <2>2, <2>3 DEF r
<1>4. CASE b # E0 /\ key \notin Modifiers /\ ~st.is_e0
  <2> DEFINE c == Character(b, st.mods)
  <2>1. r.typed = IF b < 128 /\ b \notin st.key_down /\ c # 0 THEN Append(st.typed, c) ELSE st.typed
    BY <1>4, HandlePlain
  <2>2. c \in 0 .. 126
    BY <1>0, CharacterType
  <2> HIDE DEF r, c
  <2>3. r.typed = << >> \/ (c # 0 /\ r.typed = <<c>>)
    BY <2>1
  <2>4. c # 0 => c \in 1 .. 255
    BY <2>2
  <2> QED BY <2>3, <2>4 DEF r
<1> QED BY <1>1, <1>2, <1>3, <1>4

\* Reading a byte moves its character, if it has one, from the end to the queue.
LEMMA ReadsByte ==
  ASSUME kbd \in Flags, port \in Seq(Bytes), port # << >>, port' = Tail(port),
         NEW STATE st, st = handle(kbd, Head(port)),
         kbd' \in Flags, (kbd'.is_e0 <=> st.is_e0), kbd'.mods = st.mods, kbd'.key_down = st.key_down
  PROVE  /\ st \in Flags
         /\ \E new \in Seq(1 .. 255) :
              /\ new = << >> \/ \E c \in 1 .. 255 : new = <<c>>
              /\ st.typed = kbd.typed \o new
              /\ (End.is_e0 <=> End'.is_e0) /\ End.mods = End'.mods
              /\ End.key_down = End'.key_down /\ End.typed = new \o End'.typed
              /\ End' \in Flags
<1> DEFINE base == [kbd EXCEPT !.typed = << >>]
           next == [kbd' EXCEPT !.typed = << >>]
           b == Head(port)
           h == handle(base, b)
<1>0. b \in Bytes /\ Tail(port) \in Seq(Bytes) /\ << >> \in Seq(1 .. 255) /\ kbd.typed \in Seq(1 .. 255)
  BY DEF Flags
<1>1. /\ base \in Flags /\ (base.is_e0 <=> kbd.is_e0) /\ base.mods = kbd.mods
      /\ base.key_down = kbd.key_down /\ base.typed = << >>
  BY <1>0, SetTyped
<1>2. /\ next \in Flags /\ (next.is_e0 <=> kbd'.is_e0) /\ next.mods = kbd'.mods
      /\ next.key_down = kbd'.key_down /\ next.typed = << >>
  <2> DEFINE k == kbd'
  <2>1. k \in Flags
    OBVIOUS
  <2> HIDE DEF k
  <2>2. LET r == [k EXCEPT !.typed = << >>]
        IN  /\ r \in Flags /\ (r.is_e0 <=> k.is_e0) /\ r.mods = k.mods
            /\ r.key_down = k.key_down /\ r.typed = << >>
    BY <1>0, <2>1, SetTyped
  <2> QED BY <2>2 DEF k
<1>3. End = After(base, port) /\ End' = After(next, Tail(port))
  BY DEF End
<1> HIDE DEF base, next, b
<1>4. h \in Flags
  BY <1>0, <1>1, HandleType
<1>5. h.typed = << >> \/ \E c \in 1 .. 255 : h.typed = <<c>>
  BY <1>0, <1>1, HandlePushes
<1>6. kbd = Before(kbd.typed, base)
  <2> DEFINE p == kbd.typed
             u == Before(p, base)
  <2>0. p \in Seq(1 .. 255) /\ p \o << >> = p
    BY <1>0
  <2> HIDE DEF p
  <2>1. /\ u \in Flags /\ (u.is_e0 <=> base.is_e0) /\ u.mods = base.mods
        /\ u.key_down = base.key_down /\ u.typed = p \o base.typed
    BY <1>1, <2>0, BeforeFlags
  <2>2. u.typed = kbd.typed
    BY <1>1, <2>0, <2>1 DEF p
  <2> HIDE DEF u
  <2>3. kbd = u
    BY <1>1, <2>1, <2>2, SameFlags
  <2> QED BY <2>3 DEF u, p
<1>7. st = Before(kbd.typed, h)
  <2> DEFINE p == kbd.typed
  <2>1. p \in Seq(1 .. 255) /\ kbd = Before(p, base)
    BY <1>0, <1>6
  <2> HIDE DEF p
  <2>2. handle(Before(p, base), b) = Before(p, h)
    BY <1>0, <1>1, <2>1, HandleBefore
  <2>3. st = handle(Before(p, base), b)
    BY <2>1 DEF b
  <2> QED BY <2>2, <2>3 DEF p
<1> HIDE DEF h
<1>8. /\ st \in Flags /\ (st.is_e0 <=> h.is_e0) /\ st.mods = h.mods
      /\ st.key_down = h.key_down /\ st.typed = kbd.typed \o h.typed
  <2> DEFINE p == kbd.typed
  <2>1. p \in Seq(1 .. 255) /\ st = Before(p, h)
    BY <1>0, <1>7
  <2> HIDE DEF p
  <2>2. /\ st \in Flags /\ (st.is_e0 <=> h.is_e0) /\ st.mods = h.mods
        /\ st.key_down = h.key_down /\ st.typed = p \o h.typed
    BY <1>4, <2>1, BeforeFlags
  <2> QED BY <2>2 DEF p
<1> DEFINE new == h.typed
<1>9. new \in Seq(1 .. 255)
  BY <1>4 DEF Flags
<1>10. h = Before(new, next)
  <2> DEFINE u == Before(new, next)
  <2>0. new \o << >> = new
    BY <1>9
  <2>1. /\ u \in Flags /\ (u.is_e0 <=> next.is_e0) /\ u.mods = next.mods
        /\ u.key_down = next.key_down /\ u.typed = new \o next.typed
    <3> HIDE DEF new
    <3> QED BY <1>2, <1>9, BeforeFlags
  <2>2. u.typed = h.typed
    BY <1>2, <2>0, <2>1
  <2> HIDE DEF u, new
  <2>3. h = u
    BY <1>2, <1>4, <1>8, <2>1, <2>2, SameFlags
  <2> QED BY <2>3 DEF u, new
<1>11. End = Before(new, End') /\ End' \in Flags
  <2> HIDE DEF new
  <2>1. End = After(h, Tail(port))
    BY <1>0, <1>3, Decoder!FoldFirst DEF After, h, b
  <2>2. After(next, Tail(port)) \in Flags
        /\ After(Before(new, next), Tail(port)) = Before(new, After(next, Tail(port)))
    BY <1>0, <1>2, <1>9, AfterBefore
  <2> QED BY <1>3, <1>10, <2>1, <2>2
<1>12. /\ (End.is_e0 <=> End'.is_e0) /\ End.mods = End'.mods
       /\ End.key_down = End'.key_down /\ End.typed = new \o End'.typed
  <2> DEFINE e == End'
  <2>1. End = Before(new, e) /\ e \in Flags
    BY <1>11
  <2> HIDE DEF new, e
  <2>2. /\ (End.is_e0 <=> e.is_e0) /\ End.mods = e.mods
        /\ End.key_down = e.key_down /\ End.typed = new \o e.typed
    BY <1>9, <2>1, BeforeFlags
  <2> QED BY <2>2 DEF e
<1> QED BY <1>5, <1>8, <1>9, <1>11, <1>12

\* keyboard_handler.
LEMMA HandlerKeeps ==
  ASSUME ConsoleInv, keyboard_handler
  PROVE  ConsoleInv'
<1> USE DEF ConsoleInv
<1>1. CASE port = << >>
  <2>1. /\ kbd' = kbd /\ port' = port /\ irr' = irr /\ owed' = owed /\ isr' = FALSE /\ irq' = "eoi"
        /\ down' = down /\ repeats' = repeats /\ IF_' = IF_ /\ at' = at /\ left' = left
    BY <1>1 DEF keyboard_handler
  <2>2. TypeOK' /\ kbd' \in Flags /\ ReadsMore' /\ NoByteForgotten'
    BY <1>1, <2>1 DEF TypeOK, ReadsMore, NoByteForgotten
  <2>3. DecodesTyping'
    BY <2>1 DEF DecodesTyping
  <2> QED BY <2>2, <2>3
<1>2. CASE port # << >>
  <2> DEFINE st == handle(kbd, Head(port))
  <2>1. /\ kbd' = IF Len(st.typed) > Capacity THEN [st EXCEPT !.typed = kbd.typed] ELSE st
        /\ owed' = IF st.typed # kbd.typed THEN Tail(owed) ELSE owed
        /\ port' = Tail(port) /\ irr' = (Len(port) > 1) /\ isr' = FALSE /\ irq' = "eoi"
        /\ down' = down /\ repeats' = repeats /\ IF_' = IF_ /\ at' = at /\ left' = left
    BY <1>2 DEF keyboard_handler
  <2>2. port \in Seq(Bytes) /\ kbd.typed \in Seq(1 .. 255) /\ Len(kbd.typed) <= Capacity
    BY DEF TypeOK, Bytes
  <2>3. st \in Flags
    <3>1. Head(port) \in Bytes
      BY <1>2, <2>2
    <3> QED BY <3>1, HandleType
  <2>4. /\ kbd' \in Flags /\ (kbd'.is_e0 <=> st.is_e0) /\ kbd'.mods = st.mods
        /\ kbd'.key_down = st.key_down
        /\ Len(kbd'.typed) <= Capacity
    <3> HIDE DEF st
    <3>0. Capacity \in Nat /\ Len(st.typed) \in Nat
      BY <2>3, ConsoleAssumption DEF Flags
    <3>1. CASE Len(st.typed) > Capacity
      <4>1. kbd' = [st EXCEPT !.typed = kbd.typed]
        BY <2>1, <3>1
      <4> DEFINE x == kbd.typed
      <4>2. x \in Seq(1 .. 255) /\ kbd' = [st EXCEPT !.typed = x]
        BY <2>2, <4>1
      <4> HIDE DEF x
      <4>3. LET r == [st EXCEPT !.typed = x]
            IN  /\ r \in Flags /\ (r.is_e0 <=> st.is_e0) /\ r.mods = st.mods
                /\ r.key_down = st.key_down /\ r.typed = x
        BY <2>3, <4>2, SetTyped
      <4> QED BY <2>2, <4>2, <4>3 DEF x
    <3>2. CASE ~(Len(st.typed) > Capacity)
      BY <2>1, <2>3, <3>0, <3>2
    <3> QED BY <3>1, <3>2
  <2>5. PICK new \in Seq(1 .. 255) :
           /\ new = << >> \/ \E c \in 1 .. 255 : new = <<c>>
           /\ st.typed = kbd.typed \o new
           /\ (End.is_e0 <=> End'.is_e0) /\ End.mods = End'.mods
           /\ End.key_down = End'.key_down /\ End.typed = new \o End'.typed
           /\ End' \in Flags
    BY <1>2, <2>1, <2>2, <2>4, ReadsByte
  <2>6. /\ ~End.is_e0 /\ End.mods = down \cap Modifiers
        /\ End.key_down = Plain(down) /\ End.typed = owed
    BY Decodes
  <2>7. owed' = End'.typed
    <3> DEFINE e == End'.typed
    <3> HIDE DEF st
    <3>1. e \in Seq(1 .. 255)
      BY <2>5 DEF Flags
    <3>2. owed = new \o e
      BY <2>5, <2>6
    <3> HIDE DEF e
    <3>3. CASE new = << >>
      <4>1. st.typed = kbd.typed
        BY <2>2, <2>5, <3>3
      <4> QED BY <2>1, <3>1, <3>2, <3>3, <4>1 DEF e
    <3>4. CASE \E c \in 1 .. 255 : new = <<c>>
      <4>1. PICK c \in 1 .. 255 : new = <<c>>
        BY <3>4
      <4>2. Len(st.typed) = Len(kbd.typed) + 1
        BY <2>2, <2>5, <4>1
      <4>3. st.typed # kbd.typed
        BY <2>2, <4>2
      <4>4. Tail(<<c>> \o e) = e
        <5> DEFINE B == 1 .. 255
        <5>1. e \in Seq(B) /\ c \in B
          BY <3>1
        <5> HIDE DEF B
        <5> QED BY <5>1
      <4> QED BY <2>1, <3>2, <4>1, <4>3, <4>4 DEF e
    <3> QED BY <2>5, <3>3, <3>4
  <2>8. DecodesTyping'
    BY <2>1, <2>5, <2>6, <2>7, DecodesNext
  <2>9. NoByteForgotten'
    <3>1. Tail(port) # << >> => Len(port) > 1
      BY <1>2, <2>2
    <3> QED BY <2>1, <3>1 DEF NoByteForgotten
  <2>10. TypeOK' /\ ReadsMore'
    <3>1. port' \in Seq(Bytes) /\ Len(port') <= PORT_SIZE
      <4>1. Tail(port) \in Seq(Bytes) /\ Len(Tail(port)) = Len(port) - 1 /\ Len(port) \in Nat
        BY <1>2, <2>2
      <4>2. Len(port) <= PORT_SIZE /\ PORT_SIZE \in Nat
        BY ConsoleAssumption DEF TypeOK
      <4> QED BY <2>1, <4>1, <4>2
    <3>2. kbd'.typed \in Seq(1 .. 255) /\ Len(kbd'.typed) <= Capacity
      BY <2>4 DEF Flags
    <3>3. irr' \in BOOLEAN /\ isr' \in BOOLEAN
      <4>1. irr' = (Len(port) > 1) /\ isr' = FALSE
        BY <2>1
      <4>2. (Len(port) > 1) \in BOOLEAN
        <5>1. CASE Len(port) > 1
          BY <5>1
        <5>2. CASE ~(Len(port) > 1)
          BY <5>2
        <5> QED BY <5>1, <5>2
      <4> QED BY <4>1, <4>2, Zenon
    <3> HIDE DEF st
    <3> QED BY <2>1, <3>1, <3>2, <3>3 DEF TypeOK, ReadsMore, Bytes
  <2> QED BY <2>4, <2>8, <2>9, <2>10
<1> QED BY <1>1, <1>2

\* A step that leaves the keyboard, the controller and the driver's flags alone,
\* whatever it takes from the queue.
LEMMA DecodesSame ==
  ASSUME ConsoleInv, down' = down, port' = port, owed' = owed,
         [kbd EXCEPT !.typed = << >>]' = [kbd EXCEPT !.typed = << >>]
  PROVE  DecodesTyping'
<1>1. End' = End
  BY DEF End
<1>2. /\ ~End.is_e0 /\ End.mods = down \cap Modifiers
      /\ End.key_down = Plain(down) /\ End.typed = owed
  BY Decodes DEF ConsoleInv
<1> QED BY <1>1, <1>2, DecodesNext

\* Taking a character from the queue.
LEMMA PopKeeps ==
  ASSUME ConsoleInv, kbd.typed # << >>, kbd' = [kbd EXCEPT !.typed = Tail(@)]
  PROVE  /\ kbd' \in Flags /\ kbd'.typed \in Seq(1 .. 255) /\ Len(kbd'.typed) <= Capacity
         /\ [kbd EXCEPT !.typed = << >>]' = [kbd EXCEPT !.typed = << >>]
<1> DEFINE x == Tail(kbd.typed)
<1>0. kbd \in Flags /\ kbd.typed \in Seq(1 .. 255) /\ Len(kbd.typed) <= Capacity
  BY DEF ConsoleInv, TypeOK
<1>1. kbd' = [kbd EXCEPT !.typed = x]
  OBVIOUS
<1>2. x \in Seq(1 .. 255) /\ Len(x) <= Capacity
  <2> DEFINE B == 1 .. 255
             t == kbd.typed
  <2>1. t \in Seq(B) /\ t # << >> /\ Len(t) <= Capacity /\ Capacity \in Nat
    BY <1>0, ConsoleAssumption
  <2> HIDE DEF B, t
  <2>2. Tail(t) \in Seq(B) /\ Len(Tail(t)) <= Capacity
    BY <2>1
  <2> QED BY <2>2 DEF B, t
<1> HIDE DEF x
<1>3. kbd' \in Flags /\ kbd'.typed = x
  BY <1>0, <1>1, <1>2 DEF Flags
<1>4. [[kbd EXCEPT !.typed = x] EXCEPT !.typed = << >>] = [kbd EXCEPT !.typed = << >>]
  BY <1>0 DEF Flags
<1>5. [kbd EXCEPT !.typed = << >>]' = [kbd EXCEPT !.typed = << >>]
  BY <1>1, <1>4
<1> QED BY <1>2, <1>3, <1>5

\* The interrupted code.
LEMMA CpuKeeps ==
  ASSUME ConsoleInv, Cpu
  PROVE  ConsoleInv'
<1> USE DEF ConsoleInv
<1>1. /\ down' = down /\ repeats' = repeats /\ port' = port /\ owed' = owed
      /\ irr' = irr /\ isr' = isr /\ irq' = irq
  BY DEF Cpu, ShellPop, ShellHalt, ShellChar, RunProgram, Exit, OtherCall, CallReturn, PageFault,
         Exception, FaultReturn, ReadCall, ReadPop, Go, hardware
<1>2. \/ kbd' = kbd
      \/ kbd.typed # << >> /\ kbd' = [kbd EXCEPT !.typed = Tail(@)]
  BY DEF Cpu, ShellPop, ShellHalt, ShellChar, RunProgram, Exit, OtherCall, CallReturn, PageFault,
         Exception, FaultReturn, ReadCall, ReadPop
<1>3. /\ kbd' \in Flags /\ kbd'.typed \in Seq(1 .. 255) /\ Len(kbd'.typed) <= Capacity
      /\ [kbd EXCEPT !.typed = << >>]' = [kbd EXCEPT !.typed = << >>]
  <2>1. CASE kbd' = kbd
    BY <2>1 DEF TypeOK
  <2>2. CASE kbd.typed # << >> /\ kbd' = [kbd EXCEPT !.typed = Tail(@)]
    BY <2>2, PopKeeps
  <2> QED BY <1>2, <2>1, <2>2
<1>4. IF_' \in BOOLEAN
  <2>1. IF_ \in BOOLEAN
    BY DEF TypeOK
  <2> QED BY <2>1, Zenon
      DEF Cpu, ShellPop, ShellHalt, ShellChar, RunProgram, Exit, OtherCall, CallReturn, PageFault,
          Exception, FaultReturn, ReadCall, ReadPop
<1>5. at' \in {"pop", "empty", "asleep", "char", "user", "read", "halted",
                "call", "fault", "dead", "wild"}
  BY DEF Cpu, ShellPop, ShellHalt, ShellChar, RunProgram, Exit, OtherCall, CallReturn, PageFault,
         Exception, FaultReturn, ReadCall, ReadPop, Go
<1>6. left' \in 0 .. MAX_READ /\ ReadsMore'
  <2>0. left \in 0 .. MAX_READ /\ MAX_READ \in Nat
    BY ConsoleAssumption DEF TypeOK
  <2>1. CASE at' # "read" /\ left' = left
    BY <2>0, <2>1 DEF ReadsMore
  <2>2. CASE \E max \in 1 .. MAX_READ : ReadCall(max)
    BY <2>0, <2>2 DEF ReadCall, ReadsMore
  <2>3. CASE ReadPop
    <3>1. at = "read" /\ left >= 1
      BY <2>3 DEF ReadPop, Go, ReadsMore
    <3>2. \/ left' = left
          \/ left' = 0 /\ at' = "user"
          \/ left # 1 /\ left' = left - 1
      BY <2>3 DEF ReadPop, Go
    <3> QED BY <2>0, <3>1, <3>2 DEF ReadsMore
  <2> QED BY <2>1, <2>2, <2>3
      DEF Cpu, ShellPop, ShellHalt, ShellChar, RunProgram, Exit, OtherCall, CallReturn, PageFault,
          Exception, FaultReturn, Go
<1>7. TypeOK'
  BY <1>1, <1>3, <1>4, <1>5, <1>6 DEF TypeOK
<1>8. NoByteForgotten'
  BY <1>1 DEF NoByteForgotten
<1>9. DecodesTyping'
  BY <1>1, <1>3, DecodesSame
<1> QED BY <1>3, <1>6, <1>7, <1>8, <1>9

\* The keyboard interrupt enters and returns.
LEMMA IrqKeeps ==
  ASSUME ConsoleInv, IrqEnter \/ IrqReturn
  PROVE  ConsoleInv'
<1> USE DEF ConsoleInv
<1>1. /\ down' = down /\ repeats' = repeats /\ port' = port /\ owed' = owed
      /\ kbd' = kbd /\ left' = left
  BY DEF IrqEnter, IrqReturn, hardware
<1>2. /\ irr' \in BOOLEAN /\ isr' \in BOOLEAN /\ IF_' \in BOOLEAN
  <2>1. irr \in BOOLEAN /\ isr \in BOOLEAN /\ IF_ \in BOOLEAN
    BY DEF TypeOK
  <2> QED BY <2>1, Zenon DEF IrqEnter, IrqReturn
<1>3. /\ irq' \in {"none", "handler", "eoi"}
      /\ at' = at \/ at' = "pop"
      /\ irr' = irr \/ irq' = "handler"
      /\ irr' = irr => irq # "handler" \/ irq' = "handler"
  BY DEF IrqEnter, IrqReturn
<1>4. TypeOK' /\ ReadsMore' /\ kbd' \in Flags
  BY <1>1, <1>2, <1>3 DEF TypeOK, ReadsMore
<1>5. NoByteForgotten'
  <2>1. CASE IrqEnter
    BY <2>1 DEF IrqEnter, NoByteForgotten
  <2>2. CASE IrqReturn
    BY <2>2 DEF IrqReturn, NoByteForgotten, hardware
  <2> QED BY <2>1, <2>2
<1>6. DecodesTyping'
  BY <1>1, DecodesSame
<1> QED BY <1>4, <1>5, <1>6

\* Before the first key.
LEMMA InitConsole == Init => ConsoleInv
<1> SUFFICES ASSUME Init PROVE ConsoleInv
  OBVIOUS
<1> DEFINE base == [kbd EXCEPT !.typed = << >>]
<1>1. /\ down = {} /\ repeats = {} /\ port = << >> /\ irr = FALSE /\ isr = FALSE /\ IF_ = TRUE
      /\ irq = "none" /\ at \in {"pop", "user"} /\ left = 0 /\ owed = << >>
      /\ kbd = [is_e0 |-> FALSE, mods |-> {}, key_down |-> {}, typed |-> << >>]
  BY DEF Init, NoKeys
<1>2. kbd \in Flags /\ ~kbd.is_e0 /\ kbd.mods = {} /\ kbd.key_down = {} /\ kbd.typed = << >>
  BY <1>1 DEF Flags
<1>3. /\ base \in Flags /\ (base.is_e0 <=> kbd.is_e0) /\ base.mods = kbd.mods
      /\ base.key_down = kbd.key_down /\ base.typed = << >>
  <2>1. << >> \in Seq(1 .. 255)
    OBVIOUS
  <2> QED BY <1>2, <2>1, SetTyped, ZenonT(60)
<1>4. End = base
  BY <1>1, Decoder!FoldNone DEF End, After
<1>5. DecodesTyping
  <2>1. Plain({}) = {}
    BY DEF Plain
  <2> QED BY <1>1, <1>2, <1>3, <1>4, <2>1, Decodes
<1>6. TypeOK /\ NoByteForgotten /\ ReadsMore
  <2>1. NoByteForgotten /\ ReadsMore
    BY <1>1 DEF NoByteForgotten, ReadsMore
  <2>2. {irr, isr, IF_} \subseteq BOOLEAN
    <3>1. irr = FALSE /\ isr = FALSE /\ IF_ = TRUE
      BY <1>1
    <3> QED BY <3>1
  <2>3. PORT_SIZE \in Nat /\ Capacity \in Nat /\ MAX_READ \in Nat
    BY ConsoleAssumption
  <2>4. << >> \in Seq(0 .. 255) /\ << >> \in Seq(1 .. 255) /\ Len(<< >>) = 0
    OBVIOUS
  <2>5. left \in 0 .. MAX_READ /\ Len(port) <= PORT_SIZE /\ Len(kbd.typed) <= Capacity
    BY <1>1, <1>2, <2>3
  <2> HIDE DEF base
  <2>6. TypeOK
    BY <1>1, <1>2, <2>2, <2>4, <2>5 DEF TypeOK
  <2> QED BY <2>1, <2>6
<1> QED BY <1>2, <1>5, <1>6 DEF ConsoleInv

\* Every step of the console keeps the invariant.
LEMMA NextConsole == ConsoleInv /\ [Next]_vars => ConsoleInv'
<1> SUFFICES ASSUME ConsoleInv, [Next]_vars PROVE ConsoleInv'
  OBVIOUS
<1>1. CASE KeyEvent
  BY <1>1, PressKeeps, ReleaseKeeps, RepeatKeeps DEF KeyEvent
<1>2. CASE IrqEnter \/ IrqReturn
  BY <1>2, IrqKeeps
<1>3. CASE keyboard_handler
  BY <1>3, HandlerKeeps
<1>4. CASE Cpu
  BY <1>4, CpuKeeps
<1>5. CASE UNCHANGED vars
  BY <1>5 DEF vars, ConsoleInv, TypeOK, NoByteForgotten, DecodesTyping, ReadsMore
<1> QED BY <1>1, <1>2, <1>3, <1>4, <1>5 DEF Next

\* The inductive invariant holds of every behaviour.
THEOREM ConsoleCorrect == Spec => []ConsoleInv
BY InitConsole, NextConsole, PTL DEF Spec

\* However keystrokes, interrupts, readers and exceptions interleave, and whatever
\* the sizes of the buffers, keyboard_handler decodes what the user typed: the flags
\* end as those of the keys that are held, and the characters pushed are the typed.
THEOREM Decoding == Spec => []DecodesTyping
<1>1. ConsoleInv => DecodesTyping
  BY DEF ConsoleInv
<1> QED BY <1>1, ConsoleCorrect, PTL

\* One byte is read for each interrupt, and none is left behind without one.
THEOREM BytesRead == Spec => []NoByteForgotten
<1>1. ConsoleInv => NoByteForgotten
  BY DEF ConsoleInv
<1> QED BY <1>1, ConsoleCorrect, PTL

\* The queue stays within its room and holds no 0, and SYS_READ within max_len.
THEOREM QueueBounded == Spec => []TypeOK
<1>1. ConsoleInv => TypeOK
  BY DEF ConsoleInv
<1> QED BY <1>1, ConsoleCorrect, PTL
=============================================================================
