-------------------------- MODULE ShellLineProofs --------------------------
(***************************************************************************)
(* Proofs about shell_loop, for every size of the screen, of the line and  *)
(* of the history: what the user sees is the line that is edited, editing  *)
(* stays inside input_buffer, and the line is that of an editor.           *)
(***************************************************************************)
EXTENDS ShellLine, TLAPS

Screen == INSTANCE SequenceFacts WITH op <- vga_putc

\* Everything that is printed.
Codes == Chars \cup 0 .. 255

\* The states of the text screen.
Screens == [video_mem : [Cells -> Codes],
            cursor_x : 0 .. VGA_WIDTH - 1, cursor_y : 0 .. VGA_HEIGHT - 1]

\* The cell where row y begins.
Row(y) == y * VGA_WIDTH

\* Screens whose rows below the cursor are blank, and those that are blank from the
\* cursor on.
Sound == {s \in Screens : \A i \in Cells : i >= Row(s.cursor_y) + VGA_WIDTH => s.video_mem[i] = Space}

Fresh == {s \in Screens : \A i \in Cells : i >= Row(s.cursor_y) + s.cursor_x => s.video_mem[i] = Space}

\* The rows of the screen lie one behind the other in video_mem.
LEMMA Rows ==
  ASSUME NEW y \in 0 .. VGA_HEIGHT - 1
  PROVE  /\ Row(y) \in Nat /\ Row(y + 1) = Row(y) + VGA_WIDTH
         /\ Row(y) + VGA_WIDTH <= VGA_WIDTH * VGA_HEIGHT
         /\ y + 1 = VGA_HEIGHT => Row(y) + VGA_WIDTH = VGA_WIDTH * VGA_HEIGHT
         /\ VGA_WIDTH * VGA_HEIGHT \in Nat
<1> DEFINE W == VGA_WIDTH
           H == VGA_HEIGHT
           d == H - (y + 1)
<1>0. W \in Nat /\ H \in Nat /\ y \in Nat /\ d \in Nat
  BY VgaAssumption
<1> HIDE DEF W, H
<1>1. \A u, v \in Nat : u * v \in Nat /\ (u + 1) * v = u * v + v /\ u * v = v * u
  OBVIOUS
<1>2. \A u, v, w \in Nat : (u + v) * w = u * w + v * w
  OBVIOUS
<1>3. H = (y + 1) + d /\ y + 1 \in Nat
  BY <1>0
<1>4. H * W = (y + 1) * W + d * W
  <2> HIDE DEF d
  <2>1. ((y + 1) + d) * W = (y + 1) * W + d * W
    BY <1>0, <1>2, <1>3
  <2> QED BY <1>3, <2>1
<1>5. y * W \in Nat /\ (y + 1) * W = y * W + W /\ d * W \in Nat /\ H * W = W * H /\ H * W \in Nat
  <2> HIDE DEF d
  <2> QED BY <1>0, <1>1
<1>6. d = 0 => d * W = 0
  BY <1>0
<1>7. y + 1 = H => d = 0
  BY <1>0
<1> DEFINE p == y * W
           q == (y + 1) * W
           r == d * W
           t == W * H
<1>8. /\ p \in Nat /\ q = p + W /\ r \in Nat /\ t = q + r /\ t \in Nat
      /\ y + 1 = H => r = 0
  BY <1>4, <1>5, <1>6, <1>7
<1> HIDE DEF p, q, r, t
<1>9. p \in Nat /\ q = p + W /\ p + W <= t /\ (y + 1 = H => p + W = t) /\ t \in Nat
  BY <1>0, <1>8
<1> QED BY <1>9 DEF p, q, t, W, H, Row

\* What is known of a screen.
LEMMA ScreenType ==
  ASSUME NEW s \in Screens
  PROVE  /\ s.video_mem \in [Cells -> Codes]
         /\ s.cursor_x \in 0 .. VGA_WIDTH - 1 /\ s.cursor_y \in 0 .. VGA_HEIGHT - 1
         /\ s.cursor_x \in Nat /\ s.cursor_y \in Nat
         /\ Row(s.cursor_y) \in Nat /\ Row(s.cursor_y) + s.cursor_x \in Cells
         /\ Row(s.cursor_y) + VGA_WIDTH <= VGA_WIDTH * VGA_HEIGHT
         /\ VGA_WIDTH \in Nat /\ VGA_HEIGHT \in Nat /\ VGA_WIDTH > 0 /\ VGA_HEIGHT > 0
<1>1. /\ s.video_mem \in [Cells -> Codes]
      /\ s.cursor_x \in 0 .. VGA_WIDTH - 1 /\ s.cursor_y \in 0 .. VGA_HEIGHT - 1
  BY DEF Screens
<1>2. VGA_WIDTH \in Nat /\ VGA_HEIGHT \in Nat /\ VGA_WIDTH > 0 /\ VGA_HEIGHT > 0
  BY VgaAssumption
<1> DEFINE x == s.cursor_x
           y == s.cursor_y
<1>3. x \in 0 .. VGA_WIDTH - 1 /\ y \in 0 .. VGA_HEIGHT - 1
  BY <1>1
<1> HIDE DEF x, y
<1>4. Row(y) \in Nat /\ Row(y) + VGA_WIDTH <= VGA_WIDTH * VGA_HEIGHT /\ VGA_WIDTH * VGA_HEIGHT \in Nat
  BY <1>3, Rows
<1>5. Row(y) + x \in Cells
  BY <1>2, <1>3, <1>4 DEF Cells
<1> QED BY <1>1, <1>2, <1>3, <1>4, <1>5 DEF x, y

\* The screen after a row more.
Scrolled(mem) == [i \in Cells |-> IF i + VGA_WIDTH \in Cells THEN mem[i + VGA_WIDTH] ELSE Space]

\* A character other than newline and backspace, in the cell under the cursor.
Put(s, c) == [s.video_mem EXCEPT ![Row(s.cursor_y) + s.cursor_x] = c]

\* Screens, field by field.
Shown(mem, x, y) == [video_mem |-> mem, cursor_x |-> x, cursor_y |-> y]

\* The parts of a screen.
LEMMA ShownFields ==
  ASSUME NEW mem, NEW x, NEW y
  PROVE  LET s == Shown(mem, x, y)
         IN  s.video_mem = mem /\ s.cursor_x = x /\ s.cursor_y = y
BY DEF Shown

\* A screen is its cells and its cursor.
LEMMA ShownScreen ==
  /\ \A s \in Screens : s = Shown(s.video_mem, s.cursor_x, s.cursor_y)
  /\ \A mem \in [Cells -> Codes], x \in 0 .. VGA_WIDTH - 1, y \in 0 .. VGA_HEIGHT - 1 :
        Shown(mem, x, y) \in Screens
BY DEF Screens, Shown

\* The end of vga_putc: it scrolls if the cursor left the screen.
Settle(m) == IF m.cursor_y >= VGA_HEIGHT THEN vga_scroll(m) ELSE m

\* The three ways through vga_putc.
LEMMA PutcCases ==
  ASSUME NEW s, NEW c
  PROVE  /\ c = Newline => vga_putc(s, c) = Settle([s EXCEPT !.cursor_x = 0, !.cursor_y = @ + 1])
         /\ c = Backspace =>
              vga_putc(s, c) = Settle([s EXCEPT !.cursor_x = IF @ > 0 THEN @ - 1 ELSE @])
         /\ c # Newline /\ c # Backspace => vga_putc(s, c) = Settle(advance(s, c))
<1>1. Newline # Backspace
  BY DEF Newline, Backspace
<1> DEFINE n == [s EXCEPT !.cursor_x = 0, !.cursor_y = @ + 1]
           k == [s EXCEPT !.cursor_x = IF @ > 0 THEN @ - 1 ELSE @]
           a == advance(s, c)
           moved == CASE c = Newline -> n [] c = Backspace -> k [] OTHER -> a
<1>2. vga_putc(s, c) = Settle(moved)
  BY DEF vga_putc, Settle
<1> HIDE DEF n, k, a
<1>3. /\ c = Newline => moved = n
      /\ c = Backspace => moved = k
      /\ c # Newline /\ c # Backspace => moved = a
  BY <1>1
<1> HIDE DEF moved
<1> QED BY <1>2, <1>3 DEF n, k, a

\* vga_scroll.
LEMMA ScrollIs ==
  ASSUME NEW mem, NEW x, NEW y
  PROVE  vga_scroll(Shown(mem, x, y)) = Shown(Scrolled(mem), x, VGA_HEIGHT - 1)
<1> DEFINE s == Shown(mem, x, y)
           sm == [i \in Cells |-> IF i + VGA_WIDTH \in Cells THEN s.video_mem[i + VGA_WIDTH] ELSE Space]
<1>1. vga_scroll(s) = [s EXCEPT !.video_mem = sm, !.cursor_y = VGA_HEIGHT - 1]
  BY DEF vga_scroll
<1>2. sm = Scrolled(mem)
  BY ShownFields DEF Scrolled
<1> HIDE DEF sm
<1>3. [s EXCEPT !.video_mem = sm, !.cursor_y = VGA_HEIGHT - 1] = Shown(sm, x, VGA_HEIGHT - 1)
  <2> DEFINE h == VGA_HEIGHT - 1
             t == [s EXCEPT !.video_mem = sm, !.cursor_y = h]
  <2> HIDE DEF h
  <2>1. t = [Shown(mem, x, y) EXCEPT !.video_mem = sm, !.cursor_y = h]
    OBVIOUS
  <2> HIDE DEF t
  <2>2. t = Shown(sm, x, h)
    BY <2>1 DEF Shown
  <2> QED BY <2>2 DEF h, t
<1> QED BY <1>1, <1>2, <1>3

\* What vga_putc does, case by case.
LEMMA PutcBackspace ==
  ASSUME NEW s \in Screens
  PROVE  LET r == vga_putc(s, Backspace)
         IN  /\ r \in Screens /\ r.video_mem = s.video_mem /\ r.cursor_y = s.cursor_y
             /\ r.cursor_x = IF s.cursor_x > 0 THEN s.cursor_x - 1 ELSE s.cursor_x
<1> DEFINE x == IF s.cursor_x > 0 THEN s.cursor_x - 1 ELSE s.cursor_x
           m == Shown(s.video_mem, x, s.cursor_y)
<1>1. x \in 0 .. VGA_WIDTH - 1
  BY ScreenType
<1>2. [s EXCEPT !.cursor_x = x] = m
  <2> HIDE DEF x
  <2> QED BY DEF Screens, Shown
<1>3. vga_putc(s, Backspace) = Settle([s EXCEPT !.cursor_x = x])
  BY PutcCases
<1> HIDE DEF x
<1>4. m \in Screens /\ m.cursor_x = x /\ m.cursor_y = s.cursor_y /\ m.video_mem = s.video_mem
  BY <1>1, ShownFields, ShownScreen, ScreenType
<1>5. ~(m.cursor_y >= VGA_HEIGHT)
  BY <1>4, ScreenType
<1> HIDE DEF m
<1>6. vga_putc(s, Backspace) = m
  BY <1>2, <1>3, <1>5 DEF Settle
<1> QED BY <1>4, <1>6 DEF x

\* The cursor goes to the beginning of the next row; mem is in the cells by then.
LEMMA NextRow ==
  ASSUME NEW s \in Screens, NEW mem \in [Cells -> Codes]
  PROVE  LET r == Settle(Shown(mem, 0, s.cursor_y + 1))
         IN  /\ r \in Screens /\ r.cursor_x = 0
             /\ s.cursor_y + 1 < VGA_HEIGHT => r.video_mem = mem /\ r.cursor_y = s.cursor_y + 1
             /\ s.cursor_y + 1 = VGA_HEIGHT => r.video_mem = Scrolled(mem) /\ r.cursor_y = s.cursor_y
<1> DEFINE m == Shown(mem, 0, s.cursor_y + 1)
           r == Settle(m)
<1>1. /\ s.cursor_y \in Nat /\ s.cursor_y <= VGA_HEIGHT - 1 /\ VGA_HEIGHT \in Nat /\ VGA_WIDTH \in Nat
      /\ VGA_WIDTH > 0
  BY ScreenType
<1>3. m.cursor_y = s.cursor_y + 1 /\ m.video_mem = mem /\ m.cursor_x = 0
  BY ShownFields
<1>4. CASE s.cursor_y + 1 < VGA_HEIGHT
  <2>1. r = m
    <3> HIDE DEF m
    <3> QED BY <1>1, <1>3, <1>4 DEF Settle
  <2>2. m \in Screens
    BY <1>1, <1>4, ShownScreen
  <2> HIDE DEF m, r
  <2> QED BY <1>1, <1>3, <1>4, <2>1, <2>2 DEF m, r
<1>5. CASE s.cursor_y + 1 = VGA_HEIGHT
  <2> DEFINE sm == Scrolled(mem)
             t == Shown(sm, 0, VGA_HEIGHT - 1)
  <2>1. r = vga_scroll(m)
    <3> HIDE DEF m
    <3> QED BY <1>1, <1>3, <1>5 DEF Settle
  <2>2. sm \in [Cells -> Codes]
    BY DEF Scrolled, Codes, Space
  <2>3. r = t
    BY <2>1, ScrollIs
  <2> HIDE DEF sm, r
  <2>4. t \in Screens
    BY <1>1, <2>2, ShownScreen
  <2>5. t.cursor_y = VGA_HEIGHT - 1 /\ t.video_mem = sm /\ t.cursor_x = 0
    BY ShownFields
  <2> HIDE DEF t
  <2> QED BY <1>1, <1>5, <2>3, <2>4, <2>5 DEF sm, r
<1> QED BY <1>1, <1>4, <1>5

\* A newline moves to the next row, scrolling at the last.
LEMMA PutcNewline ==
  ASSUME NEW s \in Screens
  PROVE  LET r == vga_putc(s, Newline)
         IN  /\ r \in Screens /\ r.cursor_x = 0
             /\ s.cursor_y + 1 < VGA_HEIGHT => r.video_mem = s.video_mem /\ r.cursor_y = s.cursor_y + 1
             /\ s.cursor_y + 1 = VGA_HEIGHT =>
                  r.video_mem = Scrolled(s.video_mem) /\ r.cursor_y = s.cursor_y
<1> DEFINE mem == s.video_mem
           m == [s EXCEPT !.cursor_x = 0, !.cursor_y = @ + 1]
           r == vga_putc(s, Newline)
<1>1. mem \in [Cells -> Codes]
  BY ScreenType
<1>2. m = Shown(mem, 0, s.cursor_y + 1)
  <2> DEFINE x == s.cursor_x
             y == s.cursor_y
             z == y + 1
  <2>1. s = Shown(mem, x, y) /\ m = [s EXCEPT !.cursor_x = 0, !.cursor_y = z]
    BY ShownScreen
  <2> HIDE DEF mem, m, x, y, z
  <2>3. m = Shown(mem, 0, z)
    BY <2>1 DEF Shown
  <2> QED BY <2>3 DEF z, y
<1>3. r = Settle(m)
  BY PutcCases
<1> HIDE DEF m, r, mem
<1>4. r = Settle(Shown(mem, 0, s.cursor_y + 1))
  BY <1>2, <1>3
<1>5. /\ r \in Screens /\ r.cursor_x = 0
      /\ s.cursor_y + 1 < VGA_HEIGHT => r.video_mem = mem /\ r.cursor_y = s.cursor_y + 1
      /\ s.cursor_y + 1 = VGA_HEIGHT => r.video_mem = Scrolled(mem) /\ r.cursor_y = s.cursor_y
  BY <1>1, <1>4, NextRow
<1> QED BY <1>5 DEF r, mem

\* A character is put at the cursor, which advances and wraps at the end of its row.
LEMMA PutcCharacter ==
  ASSUME NEW s \in Screens, NEW c \in Codes, c # Newline, c # Backspace
  PROVE  LET r == vga_putc(s, c)
         IN  /\ r \in Screens /\ Put(s, c) \in [Cells -> Codes]
             /\ s.cursor_x + 1 < VGA_WIDTH =>
                  r.video_mem = Put(s, c) /\ r.cursor_y = s.cursor_y /\ r.cursor_x = s.cursor_x + 1
             /\ s.cursor_x + 1 = VGA_WIDTH =>
                  /\ r.cursor_x = 0
                  /\ s.cursor_y + 1 < VGA_HEIGHT =>
                       r.video_mem = Put(s, c) /\ r.cursor_y = s.cursor_y + 1
                  /\ s.cursor_y + 1 = VGA_HEIGHT =>
                       r.video_mem = Scrolled(Put(s, c)) /\ r.cursor_y = s.cursor_y
<1> DEFINE mem == Put(s, c)
           r == vga_putc(s, c)
<1>0. /\ s.video_mem \in [Cells -> Codes] /\ s.cursor_x \in Nat /\ s.cursor_x <= VGA_WIDTH - 1
      /\ VGA_WIDTH \in Nat /\ s.cursor_y \in 0 .. VGA_HEIGHT - 1 /\ VGA_HEIGHT \in Nat
  BY ScreenType
<1>1. mem \in [Cells -> Codes]
  BY <1>0 DEF Put
<1> DEFINE put == [s EXCEPT !.video_mem[s.cursor_y * VGA_WIDTH + s.cursor_x] = c]
<1>2. put = Shown(mem, s.cursor_x, s.cursor_y)
  BY DEF Put, Row, Screens, Shown
<1>3. r = Settle(advance(s, c))
  BY PutcCases
<1>4. CASE s.cursor_x + 1 < VGA_WIDTH
  <2> DEFINE m == Shown(mem, s.cursor_x + 1, s.cursor_y)
  <2>1. advance(s, c) = [put EXCEPT !.cursor_x = s.cursor_x + 1]
    BY <1>4 DEF advance
  <2> HIDE DEF put, mem, r
  <2>2. advance(s, c) = m
    BY <1>2, <2>1 DEF Shown
  <2>4. /\ m \in Screens /\ m.video_mem = mem /\ m.cursor_x = s.cursor_x + 1
        /\ m.cursor_y = s.cursor_y
    BY <1>0, <1>1, <1>4, ShownFields, ShownScreen
  <2> HIDE DEF m
  <2>5. r = m
    BY <1>0, <1>3, <2>2, <2>4 DEF Settle
  <2> QED BY <1>0, <1>1, <1>4, <2>4, <2>5 DEF mem, r
<1>5. CASE s.cursor_x + 1 = VGA_WIDTH
  <2>0. ~(s.cursor_x + 1 < VGA_WIDTH)
    BY <1>0, <1>5
  <2>1. advance(s, c) = [put EXCEPT !.cursor_x = 0, !.cursor_y = @ + 1]
    BY <2>0 DEF advance
  <2> HIDE DEF put, mem, r
  <2>2. advance(s, c) = Shown(mem, 0, s.cursor_y + 1)
    BY <1>2, <2>1 DEF Shown
  <2>3. r = Settle(Shown(mem, 0, s.cursor_y + 1))
    BY <1>3, <2>2
  <2>5. /\ r \in Screens /\ r.cursor_x = 0
        /\ s.cursor_y + 1 < VGA_HEIGHT => r.video_mem = mem /\ r.cursor_y = s.cursor_y + 1
        /\ s.cursor_y + 1 = VGA_HEIGHT => r.video_mem = Scrolled(mem) /\ r.cursor_y = s.cursor_y
    BY <1>1, <2>3, NextRow
  <2> QED BY <1>0, <1>1, <1>5, <2>5 DEF r, mem
<1> QED BY <1>0, <1>4, <1>5
-----------------------------------------------------------------------------
\* A screen that is blank from the cursor on is blank below it.
LEMMA FreshSound == ASSUME NEW s \in Fresh PROVE s \in Sound
<1>1. s \in Screens /\ \A i \in Cells : i >= Row(s.cursor_y) + s.cursor_x => s.video_mem[i] = Space
  BY DEF Fresh
<1>2. /\ s.cursor_x \in 0 .. VGA_WIDTH - 1 /\ Row(s.cursor_y) \in Nat /\ VGA_WIDTH \in Nat
      /\ Cells \subseteq Int
  BY <1>1, ScreenType DEF Cells
<1>3. ASSUME NEW i \in Cells, i >= Row(s.cursor_y) + VGA_WIDTH PROVE s.video_mem[i] = Space
  <2>1. i >= Row(s.cursor_y) + s.cursor_x
    BY <1>2, <1>3
  <2> QED BY <1>1, <2>1
<1> QED BY <1>1, <1>3 DEF Sound

\* The next row is blank, whether the screen scrolls or not.
LEMMA NextFresh ==
  ASSUME NEW s \in Screens, NEW mem \in [Cells -> Codes], NEW r \in Screens,
         \A i \in Cells : i >= Row(s.cursor_y) + VGA_WIDTH => mem[i] = Space,
         r.cursor_x = 0,
         s.cursor_y + 1 < VGA_HEIGHT => r.video_mem = mem /\ r.cursor_y = s.cursor_y + 1,
         s.cursor_y + 1 = VGA_HEIGHT => r.video_mem = Scrolled(mem) /\ r.cursor_y = s.cursor_y
  PROVE  r \in Fresh
<1> DEFINE y == s.cursor_y
<1>1. y \in 0 .. VGA_HEIGHT - 1 /\ y \in Nat /\ VGA_WIDTH \in Nat /\ VGA_HEIGHT \in Nat
  BY ScreenType
<1>2. Cells = 0 .. VGA_WIDTH * VGA_HEIGHT - 1
  BY DEF Cells
<1> HIDE DEF y
<1>3. /\ Row(y) \in Nat /\ Row(y + 1) = Row(y) + VGA_WIDTH
      /\ Row(y) + VGA_WIDTH <= VGA_WIDTH * VGA_HEIGHT
      /\ y + 1 = VGA_HEIGHT => Row(y) + VGA_WIDTH = VGA_WIDTH * VGA_HEIGHT
      /\ VGA_WIDTH * VGA_HEIGHT \in Nat
  BY <1>1, Rows
<1> DEFINE a == Row(y)
           size == VGA_WIDTH * VGA_HEIGHT
<1>4. ASSUME NEW i \in Cells, i >= Row(r.cursor_y) + r.cursor_x PROVE r.video_mem[i] = Space
  <2>1. CASE y + 1 < VGA_HEIGHT
    <3>1. r.video_mem = mem /\ r.cursor_y = y + 1
      BY <2>1 DEF y
    <3>2. i >= Row(y + 1) + 0
      BY <1>4, <3>1
    <3>3. i >= Row(y) + VGA_WIDTH
      <4> HIDE DEF a
      <4>1. a \in Nat /\ Row(y + 1) = a + VGA_WIDTH
        BY <1>3 DEF a
      <4>2. i >= a + VGA_WIDTH
        BY <1>1, <3>2, <4>1
      <4> QED BY <4>2 DEF a
    <3> QED BY <3>1, <3>3 DEF y
  <2>2. CASE y + 1 = VGA_HEIGHT
    <3>1. r.video_mem = Scrolled(mem) /\ r.cursor_y = y
      BY <2>2 DEF y
    <3>2. i >= a + 0 /\ a \in Nat /\ a + VGA_WIDTH = size /\ Cells = 0 .. size - 1
      BY <1>2, <1>3, <1>4, <2>2, <3>1
    <3> HIDE DEF a, size
    <3>3. ~(i + VGA_WIDTH \in Cells)
      BY <1>1, <3>2
    <3> QED BY <3>1, <3>3 DEF Scrolled
  <2> QED BY <1>1, <2>1, <2>2
<1> QED BY <1>4 DEF Fresh

\* Putting a character leaves the cells behind it alone.
LEMMA PutBehind ==
  ASSUME NEW s \in Screens, NEW c \in Codes, NEW i \in Cells, i > Row(s.cursor_y) + s.cursor_x
  PROVE  Put(s, c)[i] = s.video_mem[i]
<1> DEFINE a == Row(s.cursor_y) + s.cursor_x
<1>1. s.video_mem \in [Cells -> Codes] /\ a \in Cells /\ Cells \subseteq Int
  BY ScreenType DEF Cells
<1>2. i # a
  <2> HIDE DEF a
  <2>1. i > a /\ a \in Int /\ i \in Int
    BY <1>1 DEF a
  <2> QED BY <2>1
<1> HIDE DEF a
<1>3. Put(s, c) = [s.video_mem EXCEPT ![a] = c]
  BY DEF Put, a
<1> QED BY <1>1, <1>2, <1>3

\* A newline leads to a row that is blank.
LEMMA NewlineFresh ==
  ASSUME NEW s \in Sound
  PROVE  vga_putc(s, Newline) \in Fresh
<1> DEFINE mem == s.video_mem
           r == vga_putc(s, Newline)
<1>1. s \in Screens /\ \A i \in Cells : i >= Row(s.cursor_y) + VGA_WIDTH => mem[i] = Space
  BY DEF Sound
<1>2. mem \in [Cells -> Codes]
  BY <1>1, ScreenType
<1>3. /\ r \in Screens /\ r.cursor_x = 0
      /\ s.cursor_y + 1 < VGA_HEIGHT => r.video_mem = mem /\ r.cursor_y = s.cursor_y + 1
      /\ s.cursor_y + 1 = VGA_HEIGHT => r.video_mem = Scrolled(mem) /\ r.cursor_y = s.cursor_y
  BY <1>1, PutcNewline
<1> HIDE DEF mem, r
<1>4. r \in Fresh
  BY <1>1, <1>2, <1>3, NextFresh
<1> QED BY <1>4 DEF r

\* vga_putc keeps the rows below the cursor blank, and of a screen that is blank
\* from the cursor on whatever is behind it, unless the character is a backspace.
LEMMA PutcKeeps ==
  ASSUME NEW s \in Sound, NEW c \in Codes
  PROVE  /\ vga_putc(s, c) \in Sound
         /\ s \in Fresh /\ c # Backspace => vga_putc(s, c) \in Fresh
<1> DEFINE mem == s.video_mem
           r == vga_putc(s, c)
           a == Row(s.cursor_y)
<1>1. s \in Screens /\ \A i \in Cells : i >= a + VGA_WIDTH => mem[i] = Space
  BY DEF Sound
<1>2. /\ mem \in [Cells -> Codes] /\ s.cursor_x \in 0 .. VGA_WIDTH - 1 /\ s.cursor_x \in Nat
      /\ a \in Nat /\ VGA_WIDTH \in Nat /\ Cells \subseteq Int /\ VGA_HEIGHT \in Nat
      /\ s.cursor_y \in 0 .. VGA_HEIGHT - 1
  BY <1>1, ScreenType DEF Cells
<1>3. CASE c = Newline
  BY <1>3, NewlineFresh, FreshSound
<1>4. CASE c = Backspace
  <2>1. r \in Screens /\ r.video_mem = mem /\ r.cursor_y = s.cursor_y
    BY <1>1, <1>4, PutcBackspace
  <2> HIDE DEF r
  <2>2. r \in Sound
    BY <1>1, <2>1 DEF Sound
  <2> QED BY <1>4, <2>2 DEF r
<1>5. CASE c # Newline /\ c # Backspace
  <2> DEFINE p == Put(s, c)
  <2>1. /\ r \in Screens /\ p \in [Cells -> Codes]
        /\ s.cursor_x + 1 < VGA_WIDTH =>
             r.video_mem = p /\ r.cursor_y = s.cursor_y /\ r.cursor_x = s.cursor_x + 1
        /\ s.cursor_x + 1 = VGA_WIDTH =>
             /\ r.cursor_x = 0
             /\ s.cursor_y + 1 < VGA_HEIGHT =>
                  r.video_mem = p /\ r.cursor_y = s.cursor_y + 1
             /\ s.cursor_y + 1 = VGA_HEIGHT =>
                  r.video_mem = Scrolled(p) /\ r.cursor_y = s.cursor_y
    BY <1>1, <1>5, PutcCharacter
  <2>2. \A i \in Cells : i > a + s.cursor_x => p[i] = mem[i]
    BY <1>1, PutBehind
  <2> HIDE DEF p, r, mem, a
  <2>3. \A i \in Cells : i >= a + VGA_WIDTH => p[i] = Space
    <3> SUFFICES ASSUME NEW i \in Cells, i >= a + VGA_WIDTH PROVE p[i] = Space
      OBVIOUS
    <3>1. i > a + s.cursor_x
      BY <1>2
    <3> QED BY <1>1, <2>2, <3>1
  <2>4. CASE s.cursor_x + 1 < VGA_WIDTH
    <3>1. r \in Sound
      BY <2>1, <2>3, <2>4 DEF Sound, a
    <3>2. ASSUME s \in Fresh PROVE r \in Fresh
      <4>1. \A i \in Cells : i >= a + s.cursor_x => mem[i] = Space
        BY <3>2 DEF Fresh, a, mem
      <4>2. ASSUME NEW i \in Cells, i >= Row(r.cursor_y) + r.cursor_x PROVE r.video_mem[i] = Space
        <5>1. i >= a + (s.cursor_x + 1)
          BY <2>1, <2>4, <4>2 DEF a
        <5>2. i > a + s.cursor_x /\ i >= a + s.cursor_x
          BY <1>2, <5>1
        <5>3. p[i] = Space
          BY <2>2, <4>1, <5>2
        <5> QED BY <2>1, <2>4, <5>3
      <4> QED BY <2>1, <4>2 DEF Fresh
    <3> QED BY <3>1, <3>2 DEF r
  <2>5. CASE s.cursor_x + 1 = VGA_WIDTH
    <3>1. /\ r \in Screens /\ r.cursor_x = 0
          /\ s.cursor_y + 1 < VGA_HEIGHT => r.video_mem = p /\ r.cursor_y = s.cursor_y + 1
          /\ s.cursor_y + 1 = VGA_HEIGHT => r.video_mem = Scrolled(p) /\ r.cursor_y = s.cursor_y
      BY <2>1, <2>5
    <3>2. r \in Fresh
      BY <1>1, <2>1, <2>3, <3>1, NextFresh DEF a
    <3> QED BY <3>2, FreshSound DEF r
  <2> QED BY <1>2, <2>4, <2>5
<1> QED BY <1>3, <1>4, <1>5

\* vga_puts is a fold.
LEMMA PutsFold == ASSUME NEW s, NEW str PROVE vga_puts(s, str) = Screen!Fold(s, str)
BY DEF vga_puts, FoldLeft, MapThenFoldSet, Max, Screen!Fold, Screen!Step, Screen!Greatest

\* So does vga_puts.
LEMMA PutsKeeps ==
  ASSUME NEW s \in Sound, NEW str \in Seq(Codes)
  PROVE  /\ vga_puts(s, str) \in Sound
         /\ s \in Fresh /\ str \in Seq(Codes \ {Backspace}) => vga_puts(s, str) \in Fresh
<1>1. \A t \in Sound, c \in Codes : vga_putc(t, c) \in Sound
  BY PutcKeeps
<1>2. \A t \in Fresh, c \in Codes \ {Backspace} : vga_putc(t, c) \in Fresh
  BY FreshSound, PutcKeeps
<1>3. Screen!Fold(s, str) \in Sound
  BY <1>1, Screen!FoldIn
<1>4. ASSUME s \in Fresh, str \in Seq(Codes \ {Backspace}) PROVE Screen!Fold(s, str) \in Fresh
  <2> DEFINE T == Codes \ {Backspace}
  <2>1. str \in Seq(T) /\ \A t \in Fresh, c \in T : vga_putc(t, c) \in Fresh
    BY <1>2, <1>4
  <2> HIDE DEF T
  <2> QED BY <1>4, <2>1, Screen!FoldIn
<1> QED BY <1>3, <1>4, PutsFold

\* clear_screen.
LEMMA ClearFresh == clear_screen \in Fresh
<1>1. clear_screen = Shown([i \in Cells |-> Space], 0, 0)
  BY DEF clear_screen, Shown
<1> DEFINE mem == [i \in Cells |-> Space]
           s == Shown(mem, 0, 0)
<1>2. mem \in [Cells -> Codes]
  BY DEF Codes, Space
<1>3. \A i \in Cells : mem[i] = Space
  OBVIOUS
<1> HIDE DEF mem
<1>4. 0 \in 0 .. VGA_WIDTH - 1 /\ 0 \in 0 .. VGA_HEIGHT - 1
  BY VgaAssumption
<1>5. s \in Screens /\ s.video_mem = mem
  BY <1>2, <1>4, ShownScreen, ShownFields
<1> HIDE DEF s
<1>6. s \in Fresh
  BY <1>3, <1>5 DEF Fresh
<1> QED BY <1>1, <1>6 DEF s, mem
-----------------------------------------------------------------------------
\* Characters that take a cell.
Letters == Codes \ {Newline, Backspace}

\* The cell in column x of the cursor's row.
Cell(s, x) == s.video_mem[Row(s.cursor_y) + x]

\* The screen r is s after the characters of q in the cursor's row.
Printed(s, q, r) ==
    /\ r \in Screens /\ r.cursor_y = s.cursor_y /\ r.cursor_x = s.cursor_x + Len(q)
    /\ \A x \in 0 .. VGA_WIDTH - 1 :
          Cell(r, x) = IF s.cursor_x <= x /\ x < s.cursor_x + Len(q)
                       THEN q[x - s.cursor_x + 1] ELSE Cell(s, x)

\* vga_putc of a character that does not reach the end of the row.
LEMMA PutcPrints ==
  ASSUME NEW s \in Screens, NEW c \in Letters, s.cursor_x + 1 < VGA_WIDTH
  PROVE  LET r == vga_putc(s, c)
         IN  /\ r \in Screens /\ r.cursor_y = s.cursor_y /\ r.cursor_x = s.cursor_x + 1
             /\ \A x \in 0 .. VGA_WIDTH - 1 : Cell(r, x) = IF x = s.cursor_x THEN c ELSE Cell(s, x)
<1> DEFINE r == vga_putc(s, c)
           a == Row(s.cursor_y)
           k == s.cursor_x
<1>1. c \in Codes /\ c # Newline /\ c # Backspace
  BY DEF Letters
<1>2. r \in Screens /\ r.video_mem = Put(s, c) /\ r.cursor_y = s.cursor_y /\ r.cursor_x = s.cursor_x + 1
  BY <1>1, PutcCharacter
<1>3. /\ s.video_mem \in [Cells -> Codes] /\ a \in Nat /\ k \in 0 .. VGA_WIDTH - 1
      /\ a + VGA_WIDTH <= VGA_WIDTH * VGA_HEIGHT /\ VGA_WIDTH \in Nat /\ VGA_HEIGHT \in Nat
      /\ a + k \in Cells
  BY ScreenType
<1>4. Put(s, c) = [s.video_mem EXCEPT ![a + k] = c]
  BY DEF Put
<1> HIDE DEF r
<1>5. ASSUME NEW x \in 0 .. VGA_WIDTH - 1
      PROVE  Cell(r, x) = IF x = k THEN c ELSE Cell(s, x)
  <2>1. Cell(r, x) = Put(s, c)[a + x] /\ Cell(s, x) = s.video_mem[a + x]
    BY <1>2 DEF Cell
  <2> DEFINE size == VGA_WIDTH * VGA_HEIGHT
  <2>2. size \in Nat /\ Cells = 0 .. size - 1 /\ a + VGA_WIDTH <= size
    BY <1>3 DEF Cells
  <2> HIDE DEF a, k, size
  <2>3. a + x \in Cells /\ (a + x = a + k <=> x = k)
    BY <1>3, <2>2
  <2> QED BY <1>3, <1>4, <2>1, <2>3
<1> QED BY <1>2, <1>5 DEF r

\* vga_puts of characters that do not reach the end of the row.
LEMMA PutsPrints ==
  ASSUME NEW s \in Screens, NEW str \in Seq(Letters), s.cursor_x + Len(str) < VGA_WIDTH
  PROVE  Printed(s, str, vga_puts(s, str))
<1> DEFINE F(q) == Screen!Fold(s, q)
           Good == {n \in Nat : \A q \in Seq(Letters) :
                      Len(q) = n /\ s.cursor_x + n < VGA_WIDTH => Printed(s, q, F(q))}
<1>0. s.cursor_x \in Nat /\ VGA_WIDTH \in Nat
  BY ScreenType
<1>1. 0 \in Good
  <2> SUFFICES ASSUME NEW q \in Seq(Letters), Len(q) = 0 PROVE Printed(s, q, F(q))
    OBVIOUS
  <2>1. q = << >>
    OBVIOUS
  <2>2. F(q) = s
    BY <2>1, Screen!FoldNone
  <2>3. \A x \in 0 .. VGA_WIDTH - 1 : ~(s.cursor_x <= x /\ x < s.cursor_x + Len(q))
    BY <1>0
  <2> HIDE DEF F
  <2> QED BY <1>0, <2>2, <2>3 DEF Printed
<1>2. ASSUME NEW n \in Nat, n \in Good PROVE n + 1 \in Good
  <2> SUFFICES ASSUME NEW q \in Seq(Letters), Len(q) = n + 1, s.cursor_x + (n + 1) < VGA_WIDTH
               PROVE  Printed(s, q, F(q))
    OBVIOUS
  <2> DEFINE f == SubSeq(q, 1, n)
             c == q[n + 1]
             t == F(f)
             r == F(q)
  <2>1. f \in Seq(Letters) /\ c \in Letters /\ Len(f) = n /\ q = Append(f, c)
    BY Screen!Fronts
  <2>2. \A k \in 1 .. n : q[k] = f[k]
    OBVIOUS
  <2> HIDE DEF f, c
  <2>3. Printed(s, f, t)
    BY <1>0, <1>2, <2>1
  <2>4. r = vga_putc(t, c)
    BY <2>1, Screen!FoldLast
  <2> HIDE DEF F, t, r
  <2>5. t \in Screens /\ t.cursor_x + 1 < VGA_WIDTH /\ t.cursor_x = s.cursor_x + n /\ t.cursor_y = s.cursor_y
    BY <1>0, <2>1, <2>3 DEF Printed
  <2>6. /\ r \in Screens /\ r.cursor_y = t.cursor_y /\ r.cursor_x = t.cursor_x + 1
        /\ \A x \in 0 .. VGA_WIDTH - 1 : Cell(r, x) = IF x = t.cursor_x THEN c ELSE Cell(t, x)
    BY <2>1, <2>4, <2>5, PutcPrints
  <2>7. ASSUME NEW x \in 0 .. VGA_WIDTH - 1
        PROVE  Cell(r, x) = IF s.cursor_x <= x /\ x < s.cursor_x + (n + 1)
                            THEN q[x - s.cursor_x + 1] ELSE Cell(s, x)
    <3> DEFINE k == s.cursor_x
    <3>0. k \in Nat
      BY <1>0
    <3>1. Cell(t, x) = IF k <= x /\ x < k + n THEN f[x - k + 1] ELSE Cell(s, x)
      BY <2>1, <2>3 DEF Printed
    <3>2. Cell(r, x) = IF x = k + n THEN c ELSE Cell(t, x)
      BY <2>5, <2>6
    <3> HIDE DEF k
    <3>3. CASE x = k + n
      <4>1. k <= x /\ x < k + (n + 1) /\ x - k + 1 = n + 1
        BY <3>0, <3>3
      <4> QED BY <3>2, <3>3, <4>1 DEF c, k
    <3>4. CASE k <= x /\ x < k + n
      <4>1. x # k + n /\ x < k + (n + 1) /\ x - k + 1 \in 1 .. n
        BY <3>0, <3>4
      <4> QED BY <2>2, <3>1, <3>2, <3>4, <4>1 DEF k
    <3>5. CASE ~(k <= x /\ x < k + (n + 1))
      <4>1. x # k + n /\ ~(k <= x /\ x < k + n)
        BY <3>0, <3>5
      <4> QED BY <3>1, <3>2, <3>5, <4>1 DEF k
    <3>6. x = k + n \/ (k <= x /\ x < k + n) \/ ~(k <= x /\ x < k + (n + 1))
      BY <3>0
    <3> QED BY <3>3, <3>4, <3>5, <3>6
  <2>8. r.cursor_x = s.cursor_x + Len(q) /\ r.cursor_y = s.cursor_y
    <3> DEFINE k == s.cursor_x
    <3>1. k \in Nat /\ r.cursor_x = (k + n) + 1 /\ r.cursor_y = s.cursor_y
      BY <1>0, <2>5, <2>6
    <3> HIDE DEF k, Good
    <3>2. (k + n) + 1 = k + (n + 1)
      BY <3>1
    <3> QED BY <3>1, <3>2 DEF k
  <2> QED BY <2>6, <2>7, <2>8 DEF Printed, r
<1>3. Len(str) \in Nat
  OBVIOUS
<1> HIDE DEF Good
<1>4. Len(str) \in Good
  BY <1>1, <1>2, <1>3, Screen!NatSet
<1> QED BY <1>4, PutsFold DEF Good

\* vga_puts of backspaces, in the row.
LEMMA PutsBack ==
  ASSUME NEW s \in Screens, NEW str \in Seq({Backspace}), Len(str) <= s.cursor_x
  PROVE  LET r == vga_puts(s, str)
         IN  /\ r \in Screens /\ r.cursor_y = s.cursor_y /\ r.video_mem = s.video_mem
             /\ r.cursor_x = s.cursor_x - Len(str)
<1> DEFINE F(q) == Screen!Fold(s, q)
           Back(r, n) == /\ r \in Screens /\ r.cursor_y = s.cursor_y /\ r.video_mem = s.video_mem
                         /\ r.cursor_x = s.cursor_x - n
           Good == {n \in Nat : \A q \in Seq({Backspace}) :
                      Len(q) = n /\ n <= s.cursor_x => Back(F(q), n)}
<1>0. s.cursor_x \in Nat
  BY ScreenType
<1>1. 0 \in Good
  <2> SUFFICES ASSUME NEW q \in Seq({Backspace}), Len(q) = 0 PROVE Back(F(q), 0)
    OBVIOUS
  <2>1. q = << >>
    OBVIOUS
  <2>2. F(q) = s
    BY <2>1, Screen!FoldNone
  <2> HIDE DEF F
  <2> QED BY <1>0, <2>2
<1>2. ASSUME NEW n \in Nat, n \in Good PROVE n + 1 \in Good
  <2> SUFFICES ASSUME NEW q \in Seq({Backspace}), Len(q) = n + 1, n + 1 <= s.cursor_x
               PROVE  Back(F(q), n + 1)
    OBVIOUS
  <2> DEFINE f == SubSeq(q, 1, n)
             c == q[n + 1]
             t == F(f)
             r == F(q)
  <2>1. f \in Seq({Backspace}) /\ c \in {Backspace} /\ Len(f) = n /\ q = Append(f, c)
    BY Screen!Fronts
  <2> HIDE DEF f, c
  <2>3. Back(t, n)
    BY <1>0, <1>2, <2>1
  <2>4. r = vga_putc(t, Backspace)
    BY <2>1, Screen!FoldLast
  <2> HIDE DEF F, t, r
  <2>5. /\ r \in Screens /\ r.video_mem = t.video_mem /\ r.cursor_y = t.cursor_y
        /\ r.cursor_x = IF t.cursor_x > 0 THEN t.cursor_x - 1 ELSE t.cursor_x
    BY <2>3, <2>4, PutcBackspace
  <2>6. r.cursor_x = s.cursor_x - (n + 1)
    BY <1>0, <2>3, <2>5
  <2>7. Back(r, n + 1)
    BY <2>3, <2>5, <2>6
  <2> QED BY <2>7 DEF r
<1>3. Len(str) \in Nat
  OBVIOUS
<1> HIDE DEF Good
<1>4. Len(str) \in Good
  BY <1>1, <1>2, <1>3, Screen!NatSet
<1> QED BY <1>4, PutsFold DEF Good

\* The maximum of a number and 0, as Times and Part take it.
LEMMA MaxZero ==
  ASSUME NEW n \in Int
  PROVE  /\ n >= 0 => Max({n, 0}) = n
         /\ n < 0 => Max({n, 0}) = 0
         /\ Max({n, 0}) \in Nat
<1> DEFINE S == {n, 0}
<1>1. n >= 0 => \A x \in S : (\A y \in S : x >= y) <=> x = n
  OBVIOUS
<1>2. n < 0 => \A x \in S : (\A y \in S : x >= y) <=> x = 0
  OBVIOUS
<1>3. n \in S /\ 0 \in S
  OBVIOUS
<1> HIDE DEF S
<1>4. n >= 0 => Max(S) = n
  BY <1>1, <1>3 DEF Max
<1>5. n < 0 => Max(S) = 0
  BY <1>2, <1>3 DEF Max
<1> QED BY <1>4, <1>5 DEF S

\* The backspaces that send the cursor back.
LEMMA TimesBackspace ==
  ASSUME NEW n \in Int
  PROVE  /\ Times(n, Backspace) \in Seq({Backspace}) /\ Times(n, Backspace) \in Seq(Codes)
         /\ n >= 0 => Len(Times(n, Backspace)) = n
<1> DEFINE m == Max({n, 0})
<1>1. m \in Nat /\ (n >= 0 => m = n)
  BY MaxZero
<1> HIDE DEF m
<1>2. Times(n, Backspace) = [i \in 1 .. m |-> Backspace]
  BY DEF Times, m
<1>3. Backspace \in Codes
  BY DEF Backspace, Codes
<1> QED BY <1>1, <1>2, <1>3

\* The part of an array that is printed.
LEMMA PartType ==
  ASSUME NEW T, NEW buf \in [Index -> T], NEW i \in Nat, NEW j \in Int, j <= SHELL_BUF_SIZE
  PROVE  Part(buf, i, j) \in Seq(T)
<1> DEFINE m == Max({j - i, 0})
<1>1. m \in Nat /\ (j - i >= 0 => m = j - i) /\ (j - i < 0 => m = 0)
  BY MaxZero
<1> HIDE DEF m
<1>2. Part(buf, i, j) = [k \in 1 .. m |-> buf[i + k - 1]]
  BY DEF Part, m
<1>3. \A k \in 1 .. m : i + k - 1 \in Index
  BY <1>1, LineAssumption DEF Index
<1>4. \A k \in 1 .. m : buf[i + k - 1] \in T
  BY <1>3
<1> QED BY <1>1, <1>2, <1>4

\* Its length and its characters.
LEMMA PartIs ==
  ASSUME NEW buf, NEW i \in Nat, NEW j \in Int
  PROVE  /\ i <= j => Len(Part(buf, i, j)) = j - i
         /\ \A k \in 1 .. j - i : Part(buf, i, j)[k] = buf[i + k - 1]
<1> DEFINE m == Max({j - i, 0})
<1>1. m \in Nat /\ (j - i >= 0 => m = j - i) /\ (j - i < 0 => m = 0)
  BY MaxZero
<1> HIDE DEF m
<1>2. Part(buf, i, j) = [k \in 1 .. m |-> buf[i + k - 1]]
  BY DEF Part, m
<1>3. Len(Part(buf, i, j)) = m
  BY <1>1, <1>2
<1>4. i <= j => m = j - i
  BY <1>1
<1>5. \A k \in 1 .. j - i : k \in 1 .. m
  BY <1>1
<1>6. \A k \in 1 .. m : Part(buf, i, j)[k] = buf[i + k - 1]
  BY <1>2
<1> QED BY <1>3, <1>4, <1>5, <1>6

\* A character of a part of the buffer.
LEMMA PartAt ==
  ASSUME NEW buf, NEW i \in Nat, NEW j \in Int, NEW k \in 1 .. j - i
  PROVE  Part(buf, i, j)[k] = buf[i + (k - 1)]
BY PartIs

\* Redrawing: characters in the row, and backspaces.
LEMMA Redraw ==
  ASSUME NEW s \in Screens, NEW q \in Seq(Letters), s.cursor_x + Len(q) < VGA_WIDTH,
         NEW n \in Nat, n <= s.cursor_x + Len(q)
  PROVE  LET r == vga_puts(s, q \o Times(n, Backspace))
         IN  /\ r.cursor_y = s.cursor_y /\ r.cursor_x = s.cursor_x + Len(q) - n
             /\ \A x \in 0 .. VGA_WIDTH - 1 :
                   Cell(r, x) = IF s.cursor_x <= x /\ x < s.cursor_x + Len(q)
                                THEN q[x - s.cursor_x + 1] ELSE Cell(s, x)
<1> DEFINE b == Times(n, Backspace)
           m == vga_puts(s, q)
           r == vga_puts(s, q \o b)
<1>1. b \in Seq({Backspace}) /\ b \in Seq(Codes) /\ Len(b) = n
  BY TimesBackspace
<1>2. q \in Seq(Codes)
  BY DEF Letters
<1> HIDE DEF b
<1>3. Printed(s, q, m)
  BY PutsPrints
<1>4. r = vga_puts(m, b)
  BY <1>1, <1>2, PutsFold, Screen!FoldConcat
<1> HIDE DEF m, r
<1>5. /\ m \in Screens /\ m.cursor_y = s.cursor_y /\ m.cursor_x = s.cursor_x + Len(q)
      /\ \A x \in 0 .. VGA_WIDTH - 1 :
           Cell(m, x) = IF s.cursor_x <= x /\ x < s.cursor_x + Len(q)
                        THEN q[x - s.cursor_x + 1] ELSE Cell(s, x)
  BY <1>3 DEF Printed
<1>6. /\ r.cursor_y = m.cursor_y /\ r.video_mem = m.video_mem /\ r.cursor_x = m.cursor_x - Len(b)
  BY <1>1, <1>4, <1>5, PutsBack
<1>7. \A x \in 0 .. VGA_WIDTH - 1 : Cell(r, x) = Cell(m, x)
  BY <1>6 DEF Cell
<1>8. /\ r.cursor_y = s.cursor_y /\ r.cursor_x = s.cursor_x + Len(q) - n
      /\ \A x \in 0 .. VGA_WIDTH - 1 :
           Cell(r, x) = IF s.cursor_x <= x /\ x < s.cursor_x + Len(q)
                        THEN q[x - s.cursor_x + 1] ELSE Cell(s, x)
  <2>1. r.cursor_y = s.cursor_y /\ r.cursor_x = s.cursor_x + Len(q) - n
    <3>1. m.cursor_y = s.cursor_y /\ m.cursor_x = s.cursor_x + Len(q)
      BY <1>5
    <3>2. r.cursor_y = m.cursor_y /\ r.cursor_x = m.cursor_x - n
      BY <1>1, <1>6
    <3>3. s.cursor_x \in Nat /\ Len(q) \in Nat
      BY ScreenType
    <3> QED BY <3>1, <3>2, <3>3
  <2> DEFINE e(x) == IF s.cursor_x <= x /\ x < s.cursor_x + Len(q)
                     THEN q[x - s.cursor_x + 1] ELSE Cell(s, x)
  <2>2. \A x \in 0 .. VGA_WIDTH - 1 : Cell(m, x) = e(x)
    BY <1>5
  <2> HIDE DEF e
  <2>3. \A x \in 0 .. VGA_WIDTH - 1 : Cell(r, x) = e(x)
    BY <1>7, <2>2
  <2> QED BY <2>1, <2>3 DEF e
<1> QED BY <1>8 DEF b, r
-----------------------------------------------------------------------------
\* The inductive invariant of the line.  The screen is one that vga_putc makes, and
\* a plain line was typed and has its text in a row.
LineInv ==
    /\ TypeOK /\ HistoryInv /\ EditsInside
    /\ g_history \in Seq(Seq(Chars))
    /\ scr \in Sound
    /\ home \in 0 .. VGA_WIDTH - 1
    /\ plain => origin = "typed" /\ home + len < VGA_WIDTH

\* What is printed is in Codes, and none of it is out of place in a line.
LEMMA CodesType ==
  /\ Prompts \subseteq Seq(Codes) /\ Outputs \subseteq Seq(Codes)
  /\ Newline \in Codes /\ Backspace \in Codes /\ Space \in Codes
  /\ Chars \cup {0} \subseteq Letters /\ Space \in Letters /\ Letters \subseteq Codes
<1>1. Prompts \subseteq Seq(Codes) /\ Outputs \subseteq Seq(Codes)
  BY LineAssumption DEF Codes
<1>2. Newline \in Codes /\ Backspace \in Codes /\ Space \in Codes /\ Letters \subseteq Codes
  BY DEF Codes, Newline, Backspace, Space, Letters
<1>3. Chars \cup {0} \subseteq Letters /\ Space \in Letters
  BY LineAssumption DEF Codes, Newline, Backspace, Space, Letters
<1> QED BY <1>1, <1>2, <1>3

\* A screen that vga_puts makes has its cursor on it.
LEMMA CursorIn ==
  ASSUME NEW s \in Sound
  PROVE  /\ s.cursor_x \in 0 .. VGA_WIDTH - 1 /\ s.cursor_y \in 0 .. VGA_HEIGHT - 1
         /\ s \in Screens
BY ScreenType DEF Sound

\* A string of the history after strcpy, and the string that Enter reads: a 0 ends
\* it, and there is one.
LEMMA CopyType ==
  ASSUME NEW buf \in [Index -> Chars \cup {0}], NEW str \in Seq(Chars), Len(str) < SHELL_BUF_SIZE
  PROVE  strcpy(buf, str) \in [Index -> Chars \cup {0}]
<1>1. ASSUME NEW i \in Index, i < Len(str) PROVE str[i + 1] \in Chars
  <2>1. i + 1 \in 1 .. Len(str)
    BY <1>1 DEF Index
  <2> QED BY <2>1
<1> QED BY <1>1 DEF strcpy

\* The string in a buffer with a terminator is shorter than the buffer.
LEMMA StringType ==
  ASSUME NEW buf \in [Index -> Chars \cup {0}], NEW p \in Index, buf[p] = 0
  PROVE  CString(buf) \in Seq(Chars) /\ Len(CString(buf)) < SHELL_BUF_SIZE
<1> DEFINE C == {i \in Index : buf[i] = 0}
           End(i) == buf[i] = 0 /\ \A j \in 0 .. i - 1 : buf[j] # 0
<1>1. PICK x \in C : \A y \in 0 .. x - 1 : y \notin C
  <2>1. C \in SUBSET Nat /\ C # {}
    BY DEF Index
  <2> HIDE DEF C
  <2> QED BY <2>1, Screen!Least
<1>2. \A y \in 0 .. x - 1 : y \in Index
  BY LineAssumption DEF Index
<1>3. x \in Index /\ End(x)
  BY <1>1, <1>2
<1> DEFINE end == CHOOSE i \in Index : End(i)
<1>4. end \in Index /\ End(end)
  <2> HIDE DEF End
  <2> QED BY <1>3
<1>5. CString(buf) = [i \in 1 .. end |-> buf[i - 1]]
  BY DEF CString
<1> HIDE DEF end
<1>6. end \in Nat /\ end < SHELL_BUF_SIZE
  BY <1>4, LineAssumption DEF Index
<1>7. ASSUME NEW i \in 1 .. end PROVE buf[i - 1] \in Chars
  <2>1. i - 1 \in 0 .. end - 1 /\ i - 1 \in Index
    BY <1>6, LineAssumption DEF Index
  <2> QED BY <1>4, <2>1
<1> QED BY <1>5, <1>6, <1>7

\* What the prompt and a blank line, and what a fault, leave of the screen and the line.
LEMMA BlankKeeps ==
  ASSUME NEW s \in Sound, BlankLine(s)
  PROVE  /\ scr' \in Sound /\ home' \in 0 .. VGA_WIDTH - 1 /\ home' = scr'.cursor_x
         /\ input_buffer' = Zeros /\ pos' = 0 /\ len' = 0 /\ plain' = TRUE
         /\ origin' = "typed"
<1>1. PICK prompt \in Prompts : scr' = vga_puts(s, prompt)
  BY DEF BlankLine
<1>2. scr' \in Sound
  BY <1>1, CodesType, PutsKeeps
<1>3. scr'.cursor_x \in 0 .. VGA_WIDTH - 1
  <2> DEFINE t == scr'
  <2>1. t \in Sound
    BY <1>2
  <2> HIDE DEF t
  <2>2. t.cursor_x \in 0 .. VGA_WIDTH - 1
    BY <2>1, CursorIn
  <2> QED BY <2>2 DEF t
<1> QED BY <1>2, <1>3 DEF BlankLine

\* A program that faults comes back to a shell_loop that reads where it left off, in a row
\* that was not edited.
LEMMA FaultKeeps ==
  ASSUME NEW s \in Sound, NEW buf, ProgramFaults(buf, s)
  PROVE  /\ scr' \in Sound /\ home' \in 0 .. VGA_WIDTH - 1
         /\ input_buffer' = buf /\ pos' = pos /\ len' = len /\ plain' = FALSE
         /\ origin' = IF origin = "recalled" THEN "recalled" ELSE "left"
<1>1. PICK out \in Outputs, prompt \in Prompts :
         scr' = vga_puts(s, out \o <<Newline, Newline, Newline>> \o prompt)
  BY DEF ProgramFaults
<1>2. scr' \in Sound
  <2> DEFINE str == out \o <<Newline, Newline, Newline>> \o prompt
  <2>1. out \in Seq(Codes) /\ prompt \in Seq(Codes) /\ Newline \in Codes
    BY CodesType
  <2>2. str \in Seq(Codes)
    BY <2>1
  <2>3. scr' = vga_puts(s, str)
    BY <1>1
  <2> HIDE DEF str
  <2> QED BY <2>2, <2>3, PutsKeeps
<1>3. scr'.cursor_x \in 0 .. VGA_WIDTH - 1
  <2> DEFINE t == scr'
  <2>1. t \in Sound
    BY <1>2
  <2> HIDE DEF t
  <2>2. t.cursor_x \in 0 .. VGA_WIDTH - 1
    BY <2>1, CursorIn
  <2> QED BY <2>2 DEF t
<1> QED BY <1>2, <1>3 DEF ProgramFaults

\* handle_command comes back with a blank line, or with the line as it was.
LEMMA CommandKeeps ==
  ASSUME scr \in Sound, NEW buf, handle_command(buf, vga_putc(scr, Newline))
  PROVE  /\ scr' \in Sound /\ home' \in 0 .. VGA_WIDTH - 1
         /\ \/ /\ input_buffer' = Zeros /\ pos' = 0 /\ len' = 0 /\ plain' = TRUE
               /\ origin' = "typed"
            \/ /\ input_buffer' = buf /\ pos' = pos /\ len' = len /\ plain' = FALSE
               /\ origin' = IF origin = "recalled" THEN "recalled" ELSE "left"
<1> DEFINE s == vga_putc(scr, Newline)
<1>1. s \in Sound
  <2> DEFINE t == scr
  <2>1. t \in Sound
    OBVIOUS
  <2> HIDE DEF t
  <2>2. vga_putc(t, Newline) \in Sound
    BY <2>1, NewlineFresh, FreshSound
  <2> QED BY <2>2 DEF t
<1>2. CommandReturns(s) \/ ProgramExits(s) \/ ProgramFaults(buf, s)
  BY DEF handle_command
<1> HIDE DEF s
<1>3. CASE CommandReturns(s)
  <2>1. CASE BlankLine(clear_screen)
    <3>1. clear_screen \in Sound
      BY ClearFresh, FreshSound
    <3> QED BY <2>1, <3>1, BlankKeeps
  <2>2. CASE \E out \in Outputs : BlankLine(vga_puts(s, out))
    <3>1. PICK out \in Outputs : BlankLine(vga_puts(s, out))
      BY <2>2
    <3>2. vga_puts(s, out) \in Sound
      BY <1>1, CodesType, PutsKeeps
    <3> QED BY <3>1, <3>2, BlankKeeps
  <2> QED BY <1>3, <2>1, <2>2 DEF CommandReturns
<1>4. CASE ProgramExits(s)
  <2>1. PICK out \in Outputs : BlankLine(vga_puts(s, out \o <<Newline>>))
    BY <1>4 DEF ProgramExits
  <2>2. vga_puts(s, out \o <<Newline>>) \in Sound
    <3>1. out \in Seq(Codes) /\ Newline \in Codes
      BY CodesType
    <3>2. out \o <<Newline>> \in Seq(Codes)
      BY <3>1
    <3> QED BY <1>1, <3>2, PutsKeeps
  <2> QED BY <2>1, <2>2, BlankKeeps
<1>5. CASE ProgramFaults(buf, s)
  BY <1>1, <1>5, FaultKeeps
<1> QED BY <1>2, <1>3, <1>4, <1>5

\* The history after a line more.
LEMMA RememberKeeps ==
  ASSUME LineInv, NEW cmd \in Seq(Chars), Len(cmd) < SHELL_BUF_SIZE,
         NEW h, h = Remember(cmd)
  PROVE  /\ h \in Seq(Seq(Chars)) /\ Len(h) <= MAX_HISTORY
         /\ \A i \in 1 .. Len(h) : Len(h[i]) < SHELL_BUF_SIZE
         /\ \A i \in 1 .. Len(h) - 1 : h[i] # h[i + 1]
<1> DEFINE S == Seq(Chars)
           g == g_history
<1>1. /\ g \in Seq(S) /\ Len(g) <= MAX_HISTORY /\ cmd \in S
      /\ \A i \in 1 .. Len(g) : Len(g[i]) < SHELL_BUF_SIZE
      /\ \A i \in 1 .. Len(g) - 1 : g[i] # g[i + 1]
      /\ MAX_HISTORY \in Nat \ {0}
  BY LineAssumption DEF LineInv, TypeOK, HistoryInv
<1>2. \/ h = g
      \/ (g # << >> => g[Len(g)] # cmd) /\ Len(g) < MAX_HISTORY /\ h = Append(g, cmd)
      \/ (g # << >> => g[Len(g)] # cmd) /\ ~(Len(g) < MAX_HISTORY) /\ h = Append(Tail(g), cmd)
  BY DEF Remember, Last
<1> HIDE DEF S, g
<1>3. CASE h = g
  BY <1>1, <1>3 DEF S
<1>4. CASE (g # << >> => g[Len(g)] # cmd) /\ Len(g) < MAX_HISTORY /\ h = Append(g, cmd)
  <2>1. h \in Seq(S) /\ Len(h) = Len(g) + 1 /\ h[Len(g) + 1] = cmd /\ Len(g) \in Nat
        /\ \A i \in 1 .. Len(g) : h[i] = g[i]
    BY <1>1, <1>4
  <2>2. \A i \in 1 .. Len(h) : i \in 1 .. Len(g) \/ i = Len(g) + 1
    BY <2>1
  <2>3. \A i \in 1 .. Len(h) : Len(h[i]) < SHELL_BUF_SIZE
    BY <1>1, <2>1, <2>2
  <2>4. ASSUME NEW i \in 1 .. Len(h) - 1 PROVE h[i] # h[i + 1]
    <3>1. CASE i = Len(g)
      BY <1>1, <1>4, <2>1, <3>1
    <3>2. CASE i # Len(g)
      <4>1. i \in 1 .. Len(g) - 1 /\ i \in 1 .. Len(g) /\ i + 1 \in 1 .. Len(g)
        BY <2>1, <3>2
      <4> QED BY <1>1, <2>1, <4>1
    <3> QED BY <3>1, <3>2
  <2> QED BY <1>1, <1>4, <2>1, <2>3, <2>4 DEF S
<1>5. CASE (g # << >> => g[Len(g)] # cmd) /\ ~(Len(g) < MAX_HISTORY) /\ h = Append(Tail(g), cmd)
  <2>0. g # << >> /\ Len(g) \in Nat /\ Len(g) >= 1
    BY <1>1, <1>5
  <2>1. h \in Seq(S) /\ Len(h) = Len(g) /\ h[Len(g)] = cmd
        /\ \A i \in 1 .. Len(g) - 1 : h[i] = g[i + 1]
    BY <1>1, <1>5, <2>0
  <2>2. \A i \in 1 .. Len(h) : i \in 1 .. Len(g) - 1 \/ i = Len(g)
    BY <2>0, <2>1
  <2>3. \A i \in 1 .. Len(g) - 1 : i + 1 \in 1 .. Len(g)
    BY <2>0
  <2>4. \A i \in 1 .. Len(h) : Len(h[i]) < SHELL_BUF_SIZE
    BY <1>1, <2>1, <2>2, <2>3
  <2>5. ASSUME NEW i \in 1 .. Len(h) - 1 PROVE h[i] # h[i + 1]
    <3>0. i \in 1 .. Len(g) - 1 /\ h[i] = g[i + 1]
      BY <2>1
    <3>1. CASE i + 1 = Len(g)
      BY <1>5, <2>0, <2>1, <3>0, <3>1
    <3>2. CASE i + 1 # Len(g)
      <4>1. i + 1 \in 1 .. Len(g) - 1
        BY <2>0, <3>0, <3>2
      <4>2. h[i + 1] = g[(i + 1) + 1] /\ g[i + 1] # g[(i + 1) + 1]
        BY <1>1, <2>1, <4>1
      <4> QED BY <3>0, <4>2
    <3> QED BY <3>1, <3>2
  <2> QED BY <1>1, <2>1, <2>4, <2>5 DEF S
<1> QED BY <1>2, <1>3, <1>4, <1>5

\* A step that leaves the history as it was and the index in it.
LEMMA HistorySame ==
  ASSUME LineInv, g_history' = g_history, g_history_idx' \in 0 .. Len(g_history)
                                          \/ g_history_idx' = g_history_idx
  PROVE  /\ HistoryInv' /\ g_history' \in Seq(Seq(Chars)) /\ Len(g_history') <= MAX_HISTORY
         /\ \A i \in 1 .. Len(g_history') : Len(g_history'[i]) < SHELL_BUF_SIZE
         /\ g_history_idx' \in -1 .. Len(g_history')
<1>1. /\ HistoryInv /\ g_history \in Seq(Seq(Chars)) /\ Len(g_history) <= MAX_HISTORY
      /\ \A i \in 1 .. Len(g_history) : Len(g_history[i]) < SHELL_BUF_SIZE
      /\ g_history_idx \in -1 .. Len(g_history)
  BY DEF LineInv, TypeOK
<1>2. g_history_idx' \in -1 .. Len(g_history) /\ (g_history_idx' = -1 => g_history_idx = -1)
  BY <1>1
<1> QED BY <1>1, <1>2 DEF HistoryInv

\* The parts of the invariant after a step.
LEMMA LineNext ==
  ASSUME input_buffer' \in [Index -> Chars \cup {0}],
         pos' \in 0 .. SHELL_BUF_SIZE, len' \in -LEN_BELOW .. SHELL_BUF_SIZE - 1,
         HistoryInv', g_history' \in Seq(Seq(Chars)), Len(g_history') <= MAX_HISTORY,
         \A i \in 1 .. Len(g_history') : Len(g_history'[i]) < SHELL_BUF_SIZE,
         g_history_idx' \in -1 .. Len(g_history'),
         scr' \in Sound, smashed' \in BOOLEAN, plain' \in BOOLEAN,
         home' \in 0 .. VGA_WIDTH - 1, origin' \in {"typed", "left", "recalled"},
         plain' => origin' = "typed" /\ home' + len' < VGA_WIDTH,
         origin' # "recalled" => ~smashed' /\ pos' <= len'
  PROVE  LineInv'
<1>1. scr'.cursor_x \in 0 .. VGA_WIDTH - 1 /\ scr'.cursor_y \in 0 .. VGA_HEIGHT - 1
  <2> DEFINE t == scr'
  <2>1. t \in Sound
    OBVIOUS
  <2> HIDE DEF t
  <2>2. t.cursor_x \in 0 .. VGA_WIDTH - 1 /\ t.cursor_y \in 0 .. VGA_HEIGHT - 1
    BY <2>1, CursorIn
  <2> QED BY <2>2 DEF t
<1>2. TypeOK'
  BY <1>1 DEF TypeOK
<1> QED BY <1>2 DEF LineInv, EditsInside

\* The numbers of the line.
LEMMA LineTypes ==
  ASSUME LineInv
  PROVE  /\ input_buffer \in [Index -> Chars \cup {0}]
         /\ pos \in Nat /\ pos <= SHELL_BUF_SIZE /\ len \in Int /\ len <= SHELL_BUF_SIZE - 1
         /\ len >= -LEN_BELOW /\ LEN_BELOW \in Nat /\ SHELL_BUF_SIZE \in Nat /\ SHELL_BUF_SIZE > 0
         /\ scr \in Sound /\ home \in 0 .. VGA_WIDTH - 1 /\ VGA_WIDTH \in Nat
         /\ smashed \in BOOLEAN /\ plain \in BOOLEAN
         /\ plain => origin = "typed" /\ pos <= len /\ home + len < VGA_WIDTH /\ ~smashed
         /\ origin # "recalled" => pos <= len /\ ~smashed
         /\ origin \in {"typed", "left", "recalled"}
         /\ g_history \in Seq(Seq(Chars)) /\ g_history_idx \in Int
         /\ g_history_idx >= -1 /\ g_history_idx <= Len(g_history)
         /\ \A i \in 1 .. Len(g_history) : g_history[i] \in Seq(Chars) /\ Len(g_history[i]) < SHELL_BUF_SIZE
<1>1. \A i \in 1 .. Len(g_history) : g_history[i] \in Seq(Chars) /\ Len(g_history[i]) < SHELL_BUF_SIZE
  BY DEF LineInv, TypeOK
<1>2. smashed \in BOOLEAN /\ plain \in BOOLEAN
  BY DEF LineInv, TypeOK
<1>3. /\ input_buffer \in [Index -> Chars \cup {0}] /\ scr \in Sound /\ home \in 0 .. VGA_WIDTH - 1
      /\ plain => origin = "typed" /\ pos <= len /\ home + len < VGA_WIDTH /\ ~smashed
      /\ origin # "recalled" => pos <= len /\ ~smashed
      /\ origin \in {"typed", "left", "recalled"}
      /\ g_history \in Seq(Seq(Chars))
  BY DEF LineInv, TypeOK, EditsInside
<1>4. /\ pos \in 0 .. SHELL_BUF_SIZE /\ len \in -LEN_BELOW .. SHELL_BUF_SIZE - 1
      /\ g_history_idx \in -1 .. Len(g_history) /\ Len(g_history) \in Nat
  BY <1>3 DEF LineInv, TypeOK
<1>5. LEN_BELOW \in Nat /\ SHELL_BUF_SIZE \in Nat /\ SHELL_BUF_SIZE > 0 /\ VGA_WIDTH \in Nat
  BY LineAssumption, VgaAssumption
<1> QED BY <1>1, <1>2, <1>3, <1>4, <1>5

\* The return key.
LEMMA EnterKeeps == ASSUME LineInv, Enter PROVE LineInv'
<1>0. /\ input_buffer \in [Index -> Chars \cup {0}]
      /\ pos \in Nat /\ pos <= SHELL_BUF_SIZE /\ len \in Int /\ len <= SHELL_BUF_SIZE - 1
      /\ len >= -LEN_BELOW /\ LEN_BELOW \in Nat /\ SHELL_BUF_SIZE \in Nat /\ SHELL_BUF_SIZE > 0
      /\ scr \in Sound /\ home \in 0 .. VGA_WIDTH - 1 /\ VGA_WIDTH \in Nat
      /\ smashed \in BOOLEAN /\ plain \in BOOLEAN
      /\ plain => origin = "typed" /\ pos <= len /\ home + len < VGA_WIDTH /\ ~smashed
      /\ origin # "recalled" => pos <= len /\ ~smashed
      /\ origin \in {"typed", "left", "recalled"}
  BY LineTypes
<1>1. CASE pos \in Index
  <2> DEFINE buf == [input_buffer EXCEPT ![pos] = 0]
             cmd == CString(buf)
             h == Remember(cmd)
  <2>1. /\ g_history' = h /\ g_history_idx' = Len(g_history') /\ smashed' = smashed /\ ~smashed
        /\ handle_command(buf, vga_putc(scr, Newline))
    BY <1>1 DEF Enter
  <2>2. buf \in [Index -> Chars \cup {0}] /\ buf[pos] = 0
    BY <1>0, <1>1
  <2> HIDE DEF buf
  <2>3. cmd \in Seq(Chars) /\ Len(cmd) < SHELL_BUF_SIZE
    BY <1>1, <2>2, StringType
  <2> HIDE DEF cmd
  <2>4. /\ h \in Seq(Seq(Chars)) /\ Len(h) <= MAX_HISTORY
        /\ \A i \in 1 .. Len(h) : Len(h[i]) < SHELL_BUF_SIZE
        /\ \A i \in 1 .. Len(h) - 1 : h[i] # h[i + 1]
    BY <2>3, RememberKeeps
  <2> HIDE DEF h
  <2>5. Len(h) \in Nat
    BY <2>4
  <2>6. HistoryInv' /\ g_history_idx' \in -1 .. Len(g_history')
    BY <2>1, <2>4, <2>5 DEF HistoryInv
  <2>7. /\ scr' \in Sound /\ home' \in 0 .. VGA_WIDTH - 1
        /\ \/ /\ input_buffer' = Zeros /\ pos' = 0 /\ len' = 0 /\ plain' = TRUE
              /\ origin' = "typed"
           \/ /\ input_buffer' = buf /\ pos' = pos /\ len' = len /\ plain' = FALSE
              /\ origin' = IF origin = "recalled" THEN "recalled" ELSE "left"
    BY <1>0, <2>1, CommandKeeps
  <2>8. /\ input_buffer' \in [Index -> Chars \cup {0}]
        /\ pos' \in 0 .. SHELL_BUF_SIZE /\ len' \in -LEN_BELOW .. SHELL_BUF_SIZE - 1
        /\ plain' \in BOOLEAN
        /\ plain' => origin' = "typed" /\ home' + len' < VGA_WIDTH
        /\ origin' # "recalled" => ~smashed' /\ pos' <= len'
        /\ origin' \in {"typed", "left", "recalled"}
    <3>1. CASE /\ input_buffer' = Zeros /\ pos' = 0 /\ len' = 0 /\ plain' = TRUE
               /\ origin' = "typed"
      <4>1. input_buffer' \in [Index -> Chars \cup {0}]
        BY <3>1 DEF Zeros
      <4>2. plain' \in BOOLEAN /\ ~smashed'
        BY <2>1, <3>1
      <4>3. pos' \in 0 .. SHELL_BUF_SIZE /\ len' \in -LEN_BELOW .. SHELL_BUF_SIZE - 1
        BY <1>0, <3>1
      <4>4. home' \in 0 .. VGA_WIDTH - 1
        BY <2>7
      <4>5. pos' = 0 /\ len' = 0
        BY <3>1
      <4>6. pos' <= len' /\ home' + len' < VGA_WIDTH
        <5>1. pos' <= len'
          BY <4>5
        <5>2. \A x \in 0 .. VGA_WIDTH - 1 : x + 0 < VGA_WIDTH
          BY VgaAssumption
        <5>3. home' + 0 < VGA_WIDTH
          BY <4>4, <5>2
        <5> QED BY <4>5, <5>1, <5>3
      <4> QED BY <3>1, <4>1, <4>2, <4>3, <4>6
    <3>2. CASE /\ input_buffer' = buf /\ pos' = pos /\ len' = len /\ plain' = FALSE
               /\ origin' = IF origin = "recalled" THEN "recalled" ELSE "left"
      <4>1. plain' \in BOOLEAN /\ (plain' => FALSE)
        BY <3>2
      <4>3. /\ origin' # "recalled" => ~smashed' /\ pos' <= len'
            /\ origin' \in {"typed", "left", "recalled"}
        BY <1>0, <2>1, <3>2
      <4>2. pos' \in 0 .. SHELL_BUF_SIZE /\ len' \in -LEN_BELOW .. SHELL_BUF_SIZE - 1
        BY <1>0, <3>2
      <4> QED BY <2>2, <3>2, <4>1, <4>2, <4>3
    <3> QED BY <2>7, <3>1, <3>2
  <2>9. smashed' \in BOOLEAN
    BY <1>0, <2>1
  <2> QED BY <2>1, <2>4, <2>6, <2>7, <2>8, <2>9, LineNext
<1>2. CASE pos \notin Index
  <2>1. /\ smashed' = TRUE /\ input_buffer' = input_buffer /\ pos' = pos /\ len' = len
        /\ g_history' = g_history /\ g_history_idx' = g_history_idx /\ scr' = scr
        /\ home' = home /\ plain' = plain /\ origin' = origin
    BY <1>2 DEF Enter
  <2>2. ~plain /\ origin = "recalled"
    BY <1>0, <1>2 DEF Index
  <2>3. plain' = FALSE
    BY <1>0, <2>1, <2>2
  <2>4. /\ HistoryInv' /\ g_history' \in Seq(Seq(Chars)) /\ Len(g_history') <= MAX_HISTORY
        /\ \A i \in 1 .. Len(g_history') : Len(g_history'[i]) < SHELL_BUF_SIZE
        /\ g_history_idx' \in -1 .. Len(g_history')
    BY <2>1, HistorySame
  <2>5. smashed' \in BOOLEAN /\ plain' \in BOOLEAN /\ (plain' => FALSE)
    BY <2>1, <2>3
  <2>6. pos' \in 0 .. SHELL_BUF_SIZE /\ len' \in -LEN_BELOW .. SHELL_BUF_SIZE - 1
    BY <1>0, <2>1
  <2>7. origin' = "recalled"
    BY <2>1, <2>2
  <2> QED BY <1>0, <2>1, <2>4, <2>5, <2>6, <2>7, LineNext
<1> QED BY <1>1, <1>2

\* Up and Down: an entry of the history takes the place of the line.
LEMMA RecallKeeps ==
  ASSUME LineInv, NEW str \in Seq(Chars), Len(str) < SHELL_BUF_SIZE, Recall(str, str),
         g_history_idx' \in 0 .. Len(g_history)
  PROVE  LineInv'
<1>0. /\ input_buffer \in [Index -> Chars \cup {0}]
      /\ pos \in Nat /\ pos <= SHELL_BUF_SIZE /\ len \in Int /\ len <= SHELL_BUF_SIZE - 1
      /\ len >= -LEN_BELOW /\ LEN_BELOW \in Nat /\ SHELL_BUF_SIZE \in Nat
      /\ scr \in Sound /\ home \in 0 .. VGA_WIDTH - 1 /\ smashed \in BOOLEAN
  BY LineTypes
<1>1. /\ scr' = vga_puts(scr, Wiping(pos) \o str) /\ input_buffer' = strcpy(input_buffer, str)
      /\ pos' = Len(str) /\ plain' = FALSE /\ len' = len /\ g_history' = g_history
      /\ smashed' = smashed /\ home' = home /\ origin' = "recalled"
  BY DEF Recall
<1>2. scr' \in Sound
  <2> DEFINE q == Wiping(pos) \o str
             t == scr
  <2>1. Wiping(pos) \in Seq(Codes)
    <3>1. 3 * pos \in Nat
      BY <1>0
    <3>2. Space \in Codes /\ Backspace \in Codes
      BY CodesType
    <3> QED BY <3>1, <3>2 DEF Wiping
  <2>2. str \in Seq(Codes)
    BY DEF Codes
  <2>3. q \in Seq(Codes)
    BY <2>1, <2>2
  <2>4. t \in Sound /\ scr' = vga_puts(t, q)
    BY <1>0, <1>1
  <2> HIDE DEF q, t
  <2> QED BY <2>3, <2>4, PutsKeeps
<1>3. input_buffer' \in [Index -> Chars \cup {0}]
  <2> DEFINE b == input_buffer
  <2>1. b \in [Index -> Chars \cup {0}] /\ input_buffer' = strcpy(b, str)
    BY <1>0, <1>1
  <2> HIDE DEF b
  <2> QED BY <2>1, CopyType
<1>4. /\ HistoryInv' /\ g_history' \in Seq(Seq(Chars)) /\ Len(g_history') <= MAX_HISTORY
      /\ \A i \in 1 .. Len(g_history') : Len(g_history'[i]) < SHELL_BUF_SIZE
      /\ g_history_idx' \in -1 .. Len(g_history')
  BY <1>1, HistorySame
<1>5. pos' \in 0 .. SHELL_BUF_SIZE /\ len' \in -LEN_BELOW .. SHELL_BUF_SIZE - 1
  <2>1. Len(str) \in Nat
    OBVIOUS
  <2> QED BY <1>0, <1>1, <2>1
<1>6. smashed' \in BOOLEAN /\ plain' \in BOOLEAN /\ (plain' => FALSE)
  BY <1>0, <1>1
<1> QED BY <1>0, <1>1, <1>2, <1>3, <1>4, <1>5, <1>6, LineNext

\* Recalling a line from the history keeps the invariant.
LEMMA UpDownKeeps == ASSUME LineInv, Up \/ Down PROVE LineInv'
<1>0. /\ g_history \in Seq(Seq(Chars)) /\ g_history_idx \in Int
      /\ g_history_idx >= -1 /\ g_history_idx <= Len(g_history) /\ SHELL_BUF_SIZE \in Nat /\ SHELL_BUF_SIZE > 0
      /\ \A i \in 1 .. Len(g_history) : g_history[i] \in Seq(Chars) /\ Len(g_history[i]) < SHELL_BUF_SIZE
  BY LineTypes
<1>1. Len(g_history) \in Nat
  BY <1>0
<1>2. CASE Up
  <2> DEFINE str == g_history[g_history_idx]
  <2>1. g_history_idx > 0 /\ g_history_idx' = g_history_idx - 1 /\ Recall(str, str)
    BY <1>2 DEF Up
  <2>2. g_history_idx \in 1 .. Len(g_history) /\ g_history_idx' \in 0 .. Len(g_history)
    BY <1>0, <1>1, <2>1
  <2>3. str \in Seq(Chars) /\ Len(str) < SHELL_BUF_SIZE
    BY <1>0, <2>2
  <2> HIDE DEF str
  <2> QED BY <2>1, <2>2, <2>3, RecallKeeps
<1>3. CASE Down
  <2> DEFINE str == IF g_history_idx + 1 = Len(g_history) THEN << >> ELSE g_history[(g_history_idx + 1) + 1]
  <2>1. g_history_idx < Len(g_history) /\ g_history_idx' = g_history_idx + 1 /\ Recall(str, str)
    BY <1>3 DEF Down
  <2>2. g_history_idx' \in 0 .. Len(g_history)
    BY <1>0, <1>1, <2>1
  <2>3. str \in Seq(Chars) /\ Len(str) < SHELL_BUF_SIZE
    <3>1. << >> \in Seq(Chars) /\ Len(<< >>) = 0
      OBVIOUS
    <3>2. CASE g_history_idx + 1 = Len(g_history)
      BY <1>0, <3>1, <3>2
    <3>3. CASE g_history_idx + 1 # Len(g_history)
      <4>1. (g_history_idx + 1) + 1 \in 1 .. Len(g_history)
        BY <1>0, <1>1, <2>1, <3>3
      <4> QED BY <1>0, <3>3, <4>1
    <3> QED BY <3>2, <3>3
  <2> HIDE DEF str
  <2> QED BY <2>1, <2>2, <2>3, RecallKeeps
<1> QED BY <1>2, <1>3

\* The backspace key.
LEMMA EraseKeeps == ASSUME LineInv, Erase PROVE LineInv'
<1>0. /\ input_buffer \in [Index -> Chars \cup {0}]
      /\ pos \in Nat /\ pos <= SHELL_BUF_SIZE /\ len \in Int /\ len <= SHELL_BUF_SIZE - 1
      /\ len >= -LEN_BELOW /\ LEN_BELOW \in Nat /\ SHELL_BUF_SIZE \in Nat
      /\ scr \in Sound /\ home \in 0 .. VGA_WIDTH - 1 /\ VGA_WIDTH \in Nat
      /\ smashed \in BOOLEAN /\ plain \in BOOLEAN
      /\ plain => origin = "typed" /\ pos <= len /\ home + len < VGA_WIDTH /\ ~smashed
      /\ origin # "recalled" => pos <= len /\ ~smashed
      /\ origin \in {"typed", "left", "recalled"}
  BY LineTypes
<1> DEFINE str == <<Backspace>> \o Part(input_buffer', pos', len') \o <<Space>>
                    \o Times(len' + 1 - pos', Backspace)
<1>1. /\ pos > 0 /\ len > -LEN_BELOW /\ pos' = pos - 1 /\ len' = len - 1
      /\ input_buffer' = [i \in Index |-> IF i \in pos - 1 .. len - 2 THEN input_buffer[i + 1]
                                          ELSE input_buffer[i]]
      /\ scr' = vga_puts(scr, str)
      /\ g_history' = g_history /\ g_history_idx' = g_history_idx /\ smashed' = smashed
      /\ home' = home /\ plain' = plain /\ origin' = origin
  BY DEF Erase
<1>2. input_buffer' \in [Index -> Chars \cup {0}]
  <2>1. \A i \in Index : i \in pos - 1 .. len - 2 => i + 1 \in Index
    BY <1>0 DEF Index
  <2> QED BY <1>0, <1>1, <2>1
<1>3. scr' \in Sound
  <2> DEFINE p == Part(input_buffer', pos', len')
             b == Times(len' + 1 - pos', Backspace)
             t == scr
             q == <<Backspace>> \o p \o <<Space>> \o b
  <2>1. p \in Seq(Codes)
    <3> DEFINE T == Chars \cup {0}
               buf == input_buffer'
    <3>1. buf \in [Index -> T]
      BY <1>2
    <3>2. pos' \in Nat /\ len' \in Int /\ len' <= SHELL_BUF_SIZE
      BY <1>0, <1>1
    <3> HIDE DEF T, buf
    <3>3. Part(buf, pos', len') \in Seq(T)
      BY <3>1, <3>2, PartType
    <3>4. T \subseteq Codes
      BY DEF T, Codes
    <3> QED BY <3>3, <3>4 DEF buf
  <2>2. b \in Seq(Codes)
    <3>1. len' + 1 - pos' \in Int
      BY <1>0, <1>1
    <3> QED BY <3>1, TimesBackspace
  <2>3. t \in Sound /\ scr' = vga_puts(t, q)
    BY <1>0, <1>1
  <2> HIDE DEF p, b, t
  <2>4. q \in Seq(Codes)
    BY <2>1, <2>2, CodesType
  <2> HIDE DEF q
  <2> QED BY <2>3, <2>4, PutsKeeps
<1> HIDE DEF str
<1>4. /\ HistoryInv' /\ g_history' \in Seq(Seq(Chars)) /\ Len(g_history') <= MAX_HISTORY
      /\ \A i \in 1 .. Len(g_history') : Len(g_history'[i]) < SHELL_BUF_SIZE
      /\ g_history_idx' \in -1 .. Len(g_history')
  BY <1>1, HistorySame
<1>5. /\ pos' \in 0 .. SHELL_BUF_SIZE /\ len' \in -LEN_BELOW .. SHELL_BUF_SIZE - 1
  BY <1>0, <1>1
<1>6. /\ plain' => origin' = "typed" /\ home' + len' < VGA_WIDTH
      /\ origin' # "recalled" => ~smashed' /\ pos' <= len'
  BY <1>0, <1>1
<1>7. smashed' \in BOOLEAN /\ plain' \in BOOLEAN
  BY <1>0, <1>1
<1> QED BY <1>0, <1>1, <1>2, <1>3, <1>4, <1>5, <1>6, <1>7, LineNext

\* The left and right keys.
LEMMA MoveKeeps == ASSUME LineInv, Left \/ Right PROVE LineInv'
<1>0. /\ input_buffer \in [Index -> Chars \cup {0}]
      /\ pos \in Nat /\ pos <= SHELL_BUF_SIZE /\ len \in Int /\ len <= SHELL_BUF_SIZE - 1
      /\ len >= -LEN_BELOW /\ LEN_BELOW \in Nat /\ SHELL_BUF_SIZE \in Nat
      /\ scr \in Sound /\ home \in 0 .. VGA_WIDTH - 1 /\ VGA_WIDTH \in Nat
      /\ smashed \in BOOLEAN /\ plain \in BOOLEAN
      /\ plain => origin = "typed" /\ pos <= len /\ home + len < VGA_WIDTH /\ ~smashed
      /\ origin # "recalled" => pos <= len /\ ~smashed
      /\ origin \in {"typed", "left", "recalled"}
  BY LineTypes
<1>1. /\ input_buffer' = input_buffer /\ len' = len /\ g_history' = g_history
      /\ g_history_idx' = g_history_idx /\ smashed' = smashed /\ home' = home /\ plain' = plain /\ origin' = origin
      /\ \/ pos > 0 /\ pos' = pos - 1
         \/ pos < len /\ pos' = pos + 1
  BY DEF Left, Right
<1>2. scr' \in Sound
  <2> DEFINE t == scr
             c == input_buffer[pos]
  <2>1. scr' = vga_putc(t, Backspace) \/ (pos < len /\ scr' = vga_putc(t, c))
    BY DEF Left, Right
  <2>2. pos < len => c \in Codes
    <3>1. pos < len => pos \in Index
      BY <1>0 DEF Index
    <3> QED BY <1>0, <3>1 DEF Codes
  <2>3. t \in Sound
    BY <1>0
  <2> HIDE DEF t, c
  <2> QED BY <2>1, <2>2, <2>3, CodesType, PutcKeeps
<1>4. /\ HistoryInv' /\ g_history' \in Seq(Seq(Chars)) /\ Len(g_history') <= MAX_HISTORY
      /\ \A i \in 1 .. Len(g_history') : Len(g_history'[i]) < SHELL_BUF_SIZE
      /\ g_history_idx' \in -1 .. Len(g_history')
  BY <1>1, HistorySame
<1>5. /\ pos' \in 0 .. SHELL_BUF_SIZE /\ len' \in -LEN_BELOW .. SHELL_BUF_SIZE - 1
  BY <1>0, <1>1
<1>6. /\ plain' => origin' = "typed" /\ home' + len' < VGA_WIDTH
      /\ origin' # "recalled" => ~smashed' /\ pos' <= len'
  BY <1>0, <1>1
<1>7. smashed' \in BOOLEAN /\ plain' \in BOOLEAN
  BY <1>0, <1>1
<1> QED BY <1>0, <1>1, <1>2, <1>4, <1>5, <1>6, <1>7, LineNext

\* Any other key.
LEMMA InsertKeeps == ASSUME LineInv, NEW c \in Chars, Insert(c) PROVE LineInv'
<1>0. /\ input_buffer \in [Index -> Chars \cup {0}]
      /\ pos \in Nat /\ pos <= SHELL_BUF_SIZE /\ len \in Int /\ len <= SHELL_BUF_SIZE - 1
      /\ len >= -LEN_BELOW /\ LEN_BELOW \in Nat /\ SHELL_BUF_SIZE \in Nat
      /\ scr \in Sound /\ home \in 0 .. VGA_WIDTH - 1 /\ VGA_WIDTH \in Nat
      /\ smashed \in BOOLEAN /\ plain \in BOOLEAN
      /\ plain => origin = "typed" /\ pos <= len /\ home + len < VGA_WIDTH /\ ~smashed
      /\ origin # "recalled" => pos <= len /\ ~smashed
      /\ origin \in {"typed", "left", "recalled"}
  BY LineTypes
<1>1. /\ ~smashed /\ len < SHELL_BUF_SIZE - 1
      /\ g_history' = g_history /\ g_history_idx' = g_history_idx /\ home' = home
      /\ origin' = origin
  BY DEF Insert
<1>2. /\ HistoryInv' /\ g_history' \in Seq(Seq(Chars)) /\ Len(g_history') <= MAX_HISTORY
      /\ \A i \in 1 .. Len(g_history') : Len(g_history'[i]) < SHELL_BUF_SIZE
      /\ g_history_idx' \in -1 .. Len(g_history')
  BY <1>1, HistorySame
<1>3. CASE pos \in Index
  <2> DEFINE str == Part(input_buffer', pos, len') \o Times(len' - pos', Backspace)
  <2>1. /\ input_buffer' = [i \in Index |-> IF i = pos THEN c
                                            ELSE IF i \in pos + 1 .. len THEN input_buffer[i - 1]
                                            ELSE input_buffer[i]]
        /\ pos' = pos + 1 /\ len' = len + 1 /\ scr' = vga_puts(scr, str)
        /\ plain' = (plain /\ home + len' < VGA_WIDTH) /\ smashed' = smashed
    BY <1>3 DEF Insert
  <2>2. input_buffer' \in [Index -> Chars \cup {0}]
    <3>1. \A i \in Index : i \in pos + 1 .. len => i - 1 \in Index
      BY <1>0 DEF Index
    <3> QED BY <1>0, <2>1, <3>1
  <2>3. scr' \in Sound
    <3> DEFINE p == Part(input_buffer', pos, len')
               b == Times(len' - pos', Backspace)
               t == scr
               q == p \o b
    <3>1. p \in Seq(Codes)
      <4> DEFINE T == Chars \cup {0}
                 buf == input_buffer'
      <4>1. buf \in [Index -> T]
        BY <2>2
      <4>2. len' \in Int /\ len' <= SHELL_BUF_SIZE
        BY <1>0, <1>1, <2>1
      <4> HIDE DEF T, buf
      <4>3. Part(buf, pos, len') \in Seq(T)
        BY <1>0, <4>1, <4>2, PartType
      <4>4. T \subseteq Codes
        BY DEF T, Codes
      <4> QED BY <4>3, <4>4 DEF buf
    <3>2. b \in Seq(Codes)
      <4>1. len' - pos' \in Int
        BY <1>0, <2>1
      <4> QED BY <4>1, TimesBackspace
    <3>3. t \in Sound /\ scr' = vga_puts(t, q)
      BY <1>0, <2>1
    <3> HIDE DEF p, b, t
    <3>4. q \in Seq(Codes)
      BY <3>1, <3>2
    <3> HIDE DEF q
    <3> QED BY <3>3, <3>4, PutsKeeps
  <2> HIDE DEF str
  <2>5. /\ pos' \in 0 .. SHELL_BUF_SIZE /\ len' \in -LEN_BELOW .. SHELL_BUF_SIZE - 1
    BY <1>0, <1>1, <1>3, <2>1 DEF Index
  <2>6. /\ plain' => origin' = "typed" /\ home' + len' < VGA_WIDTH
        /\ origin' # "recalled" => ~smashed' /\ pos' <= len'
    BY <1>0, <1>1, <2>1
  <2>7. smashed' \in BOOLEAN /\ plain' \in BOOLEAN
    <3>1. smashed' = smashed /\ plain' = (plain /\ home + len' < VGA_WIDTH)
      BY <2>1
    <3>2. CASE plain /\ home + len' < VGA_WIDTH
      BY <1>0, <3>1, <3>2
    <3>3. CASE ~(plain /\ home + len' < VGA_WIDTH)
      BY <1>0, <3>1, <3>3
    <3> QED BY <3>2, <3>3
  <2> QED BY <1>0, <1>1, <1>2, <2>1, <2>2, <2>3, <2>5, <2>6, <2>7, LineNext
<1>4. CASE pos \notin Index
  <2>1. /\ smashed' = TRUE /\ input_buffer' = input_buffer /\ pos' = pos /\ len' = len
        /\ scr' = scr /\ plain' = plain
    BY <1>4 DEF Insert
  <2>2. ~plain /\ origin = "recalled"
    BY <1>0, <1>4 DEF Index
  <2>3. plain' = FALSE
    BY <1>0, <2>1, <2>2
  <2>5. smashed' \in BOOLEAN /\ plain' \in BOOLEAN /\ (plain' => FALSE)
    BY <2>1, <2>3
  <2>6. pos' \in 0 .. SHELL_BUF_SIZE /\ len' \in -LEN_BELOW .. SHELL_BUF_SIZE - 1
    BY <1>0, <2>1
  <2>7. origin' = "recalled"
    BY <1>1, <2>2
  <2> QED BY <1>0, <1>1, <1>2, <2>1, <2>5, <2>6, <2>7, LineNext
<1> QED BY <1>3, <1>4

\* The screen that run_shell leaves to the first line.
LEMMA WelcomeSound ==
  ASSUME NEW prompt \in Prompts
  PROVE  vga_puts(vga_putc(clear_screen, Newline), prompt) \in Sound
<1>1. clear_screen \in Sound
  BY ClearFresh, FreshSound
<1>2. vga_putc(clear_screen, Newline) \in Sound
  BY <1>1, NewlineFresh, FreshSound
<1> QED BY <1>2, CodesType, PutsKeeps

\* Before the first key.
LEMMA InitLine == Init => LineInv
<1> SUFFICES ASSUME Init PROVE LineInv
  OBVIOUS
<1>1. /\ input_buffer = Zeros /\ pos = 0 /\ len = 0 /\ g_history = << >> /\ g_history_idx = -1
      /\ smashed = FALSE /\ home = scr.cursor_x /\ plain = TRUE /\ origin = "typed"
  BY DEF Init
<1>2. scr \in Sound
  BY WelcomeSound DEF Init
<1>3. scr.cursor_x \in 0 .. VGA_WIDTH - 1 /\ scr.cursor_y \in 0 .. VGA_HEIGHT - 1
  BY <1>2, CursorIn
<1>4. /\ SHELL_BUF_SIZE \in Nat \ {0} /\ LEN_BELOW \in Nat /\ MAX_HISTORY \in Nat
      /\ VGA_WIDTH \in Nat
  BY LineAssumption, VgaAssumption
<1>5. Zeros \in [Index -> Chars \cup {0}]
  BY DEF Zeros
<1>6. {smashed, plain} \subseteq BOOLEAN /\ ~smashed /\ plain
  <2>1. smashed = FALSE /\ plain = TRUE
    BY <1>1
  <2> QED BY <2>1
<1>7. << >> \in Seq(Seq(Chars)) /\ Len(<< >>) = 0
  OBVIOUS
<1>8. /\ pos \in 0 .. SHELL_BUF_SIZE /\ len \in -LEN_BELOW .. SHELL_BUF_SIZE - 1
      /\ pos <= len
  BY <1>1, <1>4
<1>9. home + len < VGA_WIDTH
  BY <1>1, <1>3, <1>4
<1>10. /\ g_history \in Seq(Seq(Chars)) /\ Len(g_history) <= MAX_HISTORY
       /\ \A i \in 1 .. Len(g_history) : Len(g_history[i]) < SHELL_BUF_SIZE
       /\ g_history_idx \in -1 .. Len(g_history) /\ HistoryInv
  BY <1>1, <1>4, <1>7 DEF HistoryInv
<1>11. TypeOK
  BY <1>1, <1>3, <1>5, <1>6, <1>8, <1>10 DEF TypeOK
<1> QED BY <1>1, <1>2, <1>3, <1>6, <1>8, <1>9, <1>10, <1>11 DEF LineInv, EditsInside

\* Every round of shell_loop keeps the invariant.
LEMMA NextLine == LineInv /\ [Next]_vars => LineInv'
<1> SUFFICES ASSUME LineInv, [Next]_vars PROVE LineInv'
  OBVIOUS
<1>1. CASE Enter
  BY <1>1, EnterKeeps
<1>2. CASE Up \/ Down
  BY <1>2, UpDownKeeps
<1>3. CASE Erase
  BY <1>3, EraseKeeps
<1>4. CASE Left \/ Right
  BY <1>4, MoveKeeps
<1>5. CASE \E c \in Chars : Insert(c)
  BY <1>5, InsertKeeps
<1>6. CASE UNCHANGED vars
  BY <1>6 DEF vars, LineInv, TypeOK, HistoryInv, EditsInside
<1> QED BY <1>1, <1>2, <1>3, <1>4, <1>5, <1>6 DEF Next

\* The inductive invariant holds of every behaviour.
THEOREM LineCorrect == Spec => []LineInv
BY InitLine, NextLine, PTL DEF Spec

\* A line is written inside input_buffer and has its cursor in its text, whatever its
\* length, unless an entry of the history was recalled into it: neither the limit of
\* SHELL_BUF_SIZE nor a program that dies leads to the overrun of Enter.
THEOREM EditsStayInside == Spec => []EditsInside
<1>1. LineInv => EditsInside
  BY DEF LineInv
<1> QED BY <1>1, LineCorrect, PTL

\* The history has no line twice in a row, and Up finds an entry.
THEOREM HistoryKept == Spec => []HistoryInv
<1>1. LineInv => HistoryInv
  BY DEF LineInv
<1> QED BY <1>1, LineCorrect, PTL

\* The cursors of the line and of the screen, the history and its index stay inside
\* their arrays.
THEOREM LineBounded == Spec => []TypeOK
<1>1. LineInv => TypeOK
  BY DEF LineInv
<1> QED BY <1>1, LineCorrect, PTL
-----------------------------------------------------------------------------
\* The screen s shows the first n characters of buf behind column h, blanks after
\* them, and its cursor at the character p.
Shows(s, h, buf, p, n) ==
    /\ s.cursor_x = h + p
    /\ \A x \in h .. VGA_WIDTH - 1 : Cell(s, x) = IF x - h < n THEN buf[x - h] ELSE Space

\* A blank line behind a prompt.
LEMMA FreshShows ==
  ASSUME NEW s \in Fresh, NEW buf
  PROVE  Shows(s, s.cursor_x, buf, 0, 0)
<1> DEFINE h == s.cursor_x
           a == Row(s.cursor_y)
<1>1. s \in Screens /\ \A i \in Cells : i >= a + h => s.video_mem[i] = Space
  BY DEF Fresh
<1>2. h \in Nat /\ a \in Nat /\ a + VGA_WIDTH <= VGA_WIDTH * VGA_HEIGHT /\ VGA_WIDTH \in Nat
      /\ VGA_HEIGHT \in Nat
  BY <1>1, ScreenType
<1>3. VGA_WIDTH * VGA_HEIGHT \in Nat
  BY <1>2
<1> DEFINE M == VGA_WIDTH * VGA_HEIGHT
<1>4. Cells = 0 .. M - 1 /\ M \in Nat /\ a + VGA_WIDTH <= M
  BY <1>2, <1>3 DEF Cells
<1>5. \A x \in h .. VGA_WIDTH - 1 : Cell(s, x) = s.video_mem[a + x]
  BY DEF Cell
<1> HIDE DEF M, h, a
<1>6. ASSUME NEW x \in h .. VGA_WIDTH - 1
      PROVE  Cell(s, x) = Space /\ ~(x - h < 0)
  <2>1. a + x \in Cells /\ a + x >= a + h /\ ~(x - h < 0)
    BY <1>2, <1>4
  <2> QED BY <1>1, <1>5, <2>1
<1>7. s.cursor_x = h + 0
  BY <1>2 DEF h
<1> QED BY <1>6, <1>7 DEF Shows, h

\* The left key: the cursor goes back and nothing else changes.
LEMMA LeftShows ==
  ASSUME NEW s \in Screens, NEW h \in Nat, NEW buf, NEW p \in Nat, NEW n, p > 0,
         Shows(s, h, buf, p, n)
  PROVE  Shows(vga_putc(s, Backspace), h, buf, p - 1, n)
<1> DEFINE r == vga_putc(s, Backspace)
<1>1. /\ r.video_mem = s.video_mem /\ r.cursor_y = s.cursor_y
      /\ r.cursor_x = IF s.cursor_x > 0 THEN s.cursor_x - 1 ELSE s.cursor_x
  BY PutcBackspace
<1>2. s.cursor_x = h + p
  BY DEF Shows
<1> HIDE DEF r
<1>3. r.cursor_x = h + (p - 1)
  BY <1>1, <1>2
<1>4. \A x \in h .. VGA_WIDTH - 1 : Cell(r, x) = Cell(s, x)
  BY <1>1 DEF Cell
<1>5. \A x \in h .. VGA_WIDTH - 1 : Cell(r, x) = IF x - h < n THEN buf[x - h] ELSE Space
  BY <1>4 DEF Shows
<1> QED BY <1>3, <1>5 DEF Shows, r

\* The right key: the character under the cursor is printed over itself.
LEMMA RightShows ==
  ASSUME NEW s \in Screens, NEW h \in Nat, NEW buf, NEW p \in Nat, NEW n \in Nat, p < n,
         h + n < VGA_WIDTH, buf[p] \in Letters, Shows(s, h, buf, p, n)
  PROVE  Shows(vga_putc(s, buf[p]), h, buf, p + 1, n)
<1> DEFINE c == buf[p]
           r == vga_putc(s, c)
           W == VGA_WIDTH
<1>1. s.cursor_x = h + p /\ W \in Nat /\ c \in Letters
  BY VgaAssumption DEF Shows
<1>2. s.cursor_x + 1 < W
  BY <1>1
<1> HIDE DEF c
<1>3. /\ r.cursor_x = s.cursor_x + 1
      /\ \A x \in 0 .. VGA_WIDTH - 1 : Cell(r, x) = IF x = s.cursor_x THEN c ELSE Cell(s, x)
  BY <1>1, <1>2, PutcPrints
<1> HIDE DEF r, W
<1>4. r.cursor_x = h + (p + 1)
  BY <1>1, <1>3
<1>5. ASSUME NEW x \in h .. VGA_WIDTH - 1
      PROVE  Cell(r, x) = IF x - h < n THEN buf[x - h] ELSE Space
  <2>1. x \in 0 .. VGA_WIDTH - 1 /\ x \in Int
    BY <1>1 DEF W
  <2>2. Cell(s, x) = IF x - h < n THEN buf[x - h] ELSE Space
    BY DEF Shows
  <2>3. CASE x = s.cursor_x
    <3>1. x - h = p /\ x - h < n
      BY <1>1, <2>1, <2>3
    <3>2. Cell(r, x) = c
      BY <1>3, <2>1, <2>3
    <3> QED BY <3>1, <3>2 DEF c
  <2>4. CASE x # s.cursor_x
    BY <1>3, <2>1, <2>2, <2>4
  <2> QED BY <2>3, <2>4
<1> QED BY <1>4, <1>5 DEF Shows, r, c

\* A character inserted at p: what follows is printed anew one column to the right.
LEMMA InsertShows ==
  ASSUME NEW s \in Screens, NEW h \in Nat, NEW buf,
         NEW p \in Nat, NEW n \in Nat, p <= n, n < SHELL_BUF_SIZE - 1, h + (n + 1) < VGA_WIDTH,
         Shows(s, h, buf, p, n),
         NEW new \in [Index -> Chars \cup {0}],
         \A i \in 0 .. p - 1 : new[i] = buf[i]
  PROVE  Shows(vga_puts(s, Part(new, p, n + 1) \o Times((n + 1) - (p + 1), Backspace)),
               h, new, p + 1, n + 1)
<1> DEFINE q == Part(new, p, n + 1)
           k == (n + 1) - (p + 1)
           r == vga_puts(s, q \o Times(k, Backspace))
           T == Chars \cup {0}
<1>0. SHELL_BUF_SIZE \in Nat /\ VGA_WIDTH \in Nat
  BY LineAssumption, VgaAssumption
<1>1. s.cursor_x = h + p
  BY DEF Shows
<1>2. /\ q \in Seq(T) /\ Len(q) = (n + 1) - p
      /\ \A i \in 1 .. (n + 1) - p : q[i] = new[p + i - 1]
  <2>1. new \in [Index -> T] /\ n + 1 \in Int /\ n + 1 <= SHELL_BUF_SIZE /\ p <= n + 1
    BY <1>0
  <2> DEFINE j == n + 1
  <2>2. j \in Int /\ j <= SHELL_BUF_SIZE /\ p <= j
    BY <2>1
  <2> HIDE DEF T, j
  <2>3. Part(new, p, j) \in Seq(T)
    BY <2>1, <2>2, PartType
  <2>4. Len(Part(new, p, j)) = j - p
    BY <2>2, PartIs
  <2>5. ASSUME NEW i \in 1 .. j - p PROVE Part(new, p, j)[i] = new[p + i - 1]
    BY <2>2, PartIs, ZenonT(40)
  <2> QED BY <2>3, <2>4, <2>5 DEF j
<1>3. q \in Seq(Letters)
  BY <1>2, CodesType
<1>4. k \in Nat /\ k = n - p
  OBVIOUS
<1> HIDE DEF q, k
<1>5. s.cursor_x + Len(q) < VGA_WIDTH /\ k <= s.cursor_x + Len(q)
  BY <1>0, <1>1, <1>2, <1>4
<1>6. /\ r.cursor_x = s.cursor_x + Len(q) - k
      /\ \A x \in 0 .. VGA_WIDTH - 1 :
            Cell(r, x) = IF s.cursor_x <= x /\ x < s.cursor_x + Len(q)
                         THEN q[x - s.cursor_x + 1] ELSE Cell(s, x)
  BY <1>3, <1>4, <1>5, Redraw
<1> HIDE DEF r
<1>7. r.cursor_x = h + (p + 1)
  BY <1>1, <1>2, <1>4, <1>6
<1>8. ASSUME NEW x \in h .. VGA_WIDTH - 1
      PROVE  Cell(r, x) = IF x - h < n + 1 THEN new[x - h] ELSE Space
  <2>1. x \in 0 .. VGA_WIDTH - 1 /\ x \in Int
    BY <1>0
  <2>2. Cell(s, x) = IF x - h < n THEN buf[x - h] ELSE Space
    BY DEF Shows
  <2>3. CASE x < h + p
    <3>1. ~(s.cursor_x <= x) /\ x - h < n /\ x - h < n + 1 /\ x - h \in Index /\ x - h < p
      BY <1>0, <1>1, <2>1, <2>3 DEF Index
    <3>2. Cell(r, x) = buf[x - h]
      BY <1>6, <2>1, <2>2, <3>1
    <3>3. new[x - h] = buf[x - h]
      <4>1. x - h \in 0 .. p - 1
        BY <2>1, <3>1
      <4> QED BY <4>1
    <3> QED BY <3>1, <3>2, <3>3
  <2>4. CASE x >= h + p /\ x < h + (n + 1)
    <3> DEFINE i == x - s.cursor_x + 1
    <3>1. s.cursor_x <= x /\ x < s.cursor_x + Len(q) /\ i \in 1 .. (n + 1) - p /\ p + i - 1 = x - h
          /\ x - h < n + 1
      BY <1>1, <1>2, <2>1, <2>4
    <3>2. Cell(r, x) = q[i]
      BY <1>6, <2>1, <3>1
    <3> HIDE DEF i
    <3>3. q[i] = new[p + i - 1]
      BY <1>2, <3>1
    <3> QED BY <3>1, <3>2, <3>3
  <2>5. CASE x >= h + (n + 1)
    <3>1. ~(x < s.cursor_x + Len(q)) /\ ~(x - h < n) /\ ~(x - h < n + 1)
      BY <1>1, <1>2, <2>1, <2>5
    <3> QED BY <1>6, <2>1, <2>2, <3>1
  <2> QED BY <2>1, <2>3, <2>4, <2>5
<1> QED BY <1>7, <1>8 DEF Shows, r, q, k
\* What an erasure prints, after its first backspace.
LEMMA EraseString ==
  ASSUME NEW s, NEW w \in Seq(Codes), NEW b \in Seq(Codes)
  PROVE  vga_puts(s, <<Backspace>> \o w \o <<Space>> \o b) =
         vga_puts(vga_putc(s, Backspace), (w \o <<Space>>) \o b)
<1> DEFINE c == Backspace
           e == <<c>>
           o == <<Space>>
           z == (w \o o) \o b
           n == << >>
<1>1. e \in Seq(Codes) /\ z \in Seq(Codes) /\ o \in Seq(Codes) /\ n \in Seq(Codes) /\ c \in Codes
      /\ e = Append(n, c)
  BY CodesType
<1>2. Screen!Fold(s, n) = s
  BY Screen!FoldNone
<1> HIDE DEF c, e, o, n
<1>3. ((e \o w) \o o) \o b = e \o z
  <2> DEFINE T == Codes
             l == ((e \o w) \o o) \o b
             r == e \o ((w \o o) \o b)
  <2>1. e \in Seq(T) /\ w \in Seq(T) /\ o \in Seq(T) /\ b \in Seq(T)
    BY <1>1
  <2> HIDE DEF T, z
  <2>2. l \in Seq(T) /\ r \in Seq(T) /\ Len(l) = Len(r)
    BY <2>1
  <2>3. \A i \in 1 .. Len(l) : l[i] = r[i]
    BY <2>1
  <2> HIDE DEF l, r
  <2>4. l = r
    BY <2>2, <2>3, Screen!SameString
  <2> QED BY <2>4 DEF l, r, z
<1>4. Screen!Fold(s, Append(n, c)) = vga_putc(Screen!Fold(s, n), c)
  BY <1>1, Screen!FoldLast
<1>5. vga_puts(s, e) = vga_putc(s, c)
  BY <1>1, <1>2, <1>4, PutsFold
<1> HIDE DEF z
<1>6. vga_puts(s, e \o z) = vga_puts(vga_puts(s, e), z)
  <2>1. e \in Seq(Codes) /\ z \in Seq(Codes)
    BY <1>1
  <2>2. Screen!Fold(s, e \o z) = Screen!Fold(Screen!Fold(s, e), z)
    BY <2>1, Screen!FoldConcat
  <2> QED BY <2>2, PutsFold
<1>7. vga_puts(s, ((e \o w) \o o) \o b) = vga_puts(vga_putc(s, c), z)
  BY <1>3, <1>5, <1>6
<1> QED BY <1>7 DEF e, c, o, z

\* The character before p erased: the cursor goes back, what follows is printed anew
\* one column to the left, and a space over the last character.
LEMMA EraseShows ==
  ASSUME NEW s \in Screens, NEW h \in Nat, NEW buf,
         NEW p \in Nat, NEW n \in Nat, 0 < p, p <= n, n < SHELL_BUF_SIZE, h + n < VGA_WIDTH,
         Shows(s, h, buf, p, n),
         NEW new \in [Index -> Chars \cup {0}],
         \A i \in 0 .. p - 2 : new[i] = buf[i],
         NEW k \in Nat, k = n - p + 1
  PROVE  Shows(vga_puts(s, <<Backspace>> \o Part(new, p - 1, n - 1) \o <<Space>> \o Times(k, Backspace)),
               h, new, p - 1, n - 1)
<1> DEFINE t == vga_putc(s, Backspace)
           w == Part(new, p - 1, n - 1)
           b == Times(k, Backspace)
           q == w \o <<Space>>
           r == vga_puts(t, q \o b)
           T == Chars \cup {0}
<1>0. SHELL_BUF_SIZE \in Nat /\ VGA_WIDTH \in Nat /\ p - 1 \in Nat /\ n - 1 \in Nat
  BY LineAssumption, VgaAssumption
<1>1. s.cursor_x = h + p
  BY DEF Shows
<1>2. w \in Seq(T) /\ w \in Seq(Codes) /\ w \in Seq(Letters)
  <2> DEFINE i == p - 1
             j == n - 1
  <2>1. i \in Nat /\ j \in Int /\ j <= SHELL_BUF_SIZE /\ new \in [Index -> T]
    BY <1>0
  <2> HIDE DEF i, j, T
  <2>2. Part(new, i, j) \in Seq(T)
    BY <2>1, PartType
  <2>3. T \subseteq Codes /\ T \subseteq Letters
    BY CodesType DEF T
  <2> QED BY <2>2, <2>3 DEF i, j
<1>3. Len(w) = n - p /\ \A i \in 1 .. n - p : w[i] = new[(p - 1) + (i - 1)]
  <2> DEFINE u == p - 1
             v == n - 1
  <2>1. u \in Nat /\ v \in Int /\ u <= v /\ v - u = n - p
    BY <1>0
  <2> HIDE DEF u, v
  <2>2. Len(Part(new, u, v)) = v - u
    BY <2>1, PartIs
  <2>3. ASSUME NEW i \in 1 .. v - u PROVE Part(new, u, v)[i] = new[u + (i - 1)]
    BY <2>1, PartAt
  <2>4. Len(Part(new, u, v)) = n - p
    BY <2>1, <2>2
  <2>5. \A i \in 1 .. n - p : Part(new, u, v)[i] = new[u + (i - 1)]
    BY <2>1, <2>3
  <2> QED BY <2>4, <2>5 DEF u, v
<1>5. b \in Seq({Backspace}) /\ b \in Seq(Codes)
  BY TimesBackspace
<1> HIDE DEF w, b
<1>6. /\ t \in Screens /\ t.video_mem = s.video_mem /\ t.cursor_y = s.cursor_y
      /\ t.cursor_x = h + (p - 1)
  BY <1>1, PutcBackspace
<1>7. vga_puts(s, <<Backspace>> \o w \o <<Space>> \o b) = r
  BY <1>2, <1>5, EraseString
<1>8. /\ q \in Seq(Letters) /\ Len(q) = n - p + 1 /\ q[n - p + 1] = Space
      /\ \A i \in 1 .. n - p : q[i] = w[i]
  BY <1>2, <1>3, CodesType
<1> HIDE DEF q, t
<1>9. t.cursor_x + Len(q) < VGA_WIDTH /\ k <= t.cursor_x + Len(q)
  BY <1>0, <1>6, <1>8
<1>10. /\ r.cursor_x = t.cursor_x + Len(q) - k
       /\ \A x \in 0 .. VGA_WIDTH - 1 :
             Cell(r, x) = IF t.cursor_x <= x /\ x < t.cursor_x + Len(q)
                          THEN q[x - t.cursor_x + 1] ELSE Cell(t, x)
  BY <1>6, <1>8, <1>9, Redraw DEF b
<1> HIDE DEF r
<1>11. r.cursor_x = h + (p - 1)
  BY <1>6, <1>8, <1>10
<1>12. ASSUME NEW x \in h .. VGA_WIDTH - 1
       PROVE  Cell(r, x) = IF x - h < n - 1 THEN new[x - h] ELSE Space
  <2>1. x \in 0 .. VGA_WIDTH - 1 /\ x \in Int
    BY <1>0
  <2>2. Cell(t, x) = IF x - h < n THEN buf[x - h] ELSE Space
    BY <1>6 DEF Shows, Cell
  <2>3. CASE x < h + (p - 1)
    <3>1. ~(t.cursor_x <= x) /\ x - h < n /\ x - h < n - 1 /\ x - h \in 0 .. p - 2
      BY <1>6, <2>1, <2>3
    <3>2. Cell(r, x) = buf[x - h]
      BY <1>10, <2>1, <2>2, <3>1
    <3> QED BY <3>1, <3>2
  <2>4. CASE x >= h + (p - 1) /\ x < h + (n - 1)
    <3> DEFINE i == x - t.cursor_x + 1
    <3>1. t.cursor_x <= x /\ x < t.cursor_x + Len(q) /\ i \in 1 .. n - p /\ (p - 1) + (i - 1) = x - h
          /\ x - h < n - 1
      BY <1>6, <1>8, <2>1, <2>4
    <3>2. Cell(r, x) = q[i]
      BY <1>10, <2>1, <3>1
    <3> HIDE DEF i
    <3>3. q[i] = new[(p - 1) + (i - 1)]
      BY <1>3, <1>8, <3>1
    <3> QED BY <3>1, <3>2, <3>3
  <2>5. CASE x = h + (n - 1)
    <3> DEFINE i == x - t.cursor_x + 1
    <3>1. t.cursor_x <= x /\ x < t.cursor_x + Len(q) /\ i = n - p + 1 /\ ~(x - h < n - 1)
      BY <1>6, <1>8, <2>1, <2>5
    <3>2. Cell(r, x) = q[i]
      BY <1>10, <2>1, <3>1
    <3> HIDE DEF i
    <3> QED BY <1>8, <3>1, <3>2
  <2>6. CASE x >= h + n
    <3>1. ~(x < t.cursor_x + Len(q)) /\ ~(x - h < n) /\ ~(x - h < n - 1)
      BY <1>6, <1>8, <2>1, <2>6
    <3> QED BY <1>10, <2>1, <2>2, <3>1
  <2> QED BY <2>1, <2>3, <2>4, <2>5, <2>6
<1>13. Shows(r, h, new, p - 1, n - 1)
  BY <1>11, <1>12 DEF Shows
<1> QED BY <1>7, <1>13 DEF w, b
\* The same as ScreenShows says it.
RowShows(s, h, buf, p, n) ==
    LET row == [x \in 0 .. VGA_WIDTH - 1 |-> s.video_mem[s.cursor_y * VGA_WIDTH + x]]
    IN  /\ s.cursor_x = h + p
        /\ \A x \in h .. VGA_WIDTH - 1 : row[x] = IF x - h < n THEN buf[x - h] ELSE Space

\* ScreenShows speaks of the row of the cursor, the lemmas of its cells.
LEMMA ShowsRow ==
  ASSUME NEW s, NEW h \in Nat, NEW buf, NEW p, NEW n
  PROVE  RowShows(s, h, buf, p, n) <=> Shows(s, h, buf, p, n)
<1> DEFINE row == [x \in 0 .. VGA_WIDTH - 1 |-> s.video_mem[s.cursor_y * VGA_WIDTH + x]]
<1>1. ASSUME NEW x \in h .. VGA_WIDTH - 1 PROVE row[x] = Cell(s, x)
  <2>1. x \in 0 .. VGA_WIDTH - 1
    BY VgaAssumption
  <2>2. row[x] = s.video_mem[s.cursor_y * VGA_WIDTH + x]
    BY <2>1
  <2> QED BY <2>2 DEF Cell, Row
<1>2. RowShows(s, h, buf, p, n) <=>
        /\ s.cursor_x = h + p
        /\ \A x \in h .. VGA_WIDTH - 1 : row[x] = IF x - h < n THEN buf[x - h] ELSE Space
  BY DEF RowShows
<1> HIDE DEF row
<1> QED BY <1>1, <1>2 DEF Shows

\* A step after which the line is shown, or is not one that was only edited.
LEMMA ShownNext ==
  ASSUME home' \in Nat, plain' => Shows(scr', home', input_buffer', pos', len')
  PROVE  ScreenShows'
<1>1. ScreenShows' <=> (plain' => RowShows(scr', home', input_buffer', pos', len'))
  BY DEF ScreenShows, RowShows
<1>2. RowShows(scr', home', input_buffer', pos', len') <=>
      Shows(scr', home', input_buffer', pos', len')
  BY ShowsRow
<1> QED BY <1>1, <1>2

\* What a line that was only edited has before a step.
LEMMA ShownLine ==
  ASSUME LineInv, ScreenShows, plain
  PROVE  /\ Shows(scr, home, input_buffer, pos, len)
         /\ scr \in Screens /\ home \in Nat /\ pos \in Nat /\ len \in Nat /\ pos <= len
         /\ len < SHELL_BUF_SIZE /\ home + len < VGA_WIDTH /\ pos \in Index
<1>1. /\ input_buffer \in [Index -> Chars \cup {0}]
      /\ pos \in Nat /\ len \in Int /\ len <= SHELL_BUF_SIZE - 1 /\ SHELL_BUF_SIZE \in Nat
      /\ scr \in Sound /\ home \in 0 .. VGA_WIDTH - 1 /\ VGA_WIDTH \in Nat
      /\ plain => pos <= len /\ home + len < VGA_WIDTH /\ ~smashed
  BY LineTypes
<1>2. /\ home \in Nat /\ pos <= len /\ len \in Nat /\ len < SHELL_BUF_SIZE /\ home + len < VGA_WIDTH
      /\ pos \in Index
  BY <1>1 DEF Index
<1>3. RowShows(scr, home, input_buffer, pos, len)
  BY DEF ScreenShows, RowShows
<1>4. Shows(scr, home, input_buffer, pos, len)
  BY <1>2, <1>3, ShowsRow
<1> QED BY <1>1, <1>2, <1>4, CursorIn

\* No prompt and nothing that a command prints goes back over what was printed.
NoBackspaces == Prompts \cup Outputs \subseteq Seq(Codes \ {Backspace})

\* Blank lines.
LEMMA BlankShows ==
  ASSUME NoBackspaces, NEW s \in Fresh, BlankLine(s)
  PROVE  ScreenShows'
<1>1. PICK prompt \in Prompts : scr' = vga_puts(s, prompt)
  BY DEF BlankLine
<1>2. home' = scr'.cursor_x /\ pos' = 0 /\ len' = 0
  BY DEF BlankLine
<1> DEFINE t == vga_puts(s, prompt)
<1>3. t \in Fresh
  <2>1. s \in Sound
    BY FreshSound
  <2>2. prompt \in Seq(Codes) /\ prompt \in Seq(Codes \ {Backspace})
    BY CodesType DEF NoBackspaces
  <2> QED BY <2>1, <2>2, PutsKeeps
<1> HIDE DEF t
<1>4. Shows(t, t.cursor_x, input_buffer', 0, 0)
  BY <1>3, FreshShows
<1>5. t.cursor_x \in Nat
  <2>1. t \in Screens
    BY <1>3 DEF Fresh
  <2> QED BY <2>1, ScreenType
<1>6. scr' = t
  BY <1>1 DEF t
<1>7. home' \in Nat /\ Shows(scr', home', input_buffer', pos', len')
  BY <1>2, <1>4, <1>5, <1>6
<1> QED BY <1>7, ShownNext

\* The return key: every command leaves the cursor behind everything on the screen.
LEMMA EnterShows == ASSUME NoBackspaces, LineInv, Enter PROVE ScreenShows'
<1> DEFINE s == vga_putc(scr, Newline)
           buf == [input_buffer EXCEPT ![pos] = 0]
<1>1. s \in Fresh
  <2> DEFINE t == scr
  <2>1. t \in Sound
    BY DEF LineInv
  <2> HIDE DEF t
  <2>2. vga_putc(t, Newline) \in Fresh
    BY <2>1, NewlineFresh
  <2> QED BY <2>2 DEF t
<1>2. CASE pos \notin Index
  <2>1. plain' = plain
    BY <1>2 DEF Enter
  <2>2. ~plain
    <3>1. /\ pos \in Nat /\ len \in Int /\ len <= SHELL_BUF_SIZE - 1 /\ SHELL_BUF_SIZE \in Nat
          /\ plain => pos <= len
      BY LineTypes
    <3> QED BY <1>2, <3>1 DEF Index
  <2> QED BY <2>1, <2>2 DEF ScreenShows
<1>3. CASE pos \in Index
  <2>1. CommandReturns(s) \/ ProgramExits(s) \/ ProgramFaults(buf, s)
    BY <1>3 DEF Enter, handle_command
  <2> HIDE DEF s
  <2>2. CASE ProgramFaults(buf, s)
    <3>1. plain' = FALSE
      BY <2>2 DEF ProgramFaults
    <3> QED BY <3>1 DEF ScreenShows
  <2>3. ASSUME NEW str \in Seq(Codes \ {Backspace}), BlankLine(vga_puts(s, str)) PROVE ScreenShows'
    <3>1. s \in Sound /\ str \in Seq(Codes)
      BY <1>1, FreshSound
    <3>2. vga_puts(s, str) \in Fresh
      BY <1>1, <3>1, PutsKeeps
    <3> QED BY <2>3, <3>2, BlankShows
  <2>4. CASE CommandReturns(s)
    <3>1. CASE BlankLine(clear_screen)
      BY <3>1, ClearFresh, BlankShows
    <3>2. ASSUME NEW out \in Outputs, BlankLine(vga_puts(s, out)) PROVE ScreenShows'
      <4>1. out \in Seq(Codes \ {Backspace})
        BY DEF NoBackspaces
      <4> QED BY <2>3, <3>2, <4>1
    <3> QED BY <2>4, <3>1, <3>2 DEF CommandReturns
  <2>5. CASE ProgramExits(s)
    <3>1. PICK out \in Outputs : BlankLine(vga_puts(s, out \o <<Newline>>))
      BY <2>5 DEF ProgramExits
    <3>2. out \in Seq(Codes \ {Backspace}) /\ Newline \in Codes \ {Backspace}
      BY CodesType DEF NoBackspaces, Newline, Backspace
    <3>3. out \o <<Newline>> \in Seq(Codes \ {Backspace})
      BY <3>2
    <3> QED BY <2>3, <3>1, <3>3
  <2> QED BY <2>1, <2>2, <2>4, <2>5
<1> QED BY <1>2, <1>3
\* The backspace key.
LEMMA EraseShown == ASSUME LineInv, ScreenShows, Erase PROVE ScreenShows'
<1>1. CASE ~plain
  <2>1. plain' = plain
    BY DEF Erase
  <2> QED BY <1>1, <2>1 DEF ScreenShows
<1>2. CASE plain
  <2> DEFINE s == scr
             new == input_buffer'
             k == len' + 1 - pos'
  <2>1. /\ Shows(s, home, input_buffer, pos, len)
        /\ s \in Screens /\ home \in Nat /\ pos \in Nat /\ len \in Nat /\ pos <= len
        /\ len < SHELL_BUF_SIZE /\ home + len < VGA_WIDTH /\ pos \in Index
    BY <1>2, ShownLine
  <2>2. /\ pos > 0 /\ pos' = pos - 1 /\ len' = len - 1 /\ home' = home
        /\ new = [i \in Index |-> IF i \in pos - 1 .. len - 2 THEN input_buffer[i + 1]
                                  ELSE input_buffer[i]]
        /\ scr' = vga_puts(s, <<Backspace>> \o Part(new, pos', len') \o <<Space>> \o Times(k, Backspace))
    BY DEF Erase
  <2>3. new \in [Index -> Chars \cup {0}]
    <3>1. LineInv'
      BY EraseKeeps
    <3> QED BY <3>1 DEF LineInv, TypeOK
  <2>4. \A i \in 0 .. pos - 2 : new[i] = input_buffer[i]
    <3>1. SHELL_BUF_SIZE \in Nat
      BY LineAssumption
    <3>2. \A i \in 0 .. pos - 2 : i \in Index /\ i \notin pos - 1 .. len - 2
      BY <2>1, <3>1 DEF Index
    <3> QED BY <2>2, <3>2
  <2>5. k \in Nat /\ k = len - pos + 1
    BY <2>1, <2>2
  <2> HIDE DEF s, new, k
  <2>6. scr' = vga_puts(s, <<Backspace>> \o Part(new, pos - 1, len - 1) \o <<Space>> \o Times(k, Backspace))
    BY <2>2
  <2>7. Shows(scr', home, new, pos - 1, len - 1)
    <3>1. 0 < pos
      BY <2>1, <2>2
    <3>2. Shows(vga_puts(s, <<Backspace>> \o Part(new, pos - 1, len - 1) \o <<Space>> \o Times(k, Backspace)),
                home, new, pos - 1, len - 1)
      BY <2>1, <2>3, <2>4, <2>5, <3>1, EraseShows
    <3> QED BY <2>6, <3>2
  <2>8. home' \in Nat /\ Shows(scr', home', input_buffer', pos', len')
    BY <2>1, <2>2, <2>7 DEF new
  <2> QED BY <2>8, ShownNext
<1> QED BY <1>1, <1>2

\* The left and right keys.
LEMMA MoveShown == ASSUME LineInv, ScreenShows, Left \/ Right PROVE ScreenShows'
<1>0. input_buffer' = input_buffer /\ len' = len /\ home' = home /\ plain' = plain
  BY DEF Left, Right
<1>1. CASE ~plain
  BY <1>0, <1>1 DEF ScreenShows
<1>2. CASE plain
  <2> DEFINE s == scr
  <2>1. /\ Shows(s, home, input_buffer, pos, len)
        /\ s \in Screens /\ home \in Nat /\ pos \in Nat /\ len \in Nat /\ pos <= len
        /\ len < SHELL_BUF_SIZE /\ home + len < VGA_WIDTH /\ pos \in Index
    BY <1>2, ShownLine
  <2>2. \/ pos > 0 /\ pos' = pos - 1 /\ scr' = vga_putc(s, Backspace)
        \/ pos < len /\ pos' = pos + 1 /\ scr' = vga_putc(s, input_buffer[pos])
    BY DEF Left, Right
  <2>3. input_buffer[pos] \in Letters
    <3>1. input_buffer \in [Index -> Chars \cup {0}]
      BY DEF LineInv, TypeOK
    <3> QED BY <2>1, <3>1, CodesType
  <2> HIDE DEF s
  <2>4. Shows(scr', home, input_buffer, pos', len)
    <3>1. CASE pos > 0 /\ pos' = pos - 1 /\ scr' = vga_putc(s, Backspace)
      <4>1. Shows(vga_putc(s, Backspace), home, input_buffer, pos - 1, len)
        BY <2>1, <3>1, LeftShows
      <4> QED BY <3>1, <4>1
    <3>2. CASE pos < len /\ pos' = pos + 1 /\ scr' = vga_putc(s, input_buffer[pos])
      <4>1. Shows(vga_putc(s, input_buffer[pos]), home, input_buffer, pos + 1, len)
        BY <2>1, <2>3, <3>2, RightShows
      <4> QED BY <3>2, <4>1
    <3> QED BY <2>2, <3>1, <3>2
  <2>5. home' \in Nat /\ Shows(scr', home', input_buffer', pos', len')
    BY <1>0, <2>1, <2>4
  <2> QED BY <2>5, ShownNext
<1> QED BY <1>1, <1>2

\* Any other key, while the line stays shorter than its row.
LEMMA InsertShown == ASSUME LineInv, ScreenShows, NEW c \in Chars, Insert(c) PROVE ScreenShows'
<1>0. home' = home
  BY DEF Insert
<1>1. CASE ~plain'
  BY <1>1 DEF ScreenShows
<1>2. CASE plain' /\ pos \notin Index
  <2>1. plain
    BY <1>2 DEF Insert
  <2> QED BY <1>2, <2>1, ShownLine
<1>3. CASE plain' /\ pos \in Index
  <2> DEFINE s == scr
             new == input_buffer'
  <2>1. /\ pos' = pos + 1 /\ len' = len + 1 /\ len < SHELL_BUF_SIZE - 1
        /\ new = [i \in Index |-> IF i = pos THEN c
                                  ELSE IF i \in pos + 1 .. len THEN input_buffer[i - 1]
                                  ELSE input_buffer[i]]
        /\ scr' = vga_puts(s, Part(new, pos, len') \o Times(len' - pos', Backspace))
    BY <1>3 DEF Insert
  <2>2. plain /\ home + len' < VGA_WIDTH
    BY <1>3 DEF Insert
  <2>3. /\ Shows(s, home, input_buffer, pos, len)
        /\ s \in Screens /\ home \in Nat /\ pos \in Nat /\ len \in Nat /\ pos <= len
        /\ len < SHELL_BUF_SIZE /\ home + len < VGA_WIDTH
    BY <2>2, ShownLine
  <2>4. new \in [Index -> Chars \cup {0}]
    <3>1. LineInv'
      BY InsertKeeps
    <3> QED BY <3>1 DEF LineInv, TypeOK
  <2>5. \A i \in 0 .. pos - 1 : new[i] = input_buffer[i]
    <3>1. SHELL_BUF_SIZE \in Nat
      BY LineAssumption
    <3>2. \A i \in 0 .. pos - 1 : i \in Index /\ i # pos /\ i \notin pos + 1 .. len
      BY <2>3, <3>1 DEF Index
    <3> QED BY <2>1, <3>2
  <2>6. home + (len + 1) < VGA_WIDTH
    BY <2>1, <2>2
  <2> HIDE DEF s, new
  <2>7. scr' = vga_puts(s, Part(new, pos, len + 1) \o Times((len + 1) - (pos + 1), Backspace))
    BY <2>1
  <2>8. Shows(scr', home, new, pos + 1, len + 1)
    <3>1. len < SHELL_BUF_SIZE - 1
      BY <2>1
    <3>2. Shows(vga_puts(s, Part(new, pos, len + 1) \o Times((len + 1) - (pos + 1), Backspace)),
                home, new, pos + 1, len + 1)
      BY <2>3, <2>4, <2>5, <2>6, <3>1, InsertShows
    <3> QED BY <2>7, <3>2
  <2>9. home' \in Nat /\ Shows(scr', home', input_buffer', pos', len')
    BY <1>0, <2>1, <2>3, <2>8 DEF new
  <2> QED BY <2>9, ShownNext
<1> QED BY <1>1, <1>2, <1>3

\* Before the first key.
LEMMA InitShown == ASSUME NoBackspaces PROVE Init => ScreenShows
<1> SUFFICES ASSUME Init PROVE ScreenShows
  OBVIOUS
<1>1. PICK prompt \in Prompts : scr = vga_puts(vga_putc(clear_screen, Newline), prompt)
  BY DEF Init
<1> DEFINE t == vga_puts(vga_putc(clear_screen, Newline), prompt)
<1>2. t \in Fresh
  <2> DEFINE u == vga_putc(clear_screen, Newline)
  <2>1. u \in Fresh /\ u \in Sound
    BY ClearFresh, FreshSound, NewlineFresh
  <2>2. prompt \in Seq(Codes) /\ prompt \in Seq(Codes \ {Backspace})
    BY CodesType DEF NoBackspaces
  <2> HIDE DEF u
  <2>3. vga_puts(u, prompt) \in Fresh
    BY <2>1, <2>2, PutsKeeps
  <2> QED BY <2>3 DEF u
<1> HIDE DEF t
<1>3. Shows(t, t.cursor_x, input_buffer, 0, 0)
  BY <1>2, FreshShows
<1>4. t.cursor_x \in Nat
  BY <1>2, ScreenType DEF Fresh
<1>5. RowShows(t, t.cursor_x, input_buffer, 0, 0)
  BY <1>3, <1>4, ShowsRow
<1>6. home = scr.cursor_x /\ pos = 0 /\ len = 0 /\ scr = t
  BY <1>1 DEF Init, t
<1>7. RowShows(scr, home, input_buffer, pos, len)
  BY <1>5, <1>6
<1> QED BY <1>7 DEF ScreenShows, RowShows

\* What the user sees behind the prompt is the line of shell_loop, with the cursor
\* where pos is, for every sequence of keys that edits a line shorter than its row,
\* when what was printed before it had no backspaces.
THEOREM LineShown == NoBackspaces /\ Spec => []ScreenShows
<1> SUFFICES ASSUME NoBackspaces PROVE Spec => []ScreenShows
  OBVIOUS
<1>1. Init => ScreenShows
  BY InitShown
<1>2. LineInv /\ ScreenShows /\ [Next]_vars => ScreenShows'
  <2> SUFFICES ASSUME LineInv, ScreenShows, [Next]_vars PROVE ScreenShows'
    OBVIOUS
  <2>1. CASE Enter
    BY <2>1, EnterShows
  <2>2. CASE Up \/ Down
    <3>1. plain' = FALSE
      BY <2>2 DEF Up, Down, Recall
    <3> QED BY <3>1 DEF ScreenShows
  <2>3. CASE Erase
    BY <2>3, EraseShown
  <2>4. CASE Left \/ Right
    BY <2>4, MoveShown
  <2>5. CASE \E c \in Chars : Insert(c)
    BY <2>5, InsertShown
  <2>6. CASE UNCHANGED vars
    BY <2>6 DEF vars, ScreenShows
  <2> QED BY <2>1, <2>2, <2>3, <2>4, <2>5, <2>6 DEF Next
<1> QED BY <1>1, <1>2, LineCorrect, PTL DEF Spec
-----------------------------------------------------------------------------
\* The characters of the line as a text.
LEMMA LineText ==
  ASSUME NEW buf \in [Index -> Chars \cup {0}], NEW n \in Nat, n <= SHELL_BUF_SIZE,
         NEW w, w = Part(buf, 0, n)
  PROVE  w \in Seq(Chars \cup {0}) /\ Len(w) = n /\ \A k \in 1 .. n : w[k] = buf[k - 1]
<1> DEFINE T == Chars \cup {0}
<1>1. buf \in [Index -> T] /\ 0 \in Nat /\ n \in Int
  OBVIOUS
<1> HIDE DEF T
<1>2. Part(buf, 0, n) \in Seq(T)
  BY <1>1, PartType
<1>3. Len(Part(buf, 0, n)) = n
  BY <1>1, PartIs
<1>4. ASSUME NEW k \in 1 .. n PROVE Part(buf, 0, n)[k] = buf[k - 1]
  <2>1. k \in 1 .. n - 0 /\ 0 + (k - 1) = k - 1
    OBVIOUS
  <2>2. Part(buf, 0, n)[k] = buf[0 + (k - 1)]
    BY <1>1, <2>1, PartAt
  <2> QED BY <2>1, <2>2
<1> QED BY <1>2, <1>3, <1>4 DEF T

\* The text and the cursor of LineEditor.
Text == IF origin = "typed" THEN Part(input_buffer, 0, len) ELSE << >>

Cursor == IF origin = "typed" THEN pos ELSE 0

\* An insertion in a typed line.
LEMMA InsertRefines ==
  ASSUME LineInv, origin = "typed", NEW c \in Chars, Insert(c)
  PROVE  Line!Insert(c)
<1> DEFINE T == Chars \cup {0}
           new == input_buffer'
           w == Part(input_buffer, 0, len)
           l == Part(new, 0, len + 1)
<1>1. /\ input_buffer \in [Index -> Chars \cup {0}]
      /\ pos \in Nat /\ len \in Int /\ len <= SHELL_BUF_SIZE - 1 /\ SHELL_BUF_SIZE \in Nat
      /\ pos <= len
  BY LineTypes
<1>2. pos \in Nat /\ len \in Nat /\ pos <= len /\ pos \in Index /\ len < SHELL_BUF_SIZE - 1
      /\ len <= SHELL_BUF_SIZE /\ len + 1 \in Nat /\ len + 1 <= SHELL_BUF_SIZE
  <2>1. len < SHELL_BUF_SIZE - 1 /\ pos <= len
    BY <1>1 DEF Insert
  <2> QED BY <1>1, <2>1 DEF Index
<1>3. /\ pos' = pos + 1 /\ len' = len + 1
      /\ new = [i \in Index |-> IF i = pos THEN c
                                ELSE IF i \in pos + 1 .. len THEN input_buffer[i - 1]
                                ELSE input_buffer[i]]
  BY <1>2 DEF Insert
<1>4. new \in [Index -> Chars \cup {0}]
  <2>1. LineInv'
    BY InsertKeeps
  <2> QED BY <2>1 DEF LineInv, TypeOK
<1>5. /\ \A i \in 0 .. pos - 1 : new[i] = input_buffer[i]
      /\ new[pos] = c
      /\ \A i \in pos + 1 .. len : new[i] = input_buffer[i - 1]
  <2>1. \A i \in 0 .. pos - 1 : i \in Index /\ i # pos /\ i \notin pos + 1 .. len
    BY <1>1, <1>2 DEF Index
  <2>2. \A i \in pos + 1 .. len : i \in Index /\ i # pos
    BY <1>1, <1>2 DEF Index
  <2>3. \A i \in 0 .. pos - 1 : new[i] = input_buffer[i]
    BY <1>3, <2>1
  <2>4. new[pos] = c
    BY <1>2, <1>3
  <2>5. \A i \in pos + 1 .. len : new[i] = input_buffer[i - 1]
    BY <1>3, <2>2
  <2> QED BY <2>3, <2>4, <2>5
<1> HIDE DEF new
<1>6. w \in Seq(Chars \cup {0}) /\ Len(w) = len /\ \A k \in 1 .. len : w[k] = input_buffer[k - 1]
  <2>1. w = Part(input_buffer, 0, len)
    OBVIOUS
  <2> HIDE DEF w
  <2> QED BY <1>1, <1>2, <2>1, LineText
<1>7. l \in Seq(Chars \cup {0}) /\ Len(l) = len + 1 /\ \A k \in 1 .. len + 1 : l[k] = new[k - 1]
  <2> DEFINE n == len + 1
  <2>1. l = Part(new, 0, n) /\ n \in Nat /\ n <= SHELL_BUF_SIZE
    BY <1>2
  <2> HIDE DEF l, n
  <2>2. l \in Seq(Chars \cup {0}) /\ Len(l) = n /\ \A k \in 1 .. n : l[k] = new[k - 1]
    BY <1>4, <2>1, LineText
  <2> QED BY <2>2 DEF n
<1> HIDE DEF w, l
<1>8. ASSUME NEW k \in 1 .. pos PROVE l[k] = w[k]
  <2>1. k - 1 \in 0 .. pos - 1 /\ k \in 1 .. len /\ k \in 1 .. len + 1
    BY <1>2
  <2> QED BY <1>5, <1>6, <1>7, <2>1
<1>9. l[pos + 1] = c
  <2>1. pos + 1 \in 1 .. len + 1 /\ (pos + 1) - 1 = pos
    BY <1>2
  <2>2. l[pos + 1] = new[(pos + 1) - 1]
    BY <1>7, <2>1
  <2> QED BY <1>5, <2>1, <2>2
<1>10. ASSUME NEW k \in pos + 2 .. len + 1 PROVE l[k] = w[k - 1]
  <2>1. k - 1 \in pos + 1 .. len /\ k \in 1 .. len + 1 /\ k - 1 \in 1 .. len
    BY <1>2
  <2>2. l[k] = new[k - 1] /\ new[k - 1] = input_buffer[(k - 1) - 1]
    BY <1>5, <1>7, <2>1
  <2>3. w[k - 1] = input_buffer[(k - 1) - 1]
    BY <1>6, <2>1
  <2> QED BY <2>2, <2>3
<1>11. l = InsertAt(w, pos + 1, c)
  <2>1. w \in Seq(T) /\ l \in Seq(T) /\ c \in T
    BY <1>6, <1>7
  <2>2. Len(w) = len /\ Len(l) = len + 1
    BY <1>6, <1>7
  <2> HIDE DEF T, w, l, new
  <2>3. l = Screen!Insertion(w, pos, c)
    BY <1>2, <1>8, <1>9, <1>10, <2>1, <2>2, Screen!TextInsert, SMTT(30)
  <2>4. (pos + 1) - 1 = pos
    BY <1>2
  <2> QED BY <2>3, <2>4 DEF InsertAt, Screen!Insertion
<1>14. origin' = origin
  BY DEF Insert
<1>12. Text = w /\ Text' = l /\ Cursor = pos /\ Cursor' = pos + 1
  BY <1>3, <1>14 DEF Text, Cursor, w, l, new
<1>13. Len(Text) < SHELL_BUF_SIZE - 1 /\ Text' = InsertAt(Text, Cursor + 1, c) /\ Cursor' = Cursor + 1
  BY <1>2, <1>6, <1>11, <1>12
<1> QED BY <1>13, <1>14 DEF Line!Insert, Text, Cursor, InsertAt, Line!InsertAt
\* An erasure.
LEMMA EraseRefines == ASSUME LineInv, origin = "typed", Erase PROVE Line!Erase
<1> DEFINE T == Chars \cup {0}
           new == input_buffer'
           w == Part(input_buffer, 0, len)
           l == Part(new, 0, len - 1)
<1>1. /\ input_buffer \in [Index -> Chars \cup {0}]
      /\ pos \in Nat /\ len \in Int /\ len <= SHELL_BUF_SIZE - 1 /\ SHELL_BUF_SIZE \in Nat
      /\ pos <= len
  BY LineTypes
<1>2. pos \in Nat /\ len \in Nat /\ 0 < pos /\ pos <= len /\ len < SHELL_BUF_SIZE
      /\ len <= SHELL_BUF_SIZE /\ len - 1 \in Nat /\ len - 1 <= SHELL_BUF_SIZE
  <2>1. pos > 0 /\ pos <= len
    BY <1>1 DEF Erase
  <2> QED BY <1>1, <2>1
<1>3. /\ pos' = pos - 1 /\ len' = len - 1
      /\ new = [i \in Index |-> IF i \in pos - 1 .. len - 2 THEN input_buffer[i + 1]
                                ELSE input_buffer[i]]
  BY DEF Erase
<1>4. new \in [Index -> Chars \cup {0}]
  <2>1. LineInv'
    BY EraseKeeps
  <2> QED BY <2>1 DEF LineInv, TypeOK
<1>5. /\ \A i \in 0 .. pos - 2 : new[i] = input_buffer[i]
      /\ \A i \in pos - 1 .. len - 2 : new[i] = input_buffer[i + 1]
  <2>1. \A i \in 0 .. pos - 2 : i \in Index /\ i \notin pos - 1 .. len - 2
    BY <1>1, <1>2 DEF Index
  <2>2. \A i \in pos - 1 .. len - 2 : i \in Index
    BY <1>1, <1>2 DEF Index
  <2>3. \A i \in 0 .. pos - 2 : new[i] = input_buffer[i]
    BY <1>3, <2>1
  <2>5. \A i \in pos - 1 .. len - 2 : new[i] = input_buffer[i + 1]
    BY <1>3, <2>2
  <2> QED BY <2>3, <2>5
<1> HIDE DEF new
<1>6. w \in Seq(Chars \cup {0}) /\ Len(w) = len /\ \A k \in 1 .. len : w[k] = input_buffer[k - 1]
  <2>1. w = Part(input_buffer, 0, len)
    OBVIOUS
  <2> HIDE DEF w
  <2> QED BY <1>1, <1>2, <2>1, LineText
<1>7. l \in Seq(Chars \cup {0}) /\ Len(l) = len - 1 /\ \A k \in 1 .. len - 1 : l[k] = new[k - 1]
  <2> DEFINE n == len - 1
  <2>1. l = Part(new, 0, n) /\ n \in Nat /\ n <= SHELL_BUF_SIZE
    BY <1>2
  <2> HIDE DEF l, n
  <2>2. l \in Seq(Chars \cup {0}) /\ Len(l) = n /\ \A k \in 1 .. n : l[k] = new[k - 1]
    BY <1>4, <2>1, LineText
  <2> QED BY <2>2 DEF n
<1> HIDE DEF w, l
<1>8. ASSUME NEW k \in 1 .. pos - 1 PROVE l[k] = w[k]
  <2>1. k - 1 \in 0 .. pos - 2 /\ k \in 1 .. len /\ k \in 1 .. len - 1
    BY <1>2
  <2> QED BY <1>5, <1>6, <1>7, <2>1
<1>9. ASSUME NEW k \in pos .. len - 1 PROVE l[k] = w[k + 1]
  <2>1. k - 1 \in pos - 1 .. len - 2 /\ k \in 1 .. len - 1 /\ k + 1 \in 1 .. len
        /\ (k - 1) + 1 = k /\ (k + 1) - 1 = k
    BY <1>2
  <2>2. l[k] = new[k - 1] /\ new[k - 1] = input_buffer[(k - 1) + 1]
    BY <1>5, <1>7, <2>1
  <2>3. w[k + 1] = input_buffer[(k + 1) - 1]
    BY <1>6, <2>1
  <2> QED BY <2>1, <2>2, <2>3
<1>10. l = RemoveAt(w, pos)
  <2>1. w \in Seq(T) /\ l \in Seq(T)
    BY <1>6, <1>7
  <2>2. Len(w) = len /\ Len(l) = len - 1
    BY <1>6, <1>7
  <2> HIDE DEF T
  <2> HIDE DEF w, l
  <2>3. l = Screen!Removal(w, pos)
    BY <1>2, <1>8, <1>9, <2>1, <2>2, Screen!TextRemove
  <2> QED BY <2>3 DEF RemoveAt, Screen!Removal
<1>11. origin' = origin
  BY DEF Erase
<1>12. Text = w /\ Text' = l /\ Cursor = pos /\ Cursor' = pos - 1
  BY <1>3, <1>11 DEF Text, Cursor, w, l, new
<1>13. Cursor > 0 /\ Text' = RemoveAt(Text, Cursor) /\ Cursor' = Cursor - 1
  BY <1>2, <1>10, <1>12
<1> QED BY <1>11, <1>13 DEF Line!Erase, Text, Cursor, RemoveAt, Line!RemoveAt

\* The left and right keys.
LEMMA MoveRefines == ASSUME LineInv, origin = "typed", Left \/ Right PROVE Line!Move
<1>1. /\ pos \in Nat /\ len \in Int /\ len <= SHELL_BUF_SIZE - 1 /\ SHELL_BUF_SIZE \in Nat
      /\ pos <= len
  BY LineTypes
<1>2. input_buffer' = input_buffer /\ len' = len /\ origin' = origin
      /\ \/ pos > 0 /\ pos' = pos - 1
         \/ pos < len /\ pos' = pos + 1
  BY DEF Left, Right
<1>3. len \in Nat /\ pos <= len /\ len <= SHELL_BUF_SIZE
  BY <1>1
<1>4. Len(Part(input_buffer, 0, len)) = len
  <2> DEFINE w == Part(input_buffer, 0, len)
  <2>1. w = Part(input_buffer, 0, len) /\ input_buffer \in [Index -> Chars \cup {0}]
    BY DEF LineInv, TypeOK
  <2> HIDE DEF w
  <2>2. Len(w) = len
    BY <1>3, <2>1, LineText
  <2> QED BY <2>1, <2>2
<1>5. pos' \in {pos - 1, pos + 1} \cap 0 .. len
  BY <1>1, <1>2, <1>3
<1>6. Text' = Text /\ Cursor = pos /\ Cursor' = pos' /\ Len(Text) = len
  BY <1>2, <1>4 DEF Text, Cursor
<1>7. Cursor' \in {Cursor - 1, Cursor + 1} \cap 0 .. Len(Text)
  BY <1>5, <1>6
<1> QED BY <1>2, <1>6, <1>7 DEF Line!Move, Text, Cursor

\* A step after which nothing is said of the line, and one after which it is blank.
LEMMA LoseRefines == ASSUME origin' # "typed" PROVE Line!Lose
BY DEF Line!Lose

\* A new line is an empty one.
LEMMA BlankRefines ==
  ASSUME origin' = "typed", pos' = 0, len' = 0
  PROVE  Line!Blank
<1>1. Part(input_buffer', 0, 0) = << >>
  <2> DEFINE buf == input_buffer'
  <2> HIDE DEF buf
  <2>1. Max({0 - 0, 0}) = 0
    BY MaxZero
  <2>2. Part(buf, 0, 0) = << >>
    BY <2>1 DEF Part
  <2> QED BY <2>2 DEF buf
<1> QED BY <1>1 DEF Line!Blank

\* For every sequence of keys, commands and page faults, the line of shell_loop is
\* that of an editor: insertions, erasures and movements at the cursor, up to the
\* limit of the buffer, until an entry of the history is recalled into it or a
\* program dies.
THEOREM LineRefinesEditor == Spec => EditorSpec
<1>1. Init => Line!Init
  <2> SUFFICES ASSUME Init PROVE Line!Init
    OBVIOUS
  <2>1. origin = "typed" /\ pos = 0 /\ len = 0
    BY DEF Init
  <2>2. Part(input_buffer, 0, 0) = << >>
    <3>1. Max({0 - 0, 0}) = 0
      BY MaxZero
    <3> QED BY <3>1 DEF Part
  <2> QED BY <2>1, <2>2 DEF Line!Init
<1>2. LineInv /\ [Next]_vars => [Line!Next]_(Line!vars)
  <2> SUFFICES ASSUME LineInv, [Next]_vars PROVE Line!Next \/ Line!vars' = Line!vars
    OBVIOUS
  <2>0. /\ pos \in Nat /\ len \in Int /\ len <= SHELL_BUF_SIZE - 1 /\ SHELL_BUF_SIZE \in Nat
        /\ origin = "typed" => pos <= len
    BY LineTypes
  <2>1. origin = "typed" => pos \in Index
    BY <2>0 DEF Index
  <2>3. ASSUME origin # "typed", origin' = origin PROVE Line!vars' = Line!vars
    BY <2>3 DEF Line!vars
  <2>4. CASE Enter
    <3>1. CASE pos \in Index
      <4> DEFINE buf == [input_buffer EXCEPT ![pos] = 0]
      <4>1. handle_command(buf, vga_putc(scr, Newline)) /\ scr \in Sound
        BY <2>4, <3>1 DEF Enter, LineInv
      <4> HIDE DEF buf
      <4>2. \/ pos' = 0 /\ len' = 0 /\ origin' = "typed"
            \/ origin' # "typed"
        BY <4>1, CommandKeeps
      <4>3. Line!Blank \/ Line!Lose
        BY <4>2, BlankRefines, LoseRefines
      <4> QED BY <4>3 DEF Line!Next
    <3>2. CASE pos \notin Index
      <4>1. origin' = origin /\ origin # "typed"
        BY <2>1, <2>4, <3>2 DEF Enter
      <4> QED BY <2>3, <4>1
    <3> QED BY <3>1, <3>2
  <2>5. CASE Up \/ Down
    <3>1. origin' # "typed"
      BY <2>5 DEF Up, Down, Recall
    <3>2. Line!Lose
      BY <3>1, LoseRefines
    <3> QED BY <3>2 DEF Line!Next
  <2>6. CASE Erase
    <3>1. CASE origin = "typed"
      BY <2>6, <3>1, EraseRefines DEF Line!Next
    <3>2. CASE origin # "typed"
      <4>1. origin' = origin
        BY <2>6 DEF Erase
      <4> QED BY <2>3, <3>2, <4>1
    <3> QED BY <3>1, <3>2
  <2>7. CASE Left \/ Right
    <3>1. CASE origin = "typed"
      BY <2>7, <3>1, MoveRefines DEF Line!Next
    <3>2. CASE origin # "typed"
      <4>1. origin' = origin
        BY <2>7 DEF Left, Right
      <4> QED BY <2>3, <3>2, <4>1
    <3> QED BY <3>1, <3>2
  <2>8. ASSUME NEW c \in Chars, Insert(c) PROVE Line!Next \/ Line!vars' = Line!vars
    <3>1. CASE origin = "typed"
      <4>1. Line!Insert(c)
        BY <2>8, <3>1, InsertRefines
      <4> QED BY <4>1 DEF Line!Next
    <3>2. CASE origin # "typed"
      <4>1. origin' = origin
        BY <2>8 DEF Insert
      <4> QED BY <2>3, <3>2, <4>1
    <3> QED BY <3>1, <3>2
  <2>9. CASE UNCHANGED vars
    BY <2>9 DEF vars, Line!vars
  <2> QED BY <2>4, <2>5, <2>6, <2>7, <2>8, <2>9 DEF Next
<1> QED BY <1>1, <1>2, LineCorrect, PTL DEF Spec, EditorSpec, Line!Spec
=============================================================================
