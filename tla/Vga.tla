-------------------------------- MODULE Vga --------------------------------
(***************************************************************************)
(* The text screen of arch/vga.c: operators that give the screen after a   *)
(* call.  A screen is the record of video_mem, cursor_x and cursor_y.      *)
(* Colours are left out, and so is the hardware cursor, which every vga_   *)
(* putc sets to cursor_y * VGA_WIDTH + cursor_x.                           *)
(***************************************************************************)
EXTENDS Integers, Sequences, SequencesExt

CONSTANTS VGA_WIDTH, VGA_HEIGHT

ASSUME VgaAssumption == VGA_WIDTH \in Nat \ {0} /\ VGA_HEIGHT \in Nat \ {0}

Newline == 10
Backspace == 8
Space == 32

Cells == 0 .. VGA_WIDTH * VGA_HEIGHT - 1

clear_screen == [video_mem |-> [i \in Cells |-> Space], cursor_x |-> 0, cursor_y |-> 0]

\* The rows move up one, the last one is blank and has the cursor.
vga_scroll(scr) ==
    [scr EXCEPT !.video_mem = [i \in Cells |-> IF i + VGA_WIDTH \in Cells THEN @[i + VGA_WIDTH] ELSE Space],
                !.cursor_y  = VGA_HEIGHT - 1]

\* A character and the cursor behind it, on the next row at the end of a row.
advance(scr, c) ==
    LET x   == scr.cursor_x + 1
        put == [scr EXCEPT !.video_mem[scr.cursor_y * VGA_WIDTH + scr.cursor_x] = c]
    IN  IF x < VGA_WIDTH THEN [put EXCEPT !.cursor_x = x]
                         ELSE [put EXCEPT !.cursor_x = 0, !.cursor_y = @ + 1]

\* Backspace moves the cursor in its row and erases nothing.
vga_putc(scr, c) ==
    LET moved == CASE c = Newline   -> [scr EXCEPT !.cursor_x = 0, !.cursor_y = @ + 1]
                   [] c = Backspace -> [scr EXCEPT !.cursor_x = IF @ > 0 THEN @ - 1 ELSE @]
                   [] OTHER         -> advance(scr, c)
    IN  IF moved.cursor_y >= VGA_HEIGHT THEN vga_scroll(moved) ELSE moved

vga_puts(scr, str) == FoldLeft(vga_putc, scr, str)

\* The same character n times, none if n is not positive.
Times(n, c) == [i \in 1 .. Max({n, 0}) |-> c]
=============================================================================
