----------------------------- MODULE ShellLine -----------------------------
(***************************************************************************)
(* shell_loop of src/kernel/main.c: the line being edited, the history,    *)
(* and the screen they are shown on.  Every action is one round of the     *)
(* loop with one character of the keyboard buffer.                         *)
(*                                                                         *)
(* A command is the sequence of its characters; what handle_command does   *)
(* with it is one of its outcomes: it returns, having printed something;   *)
(* it starts a program that ends with SYS_EXIT, after which shell_loop is  *)
(* entered anew with g_shell_needs_reset set; or it starts a program that  *)
(* dies of a page fault, after which page_fault_handler enters run_shell.  *)
(***************************************************************************)
EXTENDS Vga

CONSTANTS SHELL_BUF_SIZE, MAX_HISTORY,
          Chars,       \* the characters that stand for themselves
          Prompts,     \* the prompts, which show the working directory
          Outputs,     \* what a command may print
          LEN_BELOW    \* bound: how far below 0 len is followed

ASSUME LineAssumption ==
    /\ SHELL_BUF_SIZE \in Nat \ {0} /\ MAX_HISTORY \in Nat \ {0}
    /\ Chars \cap {0, Newline, Backspace, Space, 17, 18, 19, 20} = {}
    /\ Prompts \cup Outputs \subseteq Seq(Chars \cup 0 .. 255)
    /\ LEN_BELOW \in Nat

VARIABLES
    input_buffer, pos, len,       \* static variables of shell_loop
    g_history, g_history_idx,     \* g_history_count is the length of g_history
    scr,                          \* the screen
    smashed,                      \* a write went past the end of input_buffer
    home,                         \* history: the column behind the prompt
    origin,                       \* history: the line was "typed" since it was blank,
                                  \* "left" by a program that died, or an entry of the
                                  \* history was "recalled" into it
    plain                         \* history: it was typed, and has not reached the last
                                  \* column

vars == <<input_buffer, pos, len, g_history, g_history_idx, scr, smashed, home, origin, plain>>

Index == 0 .. SHELL_BUF_SIZE - 1

Zeros == [i \in Index |-> 0]

\* A string, and an array, as C sees them.
CString(buf) == LET end == CHOOSE i \in Index : buf[i] = 0 /\ \A j \in 0 .. i - 1 : buf[j] # 0
                IN  [i \in 1 .. end |-> buf[i - 1]]

\* strcpy(buf, str)
strcpy(buf, str) == [i \in Index |-> IF i < Len(str) THEN str[i + 1]
                                     ELSE IF i = Len(str) THEN 0 ELSE buf[i]]

\* The characters of buf from index i to before index j.
Part(buf, i, j) == [k \in 1 .. Max({j - i, 0}) |-> buf[i + k - 1]]

\* run_shell has printed its welcome and the first prompt.
Init ==
    /\ input_buffer = Zeros
    /\ pos = 0
    /\ len = 0
    /\ g_history = << >>
    /\ g_history_idx = -1
    /\ \E prompt \in Prompts : scr = vga_puts(vga_putc(clear_screen, Newline), prompt)
    /\ smashed = FALSE
    /\ home = scr.cursor_x
    /\ origin = "typed"
    /\ plain = TRUE
-----------------------------------------------------------------------------
\* The prompt, after the screen s, before a blank line.
BlankLine(s) ==
    /\ \E prompt \in Prompts : scr' = vga_puts(s, prompt)
    /\ home' = scr'.cursor_x
    /\ input_buffer' = Zeros
    /\ pos' = 0
    /\ len' = 0
    /\ origin' = "typed"
    /\ plain' = TRUE

\* A command that returns, having printed something or cleared the screen.
CommandReturns(s) ==
    \/ \E out \in Outputs : BlankLine(vga_puts(s, out))
    \/ BlankLine(clear_screen)

\* A program that prints something and ends with SYS_EXIT: shell_loop starts anew.
ProgramExits(s) == \E out \in Outputs : BlankLine(vga_puts(s, out \o <<Newline>>))

\* A program that prints something and dies of a page fault: page_fault_handler
\* reports it and jumps to run_shell, and shell_loop finds its static variables
\* as they were.
ProgramFaults(buf, s) ==
    /\ \E out \in Outputs, prompt \in Prompts :
          scr' = vga_puts(s, out \o <<Newline, Newline, Newline>> \o prompt)
    /\ home' = scr'.cursor_x
    /\ origin' = IF origin = "recalled" THEN "recalled" ELSE "left"
    /\ plain' = FALSE
    /\ input_buffer' = buf
    /\ UNCHANGED <<pos, len>>

\* What handle_command(buf) comes to, s being the screen.  Of what the kernel
\* prints, the words are left out and the ends of lines are kept.
handle_command(buf, s) ==
    \/ CommandReturns(s)
    \/ CString(buf) # << >> /\ (ProgramExits(s) \/ ProgramFaults(buf, s))

\* A history without the test of the last entry.
remember_all(cmd) ==
    IF pos = 0 THEN g_history
    ELSE IF Len(g_history) < MAX_HISTORY THEN Append(g_history, cmd)
    ELSE Append(Tail(g_history), cmd)

\* The history after the line cmd: not empty lines, nor the last one again.
Remember(cmd) ==
    IF pos = 0 \/ (g_history # << >> /\ Last(g_history) = cmd) THEN g_history
    ELSE IF Len(g_history) < MAX_HISTORY THEN Append(g_history, cmd)
    ELSE Append(Tail(g_history), cmd)

\* The line ends at the cursor.
Enter ==
    /\ ~smashed
    /\ IF pos \in Index
       THEN LET buf == [input_buffer EXCEPT ![pos] = 0]
            IN  /\ g_history' = Remember(CString(buf))
                /\ g_history_idx' = Len(g_history')
                /\ handle_command(buf, vga_putc(scr, Newline))
                /\ UNCHANGED smashed
       ELSE /\ smashed' = TRUE
            /\ UNCHANGED <<input_buffer, pos, len, g_history, g_history_idx, scr, home, origin, plain>>

\* Backspace, space and backspace, n times.
Wiping(n) == [i \in 1 .. 3 * n |-> IF i % 3 = 2 THEN Space ELSE Backspace]

\* The text before the cursor is erased from the screen, and str is the line.
Recall(str, shown) ==
    /\ scr' = vga_puts(scr, Wiping(pos) \o shown)
    /\ input_buffer' = strcpy(input_buffer, str)
    /\ pos' = Len(str)
    /\ origin' = "recalled"
    /\ plain' = FALSE
    /\ UNCHANGED <<len, g_history, smashed, home>>

Up ==
    /\ ~smashed
    /\ g_history # << >> /\ g_history_idx > 0
    /\ g_history_idx' = g_history_idx - 1
    /\ Recall(g_history[g_history_idx], g_history[g_history_idx])

Down ==
    /\ ~smashed
    /\ g_history_idx < Len(g_history)
    /\ g_history_idx' = g_history_idx + 1
    /\ LET str == IF g_history_idx' = Len(g_history) THEN << >> ELSE g_history[g_history_idx' + 1]
       IN  Recall(str, str)

\* Backspace without the space that erases the last character.
erase_unseen ==
    /\ ~smashed
    /\ pos > 0 /\ len > -LEN_BELOW
    /\ pos' = pos - 1
    /\ len' = len - 1
    /\ input_buffer' = [i \in Index |-> IF i \in pos - 1 .. len - 2 THEN input_buffer[i + 1] ELSE input_buffer[i]]
    /\ scr' = vga_puts(scr, <<Backspace>> \o Part(input_buffer', pos', len') \o Times(len' - pos', Backspace))
    /\ UNCHANGED <<g_history, g_history_idx, smashed, home, origin, plain>>

\* The backspace key: what is right of the cursor moves left and is printed
\* again, with a space behind it, and the cursor goes back.
Erase ==
    /\ ~smashed
    /\ pos > 0 /\ len > -LEN_BELOW
    /\ pos' = pos - 1
    /\ len' = len - 1
    /\ input_buffer' = [i \in Index |-> IF i \in pos - 1 .. len - 2 THEN input_buffer[i + 1] ELSE input_buffer[i]]
    /\ scr' = vga_puts(scr, <<Backspace>> \o Part(input_buffer', pos', len') \o <<Space>>
                            \o Times(len' + 1 - pos', Backspace))
    /\ UNCHANGED <<g_history, g_history_idx, smashed, home, origin, plain>>

\* Left without its test.
left_free ==
    /\ ~smashed
    /\ pos' = pos - 1
    /\ scr' = vga_putc(scr, Backspace)
    /\ UNCHANGED <<input_buffer, len, g_history, g_history_idx, smashed, home, origin, plain>>

Left ==
    /\ ~smashed
    /\ pos > 0
    /\ pos' = pos - 1
    /\ scr' = vga_putc(scr, Backspace)
    /\ UNCHANGED <<input_buffer, len, g_history, g_history_idx, smashed, home, origin, plain>>

\* The cursor moves one past the text.
right_beyond ==
    /\ ~smashed
    /\ pos <= len
    /\ pos \in Index
    /\ pos' = pos + 1
    /\ scr' = vga_putc(scr, input_buffer[pos])
    /\ UNCHANGED <<input_buffer, len, g_history, g_history_idx, smashed, home, origin, plain>>

Right ==
    /\ ~smashed
    /\ pos < len
    /\ pos' = pos + 1
    /\ scr' = vga_putc(scr, input_buffer[pos])
    /\ UNCHANGED <<input_buffer, len, g_history, g_history_idx, smashed, home, origin, plain>>

\* An insertion that shifts from the left: each character over the next.
insert_smears(c) ==
    /\ ~smashed
    /\ len < SHELL_BUF_SIZE - 1
    /\ pos \in Index
    /\ input_buffer' = [i \in Index |-> IF i = pos THEN c
                                        ELSE IF i \in pos + 1 .. len THEN input_buffer[pos]
                                        ELSE input_buffer[i]]
    /\ pos' = pos + 1
    /\ len' = len + 1
    /\ scr' = vga_puts(scr, Part(input_buffer', pos, len') \o Times(len' - pos', Backspace))
    /\ plain' = (plain /\ home + len' < VGA_WIDTH)
    /\ UNCHANGED <<g_history, g_history_idx, smashed, home, origin>>

\* Any other character: what is right of the cursor moves right, the character is
\* put in its place, the text from there on is printed, and the cursor goes back.
Insert(c) ==
    /\ ~smashed
    /\ len < SHELL_BUF_SIZE - 1
    /\ IF pos \in Index
       THEN /\ input_buffer' = [i \in Index |-> IF i = pos THEN c
                                                ELSE IF i \in pos + 1 .. len THEN input_buffer[i - 1]
                                                ELSE input_buffer[i]]
            /\ pos' = pos + 1
            /\ len' = len + 1
            /\ scr' = vga_puts(scr, Part(input_buffer', pos, len') \o Times(len' - pos', Backspace))
            /\ plain' = (plain /\ home + len' < VGA_WIDTH)
            /\ UNCHANGED smashed
       ELSE /\ smashed' = TRUE
            /\ UNCHANGED <<input_buffer, pos, len, scr, plain>>
    /\ UNCHANGED <<g_history, g_history_idx, home, origin>>

Next == Enter \/ Up \/ Down \/ Erase \/ Left \/ Right \/ \E c \in Chars : Insert(c)

Spec == Init /\ [][Next]_vars
-----------------------------------------------------------------------------
\* The cursor of the line, the history and the cursor of the screen stay inside
\* their arrays.
TypeOK ==
    /\ input_buffer \in [Index -> Chars \cup {0}]
    /\ pos \in 0 .. SHELL_BUF_SIZE
    /\ len \in -LEN_BELOW .. SHELL_BUF_SIZE - 1
    /\ Len(g_history) <= MAX_HISTORY
    /\ \A i \in 1 .. Len(g_history) : Len(g_history[i]) < SHELL_BUF_SIZE
    /\ g_history_idx \in -1 .. Len(g_history)
    /\ scr.cursor_x \in 0 .. VGA_WIDTH - 1 /\ scr.cursor_y \in 0 .. VGA_HEIGHT - 1
    /\ origin \in {"typed", "left", "recalled"}
    /\ {smashed, plain} \subseteq BOOLEAN

\* What the user sees is what shell_loop has: behind the prompt the characters of
\* input_buffer and nothing more, and the cursor of the screen where pos is, for
\* a line that was typed and edited and is shorter than its row.
ScreenShows ==
    plain =>
        LET row == [x \in 0 .. VGA_WIDTH - 1 |-> scr.video_mem[scr.cursor_y * VGA_WIDTH + x]]
        IN  /\ scr.cursor_x = home + pos
            /\ \A x \in home .. VGA_WIDTH - 1 :
                    row[x] = IF x - home < len THEN input_buffer[x - home] ELSE Space

\* The overrun of input_buffer needs a recall: on every other line, however long,
\* and on one that a program left behind when it died, the cursor stays in the
\* text, so that the terminator of Enter and an insertion at the limit of
\* SHELL_BUF_SIZE are written inside the buffer.
EditsInside == origin # "recalled" => ~smashed /\ pos <= len

\* The history never has the same line twice in a row, and Up, which goes down
\* from g_history_idx, always finds an entry.
HistoryInv ==
    /\ \A i \in 1 .. Len(g_history) - 1 : g_history[i] # g_history[i + 1]
    /\ g_history_idx = -1 => g_history = << >>

Line == INSTANCE LineEditor WITH
            MaxLen <- SHELL_BUF_SIZE - 1,
            known  <- origin = "typed",
            text   <- IF origin = "typed" THEN Part(input_buffer, 0, len) ELSE << >>,
            cursor <- IF origin = "typed" THEN pos ELSE 0

\* A line behaves as the line of an editor does, up to the limit of the buffer and
\* in whatever columns it is shown: input_buffer, pos and len stand for a text with
\* a cursor.  Of a line into which a history entry was recalled, and of one that a
\* program left behind when it died, nothing is said.
EditorSpec == Line!Spec

CursorAtPos == scr.cursor_x = (home + pos) % VGA_WIDTH

\* The comments of the code (main.c, "将 VGA 物理光标送回到逻辑 pos 位置"): an insertion
\* or an erasure sends the physical cursor back to where pos is; if it was there
\* before, it is there afterwards.
SendsCursorBack ==
    [][CursorAtPos /\ (Erase \/ \E c \in Chars : Insert(c)) => CursorAtPos']_vars
=============================================================================
