------------------------------ MODULE Console ------------------------------
(***************************************************************************)
(* The way of a keystroke: keyboard controller, PIC, keyboard_handler_asm  *)
(* and keyboard_handler, the character queue, and the code that takes      *)
(* characters from it: shell_loop in the kernel, with interrupts on, or a  *)
(* user program through SYS_READ and SYS_READ_RAW, whose gate and cli turn *)
(* interrupts off.  A program may also end in a page fault or in another   *)
(* exception.                                                              *)
(*                                                                         *)
(* The queue is the one KbdBuffer implements (KbdFifo); SYS_READ_RAW is a  *)
(* SYS_READ of one character.  The keyboard, the controller and the PIC    *)
(* are hardware, modelled by what the code relies on.                      *)
(***************************************************************************)
EXTENDS Scancodes, SequencesExt

CONSTANTS Keys,        \* the keys of the keyboard
          PORT_SIZE,   \* bytes that the keyboard and its controller hold
          Capacity,    \* characters that the queue holds: KBD_BUF_SIZE - 1
          MAX_READ     \* the largest max_len a program passes to SYS_READ

ASSUME ConsoleAssumption ==
    /\ Keys \subseteq BOOLEAN \X (0 .. 95)
    /\ {PORT_SIZE, Capacity, MAX_READ} \subseteq Nat \ {0}

VARIABLES
    down,       \* keys held down
    repeats,    \* {k} while the keyboard repeats k, else {}
    port,       \* bytes to be read from port 0x60, oldest first
    irr, isr,   \* IRQ1 requested, in service
    IF_,        \* the interrupt flag of the CPU
    irq,        \* where keyboard_handler_asm is
    at,         \* where the interrupted code is
    left,       \* characters that the SYS_READ in progress may still take
    kbd,        \* the flags of keyboard.c, and the characters waiting
    owed        \* history: characters the user typed that are not pushed yet

vars == <<down, repeats, port, irr, isr, IF_, irq, at, left, kbd, owed>>

hardware == <<down, repeats, port, owed>>

Make(k) == IF k[1] THEN <<E0, k[2]>> ELSE <<k[2]>>

Break(k) == IF k[1] THEN <<E0, k[2] + 128>> ELSE <<k[2] + 128>>

\* The characters a key stands for when it goes down, given what else is down.
Meaning(k) ==
    LET c == Character(k[2], down \cap Modifiers)
    IN  CASE k \in Arrows                                       -> <<Arrow(k)>>
          [] k \notin Arrows \cup Modifiers /\ ~k[1] /\ c # 0   -> <<c>>
          [] OTHER                                              -> << >>

Init ==
    /\ down = {}
    /\ repeats = {}
    /\ port = << >>
    /\ irr = FALSE
    /\ isr = FALSE
    /\ IF_ = TRUE
    /\ irq = "none"
    /\ at \in {"pop", "user"}
    /\ left = 0
    /\ kbd = NoKeys
    /\ owed = << >>
-----------------------------------------------------------------------------
\* Bytes reach the controller; the first of them raises IRQ1 if it is alone.
Send(bytes) ==
    /\ Len(port) + Len(bytes) <= PORT_SIZE
    /\ port' = port \o bytes
    /\ irr' = (irr \/ port = << >>)
    /\ UNCHANGED <<isr, IF_, irq, at, left, kbd>>

Press(k) ==
    /\ k \notin down
    /\ Send(Make(k))
    /\ down' = down \cup {k}
    /\ repeats' = {k}
    /\ owed' = owed \o Meaning(k)

Release(k) ==
    /\ k \in down
    /\ Send(Break(k))
    /\ down' = down \ {k}
    /\ repeats' = repeats \ {k}
    /\ UNCHANGED owed

\* A key held down repeats its make code.  keyboard_handler ignores it for
\* plain keys, and takes every one of an arrow key.
Repeat(k) ==
    /\ k \in repeats
    /\ Send(Make(k))
    /\ owed' = IF k \in Arrows THEN owed \o Meaning(k) ELSE owed
    /\ UNCHANGED <<down, repeats>>

KeyEvent == \E k \in Keys : Press(k) \/ Release(k) \/ Repeat(k)
-----------------------------------------------------------------------------
\* The CPU takes IRQ1 through an interrupt gate, which clears IF.  An hlt that
\* it ends is over: shell_loop pops again.
IrqEnter ==
    /\ IF_ /\ irr /\ ~isr
    /\ irr' = FALSE
    /\ isr' = TRUE
    /\ IF_' = FALSE
    /\ irq' = "handler"
    /\ at' = IF at = "asleep" THEN "pop" ELSE at
    /\ UNCHANGED <<hardware, left, kbd>>

\* Handlers that push without looking for room, and that leave the byte in the
\* controller when there is none.
handler_unbounded ==
    /\ irq = "handler"
    /\ LET st == handle(kbd, Head(port))
       IN  /\ kbd' = st
           /\ owed' = IF st.typed # kbd.typed THEN Tail(owed) ELSE owed
    /\ port' = Tail(port)
    /\ irr' = (Len(port) > 1)
    /\ isr' = FALSE
    /\ irq' = "eoi"
    /\ UNCHANGED <<down, repeats, IF_, at, left>>

handler_full ==
    /\ irq = "handler"
    /\ IF Len(kbd.typed) = Capacity
       THEN UNCHANGED <<kbd, port, irr, owed>>
       ELSE LET st == handle(kbd, Head(port))
            IN  /\ kbd' = st
                /\ owed' = IF st.typed # kbd.typed THEN Tail(owed) ELSE owed
                /\ port' = Tail(port)
                /\ irr' = (Len(port) > 1)
    /\ isr' = FALSE
    /\ irq' = "eoi"
    /\ UNCHANGED <<down, repeats, IF_, at, left>>

\* keyboard_handler: decode one byte if there is one, push its character unless
\* the queue is full, send EOI.  Reading the byte brings up the next, with a new
\* edge on IRQ1.
keyboard_handler ==
    /\ irq = "handler"
    /\ IF port = << >>
       THEN UNCHANGED <<kbd, port, irr, owed>>
       ELSE LET st == handle(kbd, Head(port))
            IN  /\ kbd' = IF Len(st.typed) > Capacity THEN [st EXCEPT !.typed = kbd.typed] ELSE st
                /\ owed' = IF st.typed # kbd.typed THEN Tail(owed) ELSE owed
                /\ port' = Tail(port)
                /\ irr' = (Len(port) > 1)
    /\ isr' = FALSE
    /\ irq' = "eoi"
    /\ UNCHANGED <<down, repeats, IF_, at, left>>

\* The second EOI, in keyboard_handler_asm, and iret, which restores EFLAGS.
IrqReturn ==
    /\ irq = "eoi"
    /\ isr' = FALSE
    /\ IF_' = TRUE
    /\ irq' = "none"
    /\ UNCHANGED <<hardware, irr, at, left, kbd>>
-----------------------------------------------------------------------------
\* The interrupted code goes from one place to another.
Go(from, to) ==
    /\ irq = "none"
    /\ at = from
    /\ at' = to
    /\ UNCHANGED <<hardware, irr, isr, irq>>

\* shell_loop: pop, and hlt if there was nothing.
ShellPop ==
    /\ Go("pop", IF kbd.typed = << >> THEN "empty" ELSE "char")
    /\ kbd' = IF kbd.typed = << >> THEN kbd ELSE [kbd EXCEPT !.typed = Tail(@)]
    /\ UNCHANGED <<IF_, left>>

ShellHalt == Go("empty", "asleep") /\ UNCHANGED <<IF_, kbd, left>>

ShellChar == Go("char", "pop") /\ UNCHANGED <<IF_, kbd, left>>

\* A command line that starts a program, and the program's SYS_EXIT.
RunProgram == Go("char", "user") /\ UNCHANGED <<IF_, kbd, left>>

Exit == Go("user", "pop") /\ UNCHANGED <<IF_, kbd, left>>

\* The other system calls, which only print, and those that there are not.
OtherCall == Go("user", "call") /\ IF_' = FALSE /\ UNCHANGED <<kbd, left>>

CallReturn == Go("call", "user") /\ IF_' = TRUE /\ UNCHANGED <<kbd, left>>

\* A page fault of the program enters page_fault_handler, any other exception
\* generic_exception_handler, which reports it and halts.
PageFault == Go("user", "fault") /\ IF_' = FALSE /\ UNCHANGED <<kbd, left>>

Exception == Go("user", "dead") /\ IF_' = FALSE /\ UNCHANGED <<kbd, left>>

\* A return to the shell without the sti.
fault_masked == Go("fault", "pop") /\ UNCHANGED <<IF_, kbd, left>>

\* page_fault_handler goes to run_shell with interrupts on.  The assembly overwrites
\* ax without telling the compiler, which may have put the stack pointer or the
\* address of run_shell there.
FaultReturn ==
    /\ \E to \in {"pop", "wild"} : Go("fault", to)
    /\ IF_' = TRUE
    /\ UNCHANGED <<kbd, left>>

\* int 0x80 with SYS_READ or SYS_READ_RAW.
ReadCall(max) ==
    /\ Go("user", "read")
    /\ left' = max
    /\ IF_' = FALSE
    /\ UNCHANGED kbd

\* A round that halts after every character.
read_halts ==
    /\ IF kbd.typed = << >> \/ left > 1
       THEN /\ Go("read", "halted")
            /\ UNCHANGED <<IF_, kbd, left>>
       ELSE /\ Go("read", "user")
            /\ left' = 0
            /\ IF_' = TRUE
            /\ kbd' = [kbd EXCEPT !.typed = Tail(@)]

\* One round of the syscall's loop, at the end of which it may return to the program
\* with IF on again.  On an empty queue it executes hlt.
ReadPop ==
    /\ IF kbd.typed = << >>
       THEN /\ Go("read", "halted")
            /\ UNCHANGED <<IF_, kbd, left>>
       ELSE LET last == left = 1 \/ Head(kbd.typed) = 10
            IN  /\ Go("read", IF last THEN "user" ELSE "read")
                /\ left' = IF last THEN 0 ELSE left - 1
                /\ IF_' = last
                /\ kbd' = [kbd EXCEPT !.typed = Tail(@)]

Cpu ==
    \/ ShellPop \/ ShellHalt \/ ShellChar \/ RunProgram \/ Exit
    \/ OtherCall \/ CallReturn \/ PageFault \/ Exception \/ FaultReturn
    \/ \E max \in 1 .. MAX_READ : ReadCall(max)
    \/ ReadPop

Next == KeyEvent \/ IrqEnter \/ keyboard_handler \/ IrqReturn \/ Cpu

\* The CPU takes an interrupt that it finds requested at one instruction boundary
\* after another, and executes far more instructions than a keyboard sends bytes:
\* neither the interrupt nor the interrupted code is starved.  Nobody has to type.
Spec ==
    /\ Init /\ [][Next]_vars
    /\ SF_vars(IrqEnter)
    /\ WF_vars(keyboard_handler)
    /\ WF_vars(IrqReturn)
    /\ SF_vars(Cpu)
-----------------------------------------------------------------------------
\* The queue never holds more than it has room for, nor a 0, which a reader would
\* take for an empty queue; SYS_READ never takes more than it was asked for.
TypeOK ==
    /\ down \subseteq Keys
    /\ repeats \subseteq down
    /\ port \in Seq(0 .. 255) /\ Len(port) <= PORT_SIZE
    /\ {irr, isr, IF_} \subseteq BOOLEAN
    /\ irq \in {"none", "handler", "eoi"}
    /\ at \in {"pop", "empty", "asleep", "char", "user", "read", "halted",
               "call", "fault", "dead", "wild"}
    /\ left \in 0 .. MAX_READ
    /\ kbd.typed \in Seq(1 .. 255) /\ Len(kbd.typed) <= Capacity

\* Whatever state the driver is in when an interrupt ends, the bytes still to be
\* read make it end with the flags of exactly the keys that are held, and push
\* exactly the characters that the user typed: with the modifiers that were down
\* at the time, and one for each press of a plain key however long it is held.
DecodesTyping ==
    LET end == FoldLeft(handle, [kbd EXCEPT !.typed = << >>], port)
    IN  /\ ~end.is_e0
        /\ end.mods = down \cap Modifiers
        /\ end.key_down = {k[2] : k \in {j \in down \ Modifiers : ~j[1]}}
        /\ end.typed = owed

\* While a byte waits in the controller its interrupt is requested or about to
\* read it: the driver reads one byte for each interrupt and never falls behind.
NoByteForgotten == port # << >> => irr \/ irq = "handler"

\* A character typed while shell_loop sleeps wakes it, and it takes the character,
\* however it got back from a program.  shell_loop tests the queue and halts in two
\* steps, so it can fall asleep over a character that came in between: then the
\* next byte from the keyboard, at the latest the release of that key, wakes it.
ShellReads ==
    ( \/ at = "pop" /\ kbd.typed # << >>
      \/ at = "asleep" /\ port # << >> /\ kbd.typed # << >>
      \/ at = "asleep" /\ Len(port) = 1 /\ owed # << >> ) ~> (at = "char")

\* A program that calls SYS_READ when enough characters wait gets its answer.
ReadsWhatWaits == (at = "read" /\ Len(kbd.typed) >= left) ~> (at = "user")

\* The user shell reads its commands with SYS_READ_RAW ("Type 'help' for
\* commands.", user/shell.c): a character typed while a program waits for one
\* ends its wait.
ReadAnswers == (at \in {"read", "halted"} /\ owed # << >>) ~> (at = "user")
=============================================================================
