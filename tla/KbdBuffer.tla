----------------------------- MODULE KbdBuffer -----------------------------
(***************************************************************************)
(* The ring buffer of arch/keyboard.c.  keyboard_buffer_push runs in the   *)
(* keyboard interrupt, whose gate keeps interrupts off: it is one step.    *)
(* keyboard_buffer_pop runs with interrupts on (shell_loop) and is cut     *)
(* where an interrupt can come between two accesses to memory.  Its local  *)
(* values survive the interrupt here, as they do in C; KbdInterrupt models *)
(* what the assembly wrapper does to the registers that hold them.         *)
(***************************************************************************)
EXTENDS Integers, Sequences

CONSTANTS KBD_BUF_SIZE, Chars

\* Characters are not 0, the answer of an empty buffer: keyboard_handler pushes
\* no 0.
ASSUME BufAssumption ==
    /\ KBD_BUF_SIZE \in Nat /\ KBD_BUF_SIZE >= 2
    /\ 0 \notin Chars

VARIABLES
    head, tail, kbd_buffer,
    pc,        \* where keyboard_buffer_pop is
    seen,      \* the value of head that it compares with tail
    c,         \* its local c, and then its result
    typed      \* history: the last character pushed, and the parity of the pushes

vars == <<head, tail, kbd_buffer, pc, seen, c, typed>>

Slots == 0 .. KBD_BUF_SIZE - 1

after(i) == (i + 1) % KBD_BUF_SIZE

Init ==
    /\ head = 0
    /\ tail = 0
    /\ kbd_buffer = [i \in Slots |-> 0]
    /\ pc = "idle"
    /\ seen = 0
    /\ c = 0
    /\ typed = <<0, 0>>

\* A push that drops its character with one slot still free.
push_early(ch) ==
    IF after(head) # tail /\ after(after(head)) # tail
    THEN /\ kbd_buffer' = [kbd_buffer EXCEPT ![head] = ch]
         /\ head' = after(head)
    ELSE UNCHANGED <<kbd_buffer, head>>

keyboard_buffer_push(ch) ==
    IF after(head) # tail
    THEN /\ kbd_buffer' = [kbd_buffer EXCEPT ![head] = ch]
         /\ head' = after(head)
    ELSE UNCHANGED <<kbd_buffer, head>>

Interrupt(ch) ==
    /\ keyboard_buffer_push(ch)
    /\ typed' = <<ch, 1 - typed[2]>>
    /\ UNCHANGED <<tail, pc, seen, c>>

PopLoad ==
    /\ pc = "idle"
    /\ seen' = head
    /\ pc' = "test"
    /\ UNCHANGED <<head, tail, kbd_buffer, c, typed>>

PopTest ==
    /\ pc = "test"
    /\ IF seen = tail THEN pc' = "return" /\ c' = 0
                      ELSE pc' = "read" /\ UNCHANGED c
    /\ UNCHANGED <<head, tail, kbd_buffer, seen, typed>>

PopRead ==
    /\ pc = "read"
    /\ c' = kbd_buffer[tail]
    /\ pc' = "advance"
    /\ UNCHANGED <<head, tail, kbd_buffer, seen, typed>>

\* An advance that does not wrap.
advance_straight ==
    /\ pc = "advance"
    /\ tail' = tail + 1
    /\ pc' = "return"
    /\ UNCHANGED <<head, kbd_buffer, seen, c, typed>>

PopAdvance ==
    /\ pc = "advance"
    /\ tail' = after(tail)
    /\ pc' = "return"
    /\ UNCHANGED <<head, kbd_buffer, seen, c, typed>>

PopReturn ==
    /\ pc = "return"
    /\ pc' = "idle"
    /\ UNCHANGED <<head, tail, kbd_buffer, seen, c, typed>>

Next ==
    \/ \E ch \in Chars : Interrupt(ch)
    \/ PopLoad \/ PopTest \/ PopRead \/ PopAdvance \/ PopReturn

Spec == Init /\ [][Next]_vars
-----------------------------------------------------------------------------
\* The indices stay inside kbd_buffer, and a pop answers a character or 0.
TypeOK ==
    /\ head \in Slots
    /\ tail \in Slots
    /\ kbd_buffer \in [Slots -> Chars \cup {0}]
    /\ pc \in {"idle", "test", "read", "advance", "return"}
    /\ seen \in Slots
    /\ c \in Chars \cup {0}
    /\ typed \in (Chars \cup {0}) \X {0, 1}

\* How many characters wait, and where the i-th of them is.
Count == IF tail <= head THEN head - tail ELSE head - tail + KBD_BUF_SIZE

Slot(i) == IF tail + i - 1 < KBD_BUF_SIZE THEN tail + i - 1
                                          ELSE tail + i - 1 - KBD_BUF_SIZE

\* Inductive: what waits was typed; a pop past its test finds its slot occupied
\* and, having read it, still holding what it read, whatever interrupts came.
BufInv ==
    /\ TypeOK
    /\ \A i \in 1 .. Count : kbd_buffer[Slot(i)] \in Chars
    /\ pc = "test" /\ seen # tail => head # tail
    /\ pc \in {"read", "advance"} => head # tail
    /\ pc = "advance" => c = kbd_buffer[tail]

\* The characters waiting, in order.
Contents == [i \in 1 .. Count |-> kbd_buffer[Slot(i)]]

\* A pop has decided on 0 as soon as it has loaded a head equal to tail, even if
\* a character arrives before it compares them.
Answer == IF pc = "return" THEN <<c>>
          ELSE IF pc = "test" /\ seen = tail THEN <<0>>
          ELSE << >>

Fifo == INSTANCE KbdFifo WITH queue <- Contents, result <- Answer,
                              Capacity <- KBD_BUF_SIZE - 1, Nothing <- 0

\* The buffer is a bounded queue to the interrupt and the reader, wherever in
\* keyboard_buffer_pop the interrupts come: a character typed is kept unless all
\* slots but one are occupied, none is read twice or out of order.
FifoSpec == Fifo!Spec
=============================================================================
