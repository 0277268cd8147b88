---------------------------- MODULE KbdInterrupt ----------------------------
(***************************************************************************)
(* keyboard_buffer_pop as the compiler emits it (gcc -m32 -ffreestanding,  *)
(* -O2: head and tail are volatile, so every access to them is a load or a *)
(* store), interrupted between any two instructions by                     *)
(* keyboard_handler_asm.  The registers are state: EAX carries the index,  *)
(* then the next index, then the answer to the caller.                     *)
(*                                                                         *)
(* The wrapper saves all registers with pusha and restores them with popa, *)
(* and then loads AL with the EOI command, 0x20, before iret.              *)
(***************************************************************************)
EXTENDS Integers

CONSTANTS KBD_BUF_SIZE, Chars

VARIABLES head, tail, kbd_buffer, eip, eax, ecx, edx

vars == <<head, tail, kbd_buffer, eip, eax, ecx, edx>>

B == INSTANCE KbdBuffer WITH pc <- eip, seen <- edx, c <- ecx, typed <- 0

EOI == 32

\* mov al, EOI: the low byte of the interrupted EAX.
clobber_al(r) == (r \div 256) * 256 + EOI

Init ==
    /\ head = 0
    /\ tail = 0
    /\ kbd_buffer = [i \in B!Slots |-> 0]
    /\ eip = "call"
    /\ eax = 0
    /\ ecx = 0
    /\ edx = 0

\* One interrupt, its handler having a character to push.
keyboard_handler_asm(ch) ==
    /\ B!keyboard_buffer_push(ch)
    /\ eax' = clobber_al(eax)
    /\ UNCHANGED <<tail, eip, ecx, edx>>

\* One instruction of the pop: from one place to the next, writing registers.
Insn(at, to, a, cc, d) ==
    /\ eip = at
    /\ eip' = to
    /\ eax' = a
    /\ ecx' = cc
    /\ edx' = d
    /\ UNCHANGED <<head, kbd_buffer>>

keyboard_buffer_pop ==
    \/ Insn("call", "load", eax, ecx, head) /\ UNCHANGED tail
    \/ Insn("load", "test", tail, 0, edx) /\ UNCHANGED tail
    \/ Insn("test", IF edx = eax THEN "answer" ELSE "index", eax, ecx, edx) /\ UNCHANGED tail
    \/ Insn("index", "read", tail, ecx, edx) /\ UNCHANGED tail
    \/ Insn("read", "again", eax, kbd_buffer[eax], edx) /\ UNCHANGED tail
    \/ Insn("again", "next", tail, ecx, edx) /\ UNCHANGED tail
    \/ Insn("next", "store", B!after(eax), ecx, edx) /\ UNCHANGED tail
    \/ Insn("store", "answer", eax, ecx, edx) /\ tail' = eax
    \/ Insn("answer", "ret", ecx, ecx, edx) /\ UNCHANGED tail
    \/ Insn("ret", "call", eax, ecx, edx) /\ UNCHANGED tail

Next == keyboard_buffer_pop \/ \E ch \in Chars : keyboard_handler_asm(ch)

Spec == Init /\ [][Next]_vars
-----------------------------------------------------------------------------
\* keyboard_handler_asm saves the general registers on entry and restores them
\* before iret (boot.s: "1. 压栈保存通用寄存器", "6. 恢复通用寄存器"), so that the code
\* it interrupts does not notice: keyboard_buffer_pop answers 0 or a character
\* that was typed.
PopUndisturbed == eip = "ret" => eax \in Chars \cup {0}
=============================================================================
