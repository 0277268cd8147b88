-------------------------- MODULE KbdBufferProofs --------------------------
(***************************************************************************)
(* KbdBuffer implements KbdFifo for every buffer size and character set.   *)
(***************************************************************************)
EXTENDS KbdBuffer, SequenceTheorems, TLAPS

\* The index after i, without the remainder of keyboard_buffer_push and _pop.
LEMMA After == \A i \in Slots : after(i) = (IF i + 1 = KBD_BUF_SIZE THEN 0 ELSE i + 1)
BY BufAssumption DEF after, Slots

\* Where the waiting characters lie.
LEMMA SlotFacts ==
  ASSUME head \in Slots, tail \in Slots
  PROVE  /\ Count \in Nat /\ Count < KBD_BUF_SIZE
         /\ Count = 0 <=> head = tail
         /\ \A i \in 1 .. Count : Slot(i) \in Slots /\ Slot(i) # head
         /\ Count > 0 => Slot(1) = tail
         /\ Count < KBD_BUF_SIZE - 1 <=> after(head) # tail
BY BufAssumption, After DEF Slots, Count, Slot

\* A push that finds room adds a slot at the end and leaves the others alone.
LEMMA PushFacts ==
  ASSUME BufInv, NEW ch \in Chars, keyboard_buffer_push(ch), after(head) # tail,
         tail' = tail
  PROVE  /\ Count' = Count + 1
         /\ \A i \in 1 .. Count : Slot(i)' = Slot(i) /\ kbd_buffer'[Slot(i)] = kbd_buffer[Slot(i)]
         /\ Slot(Count)' = head /\ kbd_buffer'[head] = ch
         /\ head' # tail' /\ head # tail => kbd_buffer'[tail] = kbd_buffer[tail]
         /\ head' \in Slots /\ kbd_buffer' \in [Slots -> Chars \cup {0}]
<1>1. head \in Slots /\ tail \in Slots /\ kbd_buffer \in [Slots -> Chars \cup {0}]
  BY DEF BufInv, TypeOK
<1>2. head' = after(head) /\ kbd_buffer' = [kbd_buffer EXCEPT ![head] = ch]
  BY DEF keyboard_buffer_push
<1>0. KBD_BUF_SIZE \in Nat /\ head' = IF head + 1 = KBD_BUF_SIZE THEN 0 ELSE head + 1
  BY <1>1, <1>2, After, BufAssumption
<1>3. Count' = Count + 1 /\ Slot(Count)' = head
  BY <1>0, <1>1, <1>2 DEF Slots, Count, Slot
<1>4. \A i \in 1 .. Count : Slot(i)' = Slot(i) /\ Slot(i) # head /\ Slot(i) \in Slots
  BY <1>1, SlotFacts DEF Slot
<1>5. \A i \in 1 .. Count : kbd_buffer'[Slot(i)] = kbd_buffer[Slot(i)]
  BY <1>1, <1>2, <1>4
<1>6. head' \in Slots
  BY <1>1, <1>2, After, BufAssumption DEF Slots
<1> QED BY <1>1, <1>2, <1>3, <1>4, <1>5, <1>6

\* Advancing tail drops the first slot.
LEMMA AdvanceFacts ==
  ASSUME BufInv, head # tail, tail' = after(tail), head' = head, kbd_buffer' = kbd_buffer
  PROVE  /\ tail' \in Slots
         /\ Count \in Nat /\ Count > 0 /\ Count' = Count - 1
         /\ \A i \in 1 .. Count - 1 : Slot(i)' = Slot(i + 1)
<1>1. head \in Slots /\ tail \in Slots
  BY DEF BufInv, TypeOK
<1>2. KBD_BUF_SIZE \in Nat /\ tail' = IF tail + 1 = KBD_BUF_SIZE THEN 0 ELSE tail + 1
  BY <1>1, After, BufAssumption
<1>3. tail' \in Slots /\ Count \in Nat /\ Count > 0 /\ Count' = Count - 1
  BY <1>1, <1>2 DEF Slots, Count
<1>4. ASSUME NEW i \in 1 .. Count - 1 PROVE Slot(i)' = Slot(i + 1)
  <2>1. i \in Nat /\ i < KBD_BUF_SIZE
    BY <1>1, <1>2 DEF Count, Slots
  <2> QED BY <1>1, <1>2, <2>1 DEF Slot, Slots
<1> QED BY <1>3, <1>4

\* BufInv holds in every state of the ring buffer: a character that a pop has
\* read stays in its slot until the pop advances tail.
THEOREM BufferCorrect == Spec => []BufInv
<1>1. Init => BufInv
  BY BufAssumption DEF Init, BufInv, TypeOK, Slots, Count
<1>2. BufInv /\ [Next]_vars => BufInv'
  <2> SUFFICES ASSUME BufInv, [Next]_vars PROVE BufInv'
    OBVIOUS
  <2> USE DEF BufInv
  <2>1. ASSUME NEW ch \in Chars, Interrupt(ch) PROVE BufInv'
    <3>0. /\ keyboard_buffer_push(ch) /\ tail' = tail /\ pc' = pc /\ seen' = seen /\ c' = c
          /\ typed' \in (Chars \cup {0}) \X {0, 1}
      BY <2>1 DEF Interrupt, TypeOK
    <3>1. CASE after(head) # tail
      <4>1. /\ Count' = Count + 1
            /\ \A i \in 1 .. Count : Slot(i)' = Slot(i) /\ kbd_buffer'[Slot(i)] = kbd_buffer[Slot(i)]
            /\ Slot(Count)' = head /\ kbd_buffer'[head] = ch
            /\ head' # tail' /\ head # tail => kbd_buffer'[tail] = kbd_buffer[tail]
            /\ head' \in Slots /\ kbd_buffer' \in [Slots -> Chars \cup {0}]
        BY <3>0, <3>1, PushFacts
      <4>2. head' # tail'
        BY <3>0, <3>1 DEF keyboard_buffer_push
      <4>3. Count \in Nat
        BY SlotFacts DEF TypeOK
      <4>4. TypeOK'
        BY <3>0, <4>1 DEF TypeOK
      <4>5. ASSUME NEW i \in 1 .. Count' PROVE kbd_buffer'[Slot(i)'] \in Chars
        <5>1. i \in 1 .. Count \/ i = Count + 1
          BY <4>1, <4>3
        <5>2. CASE i \in 1 .. Count
          BY <5>2, <4>1
        <5>3. CASE i = Count + 1
          <6>1. Slot(i)' = head
            BY <5>3, <4>1, <4>3
          <6> QED BY <6>1, <4>1
        <5> QED BY <5>1, <5>2, <5>3
      <4> QED BY <3>0, <4>1, <4>2, <4>4, <4>5
    <3>2. CASE ~(after(head) # tail)
      BY <3>0, <3>2 DEF keyboard_buffer_push, TypeOK, Count, Slot
    <3> QED BY <3>1, <3>2
  <2>2. CASE PopLoad
    BY <2>2 DEF PopLoad, TypeOK, Count, Slot
  <2>3. CASE PopTest
    BY <2>3 DEF PopTest, TypeOK, Count, Slot
  <2>4. CASE PopRead
    BY <2>4 DEF PopRead, TypeOK, Count, Slot
  <2>5. CASE PopAdvance
    <3>1. /\ tail' \in Slots
          /\ Count \in Nat /\ Count > 0 /\ Count' = Count - 1
          /\ \A i \in 1 .. Count - 1 : Slot(i)' = Slot(i + 1)
      BY <2>5, AdvanceFacts DEF PopAdvance
    <3>2. TypeOK'
      BY <2>5, <3>1 DEF PopAdvance, TypeOK
    <3>3. \A i \in 1 .. Count' : kbd_buffer'[Slot(i)'] \in Chars
      BY <2>5, <3>1 DEF PopAdvance
    <3> QED BY <2>5, <3>2, <3>3 DEF PopAdvance
  <2>6. CASE PopReturn
    BY <2>6 DEF PopReturn, TypeOK, Count, Slot
  <2>7. CASE UNCHANGED vars
    BY <2>7 DEF vars, TypeOK, Count, Slot
  <2> QED BY <2>1, <2>2, <2>3, <2>4, <2>5, <2>6, <2>7 DEF Next
<1> QED BY <1>1, <1>2, PTL DEF Spec

\* A function on 1 .. n is a sequence of that length.
LEMMA AsSeq ==
  ASSUME NEW S, NEW n \in Nat, NEW s \in [1 .. n -> S]
  PROVE  s \in Seq(S) /\ Len(s) = n
OBVIOUS

\* The waiting characters as a sequence.
InOrder ==
    /\ Contents \in Seq(Chars) /\ Len(Contents) = Count /\ Count \in Nat
    /\ \A i \in 1 .. Count : Contents[i] = kbd_buffer[Slot(i)]

\* The characters waiting are a sequence of Count characters in the order of their
\* slots.
LEMMA ContentsSeq == BufInv => InOrder
<1> SUFFICES ASSUME BufInv PROVE InOrder
  OBVIOUS
<1>1. Count \in Nat
  BY SlotFacts DEF BufInv, TypeOK
<1>2. Contents \in [1 .. Count -> Chars]
  BY DEF Contents, BufInv
<1> QED BY <1>1, <1>2, AsSeq DEF Contents, InOrder

\* The same in the next state.
LEMMA ContentsSeqNext == BufInv' => InOrder'
BY ContentsSeq, PTL

\* What Append makes of a sequence of characters.
LEMMA Appended ==
  ASSUME NEW s \in Seq(Chars), NEW ch \in Chars
  PROVE  /\ Append(s, ch) \in Seq(Chars) /\ Len(Append(s, ch)) = Len(s) + 1
         /\ \A i \in 1 .. Len(s) : Append(s, ch)[i] = s[i]
         /\ Append(s, ch)[Len(s) + 1] = ch
OBVIOUS

\* A push with room appends; an advance of tail takes the first character off.
LEMMA PushAppends ==
  ASSUME BufInv, BufInv', NEW ch \in Chars, keyboard_buffer_push(ch),
         after(head) # tail, tail' = tail
  PROVE  Contents' = Append(Contents, ch) /\ Len(Contents) < KBD_BUF_SIZE - 1
<1>1. /\ Count' = Count + 1
      /\ \A i \in 1 .. Count : Slot(i)' = Slot(i) /\ kbd_buffer'[Slot(i)] = kbd_buffer[Slot(i)]
      /\ Slot(Count)' = head /\ kbd_buffer'[head] = ch
  BY PushFacts
<1>2. /\ Contents \in Seq(Chars) /\ Len(Contents) = Count /\ Count \in Nat
      /\ \A i \in 1 .. Count : Contents[i] = kbd_buffer[Slot(i)]
  BY ContentsSeq DEF InOrder
<1>3. /\ Contents' \in Seq(Chars) /\ Len(Contents') = Count'
      /\ \A i \in 1 .. Count' : Contents'[i] = kbd_buffer'[Slot(i)']
  BY ContentsSeqNext DEF InOrder
<1>4. PICK a : a = Append(Contents, ch)
  OBVIOUS
<1>4a. /\ a \in Seq(Chars) /\ Len(a) = Len(Contents) + 1
       /\ \A i \in 1 .. Len(Contents) : a[i] = Contents[i]
       /\ a[Len(Contents) + 1] = ch
  BY <1>2, <1>4, Appended
<1>4b. /\ a \in Seq(Chars) /\ Len(a) = Count + 1
       /\ \A i \in 1 .. Count : a[i] = Contents[i]
       /\ a[Count + 1] = ch
  BY <1>2, <1>4a
<1>5. Contents'[Count + 1] = ch
  BY <1>1, <1>2, <1>3
<1>6. \A i \in 1 .. Count : Contents'[i] = a[i]
  BY <1>1, <1>2, <1>3, <1>4b
<1>7. \A i \in 1 .. Count' : Contents'[i] = a[i]
  BY <1>1, <1>2, <1>4b, <1>5, <1>6
<1>8. Contents' = a
  BY <1>1, <1>3, <1>4b, <1>7, SeqEqual
<1>9. Count < KBD_BUF_SIZE - 1
  BY SlotFacts DEF BufInv, TypeOK
<1> QED BY <1>2, <1>4, <1>8, <1>9

\* Advancing tail takes the first of the characters waiting.
LEMMA AdvanceTakes ==
  ASSUME BufInv, BufInv', head # tail, tail' = after(tail), head' = head,
         kbd_buffer' = kbd_buffer
  PROVE  /\ Contents # << >> /\ Contents' = Tail(Contents)
         /\ Head(Contents) = kbd_buffer[tail]
<1>1. /\ Count \in Nat /\ Count > 0 /\ Count' = Count - 1
      /\ \A i \in 1 .. Count - 1 : Slot(i)' = Slot(i + 1)
  BY AdvanceFacts
<1>2. /\ Contents \in Seq(Chars) /\ Len(Contents) = Count
      /\ \A i \in 1 .. Count : Contents[i] = kbd_buffer[Slot(i)]
  BY ContentsSeq DEF InOrder
<1>3. /\ Contents' \in Seq(Chars) /\ Len(Contents') = Count'
      /\ \A i \in 1 .. Count' : Contents'[i] = kbd_buffer[Slot(i)']
  BY ContentsSeqNext DEF InOrder
<1>4. Contents # << >>
  BY <1>1, <1>2
<1>5. /\ Tail(Contents) \in Seq(Chars) /\ Len(Tail(Contents)) = Count - 1
      /\ \A i \in 1 .. Count - 1 : Tail(Contents)[i] = Contents[i + 1]
  BY <1>1, <1>2, <1>4, HeadTailProperties
<1>6. \A i \in 1 .. Count - 1 : Contents'[i] = Tail(Contents)[i]
  BY <1>1, <1>2, <1>3, <1>5
<1>7. Contents' = Tail(Contents)
  BY <1>1, <1>3, <1>5, <1>6, SeqEqual
<1>8. Head(Contents) = Contents[1] /\ Slot(1) = tail
  BY <1>1, <1>2, SlotFacts DEF BufInv, TypeOK
<1> QED BY <1>1, <1>2, <1>4, <1>7, <1>8

\* An answer is not the absence of one.
LEMMA OneIsNotEmpty == \A x : <<x>> # << >>
OBVIOUS

\* The ring buffer, shared between the keyboard interrupt and the reader without
\* a lock, is a bounded queue for any buffer size: keyboard_buffer_push keeps the
\* character unless KBD_BUF_SIZE - 1 of them wait, and keyboard_buffer_pop returns
\* the oldest one or, if it saw none, 0.
THEOREM BufferImplementsFifo == Spec => FifoSpec
<1>1. Init => Fifo!Init
  <2> SUFFICES ASSUME Init PROVE Contents = << >> /\ Answer = << >>
    BY DEF Init, Fifo!Init
  <2>1. Count = 0
    BY DEF Init, Count
  <2> QED BY <2>1 DEF Init, Contents, Answer
<1>2. BufInv /\ BufInv' /\ [Next]_vars => [Fifo!Next]_(Fifo!vars)
  <2> SUFFICES ASSUME BufInv, BufInv', [Next]_vars
               PROVE  \/ Fifo!Next
                      \/ typed' = typed /\ Contents' = Contents /\ Answer' = Answer
    BY DEF Fifo!vars
  <2>1. ASSUME NEW ch \in Chars, Interrupt(ch)
        PROVE  Fifo!Next
    <3>1. /\ keyboard_buffer_push(ch) /\ tail' = tail /\ Answer' = Answer
          /\ typed' = <<ch, 1 - typed[2]>>
      BY <2>1 DEF Interrupt, Answer
    <3>2. CASE after(head) # tail
      <4>1. Fifo!Arrive(ch)
        BY <3>1, <3>2, PushAppends DEF Fifo!Arrive
      <4> QED BY <4>1 DEF Fifo!Next
    <3>3. CASE ~(after(head) # tail)
      <4>1. Contents' = Contents
        BY <3>1, <3>3 DEF keyboard_buffer_push, Contents, Count, Slot
      <4>2. Count = KBD_BUF_SIZE - 1
        BY <3>3, SlotFacts, BufAssumption DEF BufInv, TypeOK
      <4>3. Len(Contents) = KBD_BUF_SIZE - 1
        BY <4>2, ContentsSeq DEF InOrder
      <4>4. Fifo!Refuse(ch)
        BY <3>1, <4>1, <4>3 DEF Fifo!Refuse
      <4> QED BY <4>4 DEF Fifo!Next
    <3> QED BY <3>2, <3>3
  <2>2. CASE PopLoad
    <3>0. Contents' = Contents /\ typed' = typed
      BY <2>2 DEF PopLoad, Contents, Count, Slot
    <3>1. CASE head = tail
      <4>1. Contents = << >>
        BY <3>1, ContentsSeq, SlotFacts DEF BufInv, TypeOK, InOrder
      <4>2. Answer = << >> /\ Answer' = <<0>>
        BY <2>2, <3>1 DEF PopLoad, Answer
      <4>3. Fifo!TakeNothing
        BY <3>0, <4>1, <4>2 DEF Fifo!TakeNothing
      <4> QED BY <4>3 DEF Fifo!Next
    <3>2. CASE head # tail
      BY <2>2, <3>0, <3>2 DEF PopLoad, Answer
    <3> QED BY <3>1, <3>2
  <2>3. CASE PopTest
    <3>1. Contents' = Contents /\ typed' = typed
      BY <2>3 DEF PopTest, Contents, Count, Slot
    <3>2. Answer' = Answer
      BY <2>3 DEF PopTest, Answer
    <3> QED BY <3>1, <3>2
  <2>4. CASE PopRead
    BY <2>4 DEF PopRead, Contents, Count, Slot, Answer
  <2>5. CASE PopAdvance
    <3>1. /\ Contents # << >> /\ Contents' = Tail(Contents)
          /\ Head(Contents) = kbd_buffer[tail]
      BY <2>5, AdvanceTakes DEF PopAdvance, BufInv
    <3>2. Answer = << >> /\ Answer' = <<Head(Contents)>>
      BY <2>5, <3>1 DEF PopAdvance, Answer, BufInv
    <3>3. Fifo!Take
      BY <2>5, <3>1, <3>2 DEF Fifo!Take, PopAdvance
    <3> QED BY <3>3 DEF Fifo!Next
  <2>6. CASE PopReturn
    <3>1. Answer # << >> /\ Answer' = << >> /\ Contents' = Contents
      BY <2>6, OneIsNotEmpty DEF PopReturn, Answer, Contents, Count, Slot
    <3>2. Fifo!Return
      BY <2>6, <3>1 DEF Fifo!Return, PopReturn
    <3> QED BY <3>2 DEF Fifo!Next
  <2>7. CASE UNCHANGED vars
    BY <2>7 DEF vars, Contents, Count, Slot, Answer
  <2> QED BY <2>1, <2>2, <2>3, <2>4, <2>5, <2>6, <2>7 DEF Next
<1> QED BY <1>1, <1>2, BufferCorrect, PTL DEF Spec, FifoSpec, Fifo!Spec
=============================================================================
