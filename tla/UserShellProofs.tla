-------------------------- MODULE UserShellProofs --------------------------
(***************************************************************************)
(* Proofs about user/shell.c, for every size of its arrays and of its      *)
(* history and every set of words.                                         *)
(*                                                                         *)
(* read_line stays inside its array and its history, and implements the    *)
(* reader of command lines.  The functions by which ArgEnd, tokenize and   *)
(* expand_vars are defined exist, as each round looks only at what is      *)
(* behind it; from that, no line changes the environment, and a line with  *)
(* plain variables makes the shell run the first word of what it stands    *)
(* for.                                                                    *)
(***************************************************************************)
EXTENDS UserShell, FiniteSetTheorems, TLAPS

Lists == INSTANCE SequenceFacts WITH op <- Append

\* Inductive: the symbols up to len are what was typed or recalled, never the
\* terminator and never what an earlier line left in the array.
LineInv ==
    /\ line \in [Index -> Symbols \cup {NUL, JUNK}]
    /\ len \in 0 .. LINE_MAX - 1
    /\ pos \in 0 .. len
    /\ \A i \in 0 .. len - 1 : line[i] \in Symbols

\* The history holds lines that fit in the array, never an empty one.
HistInv ==
    /\ history \in Seq(Seq(Symbols))
    /\ Len(history) <= HISTORY_SIZE
    /\ hist_idx \in 0 .. Len(history)
    /\ \A i \in 1 .. Len(history) : Len(history[i]) \in 1 .. LINE_MAX - 1

\* What run_command leaves behind, and what the terminal can send.
RestInv ==
    /\ alphabet \subseteq Symbols
    /\ last_exit_status \in {0, 1, 127}
    /\ state \in {"runs", "exited", "wild"}

\* The inductive invariant.
ReadInv == LineInv /\ HistInv /\ RestInv

\* The sizes of shell.c.
LEMMA Constants ==
  LINE_MAX \in Nat \ {0} /\ HISTORY_SIZE \in Nat \ {0}
BY UserShellAssumption

\* The first n cells of an array are a text.
LEMMA PieceIs ==
  ASSUME NEW T, NEW buf, NEW n \in Nat, \A i \in 0 .. n - 1 : buf[i] \in T
  PROVE  /\ Piece(buf, 0, n) \in Seq(T)
         /\ Len(Piece(buf, 0, n)) = n
         /\ \A k \in 1 .. n : Piece(buf, 0, n)[k] = buf[k - 1]
<1>1. Piece(buf, 0, n) = [k \in 1 .. n |-> buf[k - 1]]
  <2>1. n - 0 = n /\ \A k \in 1 .. n : 0 + k - 1 = k - 1
    OBVIOUS
  <2> QED BY <2>1 DEF Piece
<1>2. ASSUME NEW k \in 1 .. n PROVE buf[k - 1] \in T
  BY <1>2
<1> QED BY <1>1, <1>2

\* Its symbols are those of the cells.
LEMMA PieceAt ==
  ASSUME NEW buf, NEW n \in Nat, NEW k \in 1 .. n
  PROVE  Piece(buf, 0, n)[k] = buf[k - 1]
<1>1. n - 0 = n /\ 0 + k - 1 = k - 1
  OBVIOUS
<1> QED BY <1>1 DEF Piece

\* The line that Enter takes.
LEMMA TextIs ==
  ASSUME LineInv
  PROVE  /\ Text \in Seq(Symbols)
         /\ Len(Text) = len
         /\ \A k \in 1 .. len : Text[k] = line[k - 1]
<1>1. len \in Nat /\ \A i \in 0 .. len - 1 : line[i] \in Symbols
  BY DEF LineInv
<1>2. Piece(line, 0, len) \in Seq(Symbols)
  BY <1>1, PieceIs
<1>3. Len(Piece(line, 0, len)) = len
  BY <1>1, PieceIs
<1>4. \A k \in 1 .. len : Piece(line, 0, len)[k] = line[k - 1]
  <2> SUFFICES ASSUME NEW k \in 1 .. len PROVE Piece(line, 0, len)[k] = line[k - 1]
    OBVIOUS
  <2> QED BY <1>1, PieceAt
<1> QED BY <1>2, <1>3, <1>4 DEF Text

\* An empty line.
LEMMA NoText ==
  ASSUME NEW buf
  PROVE  Piece(buf, 0, 0) = << >>
<1>1. \A i \in 0 .. 0 - 1 : buf[i] \in {}
  OBVIOUS
<1>2. Piece(buf, 0, 0) \in Seq({}) /\ Len(Piece(buf, 0, 0)) = 0
  BY <1>1, PieceIs
<1> QED BY <1>2

\* history_add moves the oldest line out of a full history.
LEMMA TailAppend ==
  ASSUME NEW T, NEW h \in Seq(T), h # << >>, NEW t \in T
  PROVE  Tail(Append(h, t)) = Append(Tail(h), t)
<1> DEFINE a == Append(h, t)
           b == Append(Tail(h), t)
<1>1. Len(h) \in Nat \ {0}
  OBVIOUS
<1>2. a \in Seq(T) /\ Len(a) = Len(h) + 1 /\ a # << >>
  OBVIOUS
<1>3. Tail(h) \in Seq(T) /\ Len(Tail(h)) = Len(h) - 1
      /\ \A k \in 1 .. Len(h) - 1 : Tail(h)[k] = h[k + 1]
  BY <1>1
<1>4. /\ b \in Seq(T) /\ Len(b) = Len(h)
      /\ \A k \in 1 .. Len(h) - 1 : b[k] = Tail(h)[k]
      /\ b[Len(h)] = t
  BY <1>1, <1>3
<1>5. \A k \in 1 .. Len(h) : a[k] = h[k]
  OBVIOUS
<1>6. a[Len(h) + 1] = t
  OBVIOUS
<1> HIDE DEF a
<1> DEFINE c == Tail(a)
           n == Len(h)
<1>7. c \in Seq(T) /\ Len(c) = n /\ \A k \in 1 .. n : c[k] = a[k + 1]
  BY <1>1, <1>2
<1> HIDE DEF b, c
<1>8. \A k \in 1 .. n : c[k] = b[k]
  <2>1. c[n] = b[n]
    <3>1. n \in 1 .. n
      BY <1>1
    <3>2. c[n] = a[n + 1]
      BY <1>7, <3>1
    <3>3. a[n + 1] = t
      BY <1>6
    <3>4. b[n] = t
      BY <1>4
    <3> QED BY <3>2, <3>3, <3>4
  <2>2. ASSUME NEW k \in 1 .. n - 1 PROVE c[k] = b[k]
    <3>1. k + 1 \in 1 .. n /\ k \in 1 .. n
      BY <1>1
    <3> QED BY <1>3, <1>4, <1>5, <1>7, <3>1
  <2>3. \A k \in 1 .. n : k = n \/ k \in 1 .. n - 1
    BY <1>1
  <2> QED BY <2>1, <2>2, <2>3
<1>9. c = b
  BY <1>4, <1>7, <1>8, Lists!SameString
<1> QED BY <1>9 DEF a, b, c

\* What history_add makes of the history: as it was, or with the line at its end and
\* without its oldest one if it was full.
LEMMA AddedIs ==
  ASSUME HistInv, NEW t \in Seq(Symbols), Len(t) <= LINE_MAX - 1
  PROVE  /\ history_add(t) \in Seq(Seq(Symbols))
         /\ Len(history_add(t)) <= HISTORY_SIZE
         /\ \A i \in 1 .. Len(history_add(t)) : Len(history_add(t)[i]) \in 1 .. LINE_MAX - 1
<1>0. HISTORY_SIZE \in Nat \ {0} /\ LINE_MAX \in Nat \ {0}
  BY Constants
<1>1. CASE t = << >> \/ (history # << >> /\ Last(history) = t)
  BY <1>1 DEF history_add, HistInv
<1>2. CASE ~(t = << >> \/ (history # << >> /\ Last(history) = t))
  <2> DEFINE h == IF Len(history) < HISTORY_SIZE THEN history ELSE Tail(history)
  <2>0. Len(t) \in 1 .. LINE_MAX - 1
    BY <1>0, <1>2
  <2>1. history_add(t) = Append(h, t)
    BY <1>2 DEF history_add
  <2>2. /\ h \in Seq(Seq(Symbols)) /\ Len(h) < HISTORY_SIZE
        /\ \A i \in 1 .. Len(h) : Len(h[i]) \in 1 .. LINE_MAX - 1
    <3>1. CASE Len(history) < HISTORY_SIZE
      BY <3>1 DEF HistInv
    <3>2. CASE ~(Len(history) < HISTORY_SIZE)
      <4>1. history \in Seq(Seq(Symbols)) /\ Len(history) \in Nat \ {0} /\ Len(history) = HISTORY_SIZE
        BY <1>0, <3>2 DEF HistInv
      <4>2. /\ Tail(history) \in Seq(Seq(Symbols)) /\ Len(Tail(history)) = Len(history) - 1
            /\ \A i \in 1 .. Len(history) - 1 : Tail(history)[i] = history[i + 1]
        BY <4>1
      <4> QED BY <1>0, <3>2, <4>1, <4>2 DEF HistInv
    <3> QED BY <3>1, <3>2
  <2> HIDE DEF h
  <2>3. /\ Append(h, t) \in Seq(Seq(Symbols)) /\ Len(Append(h, t)) = Len(h) + 1
        /\ \A i \in 1 .. Len(h) : Append(h, t)[i] = h[i]
        /\ Append(h, t)[Len(h) + 1] = t
    BY <2>2
  <2>4. ASSUME NEW i \in 1 .. Len(h) + 1 PROVE Len(Append(h, t)[i]) \in 1 .. LINE_MAX - 1
    <3>1. CASE i \in 1 .. Len(h)
      BY <2>2, <2>3, <3>1
    <3>2. CASE i = Len(h) + 1
      BY <2>0, <2>3, <3>2
    <3> QED BY <2>2, <3>1, <3>2
  <2> QED BY <1>0, <2>1, <2>2, <2>3, <2>4
<1> QED BY <1>1, <1>2

\* A symbol is put at the cursor, and what is right of it moves one cell.
LEMMA InsertKeeps ==
  ASSUME LineInv, NEW c \in Symbols, Insert(c)
  PROVE  LineInv'
<1>1. /\ LINE_MAX \in Nat \ {0} /\ len \in Nat /\ pos \in Nat /\ pos <= len /\ len < LINE_MAX - 1
      /\ pos' = pos + 1 /\ len' = len + 1
      /\ line' = [i \in Index |-> IF i = pos THEN c
                                  ELSE IF i \in pos + 1 .. len THEN line[i - 1] ELSE line[i]]
  BY Constants DEF LineInv, Insert
<1>2. ASSUME NEW i \in Index
      PROVE  line'[i] = IF i = pos THEN c
                        ELSE IF i \in pos + 1 .. len THEN line[i - 1] ELSE line[i]
  BY <1>1, <1>2
<1>3. ASSUME NEW i \in Index PROVE line'[i] \in Symbols \cup {NUL, JUNK}
  <2>1. i \in pos + 1 .. len => i - 1 \in Index
    BY <1>1 DEF Index
  <2> QED BY <1>2, <2>1 DEF LineInv
<1>4. line' \in [Index -> Symbols \cup {NUL, JUNK}]
  BY <1>1, <1>3
<1>5. ASSUME NEW i \in 0 .. len' - 1 PROVE line'[i] \in Symbols
  <2>1. i \in Index /\ (i \in 0 .. len - 1 \/ i = len)
    BY <1>1 DEF Index
  <2>2. i \in pos + 1 .. len => i - 1 \in 0 .. len - 1
    BY <1>1, <2>1
  <2>3. i = pos \/ i \in pos + 1 .. len \/ i \in 0 .. len - 1
    BY <1>1, <2>1
  <2> QED BY <1>2, <2>1, <2>2, <2>3 DEF LineInv
<1> QED BY <1>1, <1>4, <1>5 DEF LineInv

\* The symbol before the cursor goes, and what is right of it moves back.
LEMMA EraseKeeps ==
  ASSUME LineInv, Erase
  PROVE  LineInv'
<1>1. /\ LINE_MAX \in Nat \ {0} /\ len \in Nat /\ pos \in Nat \ {0} /\ pos <= len /\ len <= LINE_MAX - 1
      /\ pos' = pos - 1 /\ len' = len - 1
      /\ line' = [i \in Index |-> IF i \in pos - 1 .. len - 2 THEN line[i + 1] ELSE line[i]]
  BY Constants DEF LineInv, Erase
<1>2. ASSUME NEW i \in Index
      PROVE  line'[i] = IF i \in pos - 1 .. len - 2 THEN line[i + 1] ELSE line[i]
  BY <1>1, <1>2
<1>3. ASSUME NEW i \in Index PROVE line'[i] \in Symbols \cup {NUL, JUNK}
  <2>1. i \in pos - 1 .. len - 2 => i + 1 \in Index
    BY <1>1 DEF Index
  <2> QED BY <1>2, <2>1 DEF LineInv
<1>4. line' \in [Index -> Symbols \cup {NUL, JUNK}]
  BY <1>1, <1>3
<1>5. ASSUME NEW i \in 0 .. len' - 1 PROVE line'[i] \in Symbols
  <2>1. i \in Index /\ i \in 0 .. len - 1 /\ i + 1 \in 0 .. len - 1
    BY <1>1 DEF Index
  <2> QED BY <1>2, <2>1 DEF LineInv
<1> QED BY <1>1, <1>4, <1>5 DEF LineInv

\* strcpy of a line of the history, which fits into the array.
LEMMA RecallKeeps ==
  ASSUME LineInv, HistInv, NEW i \in 0 .. Len(history) - 1, Recall(i)
  PROVE  LineInv'
<1> DEFINE s == history[i + 1]
<1>1. i + 1 \in 1 .. Len(history)
  BY DEF HistInv
<1>2. s \in Seq(Symbols) /\ Len(s) \in 1 .. LINE_MAX - 1
  BY <1>1 DEF HistInv
<1>3. line' = strcpy(line, s) /\ len' = Len(s) /\ pos' = Len(s)
  BY DEF Recall
<1>0. LINE_MAX \in Nat \ {0}
  BY Constants
<1> HIDE DEF s
<1>4. ASSUME NEW j \in Index
      PROVE  line'[j] = IF j < Len(s) THEN s[j + 1] ELSE IF j = Len(s) THEN NUL ELSE line[j]
  BY <1>3, <1>4 DEF strcpy
<1>5. ASSUME NEW j \in 0 .. Len(s) - 1 PROVE s[j + 1] \in Symbols /\ j \in Index
  <2>1. j + 1 \in 1 .. Len(s)
    BY <1>2
  <2> QED BY <1>0, <1>2, <2>1 DEF Index
<1>6. ASSUME NEW j \in Index PROVE line'[j] \in Symbols \cup {NUL, JUNK}
  <2>1. j < Len(s) => j \in 0 .. Len(s) - 1
    BY <1>0, <1>2 DEF Index
  <2> QED BY <1>4, <1>5, <2>1 DEF LineInv
<1>7. line' \in [Index -> Symbols \cup {NUL, JUNK}]
  BY <1>3, <1>6 DEF strcpy
<1>8. ASSUME NEW j \in 0 .. Len(s) - 1 PROVE line'[j] \in Symbols
  <2>1. j \in Index /\ s[j + 1] \in Symbols
    BY <1>5
  <2>2. j < Len(s)
    BY <1>2
  <2> QED BY <1>4, <2>1, <2>2
<1> QED BY <1>0, <1>2, <1>3, <1>7, <1>8 DEF LineInv

\* A line is ended or emptied with a terminator.
LEMMA EndKeeps ==
  ASSUME LineInv, NEW k, line' = [line EXCEPT ![k] = NUL], len' = 0, pos' = 0
  PROVE  LineInv'
<1>1. line' \in [Index -> Symbols \cup {NUL, JUNK}]
  <2> DEFINE V == Symbols \cup {NUL, JUNK}
  <2>1. line \in [Index -> V] /\ NUL \in V
    BY DEF LineInv
  <2> HIDE DEF V
  <2>2. [line EXCEPT ![k] = NUL] \in [Index -> V]
    BY <2>1
  <2> QED BY <2>2 DEF V
<1>2. len' \in 0 .. LINE_MAX - 1 /\ pos' \in 0 .. len' /\ 0 .. len' - 1 = {}
  BY Constants
<1> QED BY <1>1, <1>2 DEF LineInv

\* Enter empties the line and records it.
LEMMA EnterKeeps ==
  ASSUME LineInv, HistInv, Enter
  PROVE  LineInv' /\ HistInv'
<1>0. LINE_MAX \in Nat \ {0}
  BY Constants
<1>1. /\ line' = [line EXCEPT ![len] = NUL] /\ len' = 0 /\ pos' = 0
      /\ history' = history_add(Text) /\ hist_idx' = Len(history')
  BY DEF Enter
<1>2. LineInv'
  BY <1>1, EndKeeps
<1>3. Text \in Seq(Symbols) /\ Len(Text) <= LINE_MAX - 1
  <2>1. len <= LINE_MAX - 1
    BY <1>0 DEF LineInv
  <2> QED BY <2>1, TextIs
<1> HIDE DEF Text
<1>4. /\ history' \in Seq(Seq(Symbols)) /\ Len(history') <= HISTORY_SIZE
      /\ \A i \in 1 .. Len(history') : Len(history'[i]) \in 1 .. LINE_MAX - 1
  BY <1>1, <1>3, AddedIs
<1>5. hist_idx' \in 0 .. Len(history')
  BY <1>1, <1>4
<1> QED BY <1>2, <1>4, <1>5 DEF HistInv

\* A command ends with one of three statuses, or makes the shell exit or use memory
\* behind an array.
LEMMA RestKeeps ==
  ASSUME RestInv, Next
  PROVE  RestInv'
<1>1. ASSUME NEW argv PROVE ExitStatus(argv) \in {0, 1, 127}
  BY DEF ExitStatus
<1>2. ASSUME NEW cmdline, NEW text, execute_command(cmdline, text)
      PROVE  last_exit_status' \in {0, 1, 127} /\ state' \in {"runs", "exited", "wild"}
  BY <1>1, <1>2 DEF execute_command, RestInv
<1>3. UNCHANGED alphabet
  BY DEF Next, Enter, Up, Down, Left, Right, Erase, Insert, Key
<1>4. CASE Enter
  <2>1. UNCHANGED shell_vars \/ execute_command(line', Text)
    BY <1>4 DEF Enter
  <2>2. CASE UNCHANGED shell_vars
    BY <1>3, <2>2 DEF shell_vars, RestInv
  <2>3. CASE execute_command(line', Text)
    <3>1. last_exit_status' \in {0, 1, 127} /\ state' \in {"runs", "exited", "wild"}
      BY <1>2, <2>3
    <3> QED BY <1>3, <3>1 DEF RestInv
  <2> QED BY <2>1, <2>2, <2>3
<1>5. CASE UNCHANGED shell_vars
  BY <1>3, <1>5 DEF shell_vars, RestInv
<1> QED BY <1>4, <1>5 DEF Next, Up, Down, Left, Right, Erase, Insert

\* read_line and history_add keep the line and the history as they should be, after
\* any keys and any commands.
THEOREM ReadCorrect == Spec => []ReadInv
<1>1. Init => ReadInv
  <2> SUFFICES ASSUME Init PROVE ReadInv
    OBVIOUS
  <2>1. LINE_MAX \in Nat \ {0} /\ HISTORY_SIZE \in Nat \ {0}
    BY Constants
  <2>2. LineInv
    BY <2>1 DEF Init, LineInv
  <2>3. HistInv
    BY <2>1 DEF Init, HistInv
  <2>4. RestInv
    BY AlphabetAssumption DEF Init, RestInv
  <2> QED BY <2>2, <2>3, <2>4 DEF ReadInv
<1>2. ReadInv /\ [Next]_vars => ReadInv'
  <2> SUFFICES ASSUME LineInv, HistInv, RestInv, [Next]_vars PROVE LineInv' /\ HistInv' /\ RestInv'
    BY DEF ReadInv
  <2>1. CASE Enter
    BY <2>1, EnterKeeps, RestKeeps DEF Next
  <2>2. CASE Up
    <3>1. hist_idx - 1 \in 0 .. Len(history) - 1 /\ Recall(hist_idx - 1) /\ hist_idx' = hist_idx - 1
      BY <2>2 DEF Up, HistInv
    <3>2. LineInv'
      BY <3>1, RecallKeeps
    <3>3. HistInv'
      BY <2>2, <3>1 DEF Up, HistInv
    <3> QED BY <2>2, <3>2, <3>3, RestKeeps DEF Next
  <2>3. CASE Down
    <3>1. /\ hist_idx \in Nat /\ Len(history) \in Nat /\ hist_idx + 1 <= Len(history)
          /\ hist_idx' = hist_idx + 1 /\ history' = history
      BY <2>3 DEF Down, HistInv
    <3>2. HistInv'
      BY <3>1 DEF HistInv
    <3>3. CASE hist_idx' = Len(history)
      <4>1. line' = [line EXCEPT ![0] = NUL] /\ len' = 0 /\ pos' = 0
        BY <2>3, <3>3 DEF Down
      <4>2. LineInv'
        BY <4>1, EndKeeps
      <4> QED BY <2>3, <3>2, <4>2, RestKeeps DEF Next
    <3>4. CASE hist_idx' # Len(history)
      <4>1. hist_idx + 1 \in 0 .. Len(history) - 1 /\ Recall(hist_idx + 1)
        BY <2>3, <3>1, <3>4 DEF Down
      <4>2. LineInv'
        BY <4>1, RecallKeeps
      <4> QED BY <2>3, <3>2, <4>2, RestKeeps DEF Next
    <3> QED BY <3>3, <3>4
  <2>4. CASE Left \/ Right
    <3>1. LineInv'
      BY <2>4, Constants DEF Left, Right, LineInv
    <3>2. HistInv'
      BY <2>4 DEF Left, Right, HistInv
    <3> QED BY <2>4, <3>1, <3>2, RestKeeps DEF Next
  <2>5. CASE Erase
    <3>1. HistInv'
      BY <2>5 DEF Erase, HistInv
    <3> QED BY <2>5, <3>1, EraseKeeps, RestKeeps DEF Next
  <2>6. ASSUME NEW c \in alphabet, Insert(c) PROVE LineInv' /\ HistInv' /\ RestInv'
    <3>1. HistInv'
      BY <2>6 DEF Insert, HistInv
    <3>2. c \in Symbols
      BY DEF RestInv
    <3>3. Next
      BY <2>6 DEF Next
    <3> QED BY <2>6, <3>1, <3>2, <3>3, InsertKeeps, RestKeeps
  <2>7. CASE UNCHANGED vars
    BY <2>7 DEF vars, LineInv, HistInv, RestInv
  <2> QED BY <2>1, <2>2, <2>3, <2>4, <2>5, <2>6, <2>7 DEF Next
<1> QED BY <1>1, <1>2, PTL DEF Spec

\* The terminator that Enter writes is inside the array, and the history in its own.
THEOREM ReadTyped == Spec => []TypeOK
<1>1. ReadInv => TypeOK
  BY DEF ReadInv, LineInv, HistInv, RestInv, TypeOK
<1> QED BY <1>1, ReadCorrect, PTL
-----------------------------------------------------------------------------
\* The shift to the right inserts the symbol in the text.
LEMMA InsertRefines ==
  ASSUME LineInv, NEW c \in Symbols, Insert(c)
  PROVE  Reader!Insert(c)
<1> DEFINE new == line'
           w == Piece(line, 0, len)
           l == Piece(new, 0, len + 1)
<1>1. /\ LINE_MAX \in Nat \ {0} /\ len \in Nat /\ pos \in Nat /\ pos <= len /\ len < LINE_MAX - 1
      /\ \A i \in 0 .. len - 1 : line[i] \in Symbols
  BY Constants DEF LineInv, Insert
<1>2. /\ pos' = pos + 1 /\ len' = len + 1 /\ UNCHANGED <<history, hist_idx>>
      /\ new = [i \in Index |-> IF i = pos THEN c
                                ELSE IF i \in pos + 1 .. len THEN line[i - 1] ELSE line[i]]
  BY DEF Insert
<1>3. LineInv'
  BY InsertKeeps
<1>4. \A i \in 0 .. len : new[i] \in Symbols
  BY <1>1, <1>2, <1>3 DEF LineInv
<1>5. /\ \A i \in 0 .. pos - 1 : new[i] = line[i]
      /\ new[pos] = c
      /\ \A i \in pos + 1 .. len : new[i] = line[i - 1]
  BY <1>1, <1>2 DEF Index
<1> HIDE DEF new
<1>6. w \in Seq(Symbols) /\ Len(w) = len
  BY <1>1, PieceIs
<1>7. l \in Seq(Symbols) /\ Len(l) = len + 1
  <2> DEFINE n == len + 1
  <2>1. n \in Nat /\ \A i \in 0 .. n - 1 : new[i] \in Symbols
    BY <1>1, <1>4
  <2> HIDE DEF n
  <2>2. Piece(new, 0, n) \in Seq(Symbols) /\ Len(Piece(new, 0, n)) = n
    BY <2>1, PieceIs
  <2> QED BY <2>2 DEF n
<1>8. ASSUME NEW k \in 1 .. len + 1 PROVE l[k] = new[k - 1]
  <2> DEFINE n == len + 1
  <2>1. n \in Nat /\ k \in 1 .. n
    BY <1>1
  <2> HIDE DEF n
  <2>2. Piece(new, 0, n)[k] = new[k - 1]
    BY <2>1, PieceAt
  <2> QED BY <2>2 DEF n
<1>9. ASSUME NEW k \in 1 .. len PROVE w[k] = line[k - 1]
  BY <1>1, PieceAt
<1> HIDE DEF w, l
<1>10. ASSUME NEW k \in 1 .. pos PROVE l[k] = w[k]
  <2>1. k - 1 \in 0 .. pos - 1 /\ k \in 1 .. len /\ k \in 1 .. len + 1
    BY <1>1
  <2> QED BY <1>5, <1>8, <1>9, <2>1
<1>11. l[pos + 1] = c
  <2>1. pos + 1 \in 1 .. len + 1 /\ (pos + 1) - 1 = pos
    BY <1>1
  <2>2. l[pos + 1] = new[(pos + 1) - 1]
    BY <1>8, <2>1
  <2> QED BY <1>5, <2>1, <2>2
<1>12. ASSUME NEW k \in pos + 2 .. len + 1 PROVE l[k] = w[k - 1]
  <2>1. k - 1 \in pos + 1 .. len /\ k \in 1 .. len + 1 /\ k - 1 \in 1 .. len
    BY <1>1
  <2>2. l[k] = new[k - 1] /\ new[k - 1] = line[(k - 1) - 1]
    BY <1>5, <1>8, <2>1
  <2>3. w[k - 1] = line[(k - 1) - 1]
    BY <1>9, <2>1
  <2> QED BY <2>2, <2>3
<1>13. l = Reader!InsertAt(w, pos + 1, c)
  <2>1. l = Lists!Insertion(w, pos, c)
    BY <1>1, <1>6, <1>7, <1>10, <1>11, <1>12, Lists!TextInsert, SMTT(30)
  <2>2. (pos + 1) - 1 = pos
    BY <1>1
  <2> QED BY <2>1, <2>2 DEF Reader!InsertAt, Lists!Insertion
<1>14. Text = w /\ Text' = l
  BY <1>2 DEF Text, w, l, new
<1> HIDE DEF Text
<1> QED BY <1>1, <1>2, <1>6, <1>13, <1>14 DEF Reader!Insert

\* The shift to the left removes the symbol before the cursor.
LEMMA EraseRefines ==
  ASSUME LineInv, Erase
  PROVE  Reader!Erase
<1> DEFINE new == line'
           w == Piece(line, 0, len)
           l == Piece(new, 0, len - 1)
<1>1. /\ LINE_MAX \in Nat \ {0} /\ len \in Nat /\ pos \in Nat \ {0} /\ pos <= len /\ len <= LINE_MAX - 1
      /\ \A i \in 0 .. len - 1 : line[i] \in Symbols
  BY Constants DEF LineInv, Erase
<1>2. /\ pos' = pos - 1 /\ len' = len - 1 /\ UNCHANGED <<history, hist_idx>>
      /\ new = [i \in Index |-> IF i \in pos - 1 .. len - 2 THEN line[i + 1] ELSE line[i]]
  BY DEF Erase
<1>3. LineInv'
  BY EraseKeeps
<1>4. \A i \in 0 .. (len - 1) - 1 : new[i] \in Symbols
  BY <1>1, <1>2, <1>3 DEF LineInv
<1>5. /\ \A i \in 0 .. pos - 2 : new[i] = line[i]
      /\ \A i \in pos - 1 .. len - 2 : new[i] = line[i + 1]
  BY <1>1, <1>2 DEF Index
<1> HIDE DEF new
<1>6. w \in Seq(Symbols) /\ Len(w) = len
  BY <1>1, PieceIs
<1>7. l \in Seq(Symbols) /\ Len(l) = len - 1
  <2> DEFINE n == len - 1
  <2>1. n \in Nat /\ \A i \in 0 .. n - 1 : new[i] \in Symbols
    BY <1>1, <1>4
  <2> HIDE DEF n
  <2>2. Piece(new, 0, n) \in Seq(Symbols) /\ Len(Piece(new, 0, n)) = n
    BY <2>1, PieceIs
  <2> QED BY <2>2 DEF n
<1>8. ASSUME NEW k \in 1 .. len - 1 PROVE l[k] = new[k - 1]
  <2> DEFINE n == len - 1
  <2>1. n \in Nat /\ k \in 1 .. n
    BY <1>1
  <2> HIDE DEF n
  <2>2. Piece(new, 0, n)[k] = new[k - 1]
    BY <2>1, PieceAt
  <2> QED BY <2>2 DEF n
<1>9. ASSUME NEW k \in 1 .. len PROVE w[k] = line[k - 1]
  BY <1>1, PieceAt
<1> HIDE DEF w, l
<1>10. ASSUME NEW k \in 1 .. pos - 1 PROVE l[k] = w[k]
  <2>1. k - 1 \in 0 .. pos - 2 /\ k \in 1 .. len - 1 /\ k \in 1 .. len
    BY <1>1
  <2> QED BY <1>5, <1>8, <1>9, <2>1
<1>11. ASSUME NEW k \in pos .. len - 1 PROVE l[k] = w[k + 1]
  <2>1. /\ k - 1 \in pos - 1 .. len - 2 /\ k \in 1 .. len - 1 /\ k + 1 \in 1 .. len
        /\ (k - 1) + 1 = k /\ (k + 1) - 1 = k
    BY <1>1
  <2>2. l[k] = new[k - 1] /\ new[k - 1] = line[(k - 1) + 1]
    BY <1>5, <1>8, <2>1
  <2>3. w[k + 1] = line[(k + 1) - 1]
    BY <1>9, <2>1
  <2> QED BY <2>1, <2>2, <2>3
<1>12. l = Reader!RemoveAt(w, pos)
  <2>1. l = Lists!Removal(w, pos)
    BY <1>1, <1>6, <1>7, <1>10, <1>11, Lists!TextRemove
  <2> QED BY <2>1 DEF Reader!RemoveAt, Lists!Removal
<1>13. Text = w /\ Text' = l
  BY <1>2 DEF Text, w, l, new
<1> HIDE DEF Text
<1> QED BY <1>1, <1>2, <1>12, <1>13 DEF Reader!Erase

\* strcpy brings a line of the history back as it was entered, whatever was in the
\* array before.
LEMMA RecallText ==
  ASSUME LineInv, HistInv, NEW i \in 0 .. Len(history) - 1, Recall(i)
  PROVE  Text' = history[i + 1] /\ pos' = Len(history[i + 1])
<1> DEFINE s == history[i + 1]
           new == line'
           l == Piece(new, 0, Len(s))
<1>1. i + 1 \in 1 .. Len(history)
  BY DEF HistInv
<1>2. s \in Seq(Symbols) /\ Len(s) \in 1 .. LINE_MAX - 1 /\ LINE_MAX \in Nat
  BY <1>1, Constants DEF HistInv
<1>3. new = strcpy(line, s) /\ len' = Len(s) /\ pos' = Len(s)
  BY DEF Recall
<1>4. LineInv'
  BY RecallKeeps
<1>5. \A j \in 0 .. Len(s) - 1 : new[j] \in Symbols
  BY <1>3, <1>4 DEF LineInv
<1>6. Text' = l
  BY <1>3 DEF Text
<1> HIDE DEF s
<1>7. ASSUME NEW j \in 0 .. Len(s) - 1 PROVE new[j] = s[j + 1]
  <2>1. j \in Index /\ j < Len(s)
    BY <1>2 DEF Index
  <2> QED BY <1>3, <2>1 DEF strcpy
<1> HIDE DEF new
<1>8. l \in Seq(Symbols) /\ Len(l) = Len(s)
  <2>1. Len(s) \in Nat
    BY <1>2
  <2> QED BY <1>5, <2>1, PieceIs
<1>9. ASSUME NEW k \in 1 .. Len(s) PROVE l[k] = s[k]
  <2>1. Len(s) \in Nat /\ k - 1 \in 0 .. Len(s) - 1 /\ (k - 1) + 1 = k
    BY <1>2
  <2>2. l[k] = new[k - 1]
    BY <2>1, PieceAt
  <2>3. new[k - 1] = s[(k - 1) + 1]
    BY <1>7, <2>1
  <2> QED BY <2>1, <2>2, <2>3
<1> HIDE DEF l
<1>10. l = s
  BY <1>2, <1>8, <1>9, Lists!SameString
<1> QED BY <1>3, <1>6, <1>10 DEF s

\* Enter records the line as the reader does: an empty one and a repetition are left
\* out, and a full history loses its oldest line.
LEMMA EnterRefines ==
  ASSUME LineInv, HistInv, Enter
  PROVE  Reader!Submit
<1> DEFINE t == Text
           news == t # << >> /\ (history = << >> \/ Last(history) # t)
           all == IF news THEN Append(history, t) ELSE history
<1>1. /\ len' = 0 /\ pos' = 0
      /\ history' = history_add(t) /\ hist_idx' = Len(history')
  BY DEF Enter
<1>2. Text' = << >>
  <2>1. Text' = Piece(line', 0, 0)
    BY <1>1 DEF Text
  <2> QED BY <2>1, NoText
<1>3. t \in Seq(Symbols)
  BY TextIs
<1>4. /\ history \in Seq(Seq(Symbols)) /\ Len(history) <= HISTORY_SIZE
      /\ HISTORY_SIZE \in Nat \ {0} /\ Len(history) \in Nat
  BY Constants DEF HistInv
<1> HIDE DEF t
<1>5. history' = IF Len(all) > HISTORY_SIZE THEN Tail(all) ELSE all
  <2>1. CASE ~news
    <3>1. history' = history
      BY <1>1, <2>1 DEF history_add
    <3> QED BY <1>4, <2>1, <3>1
  <2>2. CASE news
    <3>1. all = Append(history, t) /\ Len(all) = Len(history) + 1
      BY <1>3, <1>4, <2>2
    <3>2. CASE Len(history) < HISTORY_SIZE
      <4>1. history' = Append(history, t)
        BY <1>1, <2>2, <3>2 DEF history_add
      <4>2. ~(Len(all) > HISTORY_SIZE)
        BY <1>4, <3>1, <3>2
      <4> HIDE DEF all
      <4> QED BY <3>1, <4>1, <4>2
    <3>3. CASE ~(Len(history) < HISTORY_SIZE)
      <4>1. history' = Append(Tail(history), t)
        BY <1>1, <2>2, <3>3 DEF history_add
      <4>2. Len(all) > HISTORY_SIZE /\ history # << >>
        BY <1>4, <3>1, <3>3
      <4>3. Tail(Append(history, t)) = Append(Tail(history), t)
        BY <1>3, <1>4, <4>2, TailAppend
      <4> HIDE DEF all
      <4> QED BY <3>1, <4>1, <4>2, <4>3
    <3> QED BY <3>2, <3>3
  <2> QED BY <2>1, <2>2
<1>6. pos' = Len(<< >>)
  BY <1>1
<1>7. Last(history) = Reader!Last(history)
  BY DEF Last, Reader!Last
<1> QED BY <1>1, <1>2, <1>5, <1>6, <1>7 DEF Reader!Submit, Reader!Show, t

\* For every sequence of keys and commands, what read_line shows is what a reader of
\* command lines promises: edits at the cursor, older and newer lines as they were
\* entered, and a record of the last ones.
THEOREM ReadImplementsReader == Spec => ReaderSpec
<1>1. Init => Reader!Init
  <2> SUFFICES ASSUME Init PROVE Reader!Init
    OBVIOUS
  <2>1. len = 0 /\ pos = 0 /\ history = << >> /\ hist_idx = 0
    BY DEF Init
  <2>2. Text = << >>
    BY <2>1, NoText DEF Text
  <2> QED BY <2>1, <2>2 DEF Reader!Init
<1>2. ReadInv /\ [Next]_vars => [Reader!Next]_(Reader!vars)
  <2> SUFFICES ASSUME LineInv, HistInv, RestInv, [Next]_vars
               PROVE  Reader!Next \/ Reader!vars' = Reader!vars
    BY DEF ReadInv
  <2>1. CASE Enter
    BY <2>1, EnterRefines DEF Reader!Next
  <2>2. CASE Up
    <3> DEFINE i == hist_idx - 1
    <3>1. /\ hist_idx \in Nat \ {0} /\ i \in 0 .. Len(history) - 1 /\ Recall(i)
          /\ hist_idx' = i /\ i + 1 = hist_idx /\ history' = history
      BY <2>2 DEF Up, HistInv
    <3>2. Text' = history[hist_idx] /\ pos' = Len(history[hist_idx])
      BY <3>1, RecallText
    <3>3. Reader!Older
      BY <3>1, <3>2 DEF Reader!Older, Reader!Show
    <3> QED BY <3>3 DEF Reader!Next
  <2>3. CASE Down
    <3> DEFINE i == hist_idx + 1
    <3>1. /\ hist_idx \in Nat /\ Len(history) \in Nat /\ hist_idx < Len(history) /\ i \in Nat
          /\ hist_idx' = i /\ history' = history
      BY <2>3 DEF Down, HistInv
    <3>2. CASE i = Len(history)
      <4>1. len' = 0 /\ pos' = 0
        BY <2>3, <3>1, <3>2 DEF Down
      <4>2. Text' = << >> /\ pos' = Len(<< >>)
        BY <4>1, NoText DEF Text
      <4>3. Reader!Newer
        BY <3>1, <3>2, <4>2 DEF Reader!Newer, Reader!Show
      <4> QED BY <4>3 DEF Reader!Next
    <3>3. CASE i # Len(history)
      <4>1. i \in 0 .. Len(history) - 1 /\ Recall(i)
        BY <2>3, <3>1, <3>3 DEF Down
      <4>2. Text' = history[i + 1] /\ pos' = Len(history[i + 1])
        BY <4>1, RecallText
      <4>3. Reader!Newer
        BY <3>1, <3>3, <4>2 DEF Reader!Newer, Reader!Show
      <4> QED BY <4>3 DEF Reader!Next
    <3> QED BY <3>2, <3>3
  <2>4. CASE Left
    <3>1. Reader!Left
      BY <2>4 DEF Left, Text, Reader!Left
    <3> QED BY <3>1 DEF Reader!Next
  <2>5. CASE Right
    <3>1. pos' = len /\ UNCHANGED <<line, len, hist_idx, history>>
      BY <2>5 DEF Right
    <3>2. Text' = Text /\ Len(Text) = len
      BY <3>1, TextIs DEF Text
    <3>3. Reader!End
      BY <3>1, <3>2 DEF Reader!End
    <3> QED BY <3>3 DEF Reader!Next
  <2>6. CASE Erase
    BY <2>6, EraseRefines DEF Reader!Next
  <2>7. ASSUME NEW c \in alphabet, Insert(c) PROVE Reader!Next
    <3>1. c \in Symbols
      BY DEF RestInv
    <3>2. Reader!Insert(c)
      BY <2>7, <3>1, InsertRefines
    <3> QED BY <3>1, <3>2 DEF Reader!Next
  <2>8. CASE UNCHANGED vars
    BY <2>8 DEF vars, Text, Reader!vars
  <2> QED BY <2>1, <2>2, <2>3, <2>4, <2>5, <2>6, <2>7, <2>8 DEF Next
<1> QED BY <1>1, <1>2, ReadCorrect, PTL DEF Spec, ReaderSpec, Reader!Spec
-----------------------------------------------------------------------------
\* A round of the scan for the end of an argument, with what it finds behind.
Spots == [j : Nat, quote : Quotes \cup {NUL}]

Spot(j, quote) == [j |-> j, quote |-> quote]

Scans(scan, input, s) ==
    IF s.j >= Len(input) THEN Len(input)
    ELSE LET c == input[s.j + 1]
         IN  IF s.quote # NUL THEN scan[Spot(s.j + 1, IF c = s.quote THEN NUL ELSE s.quote)]
             ELSE CASE c = Blank    -> s.j
                    [] c \in Quotes -> scan[Spot(s.j + 1, c)]
                    [] c = Escape   -> scan[Spot(s.j + 2, NUL)]
                    [] OTHER        -> scan[Spot(s.j + 1, NUL)]

\* The least element of a set of numbers.
LEMMA LeastOf ==
  ASSUME NEW C \in SUBSET Nat, C # {}
  PROVE  Min(C) \in C /\ \A y \in C : Min(C) <= y
<1>1. PICK x \in C : \A y \in 0 .. x - 1 : y \notin C
  BY Lists!Least
<1>2. ASSUME NEW y \in C PROVE x <= y
  BY <1>1
<1> QED BY <1>2 DEF Min

\* A round only looks at what is behind it.
LEMMA SpotNext ==
  ASSUME NEW s \in Spots, NEW c
  PROVE  /\ Spot(s.j + 1, IF c = s.quote THEN NUL ELSE s.quote) \in Spots
         /\ c \in Quotes => Spot(s.j + 1, c) \in Spots
         /\ Spot(s.j + 2, NUL) \in Spots /\ Spot(s.j + 1, NUL) \in Spots
         /\ \A j, q : Spot(j, q).j = j /\ Spot(j, q).quote = q
<1>1. s.j \in Nat /\ s.quote \in Quotes \cup {NUL}
  BY DEF Spots
<1> DEFINE Q == Quotes \cup {NUL}
           q == IF c = s.quote THEN NUL ELSE s.quote
<1>2. q \in Q /\ NUL \in Q /\ (c \in Quotes => c \in Q)
  BY <1>1
<1> HIDE DEF Q, q
<1>3. \A j \in Nat, p \in Q : Spot(j, p) \in Spots
  BY DEF Spot, Spots, Q
<1>4. s.j + 1 \in Nat /\ s.j + 2 \in Nat
  BY <1>1
<1>5. /\ Spot(s.j + 1, q) \in Spots /\ (c \in Quotes => Spot(s.j + 1, c) \in Spots)
      /\ Spot(s.j + 2, NUL) \in Spots /\ Spot(s.j + 1, NUL) \in Spots
  BY <1>2, <1>3, <1>4
<1>6. \A j, p : Spot(j, p).j = j /\ Spot(j, p).quote = p
  BY DEF Spot
<1> QED BY <1>5, <1>6 DEF q

\* A round of the scan ends it, or is what a round further on finds.
LEMMA ScanForm ==
  ASSUME NEW input, Len(input) \in Nat, NEW s \in Spots
  PROVE  \/ \E v \in 0 .. Len(input) : \A f : Scans(f, input, s) = v
         \/ /\ s.j < Len(input)
            /\ \E u \in Spots : u.j > s.j /\ \A f : Scans(f, input, s) = f[u]
<1> DEFINE c == input[s.j + 1]
           q == IF c = s.quote THEN NUL ELSE s.quote
<1>1. s.j \in Nat
  BY DEF Spots
<1>2. CASE s.j >= Len(input)
  <2>1. \A f : Scans(f, input, s) = Len(input)
    BY <1>2 DEF Scans
  <2> QED BY <2>1
<1>3. CASE ~(s.j >= Len(input)) /\ s.quote # NUL
  <2>1. \A f : Scans(f, input, s) = f[Spot(s.j + 1, q)]
    BY <1>3, Zenon DEF Scans
  <2>2. Spot(s.j + 1, q) \in Spots /\ Spot(s.j + 1, q).j = s.j + 1
    BY SpotNext, Zenon
  <2> HIDE DEF q
  <2> QED BY <1>1, <1>3, <2>1, <2>2
<1>4. CASE ~(s.j >= Len(input)) /\ s.quote = NUL /\ c = Blank
  <2>1. \A f : Scans(f, input, s) = s.j
    BY <1>4 DEF Scans, Blank, Quotes, Escape
  <2>2. s.j \in 0 .. Len(input)
    BY <1>1, <1>4
  <2> QED BY <2>1, <2>2
<1>5. CASE ~(s.j >= Len(input)) /\ s.quote = NUL /\ c # Blank /\ c \in Quotes
  <2>1. \A f : Scans(f, input, s) = f[Spot(s.j + 1, c)]
    BY <1>5 DEF Scans, Blank, Quotes, Escape
  <2>2. Spot(s.j + 1, c) \in Spots /\ Spot(s.j + 1, c).j = s.j + 1
    BY <1>5, SpotNext, Zenon
  <2> HIDE DEF c
  <2> QED BY <1>1, <1>5, <2>1, <2>2
<1>6. CASE ~(s.j >= Len(input)) /\ s.quote = NUL /\ c # Blank /\ c \notin Quotes /\ c = Escape
  <2>1. \A f : Scans(f, input, s) = f[Spot(s.j + 2, NUL)]
    BY <1>6 DEF Scans, Blank, Quotes, Escape
  <2>2. Spot(s.j + 2, NUL) \in Spots /\ Spot(s.j + 2, NUL).j = s.j + 2
    BY SpotNext, Zenon
  <2> QED BY <1>1, <1>6, <2>1, <2>2
<1>7. CASE ~(s.j >= Len(input)) /\ s.quote = NUL /\ c # Blank /\ c \notin Quotes /\ c # Escape
  <2>1. \A f : Scans(f, input, s) = f[Spot(s.j + 1, NUL)]
    BY <1>7 DEF Scans
  <2>2. Spot(s.j + 1, NUL) \in Spots /\ Spot(s.j + 1, NUL).j = s.j + 1
    BY SpotNext, Zenon
  <2> QED BY <1>1, <1>7, <2>1, <2>2
<1> QED BY <1>2, <1>3, <1>4, <1>5, <1>6, <1>7

\* There is a function as the one in ArgEnd.
LEMMA ScanExists ==
  ASSUME NEW input, Len(input) \in Nat
  PROVE  \E f : f = [s \in Spots |-> Scans(f, input, s)]
<1> DEFINE n == Len(input)
           Holds(f, k) == \A s \in Spots : s.j + k >= n => f[s] = Scans(f, input, s)
           Good == {k \in Nat : \E f : Holds(f, k)}
<1>0. \A s \in Spots : s.j \in Nat
  BY DEF Spots
<1>1. 0 \in Good
  <2> DEFINE f == [s \in Spots |-> n]
  <2>1. ASSUME NEW s \in Spots, s.j + 0 >= n PROVE f[s] = Scans(f, input, s)
    BY <1>0, <2>1 DEF Scans
  <2> QED BY <2>1
<1>2. ASSUME NEW k \in Nat, k \in Good PROVE k + 1 \in Good
  <2>1. PICK f : Holds(f, k)
    BY <1>2
  <2> DEFINE g == [s \in Spots |-> IF s.j + k >= n THEN f[s] ELSE Scans(f, input, s)]
  <2>2. ASSUME NEW s \in Spots, s.j + (k + 1) >= n PROVE g[s] = Scans(g, input, s)
    <3>1. g[s] = Scans(f, input, s)
      BY <2>1
    <3>2. CASE \E v \in 0 .. Len(input) : \A h : Scans(h, input, s) = v
      BY <3>1, <3>2
    <3>3. CASE \E u \in Spots : u.j > s.j /\ \A h : Scans(h, input, s) = h[u]
      <4>1. PICK u \in Spots : u.j > s.j /\ \A h : Scans(h, input, s) = h[u]
        BY <3>3
      <4>2. u.j + k >= n
        BY <1>0, <2>2, <4>1
      <4>3. g[u] = f[u]
        BY <4>2
      <4> HIDE DEF g
      <4> QED BY <3>1, <4>1, <4>3
    <3> QED BY <3>2, <3>3, ScanForm
  <2>3. Holds(g, k + 1)
    BY <2>2
  <2> HIDE DEF g, Holds
  <2> QED BY <2>3
<1> HIDE DEF Good
<1>3. Nat \subseteq Good
  BY <1>1, <1>2, Lists!NatSet
<1>4. PICK f : Holds(f, n)
  BY <1>3 DEF Good
<1> DEFINE g == [s \in Spots |-> f[s]]
<1>5. ASSUME NEW s \in Spots PROVE g[s] = Scans(g, input, s)
  <2>1. g[s] = Scans(f, input, s)
    BY <1>0, <1>4
  <2>2. CASE \E v \in 0 .. Len(input) : \A h : Scans(h, input, s) = v
    BY <2>1, <2>2
  <2>3. CASE \E u \in Spots : u.j > s.j /\ \A h : Scans(h, input, s) = h[u]
    BY <2>1, <2>3
  <2> QED BY <2>2, <2>3, ScanForm
<1>6. g = [s \in Spots |-> Scans(g, input, s)]
  BY <1>5
<1> HIDE DEF g
<1> QED BY <1>6

\* ArgEnd is that function, and an index of the input or its end.
LEMMA ScanIs ==
  ASSUME NEW input, Len(input) \in Nat
  PROVE  \E f : /\ \A s \in Spots : f[s] = Scans(f, input, s) /\ f[s] \in 0 .. Len(input)
                /\ \A i : ArgEnd(input, i) = f[Spot(i, NUL)]
<1> DEFINE n == Len(input)
           f == CHOOSE g : g = [s \in Spots |-> Scans(g, input, s)]
<1>1. f = [s \in Spots |-> Scans(f, input, s)]
  BY ScanExists, Zenon
<1>2. \A i : ArgEnd(input, i) = f[Spot(i, NUL)]
  BY Zenon DEF ArgEnd, Scans, Spots, Spot
<1> HIDE DEF f
<1>3. \A s \in Spots : f[s] = Scans(f, input, s)
  BY <1>1
<1> DEFINE Good == {k \in Nat : \A s \in Spots : s.j + k >= n => f[s] \in 0 .. n}
<1>4. 0 \in Good
  BY <1>3 DEF Scans, Spots
<1>5. ASSUME NEW k \in Nat, k \in Good PROVE k + 1 \in Good
  <2> SUFFICES ASSUME NEW s \in Spots, s.j + (k + 1) >= n PROVE f[s] \in 0 .. n
    OBVIOUS
  <2>1. CASE \E v \in 0 .. Len(input) : \A h : Scans(h, input, s) = v
    BY <1>3, <2>1
  <2>2. CASE \E u \in Spots : u.j > s.j /\ \A h : Scans(h, input, s) = h[u]
    <3>1. PICK u \in Spots : u.j > s.j /\ f[s] = f[u]
      BY <1>3, <2>2
    <3>2. u.j \in Nat /\ s.j \in Nat
      BY DEF Spots
    <3> QED BY <1>5, <3>1, <3>2
  <2> QED BY <2>1, <2>2, ScanForm
<1> HIDE DEF Good
<1>6. Nat \subseteq Good
  BY <1>4, <1>5, Lists!NatSet
<1>7. \A s \in Spots : f[s] \in 0 .. n
  BY <1>6 DEF Good, Spots
<1> QED BY <1>2, <1>3, <1>7

\* A round of tokenize, with what it finds behind.
Turns == [i : Nat, argc : Nat]

Turn(i, argc) == [i |-> i, argc |-> argc]

Starts(input, i) == {j \in i .. Len(input) - 1 : input[j + 1] # Blank}

Tokens(from, input, at) ==
    LET starts == Starts(input, at.i)
        start  == Min(starts)
        end    == ArgEnd(input, start)
    IN  IF starts = {} \/ at.argc >= MAX_ARGS - 1 THEN << >>
        ELSE IF end < MAX_ARGS * ARG_WIDTH THEN <<SubSeq(input, start + 1, end)>>
        ELSE <<SubSeq(input, start + 1, Len(input))>> \o from[Turn(end, at.argc + 1)]

\* Where an argument starts, and where it ends.
LEMMA StartIs ==
  ASSUME NEW input, Len(input) \in Nat, NEW i \in Nat, Starts(input, i) # {},
         NEW start, start = Min(Starts(input, i))
  PROVE  /\ start \in i .. Len(input) - 1 /\ input[start + 1] # Blank
         /\ \A j \in i .. start - 1 : input[j + 1] = Blank
         /\ start \in Nat /\ ArgEnd(input, start) \in 0 .. Len(input)
<1> DEFINE C == Starts(input, i)
<1>1. C \in SUBSET Nat
  BY DEF Starts
<1>2. start \in C /\ \A y \in C : start <= y
  BY <1>1, LeastOf
<1>3. start \in i .. Len(input) - 1 /\ input[start + 1] # Blank
  BY <1>2 DEF Starts
<1>4. ASSUME NEW j \in i .. start - 1 PROVE input[j + 1] = Blank
  <2>1. j \in i .. Len(input) - 1 /\ ~(start <= j)
    BY <1>3
  <2> QED BY <1>2, <2>1 DEF Starts
<1>5. PICK f : /\ \A s \in Spots : f[s] \in 0 .. Len(input)
               /\ \A k : ArgEnd(input, k) = f[Spot(k, NUL)]
  BY ScanIs
<1>6. start \in Nat /\ Spot(start, NUL) \in Spots
  BY <1>3 DEF Spot, Spots
<1> QED BY <1>3, <1>4, <1>5, <1>6

Finds(T, input, at) == \E v \in Seq(Seq(T)) : \A h : Tokens(h, input, at) = v

FindsMore(T, input, at) ==
    \E v \in Seq(Seq(T)) : \E u \in Turns : u.argc > at.argc /\ \A h : Tokens(h, input, at) = v \o h[u]

\* A round of tokenize ends it, or puts an argument before what a later round finds.
LEMMA TokenForm ==
  ASSUME NEW T, NEW input \in Seq(T), NEW at \in Turns
  PROVE  Finds(T, input, at) \/ (at.argc < MAX_ARGS - 1 /\ FindsMore(T, input, at))
<1> DEFINE starts == Starts(input, at.i)
           start == Min(starts)
           end == ArgEnd(input, start)
           u == Turn(end, at.argc + 1)
           v == <<SubSeq(input, start + 1, Len(input))>>
           more == end < MAX_ARGS * ARG_WIDTH
<1>1. at.i \in Nat /\ at.argc \in Nat /\ MAX_ARGS \in Nat
  BY UserShellAssumption DEF Turns
<1>0. Len(input) \in Nat
  OBVIOUS
<1>2. CASE starts = {} \/ at.argc >= MAX_ARGS - 1
  <2>1. \A f : Tokens(f, input, at) = << >>
    BY <1>2 DEF Tokens
  <2>2. << >> \in Seq(Seq(T))
    OBVIOUS
  <2> QED BY <2>1, <2>2 DEF Finds
<1>3. CASE ~(starts = {} \/ at.argc >= MAX_ARGS - 1) /\ more
  <2>1. \A f : Tokens(f, input, at) = <<SubSeq(input, start + 1, end)>>
    BY <1>3, Zenon DEF Tokens
  <2>2. end \in 0 .. Len(input) /\ start \in Nat
    BY <1>0, <1>1, <1>3, StartIs
  <2> HIDE DEF end, start
  <2> DEFINE w == <<SubSeq(input, start + 1, end)>>
  <2>3. SubSeq(input, start + 1, end) \in Seq(T)
    BY <2>2
  <2>4. w \in Seq(Seq(T))
    BY <2>3
  <2> HIDE DEF w
  <2>5. \A f : Tokens(f, input, at) = w
    BY <2>1 DEF w
  <2> QED BY <2>4, <2>5 DEF Finds
<1>4. CASE ~(starts = {} \/ at.argc >= MAX_ARGS - 1) /\ ~more
  <2>1. \A f : Tokens(f, input, at) = v \o f[u]
    BY <1>4, Zenon DEF Tokens
  <2>2. end \in Nat /\ start \in Nat
    BY <1>0, <1>1, <1>4, StartIs
  <2> HIDE DEF end, start
  <2>5. SubSeq(input, start + 1, Len(input)) \in Seq(T)
    BY <2>2
  <2>6. v \in Seq(Seq(T))
    BY <2>5
  <2> HIDE DEF v
  <2>3. u \in Turns /\ u.argc > at.argc
    BY <1>1, <2>2 DEF Turn, Turns
  <2>4. at.argc < MAX_ARGS - 1
    BY <1>1, <1>4
  <2> HIDE DEF u, more
  <2> QED BY <2>1, <2>3, <2>4, <2>6 DEF FindsMore
<1> QED BY <1>2, <1>3, <1>4

\* There is a function as the one in tokenize.
LEMMA TokensExist ==
  ASSUME NEW T, NEW input \in Seq(T)
  PROVE  \E f : f = [at \in Turns |-> Tokens(f, input, at)]
<1> DEFINE n == MAX_ARGS
           Holds(f, k) == \A s \in Turns : s.argc + k >= n => f[s] = Tokens(f, input, s)
           Good == {k \in Nat : \E f : Holds(f, k)}
<1>0. n \in Nat /\ \A s \in Turns : s.argc \in Nat
  BY UserShellAssumption DEF Turns
<1>1. 0 \in Good
  <2> DEFINE f == [s \in Turns |-> << >>]
  <2>1. ASSUME NEW s \in Turns, s.argc + 0 >= n PROVE f[s] = Tokens(f, input, s)
    <3>1. s.argc >= n - 1
      BY <1>0, <2>1
    <3> QED BY <3>1 DEF Tokens
  <2> QED BY <2>1
<1>2. ASSUME NEW k \in Nat, k \in Good PROVE k + 1 \in Good
  <2>1. PICK f : Holds(f, k)
    BY <1>2
  <2> DEFINE g == [s \in Turns |-> IF s.argc + k >= n THEN f[s] ELSE Tokens(f, input, s)]
  <2>2. ASSUME NEW s \in Turns, s.argc + (k + 1) >= n PROVE g[s] = Tokens(g, input, s)
    <3>1. g[s] = Tokens(f, input, s)
      BY <2>1
    <3>2. CASE Finds(T, input, s)
      BY <3>1, <3>2 DEF Finds
    <3>3. CASE FindsMore(T, input, s)
      <4>1. PICK v \in Seq(Seq(T)) : \E u \in Turns : u.argc > s.argc /\ \A h : Tokens(h, input, s) = v \o h[u]
        BY <3>3 DEF FindsMore
      <4>4. PICK u \in Turns : u.argc > s.argc /\ \A h : Tokens(h, input, s) = v \o h[u]
        BY <4>1
      <4>2. u.argc + k >= n
        BY <1>0, <2>2, <4>4
      <4>3. g[u] = f[u]
        BY <4>2
      <4> HIDE DEF g
      <4> QED BY <3>1, <4>4, <4>3
    <3> HIDE DEF g
    <3> QED BY <3>2, <3>3, TokenForm
  <2>3. Holds(g, k + 1)
    BY <2>2
  <2> HIDE DEF g, Holds
  <2> QED BY <2>3
<1> HIDE DEF Good
<1>3. Nat \subseteq Good
  BY <1>1, <1>2, Lists!NatSet
<1>4. PICK f : Holds(f, n)
  BY <1>0, <1>3 DEF Good
<1> DEFINE g == [s \in Turns |-> f[s]]
<1>5. ASSUME NEW s \in Turns PROVE g[s] = Tokens(g, input, s)
  <2>1. g[s] = Tokens(f, input, s)
    BY <1>0, <1>4
  <2>2. CASE Finds(T, input, s)
    BY <2>1, <2>2 DEF Finds
  <2>3. CASE FindsMore(T, input, s)
    BY <2>1, <2>3 DEF FindsMore
  <2> HIDE DEF g
  <2> QED BY <2>2, <2>3, TokenForm
<1>6. g = [s \in Turns |-> Tokens(g, input, s)]
  BY <1>5
<1> HIDE DEF g
<1> QED BY <1>6

\* What tokenize finds: nothing, one argument, or one that is not ended and what
\* comes behind it.
LEMMA TokenizeIs ==
  ASSUME NEW T, NEW input \in Seq(T),
         NEW start, start = Min(Starts(input, 0)), NEW end, end = ArgEnd(input, start)
  PROVE  \/ Starts(input, 0) = {} /\ tokenize(input) = << >>
         \/ /\ Starts(input, 0) # {} /\ end < MAX_ARGS * ARG_WIDTH
            /\ tokenize(input) = <<SubSeq(input, start + 1, end)>>
         \/ /\ Starts(input, 0) # {} /\ ~(end < MAX_ARGS * ARG_WIDTH)
            /\ \E rest \in Seq(Seq(T)) :
                  /\ tokenize(input) = <<SubSeq(input, start + 1, Len(input))>> \o rest
                  /\ end = Len(input) => rest = << >>
<1> DEFINE f == CHOOSE g : g = [at \in Turns |-> Tokens(g, input, at)]
           a == Turn(0, 0)
           b == Turn(end, 1)
<1>0. Len(input) \in Nat
  OBVIOUS
<1>1. f = [at \in Turns |-> Tokens(f, input, at)]
  BY TokensExist, Zenon
<1>2. tokenize(input) = f[a]
  BY Zenon DEF tokenize, Tokens, Starts, Turns, Turn
<1> HIDE DEF f
<1>3. \A at \in Turns : f[at] = Tokens(f, input, at)
  BY <1>1
<1>4. a \in Turns /\ a.i = 0 /\ a.argc = 0 /\ ~(0 >= MAX_ARGS - 1)
  BY UserShellAssumption DEF Turn, Turns
<1> HIDE DEF a
<1>5. tokenize(input) =
        IF Starts(input, 0) = {} THEN << >>
        ELSE IF end < MAX_ARGS * ARG_WIDTH THEN <<SubSeq(input, start + 1, end)>>
        ELSE <<SubSeq(input, start + 1, Len(input))>> \o f[Turn(end, 0 + 1)]
  <2>1. tokenize(input) = Tokens(f, input, a)
    BY <1>2, <1>3, <1>4
  <2> QED BY <1>4, <2>1, Zenon DEF Tokens
<1>8. \A s \in Turns : f[s] \in Seq(Seq(T))
  <2> DEFINE Good == {k \in Nat : \A s \in Turns : s.argc + k >= MAX_ARGS => f[s] \in Seq(Seq(T))}
  <2>0. MAX_ARGS \in Nat /\ \A s \in Turns : s.argc \in Nat
    BY UserShellAssumption DEF Turns
  <2>1. ASSUME NEW k \in Nat, \A s \in Turns : s.argc + k >= MAX_ARGS + 1 => f[s] \in Seq(Seq(T))
        PROVE  k \in Good
    <3> SUFFICES ASSUME NEW s \in Turns, s.argc + k >= MAX_ARGS PROVE f[s] \in Seq(Seq(T))
      OBVIOUS
    <3>1. CASE Finds(T, input, s)
      BY <1>3, <3>1 DEF Finds
    <3>2. CASE FindsMore(T, input, s)
      <4>1. PICK v \in Seq(Seq(T)), u \in Turns : u.argc > s.argc /\ f[s] = v \o f[u]
        BY <1>3, <3>2 DEF FindsMore
      <4>2. u.argc + k >= MAX_ARGS + 1
        BY <2>0, <4>1
      <4>3. f[u] \in Seq(Seq(T))
        BY <2>1, <4>2
      <4> QED BY <4>1, <4>3
    <3> QED BY <3>1, <3>2, TokenForm
  <2>2. 0 \in Good
    <3> SUFFICES ASSUME NEW s \in Turns, s.argc + 0 >= MAX_ARGS PROVE f[s] \in Seq(Seq(T))
      OBVIOUS
    <3>1. ~(s.argc < MAX_ARGS - 1)
      BY <2>0
    <3>2. Finds(T, input, s)
      BY <3>1, TokenForm
    <3> QED BY <1>3, <3>2 DEF Finds
  <2>3. ASSUME NEW k \in Nat, k \in Good PROVE k + 1 \in Good
    <3>1. \A s \in Turns : s.argc + (k + 1) >= MAX_ARGS + 1 => f[s] \in Seq(Seq(T))
      BY <2>0, <2>3
    <3> HIDE DEF Good
    <3> QED BY <2>1, <3>1
  <2> HIDE DEF Good
  <2>4. Nat \subseteq Good
    BY <2>2, <2>3, Lists!NatSet
  <2>5. MAX_ARGS \in Good
    BY <2>0, <2>4
  <2> QED BY <2>0, <2>5 DEF Good
<1>6. ASSUME Starts(input, 0) # {}, end = Len(input) PROVE f[b] = << >>
  <2>1. b \in Turns /\ b.i = Len(input)
    BY <1>6 DEF Turn, Turns
  <2>2. Starts(input, Len(input)) = {}
    BY DEF Starts
  <2>3. f[b] = Tokens(f, input, b)
    BY <1>3, <2>1
  <2> HIDE DEF b
  <2> QED BY <2>1, <2>2, <2>3 DEF Tokens
<1>7. Turn(end, 0 + 1) = b
  OBVIOUS
<1>9. Starts(input, 0) # {} => f[b] \in Seq(Seq(T))
  <2>1. ASSUME Starts(input, 0) # {} PROVE end \in Nat
    BY <1>0, <2>1, StartIs
  <2>2. ASSUME end \in Nat PROVE b \in Turns
    BY <2>2 DEF Turn, Turns
  <2> QED BY <1>8, <2>1, <2>2
<1> HIDE DEF b
<1> QED BY <1>5, <1>6, <1>7, <1>9, Zenon
-----------------------------------------------------------------------------
\* What the values of variables are made of, and strings; the environment.
Shows == {"antigravity-sh", "user", "/", "$", Blank, "000", "001", "127"}

Cells == Symbols \cup {NUL, JUNK, OUTSIDE} \cup Shows

Variables == [name : Seq({"SHELL", "USER", "HOME", "PS1"}), value : Seq(Shows)]

\* The value of a name is a string.
LEMMA GetIs ==
  ASSUME NEW env \in Seq(Variables), NEW status, NEW name
  PROVE  env_get(env, status, name) \in Seq(Shows) /\ env_get(env, status, name) \in Seq(Cells)
<1> DEFINE at == {i \in DOMAIN env : env[i].name = name}
           v == env_get(env, status, name)
<1>1. at \in SUBSET Nat
  OBVIOUS
<1>2. CASE at # {}
  <2>1. Min(at) \in DOMAIN env
    BY <1>1, <1>2, LeastOf
  <2>2. env[Min(at)] \in Variables
    BY <2>1
  <2>3. env[Min(at)].value \in Seq(Shows)
    BY <2>2 DEF Variables
  <2> QED BY <1>2, <2>3 DEF env_get, Cells
<1>3. CASE at = {}
  <2>1. Status(status) \in Shows
    BY DEF Status, Shows
  <2>2. v \in Seq(Shows)
    BY <1>3, <2>1 DEF env_get
  <2> QED BY <2>2 DEF Cells
<1> QED BY <1>2, <1>3

\* The end of a run of symbols.
LEMMA RunEndIs ==
  ASSUME NEW src, NEW i \in Nat, NEW set, NEW r, r = RunEnd(src, i, set)
  PROVE  /\ r \in i .. i + NAME_LIMIT
         /\ r = i + NAME_LIMIT \/ Sym(src, r) \notin set
         /\ \A j \in i .. r - 1 : Sym(src, j) \in set
<1> DEFINE C == {j \in i .. i + NAME_LIMIT : j = i + NAME_LIMIT \/ Sym(src, j) \notin set}
<1>1. NAME_LIMIT \in Nat \ {0}
  BY UserShellAssumption
<1>2. C \in SUBSET Nat /\ i + NAME_LIMIT \in C
  BY <1>1
<1>3. r \in C /\ \A y \in C : r <= y
  BY <1>2, LeastOf DEF RunEnd
<1>4. ASSUME NEW j \in i .. r - 1 PROVE Sym(src, j) \in set
  <2>1. j \in i .. i + NAME_LIMIT /\ ~(r <= j)
    BY <1>1, <1>3
  <2> QED BY <1>3, <2>1
<1> QED BY <1>3, <1>4

\* A round of expand_vars gets on, by a string.
LEMMA RoundIs ==
  ASSUME NEW src \in [Index -> Cells], NEW si \in Nat, NEW env \in Seq(Variables), NEW status,
         NEW r, r = Round(src, si, env, status)
  PROVE  r.text \in Seq(Cells) /\ r.next \in Nat /\ r.next > si
<1> DEFINE next == Sym(src, si + 1)
           braced == RunEnd(src, si + 2, (Symbols \cup {JUNK}) \ {"}"})
           plain == RunEnd(src, si + 1, NameSymbols)
           c == Sym(src, si)
           value(j) == env_get(env, status, j)
<1>1. \A j : Sym(src, j) \in Cells
  BY DEF Sym, Cells
<1>2. braced \in Nat /\ braced >= si + 2 /\ plain \in Nat /\ plain >= si + 1
  <2> DEFINE set == (Symbols \cup {JUNK}) \ {"}"}
  <2> HIDE DEF set
  <2>1. RunEnd(src, si + 2, set) \in si + 2 .. si + 2 + NAME_LIMIT
    <3>1. si + 2 \in Nat
      OBVIOUS
    <3> QED BY <3>1, RunEndIs
  <2>2. plain \in si + 1 .. si + 1 + NAME_LIMIT
    <3>1. si + 1 \in Nat
      OBVIOUS
    <3> QED BY <3>1, RunEndIs
  <2>3. NAME_LIMIT \in Nat
    BY UserShellAssumption
  <2>4. braced \in si + 2 .. si + 2 + NAME_LIMIT
    BY <2>1 DEF set
  <2> HIDE DEF braced, plain
  <2> QED BY <2>2, <2>3, <2>4
<1>3. \A j : value(j) \in Seq(Cells)
  BY GetIs
<1>4. "$" \in Cells
  BY DEF Cells, Symbols, Marks
<1>5. CASE c # "$"
  <2>1. r = [text |-> <<c>>, checked |-> TRUE, next |-> si + 1]
    BY <1>5 DEF Round
  <2> QED BY <1>1, <2>1
<1>6. CASE c = "$" /\ next = "{"
  <2> DEFINE v == value(Piece(src, si + 2, braced))
             m == IF Sym(src, braced) = "}" THEN braced + 2 ELSE braced + 1
  <2>1. r = [text |-> v, checked |-> TRUE, next |-> m]
    BY <1>6 DEF Round
  <2>2. m \in Nat /\ m > si /\ v \in Seq(Cells)
    <3>1. v \in Seq(Cells)
      BY <1>3
    <3> HIDE DEF braced, plain
    <3>2. m = braced + 2 \/ m = braced + 1
      OBVIOUS
    <3> HIDE DEF m
    <3>3. m \in Nat /\ m > si
      BY <1>2, <3>2
    <3> QED BY <3>1, <3>3
  <2> HIDE DEF v, m
  <2> QED BY <2>1, <2>2
<1>7. CASE c = "$" /\ next # "{" /\ plain = si + 1
  <2> DEFINE v == IF next = NUL THEN <<"$">> ELSE <<"$", next>>
  <2>1. r = [text |-> v, checked |-> FALSE, next |-> si + 2]
    BY <1>7 DEF Round
  <2>2. v \in Seq(Cells)
    BY <1>1, <1>4
  <2> QED BY <2>1, <2>2
<1>8. CASE c = "$" /\ next # "{" /\ plain # si + 1
  <2> DEFINE v == value(Piece(src, si + 1, plain))
  <2>1. r = [text |-> v, checked |-> TRUE, next |-> plain]
    BY <1>8 DEF Round
  <2>2. v \in Seq(Cells)
    BY <1>3
  <2>3. plain > si
    <3> HIDE DEF braced, plain
    <3> QED BY <1>2
  <2> HIDE DEF v, plain, braced
  <2> QED BY <1>2, <2>1, <2>2, <2>3
<1> QED BY <1>5, <1>6, <1>7, <1>8

\* What is added of a text is a string.
LEMMA CutIs ==
  ASSUME NEW r, r.text \in Seq(Cells), NEW room \in Nat
  PROVE  Cut(r, room) \in Seq(Cells)
<1>1. Cut(r, room) \in {SubSeq(r.text, 1, room), r.text} /\ (Cut(r, room) # r.text => Len(r.text) > room)
  BY Zenon DEF Cut
<1>2. Len(r.text) > room => SubSeq(r.text, 1, room) \in Seq(Cells)
  OBVIOUS
<1> QED BY <1>1, <1>2

\* A round of expand_vars, with what it finds behind.
Marked == [si : Nat, di : Nat]

Mark(si, di) == [si |-> si, di |-> di]

Expands(from, src, env, status, at) ==
    IF at.di >= LINE_MAX - 1 THEN [text |-> << >>, outside |-> at.di >= LINE_MAX]
    ELSE IF Sym(src, at.si) \in {NUL, OUTSIDE}
    THEN [text |-> << >>, outside |-> Sym(src, at.si) = OUTSIDE]
    ELSE LET round == Round(src, at.si, env, status)
             text  == Cut(round, LINE_MAX - 1 - at.di)
             rest  == from[Mark(round.next, at.di + Len(text))]
         IN  [text |-> text \o rest.text, outside |-> rest.outside]

\* What a round puts before what comes behind it.
Before(text, rest) == [text |-> text \o rest.text, outside |-> rest.outside]

\* The round at a place, its text and where it goes on.
Adds(src, env, status, at) == Cut(Round(src, at.si, env, status), LINE_MAX - 1 - at.di)

Goes(src, env, status, at) ==
    Mark(Round(src, at.si, env, status).next, at.di + Len(Adds(src, env, status, at)))

\* The loop ends at a place.
Halts(src, at) == at.di >= LINE_MAX - 1 \/ Sym(src, at.si) \in {NUL, OUTSIDE}

\* A round of expand_vars that does not end it puts a string before what a round
\* further on yields.
LEMMA ExpandOn ==
  ASSUME NEW src \in [Index -> Cells], NEW env \in Seq(Variables), NEW status, NEW at \in Marked,
         ~Halts(src, at), NEW u, u = Goes(src, env, status, at), NEW w, w = Adds(src, env, status, at)
  PROVE  /\ at.si < LINE_MAX /\ u \in Marked /\ u.si > at.si /\ w \in Seq(Cells)
         /\ \A f : Expands(f, src, env, status, at) = Before(w, f[u])
<1> DEFINE round == Round(src, at.si, env, status)
           room == LINE_MAX - 1 - at.di
<1>1. at.si \in Nat /\ at.di \in Nat /\ LINE_MAX \in Nat \ {0}
  BY Constants DEF Marked
<1>2. ~(at.di >= LINE_MAX - 1) /\ Sym(src, at.si) \notin {NUL, OUTSIDE}
  BY Zenon DEF Halts
<1>3. at.si < LINE_MAX
  BY <1>1, <1>2 DEF Sym, Index
<1>4. round.text \in Seq(Cells) /\ round.next \in Nat /\ round.next > at.si
  BY <1>1, RoundIs
<1>5. room \in Nat
  BY <1>1, <1>2
<1>6. w = Cut(round, room) /\ u = Mark(round.next, at.di + Len(w))
  BY Zenon DEF Goes, Adds
<1>7. \A f : Expands(f, src, env, status, at) = Before(w, f[u])
  BY <1>2, <1>6, Zenon DEF Expands, Before
<1> HIDE DEF round, room
<1>8. w \in Seq(Cells)
  BY <1>4, <1>5, <1>6, CutIs
<1>9. u \in Marked /\ u.si > at.si
  BY <1>1, <1>4, <1>6, <1>8 DEF Mark, Marked
<1> QED BY <1>3, <1>7, <1>8, <1>9

\* The round that ends the loop adds nothing.
LEMMA ExpandEnd ==
  ASSUME NEW src, NEW env, NEW status, NEW at, Halts(src, at)
  PROVE  \E v : v.text = << >> /\ \A f : Expands(f, src, env, status, at) = v
<1>1. CASE at.di >= LINE_MAX - 1
  <2> DEFINE v == [text |-> << >>, outside |-> at.di >= LINE_MAX]
  <2>1. \A f : Expands(f, src, env, status, at) = v
    BY <1>1, Zenon DEF Expands
  <2>2. v.text = << >>
    OBVIOUS
  <2> HIDE DEF v
  <2> QED BY <2>1, <2>2
<1>2. CASE ~(at.di >= LINE_MAX - 1)
  <2> DEFINE v == [text |-> << >>, outside |-> Sym(src, at.si) = OUTSIDE]
  <2>1. Sym(src, at.si) \in {NUL, OUTSIDE}
    BY <1>2, Zenon DEF Halts
  <2>2. \A f : Expands(f, src, env, status, at) = v
    BY <1>2, <2>1, Zenon DEF Expands
  <2>3. v.text = << >>
    OBVIOUS
  <2> HIDE DEF v
  <2> QED BY <2>2, <2>3
<1> QED BY <1>1, <1>2

\* A function as the one in expand_vars.
Expanding(f, src, env, status) == f = [at \in Marked |-> Expands(f, src, env, status, at)]

\* There is such a function.
LEMMA ExpandExists ==
  ASSUME NEW src \in [Index -> Cells], NEW env \in Seq(Variables), NEW status
  PROVE  \E f : Expanding(f, src, env, status)
<1> DEFINE n == LINE_MAX
           E(f, s) == Expands(f, src, env, status, s)
           Holds(f, k) == \A s \in Marked : s.si + k >= n => f[s] = E(f, s)
           Good == {k \in Nat : \E f : Holds(f, k)}
<1>0. n \in Nat /\ \A s \in Marked : s.si \in Nat
  BY Constants DEF Marked
<1>1. ASSUME NEW s \in Marked
      PROVE  \/ \E v : \A h : E(h, s) = v
             \/ s.si < n /\ \E v : \E u \in Marked : u.si > s.si /\ \A h : E(h, s) = Before(v, h[u])
  <2>1. CASE Halts(src, s)
    BY <2>1, ExpandEnd
  <2>2. CASE ~Halts(src, s)
    <3> DEFINE u == Goes(src, env, status, s)
               w == Adds(src, env, status, s)
    <3>1. s.si < n /\ u \in Marked /\ u.si > s.si /\ \A h : E(h, s) = Before(w, h[u])
      BY <2>2, ExpandOn
    <3> HIDE DEF u, w, E
    <3> QED BY <3>1
  <2> QED BY <2>1, <2>2
<1> HIDE DEF E
<1>2. 0 \in Good
  <2> DEFINE f == [s \in Marked |-> E(<< >>, s)]
  <2>1. ASSUME NEW s \in Marked, s.si + 0 >= n PROVE f[s] = E(f, s)
    <3>1. ~(s.si < n)
      BY <1>0, <2>1
    <3> QED BY <1>1, <3>1
  <2>2. Holds(f, 0)
    BY <2>1
  <2> HIDE DEF Holds, f
  <2> QED BY <2>2
<1>3. ASSUME NEW k \in Nat, k \in Good PROVE k + 1 \in Good
  <2>1. PICK f : Holds(f, k)
    BY <1>3
  <2> DEFINE g == [s \in Marked |-> IF s.si + k >= n THEN f[s] ELSE E(f, s)]
  <2>2. ASSUME NEW s \in Marked, s.si + (k + 1) >= n PROVE g[s] = E(g, s)
    <3>1. g[s] = E(f, s)
      BY <2>1
    <3>2. CASE \E v : \A h : E(h, s) = v
      BY <3>1, <3>2
    <3>3. CASE \E v : \E u \in Marked : u.si > s.si /\ \A h : E(h, s) = Before(v, h[u])
      <4>1. PICK v : \E u \in Marked : u.si > s.si /\ \A h : E(h, s) = Before(v, h[u])
        BY <3>3
      <4>2. PICK u \in Marked : u.si > s.si /\ \A h : E(h, s) = Before(v, h[u])
        BY <4>1
      <4>3. u.si + k >= n
        BY <1>0, <2>2, <4>2
      <4>4. g[u] = f[u]
        BY <4>3
      <4> HIDE DEF g
      <4> QED BY <3>1, <4>2, <4>4
    <3> QED BY <1>1, <3>2, <3>3
  <2>3. Holds(g, k + 1)
    BY <2>2
  <2> HIDE DEF g, Holds
  <2> QED BY <2>3
<1> HIDE DEF Good
<1>4. Nat \subseteq Good
  BY <1>2, <1>3, Lists!NatSet
<1>5. PICK f : Holds(f, n)
  BY <1>0, <1>4 DEF Good
<1> DEFINE g == [s \in Marked |-> f[s]]
<1>6. ASSUME NEW s \in Marked PROVE g[s] = E(g, s)
  <2>1. g[s] = E(f, s)
    BY <1>0, <1>5
  <2>2. CASE \E v : \A h : E(h, s) = v
    BY <2>1, <2>2
  <2>3. CASE \E v : \E u \in Marked : u.si > s.si /\ \A h : E(h, s) = Before(v, h[u])
    BY <2>1, <2>3
  <2> QED BY <1>1, <2>2, <2>3
<1>7. g = [s \in Marked |-> E(g, s)]
  BY <1>6
<1> HIDE DEF g
<1>8. Expanding(g, src, env, status)
  BY <1>7, Zenon DEF E, Expanding
<1> QED BY <1>8

\* expand_vars is that function, and its result a string.
LEMMA ExpandIs ==
  ASSUME NEW src \in [Index -> Cells], NEW env \in Seq(Variables), NEW status
  PROVE  \E f : /\ \A s \in Marked : f[s] = Expands(f, src, env, status, s)
                /\ \A s \in Marked : f[s].text \in Seq(Cells)
                /\ expand_vars(src, env, status) = f[Mark(0, 0)]
<1> DEFINE n == LINE_MAX
           f == CHOOSE g : g = [s \in Marked |-> Expands(g, src, env, status, s)]
<1>1. f = [s \in Marked |-> Expands(f, src, env, status, s)]
  <2>1. \E g : g = [s \in Marked |-> Expands(g, src, env, status, s)]
    <3>1. \E g : Expanding(g, src, env, status)
      BY ExpandExists
    <3> QED BY <3>1, Zenon DEF Expanding
  <2> QED BY <2>1, Zenon
<1>2. expand_vars(src, env, status) = f[Mark(0, 0)]
  BY Zenon DEF expand_vars, Expands, Marked, Mark
<1> HIDE DEF f
<1>3. \A s \in Marked : f[s] = Expands(f, src, env, status, s)
  BY <1>1
<1>4. n \in Nat /\ \A s \in Marked : s.si \in Nat
  BY Constants DEF Marked
<1> DEFINE Good == {k \in Nat : \A s \in Marked : s.si + k >= n => f[s].text \in Seq(Cells)}
<1>5. ASSUME NEW s \in Marked, Halts(src, s) PROVE f[s].text \in Seq(Cells)
  <2>1. f[s].text = << >>
    BY <1>3, <1>5, ExpandEnd
  <2> QED BY <2>1
<1>6. 0 \in Good
  <2> SUFFICES ASSUME NEW s \in Marked, s.si + 0 >= n PROVE f[s].text \in Seq(Cells)
    OBVIOUS
  <2>1. ~(s.si < n)
    BY <1>4
  <2>2. Halts(src, s)
    BY <2>1, ExpandOn
  <2> QED BY <1>5, <2>2
<1>7. ASSUME NEW k \in Nat, k \in Good PROVE k + 1 \in Good
  <2> SUFFICES ASSUME NEW s \in Marked, s.si + (k + 1) >= n PROVE f[s].text \in Seq(Cells)
    OBVIOUS
  <2>1. CASE ~Halts(src, s)
    <3> DEFINE u == Goes(src, env, status, s)
               w == Adds(src, env, status, s)
    <3>1. u \in Marked /\ u.si > s.si /\ w \in Seq(Cells) /\ f[s] = Before(w, f[u])
      BY <1>3, <2>1, ExpandOn
    <3> HIDE DEF u, w
    <3>2. u.si + k >= n
      BY <1>4, <3>1
    <3>3. f[u].text \in Seq(Cells)
      BY <1>7, <3>1, <3>2
    <3>4. f[s].text = w \o f[u].text
      BY <3>1 DEF Before
    <3> QED BY <3>1, <3>3, <3>4
  <2> QED BY <1>5, <2>1
<1> HIDE DEF Good
<1>8. Nat \subseteq Good
  BY <1>6, <1>7, Lists!NatSet
<1>9. \A s \in Marked : f[s].text \in Seq(Cells)
  <2>1. n \in Good
    BY <1>4, <1>8
  <2> QED BY <1>4, <2>1 DEF Good
<1> QED BY <1>2, <1>3, <1>9

\* A word that ends the line ends at its end.
LEMMA LastWord ==
  ASSUME NEW input, Len(input) \in Nat, NEW i \in Nat, i + 1 = Len(input),
         input[i + 1] \notin {Blank, Escape} \cup Quotes
  PROVE  ArgEnd(input, i) = Len(input)
<1> DEFINE c == input[i + 1]
           s == Spot(i, NUL)
           u == Spot(i + 1, NUL)
<1>1. PICK f : /\ \A k \in Spots : f[k] = Scans(f, input, k)
               /\ \A k : ArgEnd(input, k) = f[Spot(k, NUL)]
  BY ScanIs
<1>2. s \in Spots /\ s.j = i /\ s.quote = NUL /\ u \in Spots /\ u.j = i + 1
  BY DEF Spot, Spots
<1>3. f[u] = Len(input)
  <2>1. f[u] = Scans(f, input, u)
    BY <1>1, <1>2
  <2> HIDE DEF u
  <2> QED BY <1>2, <2>1 DEF Scans
<1>4. f[s] = f[u]
  <2>1. f[s] = Scans(f, input, s)
    BY <1>1, <1>2
  <2>2. ~(i >= Len(input)) /\ c # Blank /\ c # Escape /\ c \notin Quotes
    OBVIOUS
  <2> HIDE DEF s, c
  <2> QED BY <1>2, <2>1, <2>2 DEF Scans, c
<1> QED BY <1>1, <1>3, <1>4

\* The export of one argument, and the setting of one variable.
Exports(e, arg) ==
    LET eq == {i \in DOMAIN arg : arg[i] = "="}
    IN  IF eq = {} THEN e
        ELSE env_set(e, SubSeq(arg, 1, Min(eq) - 1), SubSeq(arg, Min(eq) + 1, Len(arg)))

Exporting == INSTANCE SequenceFacts WITH op <- Exports

Puts(env, v) == env_set(env, <<v[1]>>, v[2])

Putting == INSTANCE SequenceFacts WITH op <- Puts

\* No line has a command with arguments.
LEMMA NoArguments ==
  ASSUME NEW T, NEW input \in Seq(T), NEW argv, argv = tokenize(input), argv # << >>,
         NEW word, word \notin {Blank, Escape} \cup Quotes, argv[1] = <<word>>
  PROVE  Tail(argv) = << >>
<1> DEFINE start == Min(Starts(input, 0))
           end == ArgEnd(input, start)
<1>0. Len(input) \in Nat /\ 0 \in Nat
  OBVIOUS
<1>1. CASE argv = <<SubSeq(input, start + 1, end)>>
  BY <1>1
<1>2. CASE /\ Starts(input, 0) # {}
           /\ \E rest \in Seq(Seq(T)) :
                 /\ argv = <<SubSeq(input, start + 1, Len(input))>> \o rest
                 /\ end = Len(input) => rest = << >>
  <2>1. start \in 0 .. Len(input) - 1
    BY <1>0, <1>2, StartIs
  <2> HIDE DEF start
  <2> DEFINE a == SubSeq(input, start + 1, Len(input))
  <2>2. a \in Seq(T) /\ Len(a) = Len(input) - start /\ a[1] = input[start + 1]
    BY <1>0, <2>1
  <2>3. PICK rest \in Seq(Seq(T)) : argv = <<a>> \o rest /\ (end = Len(input) => rest = << >>)
    BY <1>2
  <2> HIDE DEF a
  <2>4. argv[1] = a
    BY <2>2, <2>3
  <2>5. Len(a) = 1 /\ a[1] = word
    <3>1. a = <<word>>
      BY <2>4
    <3> QED BY <3>1
  <2>6. start + 1 = Len(input) /\ start \in Nat /\ input[start + 1] = word
    <3>1. input[start + 1] = word
      BY <2>2, <2>5
    <3>2. Len(input) - start = 1
      BY <2>2, <2>5
    <3>3. start + 1 = Len(input) /\ start \in Nat
      BY <1>0, <2>1, <3>2
    <3> QED BY <3>1, <3>3
  <2>7. end = Len(input)
    BY <1>0, <2>6, LastWord
  <2>8. argv = <<a>>
    BY <2>2, <2>3, <2>7
  <2> QED BY <2>8
<1> QED BY <1>1, <1>2, TokenizeIs

\* No command changes the environment.
LEMMA EnvSame ==
  ASSUME NEW T, NEW input \in Seq(T), NEW argv, argv = tokenize(input), argv # << >>, NEW env
  PROVE  Environment(env, argv) = env
<1> DEFINE args == Tail(argv)
<1>1. CASE argv[1] = <<"export">>
  <2>1. args = << >>
    BY <1>1, NoArguments DEF Blank, Escape, Quotes
  <2>2. Environment(env, argv) = Exporting!Fold(env, args)
    <3>1. argv[1] # <<"unset">>
      BY <1>1
    <3>2. Environment(env, argv) = FoldLeft(Exports, env, args)
      BY <1>1, <3>1, Zenon DEF Environment, Exports
    <3> QED BY <3>2 DEF FoldLeft, MapThenFoldSet, Max, Exporting!Fold, Exporting!Step,
                        Exporting!Greatest
  <2> QED BY <2>1, <2>2, Exporting!FoldNone
<1>2. CASE argv[1] = <<"unset">>
  <2>1. args = << >>
    BY <1>2, NoArguments DEF Blank, Escape, Quotes
  <2> QED BY <1>2, <2>1 DEF Environment
<1>3. CASE argv[1] # <<"export">> /\ argv[1] # <<"unset">>
  BY <1>3, Zenon DEF Environment
<1> QED BY <1>1, <1>2, <1>3

\* The variables of the shell.
Given == { <<"SHELL", <<"antigravity-sh">>>>, <<"USER", <<"user">>>>,
           <<"HOME", <<"/">>>>, <<"PS1", <<"$", Blank>>>> }

\* The environment that _start sets up is a list of variables.
LEMMA StartIsEnv == StartEnv \in Seq(Variables)
<1> DEFINE q == <<<<"SHELL", <<"antigravity-sh">>>>, <<"USER", <<"user">>>>,
                  <<"HOME", <<"/">>>>, <<"PS1", <<"$", Blank>>>>>>
<1>1. StartEnv = Putting!Fold(<< >>, q)
  BY DEF StartEnv, FoldLeft, MapThenFoldSet, Max, Putting!Fold, Putting!Step, Putting!Greatest, Puts
<1>2. q \in Seq(Given)
  <2>1. /\ <<"SHELL", <<"antigravity-sh">>>> \in Given /\ <<"USER", <<"user">>>> \in Given
        /\ <<"HOME", <<"/">>>> \in Given /\ <<"PS1", <<"$", Blank>>>> \in Given
    BY Zenon DEF Given
  <2> QED BY <2>1
<1> HIDE DEF q
<1>3. ASSUME NEW env \in Seq(Variables), NEW v \in Given PROVE Puts(env, v) \in Seq(Variables)
  <2> DEFINE name == <<v[1]>>
             value == v[2]
             at == {i \in DOMAIN env : env[i].name = name}
             new == [name |-> name, value |-> value]
  <2>1. v[1] \in {"SHELL", "USER", "HOME", "PS1"} /\ v[2] \in Seq(Shows)
    <3>1. {"antigravity-sh", "user", "/", "$", Blank} \subseteq Shows
      BY DEF Shows
    <3>2. /\ <<"antigravity-sh">> \in Seq(Shows) /\ <<"user">> \in Seq(Shows)
          /\ <<"/">> \in Seq(Shows) /\ <<"$", Blank>> \in Seq(Shows)
      BY <3>1
    <3>3. \/ v = <<"SHELL", <<"antigravity-sh">>>> \/ v = <<"USER", <<"user">>>>
          \/ v = <<"HOME", <<"/">>>> \/ v = <<"PS1", <<"$", Blank>>>>
      BY Zenon DEF Given
    <3> DEFINE p == <<"$", Blank>>
    <3> HIDE DEF p
    <3>4. v = <<"PS1", p>> => v[1] = "PS1" /\ v[2] = p
      OBVIOUS
    <3>5. CASE v # <<"PS1", p>>
      BY <3>2, <3>3, <3>5 DEF p
    <3>6. CASE v = <<"PS1", p>>
      BY <3>2, <3>4, <3>6 DEF p
    <3> QED BY <3>5, <3>6
  <2>2. name \in Seq({"SHELL", "USER", "HOME", "PS1"})
    BY <2>1
  <2> HIDE DEF name, value
  <2>3. new \in Variables
    BY <2>1, <2>2 DEF Variables, value
  <2>4. Puts(env, v) \in {env, [env EXCEPT ![Min(at)] = new], Append(env, new)}
    BY Zenon DEF Puts, env_set, name, value
  <2> HIDE DEF new, at
  <2> QED BY <2>3, <2>4
<1>4. << >> \in Seq(Variables)
  OBVIOUS
<1>5. Putting!Fold(<< >>, q) \in Seq(Variables)
  BY <1>2, <1>3, <1>4, Putting!FoldIn
<1> QED BY <1>1, <1>5

\* The environment with which the shell starts.
EnvKept == env_vars = StartEnv

\* In the code as it is no line changes the environment: tokenize takes the terminator
\* that it writes for the end of the line, so export and unset get no arguments, against
\* what cmd_help says of them.
LEMMA EnvStays == Spec => []EnvKept
<1>1. Init => EnvKept
  BY DEF Init, EnvKept
<1>2. ReadInv /\ ReadInv' /\ EnvKept /\ [Next]_vars => EnvKept'
  <2> SUFFICES ASSUME ReadInv', EnvKept, [Next]_vars PROVE env_vars' = StartEnv
    BY DEF EnvKept
  <2>1. CASE env_vars' = env_vars
    BY <2>1 DEF EnvKept
  <2>2. CASE execute_command(line', Text)
    <3> DEFINE text == expand_vars(line', env_vars, last_exit_status).text
               argv == tokenize(text)
    <3>1. env_vars' = env_vars \/ (argv # << >> /\ env_vars' = Environment(env_vars, argv))
      BY <2>2, Zenon DEF execute_command
    <3>2. line' \in [Index -> Cells]
      BY DEF ReadInv, LineInv, Cells
    <3>3. env_vars \in Seq(Variables)
      BY StartIsEnv DEF EnvKept
    <3>4. text \in Seq(Cells)
      <4>1. PICK f : /\ \A s \in Marked : f[s].text \in Seq(Cells)
                     /\ expand_vars(line', env_vars, last_exit_status) = f[Mark(0, 0)]
        BY <3>2, <3>3, ExpandIs
      <4>2. Mark(0, 0) \in Marked
        BY DEF Mark, Marked
      <4> QED BY <4>1, <4>2
    <3> HIDE DEF text
    <3>5. argv # << >> => Environment(env_vars, argv) = env_vars
      BY <3>4, EnvSame
    <3> QED BY <2>1, <3>1, <3>5
  <2>3. env_vars' = env_vars \/ execute_command(line', Text)
    BY DEF Next, Enter, Up, Down, Left, Right, Erase, Insert, shell_vars, vars
  <2> QED BY <2>1, <2>2, <2>3
<1> QED BY <1>1, <1>2, ReadCorrect, PTL DEF Spec
-----------------------------------------------------------------------------
\* The array holds a text, and its terminator.
Holding(src, t) ==
    /\ src \in [Index -> Cells]
    /\ t \in Seq(Symbols) /\ Len(t) <= LINE_MAX - 1
    /\ \A k \in 1 .. Len(t) : src[k - 1] = t[k]
    /\ src[Len(t)] = NUL

\* What expand_vars reads of it.
LEMMA SymIs ==
  ASSUME NEW src, NEW t, Holding(src, t)
  PROVE  /\ \A k \in 1 .. Len(t) : Sym(src, k - 1) = t[k] /\ t[k] \in Symbols /\ t[k] \notin {NUL, OUTSIDE}
         /\ Sym(src, Len(t)) = NUL
<1>1. LINE_MAX \in Nat /\ Len(t) \in Nat /\ Len(t) <= LINE_MAX - 1
  BY Constants DEF Holding
<1>2. Sym(src, Len(t)) = NUL
  <2>1. Len(t) \in Index
    BY <1>1 DEF Index
  <2> QED BY <2>1 DEF Sym, Holding
<1>3. ASSUME NEW k \in 1 .. Len(t) PROVE Sym(src, k - 1) = t[k] /\ t[k] \in Symbols
  <2>1. k - 1 \in Index
    BY <1>1 DEF Index
  <2> QED BY <2>1 DEF Sym, Holding
<1>4. NUL \notin Symbols /\ OUTSIDE \notin Symbols
  BY AlphabetAssumption DEF Symbols, NUL, OUTSIDE, Blank, Escape, Quotes, Marks
<1> QED BY <1>2, <1>3, <1>4

\* A name of c symbols behind the $ at k, and a symbol in a name.
NameAt(t, k, c) ==
    /\ k + c <= Len(t)
    /\ \A j \in k + 1 .. k + c : t[j] \in Words
    /\ k + c < Len(t) => t[k + c + 1] \notin NameSymbols

InName(t, k) == \E i \in 1 .. k - 1 : t[i] = "$" /\ \A m \in i + 1 .. k : t[m] \in Words

\* The words behind a $.
Behind(t, i) == {j \in i + 1 .. Len(t) : \A m \in i + 1 .. j : t[m] \in Words}

\* They are the name.
LEMMA BehindIs ==
  ASSUME NEW t \in Seq(Symbols), NEW k \in 1 .. Len(t), NEW c \in 1 .. NAME_LIMIT, NameAt(t, k, c)
  PROVE  Behind(t, k) = k + 1 .. k + c /\ Cardinality(Behind(t, k)) = c
<1>1. Len(t) \in Nat /\ k \in Nat /\ c \in Nat /\ c >= 1 /\ k + c <= Len(t)
  BY UserShellAssumption DEF NameAt
<1>2. ASSUME NEW j \in k + 1 .. k + c PROVE j \in Behind(t, k)
  BY <1>1 DEF Behind, NameAt
<1>3. ASSUME NEW j \in Behind(t, k) PROVE j \in k + 1 .. k + c
  <2>1. j \in k + 1 .. Len(t) /\ \A m \in k + 1 .. j : t[m] \in Words
    BY DEF Behind
  <2>2. CASE j > k + c
    <3>1. k + c + 1 \in k + 1 .. j /\ k + c < Len(t)
      BY <1>1, <2>1, <2>2
    <3>2. t[k + c + 1] \in Words
      BY <2>1, <3>1
    <3> QED BY <3>1, <3>2 DEF NameAt, NameSymbols
  <2> QED BY <1>1, <2>1, <2>2
<1>4. Behind(t, k) = k + 1 .. k + c
  BY <1>2, <1>3
<1>5. Cardinality(k + 1 .. k + c) = c
  <2>1. Cardinality(k + 1 .. k + c) = IF k + 1 > k + c THEN 0 ELSE (k + c) - (k + 1) + 1
    BY <1>1, FS_Interval
  <2> QED BY <1>1, <2>1
<1> QED BY <1>4, <1>5

\* The value of what stands at a place.
LEMMA ValueIs ==
  ASSUME NEW t \in Seq(Symbols), NEW env, NEW st, NEW k \in 1 .. Len(t)
  PROVE  /\ t[k] = "$" => Value(env, t, k, st)
                            = env_get(env, st, [n \in 1 .. Cardinality(Behind(t, k)) |-> t[k + n]])
         /\ t[k] # "$" /\ InName(t, k) => Value(env, t, k, st) = << >>
         /\ t[k] # "$" /\ ~InName(t, k) => Value(env, t, k, st) = <<t[k]>>
<1>1. t[k] = "$" => Value(env, t, k, st)
                            = env_get(env, st, [n \in 1 .. Cardinality(Behind(t, k)) |-> t[k + n]])
  BY Zenon DEF Value, Behind
<1>2. (\E i \in 1 .. k - 1 : t[i] = "$" /\ k \in Behind(t, i)) <=> InName(t, k)
  BY DEF Behind, InName
<1>3. t[k] # "$" => Value(env, t, k, st) =
        IF \E i \in 1 .. k - 1 : t[i] = "$" /\ k \in Behind(t, i) THEN << >> ELSE <<t[k]>>
  BY Zenon DEF Value, Behind
<1> QED BY <1>1, <1>2, <1>3

\* Words are none of the other symbols.
LEMMA WordsApart ==
  /\ "$" \notin Words /\ "{" \notin Words /\ NUL \notin Words /\ NUL \notin NameSymbols
BY AlphabetAssumption DEF NUL, Marks, NameSymbols

\* The name behind a $ is what expand_vars looks up.
LEMMA NameRun ==
  ASSUME NEW src, NEW t, Holding(src, t), NEW si \in 0 .. Len(t) - 1,
         NEW c \in 1 .. NAME_LIMIT, NameAt(t, si + 1, c)
  PROVE  RunEnd(src, si + 1, NameSymbols) = si + 1 + c
<1> DEFINE r == RunEnd(src, si + 1, NameSymbols)
<1>1. t \in Seq(Symbols) /\ Len(t) \in Nat /\ NAME_LIMIT \in Nat
  BY UserShellAssumption DEF Holding
<1>2. c \in Nat /\ si \in Nat /\ c <= NAME_LIMIT /\ si + 1 + c <= Len(t)
  BY <1>1 DEF NameAt
<1>3. /\ r \in si + 1 .. si + 1 + NAME_LIMIT
      /\ r = si + 1 + NAME_LIMIT \/ Sym(src, r) \notin NameSymbols
      /\ \A j \in si + 1 .. r - 1 : Sym(src, j) \in NameSymbols
  <2>1. si + 1 \in Nat
    BY <1>2
  <2> QED BY <2>1, RunEndIs
<1> HIDE DEF r
<1>4. ASSUME NEW j \in si + 1 .. si + c PROVE Sym(src, j) \in NameSymbols
  <2>1. j + 1 \in 1 .. Len(t) /\ j + 1 \in si + 1 + 1 .. si + 1 + c /\ (j + 1) - 1 = j
    BY <1>1, <1>2
  <2>2. Sym(src, (j + 1) - 1) = t[j + 1]
    BY <2>1, SymIs
  <2>3. t[j + 1] \in Words
    BY <2>1 DEF NameAt
  <2> QED BY <2>1, <2>2, <2>3 DEF NameSymbols
<1>5. Sym(src, si + 1 + c) \notin NameSymbols
  <2>1. CASE si + 1 + c = Len(t)
    BY <2>1, SymIs, WordsApart
  <2>2. CASE si + 1 + c # Len(t)
    <3>1. si + 1 + c < Len(t) /\ si + 1 + c + 1 \in 1 .. Len(t) /\ (si + 1 + c + 1) - 1 = si + 1 + c
      BY <1>1, <1>2, <2>2
    <3>2. Sym(src, (si + 1 + c + 1) - 1) = t[si + 1 + c + 1]
      BY <3>1, SymIs
    <3> QED BY <3>1, <3>2 DEF NameAt
  <2> QED BY <2>1, <2>2
<1>6. ~(r < si + 1 + c)
  <2> SUFFICES ASSUME r < si + 1 + c PROVE FALSE
    OBVIOUS
  <2>1. r \in si + 1 .. si + c /\ r # si + 1 + NAME_LIMIT
    BY <1>1, <1>2, <1>3
  <2> QED BY <1>3, <1>4, <2>1
<1>7. ~(r > si + 1 + c)
  <2> SUFFICES ASSUME r > si + 1 + c PROVE FALSE
    OBVIOUS
  <2>1. si + 1 + c \in si + 1 .. r - 1
    BY <1>1, <1>2, <1>3
  <2> QED BY <1>3, <1>5, <2>1
<1>8. r \in Nat
  BY <1>1, <1>2, <1>3
<1> QED BY <1>2, <1>6, <1>7, <1>8 DEF r

\* A round on a line with plain variables: the value of what stands there, up to
\* the end of its name.
PlainRound(env, t, st, si, r, m) ==
    /\ m \in si + 1 .. Len(t)
    /\ r.next = m /\ r.checked = TRUE
    /\ r.text = Value(env, t, si + 1, st)
    /\ \A k \in si + 2 .. m : Value(env, t, k, st) = << >>
    /\ m < Len(t) => ~InName(t, m + 1)

\* A round at a $ with a name.
LEMMA RoundName ==
  ASSUME NEW src, NEW t, Holding(src, t), NEW si \in 0 .. Len(t) - 1, NEW env, NEW st,
         NEW c \in 1 .. NAME_LIMIT, NameAt(t, si + 1, c), t[si + 1] = "$"
  PROVE  PlainRound(env, t, st, si, Round(src, si, env, st), si + 1 + c)
<1> DEFINE r == Round(src, si, env, st)
           m == si + 1 + c
           plain == RunEnd(src, si + 1, NameSymbols)
           name == [n \in 1 .. c |-> t[si + 1 + n]]
           v == env_get(env, st, name)
<1>1. t \in Seq(Symbols) /\ Len(t) \in Nat /\ NAME_LIMIT \in Nat
  BY UserShellAssumption DEF Holding
<1>2. c \in Nat /\ c >= 1 /\ si \in Nat /\ m <= Len(t) /\ m \in Nat
  BY <1>1 DEF NameAt
<1>3. plain = m
  BY NameRun
<1>4. Sym(src, si) = "$" /\ Sym(src, si + 1) \in Words
  <2>1. si + 1 \in 1 .. Len(t) /\ si + 2 \in 1 .. Len(t) /\ si + 2 \in si + 1 + 1 .. si + 1 + c
        /\ (si + 1) - 1 = si /\ (si + 2) - 1 = si + 1
    BY <1>1, <1>2
  <2>2. Sym(src, (si + 1) - 1) = t[si + 1] /\ Sym(src, (si + 2) - 1) = t[si + 2]
    BY <2>1, SymIs
  <2>3. t[si + 2] \in Words
    BY <2>1 DEF NameAt
  <2> QED BY <2>1, <2>2, <2>3
<1>5. Piece(src, si + 1, m) = name
  <2>1. m - (si + 1) = c
    BY <1>2
  <2>2. ASSUME NEW k \in 1 .. c PROVE src[si + 1 + k - 1] = t[si + 1 + k]
    <3>1. si + 1 + k \in 1 .. Len(t) /\ (si + 1 + k) - 1 = si + 1 + k - 1
      BY <1>1, <1>2
    <3> QED BY <3>1 DEF Holding
  <2> QED BY <2>1, <2>2 DEF Piece
<1>6. r = [text |-> v, checked |-> TRUE, next |-> m]
  <2>1. Sym(src, si + 1) # "{"
    BY <1>4, WordsApart
  <2>2. plain # si + 1
    BY <1>2, <1>3
  <2> HIDE DEF m, name
  <2> QED BY <1>3, <1>4, <1>5, <2>1, <2>2 DEF Round
<1>7. r.next = m /\ r.checked = TRUE /\ r.text = v
  <2> HIDE DEF r, v, m
  <2> QED BY <1>6
<1>8. Value(env, t, si + 1, st) = v
  <2>1. si + 1 \in 1 .. Len(t)
    BY <1>1, <1>2
  <2>2. Cardinality(Behind(t, si + 1)) = c
    BY <1>1, <2>1, BehindIs
  <2>3. Value(env, t, si + 1, st)
          = env_get(env, st, [n \in 1 .. Cardinality(Behind(t, si + 1)) |-> t[si + 1 + n]])
    BY <1>1, <2>1, ValueIs
  <2> QED BY <2>2, <2>3
<1>9. ASSUME NEW k \in si + 2 .. m PROVE Value(env, t, k, st) = << >>
  <2>1. k \in 1 .. Len(t) /\ k \in si + 1 + 1 .. si + 1 + c /\ k \in Nat
    BY <1>1, <1>2
  <2>2. t[k] # "$"
    BY <2>1, WordsApart DEF NameAt
  <2>3. InName(t, k)
    <3>1. si + 1 \in 1 .. k - 1
      BY <1>2, <2>1
    <3>2. \A j \in si + 1 + 1 .. k : t[j] \in Words
      BY <1>2, <2>1 DEF NameAt
    <3> QED BY <3>1, <3>2 DEF InName
  <2> QED BY <1>1, <2>1, <2>2, <2>3, ValueIs
<1>10. m < Len(t) => ~InName(t, m + 1)
  <2> SUFFICES ASSUME m < Len(t), InName(t, m + 1) PROVE FALSE
    OBVIOUS
  <2>1. t[m + 1] \notin Words
    BY DEF NameAt, NameSymbols
  <2>2. PICK i \in 1 .. (m + 1) - 1 : \A j \in i + 1 .. m + 1 : t[j] \in Words
    BY DEF InName
  <2>3. m + 1 \in i + 1 .. m + 1
    BY <1>2
  <2> QED BY <2>1, <2>2, <2>3
<1>11. m \in si + 1 .. Len(t)
  BY <1>1, <1>2
<1> HIDE DEF r, m, v
<1> QED BY <1>7, <1>8, <1>9, <1>10, <1>11 DEF PlainRound, r, m

\* Every round on such a line.
LEMMA RoundPlain ==
  ASSUME NEW src, NEW t, Holding(src, t), PlainLine(t), NEW si \in 0 .. Len(t) - 1,
         ~InName(t, si + 1), NEW env, NEW st
  PROVE  \E m : PlainRound(env, t, st, si, Round(src, si, env, st), m)
<1>1. t \in Seq(Symbols) /\ Len(t) \in Nat /\ si \in Nat /\ si + 1 \in 1 .. Len(t) /\ (si + 1) - 1 = si
  BY DEF Holding
<1>2. CASE t[si + 1] = "$"
  <2>1. PICK c \in 1 .. NAME_LIMIT : NameAt(t, si + 1, c)
    <3>1. si + 1 \in DOMAIN t
      BY <1>1
    <3> QED BY <1>2, <3>1 DEF PlainLine, NameAt
  <2> QED BY <1>2, <2>1, RoundName
<1>3. CASE t[si + 1] # "$"
  <2> DEFINE r == Round(src, si, env, st)
             m == si + 1
  <2>1. Sym(src, si) = t[si + 1]
    <3>1. Sym(src, (si + 1) - 1) = t[si + 1]
      BY <1>1, SymIs
    <3> QED BY <1>1, <3>1
  <2>2. r = [text |-> <<t[si + 1]>>, checked |-> TRUE, next |-> m]
    BY <1>3, <2>1 DEF Round
  <2>3. Value(env, t, si + 1, st) = <<t[si + 1]>>
    BY <1>1, <1>3, ValueIs
  <2>4. r.next = m /\ r.checked = TRUE /\ r.text = <<t[si + 1]>>
    <3> HIDE DEF r, m
    <3> QED BY <2>2
  <2>5. m < Len(t) => ~InName(t, m + 1)
    <3> SUFFICES ASSUME m < Len(t), InName(t, m + 1) PROVE FALSE
      OBVIOUS
    <3>1. PICK i \in 1 .. (m + 1) - 1 : t[i] = "$" /\ \A j \in i + 1 .. m + 1 : t[j] \in Words
      BY DEF InName
    <3>2. i # si + 1
      BY <1>3, <3>1
    <3>3. i \in 1 .. (si + 1) - 1 /\ \A j \in i + 1 .. si + 1 : t[j] \in Words
      BY <1>1, <3>1, <3>2
    <3> QED BY <3>1, <3>3 DEF InName
  <2>6. m \in si + 1 .. Len(t) /\ si + 2 .. m = {}
    BY <1>1
  <2> HIDE DEF r, m
  <2>7. PlainRound(env, t, st, si, r, m)
    BY <2>3, <2>4, <2>5, <2>6 DEF PlainRound
  <2> QED BY <2>7 DEF r
<1> QED BY <1>2, <1>3

\* What a line with plain variables stands for: no quotes, and nothing escaped.
Tame == (Symbols \ ({Escape} \cup Quotes)) \cup Shows

\* It is made of cells, and values of variables are of that kind.
LEMMA TameIs ==
  /\ \A x \in Tame : x \in Cells /\ x # Escape /\ x \notin Quotes
  /\ \A w \in Seq(Tame) : w \in Seq(Cells)
  /\ \A w \in Seq(Shows) : w \in Seq(Tame)
<1>1. ASSUME NEW x \in Tame PROVE x \in Cells /\ x # Escape /\ x \notin Quotes
  BY DEF Tame, Cells, Escape, Quotes, Shows, Blank
<1>2. Shows \subseteq Tame
  BY DEF Tame
<1> QED BY <1>1, <1>2

\* So is the value of every place of such a line.
LEMMA ValueTame ==
  ASSUME NEW t \in Seq(Symbols), PlainLine(t), NEW env \in Seq(Variables), NEW st, NEW k \in 1 .. Len(t)
  PROVE  Value(env, t, k, st) \in Seq(Tame)
<1>1. t[k] \in Tame
  <2>1. k \in DOMAIN t /\ t[k] \in Symbols
    OBVIOUS
  <2> QED BY <2>1 DEF PlainLine, Tame
<1>2. CASE t[k] = "$"
  <2> DEFINE name == [n \in 1 .. Cardinality(Behind(t, k)) |-> t[k + n]]
  <2>1. Value(env, t, k, st) = env_get(env, st, name)
    BY <1>2, ValueIs
  <2> HIDE DEF name
  <2>2. env_get(env, st, name) \in Seq(Shows)
    BY GetIs
  <2> QED BY <2>1, <2>2, TameIs
<1>3. CASE t[k] # "$"
  <2>1. << >> \in Seq(Tame) /\ <<t[k]>> \in Seq(Tame)
    BY <1>1
  <2> QED BY <1>3, <2>1, ValueIs
<1> QED BY <1>2, <1>3

\* A walk over n pieces.
Walk(T, n, q, j) ==
    /\ \A k \in 0 .. n : j[k] \in Seq(T)
    /\ \A k \in 1 .. n : q[k] \in Seq(T)
    /\ \A k \in 0 .. n - 1 : j[k + 1] = j[k] \o q[k + 1]

GoesOn(T, a, b) == \E u \in Seq(T) : b = a \o u

\* The part of a walk that comes behind k pieces.
LEMMA JoinRest ==
  ASSUME NEW T, NEW n \in Nat, NEW j, NEW q, Walk(T, n, q, j), NEW k \in 0 .. n
  PROVE  GoesOn(T, j[k], j[n])
<1> USE DEF Walk
<1> DEFINE Good == {d \in Nat : \A i \in 0 .. n : i + d = n => \E u \in Seq(T) : j[n] = j[i] \o u}
<1>1. 0 \in Good
  <2> SUFFICES ASSUME NEW i \in 0 .. n, i + 0 = n PROVE \E u \in Seq(T) : j[n] = j[i] \o u
    OBVIOUS
  <2>1. i = n /\ j[n] \in Seq(T) /\ << >> \in Seq(T)
    OBVIOUS
  <2>2. j[n] = j[n] \o << >>
    BY <2>1, Lists!JoinNone
  <2> QED BY <2>1, <2>2
<1>2. ASSUME NEW d \in Nat, d \in Good PROVE d + 1 \in Good
  <2> SUFFICES ASSUME NEW i \in 0 .. n, i + (d + 1) = n PROVE \E u \in Seq(T) : j[n] = j[i] \o u
    OBVIOUS
  <2>1. i \in 0 .. n - 1 /\ i + 1 \in 0 .. n /\ i + 1 \in 1 .. n /\ (i + 1) + d = n
    OBVIOUS
  <2>2. PICK u \in Seq(T) : j[n] = j[i + 1] \o u
    BY <1>2, <2>1
  <2>3. j[i + 1] = j[i] \o q[i + 1] /\ q[i + 1] \in Seq(T) /\ j[i] \in Seq(T)
    BY <2>1
  <2>4. (j[i] \o q[i + 1]) \o u = j[i] \o (q[i + 1] \o u)
    <3> DEFINE a == j[i]
               b == q[i + 1]
    <3>1. a \in Seq(T) /\ b \in Seq(T)
      BY <2>3
    <3> HIDE DEF a, b
    <3>2. (a \o b) \o u = a \o (b \o u)
      BY <3>1, Lists!JoinThree, SMTT(60)
    <3> QED BY <3>2 DEF a, b
  <2>5. q[i + 1] \o u \in Seq(T)
    BY <2>3
  <2> QED BY <2>2, <2>3, <2>4, <2>5
<1> HIDE DEF Good
<1>3. Nat \subseteq Good
  BY <1>1, <1>2, Lists!NatSet
<1>4. n - k \in Good /\ k + (n - k) = n
  BY <1>3
<1> QED BY <1>4 DEF Good, GoesOn

\* The pieces behind a, up to m, are nothing.
NoPieces(q, a, m) == \A k \in a + 1 .. m : q[k] = << >>

\* They add nothing.
LEMMA JoinStays ==
  ASSUME NEW T, NEW n \in Nat, NEW j, NEW q, Walk(T, n, q, j),
         NEW a \in 0 .. n, NEW m \in a .. n, NoPieces(q, a, m)
  PROVE  j[m] = j[a]
<1> USE DEF Walk, NoPieces
<1> DEFINE Good == {d \in Nat : a + d <= m => j[a + d] = j[a]}
<1>0. a \in Nat /\ m \in Nat
  OBVIOUS
<1>1. 0 \in Good
  BY <1>0
<1>2. ASSUME NEW d \in Nat, d \in Good PROVE d + 1 \in Good
  <2> SUFFICES ASSUME a + (d + 1) <= m PROVE j[a + (d + 1)] = j[a]
    OBVIOUS
  <2>1. a + d \in 0 .. n - 1 /\ a + d + 1 \in a + 1 .. m /\ a + (d + 1) = a + d + 1 /\ a + d \in 0 .. n
        /\ a + d <= m
    BY <1>0
  <2>2. j[a + d + 1] = j[a + d] \o << >>
    BY <2>1
  <2>3. j[a + d] \o << >> = j[a + d]
    BY <2>1, Lists!JoinNone
  <2> QED BY <1>2, <2>1, <2>2, <2>3
<1> HIDE DEF Good
<1>3. Nat \subseteq Good
  BY <1>1, <1>2, Lists!NatSet
<1>4. m - a \in Good /\ a + (m - a) = m /\ m <= m
  BY <1>0, <1>3
<1> QED BY <1>4 DEF Good

\* A place where a round of expand_vars starts, in a line with plain variables.
Bound(t, si) == si \in 0 .. Len(t) /\ (si < Len(t) => ~InName(t, si + 1))

\* What expand_vars yields from there on: nothing outside, and, if it fits, what the
\* rest of the line stands for.
Calm(v) == v.outside = FALSE

Yields(v, j, si, di, n) ==
    /\ Calm(v)
    /\ di = Len(j[si]) /\ Len(j[n]) <= LINE_MAX - 1 => j[si] \o v.text = j[n]

\* The end of the expansion.
LEMMA YieldsEnd ==
  ASSUME NEW src, NEW t, Holding(src, t), NEW env, NEW st,
         NEW si \in 0 .. Len(t), NEW di \in 0 .. LINE_MAX - 1, Halts(src, Mark(si, di)),
         NEW f, NEW v, v = Expands(f, src, env, st, Mark(si, di))
  PROVE  Calm(v) /\ v.text = << >> /\ (di = LINE_MAX - 1 \/ si = Len(t))
<1> DEFINE at == Mark(si, di)
<1>1. at.si = si /\ at.di = di /\ LINE_MAX \in Nat \ {0} /\ Len(t) \in Nat
  BY Constants DEF Mark, Holding
<1>2. CASE di >= LINE_MAX - 1
  <2>1. v = [text |-> << >>, outside |-> di >= LINE_MAX]
    BY <1>1, <1>2, Zenon DEF Expands
  <2>2. (di >= LINE_MAX) = FALSE /\ di = LINE_MAX - 1
    BY <1>1, <1>2
  <2>3. v = [text |-> << >>, outside |-> FALSE]
    BY <2>1, <2>2, Zenon
  <2> QED BY <2>2, <2>3 DEF Calm
<1>3. CASE ~(di >= LINE_MAX - 1)
  <2>1. Sym(src, si) \in {NUL, OUTSIDE}
    BY <1>1, <1>3, Zenon DEF Halts
  <2>2. si = Len(t)
    <3> SUFFICES ASSUME si # Len(t) PROVE FALSE
      OBVIOUS
    <3>1. si + 1 \in 1 .. Len(t) /\ (si + 1) - 1 = si
      BY <1>1
    <3>2. Sym(src, (si + 1) - 1) = t[si + 1] /\ t[si + 1] \notin {NUL, OUTSIDE}
      BY <3>1, SymIs
    <3> QED BY <2>1, <3>1, <3>2
  <2>3. v = [text |-> << >>, outside |-> Sym(src, si) = OUTSIDE]
    BY <1>1, <1>3, <2>1, Zenon DEF Expands
  <2>4. (Sym(src, si) = OUTSIDE) = FALSE
    BY <2>2, SymIs DEF NUL, OUTSIDE
  <2>5. v = [text |-> << >>, outside |-> FALSE]
    BY <2>3, <2>4, Zenon
  <2> QED BY <2>2, <2>5 DEF Calm
<1> QED BY <1>2, <1>3

\* What a round that is looked at adds.
LEMMA CutFits ==
  ASSUME NEW r, r.text \in Seq(Cells), r.checked = TRUE, NEW room \in Nat, NEW w, w = Cut(r, room)
  PROVE  Len(w) <= room /\ Len(w) \in Nat /\ (Len(r.text) <= room => w = r.text)
<1>1. CASE Len(r.text) > room
  <2>1. w = SubSeq(r.text, 1, room)
    BY <1>1, Zenon DEF Cut
  <2> QED BY <1>1, <2>1
<1>2. CASE ~(Len(r.text) > room)
  <2>1. w = r.text
    BY <1>2, Zenon DEF Cut
  <2> QED BY <1>2, <2>1
<1> QED BY <1>1, <1>2

\* The two parts of what a round yields.
LEMMA BeforeIs ==
  ASSUME NEW w, NEW x
  PROVE  Before(w, x).text = w \o x.text /\ Before(w, x).outside = x.outside
BY DEF Before

\* One round more.
LEMMA YieldsOn ==
  ASSUME NEW src, NEW t, Holding(src, t), PlainLine(t), NEW env \in Seq(Variables), NEW st,
         NEW q, q = [k \in 1 .. Len(t) |-> Value(env, t, k, st)], NEW j, Walk(Cells, Len(t), q, j),
         NEW f, \A s \in Marked : f[s] = Expands(f, src, env, st, s) /\ f[s].text \in Seq(Cells),
         NEW si, Bound(t, si), NEW di \in 0 .. LINE_MAX - 1, ~Halts(src, Mark(si, di)),
         \A m \in 0 .. Len(t), d \in 0 .. LINE_MAX - 1 :
             m > si /\ Bound(t, m) => Yields(f[Mark(m, d)], j, m, d, Len(t))
  PROVE  Yields(f[Mark(si, di)], j, si, di, Len(t))
<1> DEFINE n == Len(t)
           at == Mark(si, di)
           r == Round(src, si, env, st)
           u == Goes(src, env, st, at)
           w == Adds(src, env, st, at)
           room == LINE_MAX - 1 - di
<1>1. n \in Nat /\ LINE_MAX \in Nat \ {0} /\ di \in Nat /\ room \in Nat /\ src \in [Index -> Cells]
      /\ n <= LINE_MAX - 1
  BY Constants DEF Holding
<1>2. si \in 0 .. n - 1 /\ ~InName(t, si + 1) /\ si \in Nat
  <2>1. si \in 0 .. n /\ (si < n => ~InName(t, si + 1))
    BY DEF Bound
  <2>2. si # n
    <3> SUFFICES ASSUME si = n PROVE FALSE
      OBVIOUS
    <3>1. Sym(src, si) = NUL
      BY SymIs
    <3> QED BY <3>1 DEF Halts, Mark
  <2> QED BY <1>1, <2>1, <2>2
<1>3. at \in Marked /\ at.si = si /\ at.di = di
  BY <1>1, <1>2 DEF Mark, Marked
<1>4. PICK m : PlainRound(env, t, st, si, r, m)
  BY <1>2, RoundPlain
<1>5. w = Cut(r, room) /\ u = Mark(m, di + Len(w))
  <2>1. w = Cut(r, room)
    BY <1>3 DEF Adds
  <2>2. r.next = m
    BY <1>4, Zenon DEF PlainRound
  <2> QED BY <1>3, <2>1, <2>2 DEF Goes
<1>6. u \in Marked /\ w \in Seq(Cells) /\ f[at] = Before(w, f[u])
  <2>1. u \in Marked /\ w \in Seq(Cells) /\ \A h : Expands(h, src, env, st, at) = Before(w, h[u])
    BY <1>1, <1>3, ExpandOn, SMTT(60)
  <2> HIDE DEF at, u, w
  <2> QED BY <1>3, <2>1
<1>7. /\ m \in si + 1 .. n /\ r.checked = TRUE /\ r.text = q[si + 1]
      /\ \A k \in si + 2 .. m : q[k] = << >>
      /\ m < n => ~InName(t, m + 1)
  <2>1. si + 1 \in 1 .. n /\ \A k \in si + 2 .. n : k \in 1 .. n
    BY <1>1, <1>2
  <2>2. m \in si + 1 .. n /\ r.checked = TRUE /\ (m < n => ~InName(t, m + 1))
        /\ r.text = Value(env, t, si + 1, st)
        /\ \A k \in si + 2 .. m : Value(env, t, k, st) = << >>
    BY <1>4, Zenon DEF PlainRound
  <2>3. \A k \in si + 2 .. m : k \in si + 2 .. n
    BY <1>1, <1>2, <2>2
  <2> HIDE DEF r
  <2> QED BY <2>1, <2>2, <2>3
<1>8. q[si + 1] \in Seq(Cells)
  <2>1. si + 1 \in 1 .. n
    BY <1>1, <1>2
  <2> QED BY <2>1 DEF Walk
<1> HIDE DEF u, w, at
<1>10. j[m] = j[si] \o q[si + 1]
  <2>1. si + 1 \in 0 .. n /\ m \in si + 1 .. n /\ si + 2 = si + 1 + 1 /\ si \in 0 .. n - 1
    BY <1>1, <1>2, <1>7
  <2>2. j[m] = j[si + 1]
    <3> DEFINE a == si + 1
    <3>1. a \in 0 .. n /\ m \in a .. n /\ \A k \in a + 1 .. m : q[k] = << >>
      BY <1>7, <2>1
    <3> HIDE DEF a
    <3>3. NoPieces(q, a, m)
      BY <3>1 DEF NoPieces
    <3>2. j[m] = j[a]
      BY <1>1, <3>1, <3>3, JoinStays
    <3> QED BY <3>2 DEF a
  <2> QED BY <2>1, <2>2 DEF Walk
<1>11. Len(w) <= room /\ Len(w) \in Nat /\ (Len(q[si + 1]) <= room => w = q[si + 1])
  <2>1. r.text \in Seq(Cells) /\ r.checked = TRUE /\ r.text = q[si + 1]
    BY <1>7, <1>8
  <2> HIDE DEF r, room
  <2> QED BY <1>1, <1>5, <2>1, CutFits
<1> DEFINE d == di + Len(w)
<1>12. Yields(f[u], j, m, d, n)
  <2>1. d \in 0 .. LINE_MAX - 1 /\ m \in 0 .. n /\ m > si
    BY <1>1, <1>2, <1>7, <1>11
  <2>2. Bound(t, m)
    BY <1>7, <2>1 DEF Bound
  <2> HIDE DEF d
  <2>3. Yields(f[Mark(m, d)], j, m, d, n)
    BY <2>1, <2>2, Zenon
  <2> QED BY <1>5, <2>3, Zenon DEF d
<1>13. Calm(f[at])
  <2>1. f[at].outside = f[u].outside
    <3>1. Before(w, f[u]).outside = f[u].outside
      BY BeforeIs
    <3> QED BY <1>6, <3>1, Zenon
  <2> QED BY <1>12, <2>1, Zenon DEF Yields, Calm
<1>14. ASSUME di = Len(j[si]), Len(j[n]) <= LINE_MAX - 1
       PROVE  j[si] \o f[at].text = j[n]
  <2> DEFINE a == j[si]
             b == q[si + 1]
             e == j[m]
             z == f[u].text
  <2>1. m \in 0 .. n /\ si \in 0 .. n /\ si + 1 \in 1 .. n
    BY <1>1, <1>2, <1>7
  <2>2. a \in Seq(Cells) /\ b \in Seq(Cells) /\ e \in Seq(Cells) /\ z \in Seq(Cells) /\ j[n] \in Seq(Cells)
    <3>1. z \in Seq(Cells)
      BY <1>6
    <3>2. n \in 0 .. n
      BY <1>1
    <3> QED BY <1>8, <2>1, <3>1, <3>2 DEF Walk
  <2>13. GoesOn(Cells, e, j[n])
    BY <1>1, <2>1, JoinRest
  <2>3. PICK x \in Seq(Cells) : j[n] = e \o x
    BY <2>13, Zenon DEF GoesOn
  <2>4. f[at].text = w \o z
    <3>1. Before(w, f[u]).text = w \o f[u].text
      BY BeforeIs
    <3> QED BY <1>6, <3>1, Zenon
  <2> HIDE DEF a, b, e, z
  <2>5. e = a \o b
    BY <1>10 DEF a, b, e
  <2>6. Len(e) = Len(a) + Len(b) /\ Len(j[n]) = Len(e) + Len(x) /\ Len(x) \in Nat /\ Len(b) \in Nat
        /\ Len(a) \in Nat
    BY <2>2, <2>3, <2>5
  <2>7. Len(b) <= room
    BY <1>1, <1>14, <2>6 DEF a
  <2>8. w = b
    BY <1>11, <2>7 DEF b
  <2>9. d = Len(e)
    BY <1>14, <2>6, <2>8 DEF a
  <2>10. e \o z = j[n]
    <3> HIDE DEF d
    <3> QED BY <1>12, <1>14, <2>9, Zenon DEF Yields, e, z
  <2>11. (a \o b) \o z = a \o (b \o z)
    <3>1. a \in Seq(Cells) /\ b \in Seq(Cells) /\ z \in Seq(Cells)
      BY <2>2
    <3> QED BY <3>1, Lists!JoinThree, SMTT(60)
  <2>12. a \o (w \o z) = j[n]
    BY <2>5, <2>8, <2>10, <2>11
  <2> QED BY <2>4, <2>12, Zenon DEF a
<1> QED BY <1>13, <1>14, Zenon DEF Yields, at

\* expand_vars on a line with plain variables.
LEMMA ExpandPlain ==
  ASSUME NEW src, NEW t, Holding(src, t), PlainLine(t), NEW env \in Seq(Variables), NEW st,
         NEW q, q = [k \in 1 .. Len(t) |-> Value(env, t, k, st)], NEW j, Walk(Cells, Len(t), q, j),
         j[0] = << >>, NEW e, e = expand_vars(src, env, st)
  PROVE  Calm(e) /\ (Len(j[Len(t)]) <= LINE_MAX - 1 => e.text = j[Len(t)])
<1> DEFINE n == Len(t)
<1>1. n \in Nat /\ LINE_MAX \in Nat \ {0} /\ src \in [Index -> Cells] /\ n <= LINE_MAX - 1
  BY Constants DEF Holding
<1>2. PICK f : /\ \A s \in Marked : f[s] = Expands(f, src, env, st, s)
               /\ \A s \in Marked : f[s].text \in Seq(Cells)
               /\ e = f[Mark(0, 0)]
  BY <1>1, ExpandIs
<1> DEFINE Done(si, di) == Yields(f[Mark(si, di)], j, si, di, n)
           Good == {k \in Nat : \A si \in 0 .. n, di \in 0 .. LINE_MAX - 1 :
                                   si + k >= n /\ Bound(t, si) => Done(si, di)}
<1>3. ASSUME NEW si \in 0 .. n, NEW di \in 0 .. LINE_MAX - 1, Halts(src, Mark(si, di))
      PROVE  Done(si, di)
  <2> DEFINE v == f[Mark(si, di)]
  <2>1. Mark(si, di) \in Marked
    BY <1>1 DEF Mark, Marked
  <2>2. v = Expands(f, src, env, st, Mark(si, di))
    BY <1>2, <2>1
  <2> HIDE DEF v
  <2>3. Calm(v) /\ v.text = << >> /\ (di = LINE_MAX - 1 \/ si = n)
    BY <1>3, <2>2, YieldsEnd
  <2>4. ASSUME di = Len(j[si]), Len(j[n]) <= LINE_MAX - 1 PROVE j[si] \o v.text = j[n]
    <3>7. GoesOn(Cells, j[si], j[n])
      BY <1>1, JoinRest
    <3>2. PICK x \in Seq(Cells) : j[n] = j[si] \o x
      BY <3>7, Zenon DEF GoesOn
    <3> DEFINE a == j[si]
               z == j[n]
    <3>3. a \in Seq(Cells) /\ z = a \o x /\ (si = n => a = z) /\ Len(z) <= LINE_MAX - 1 /\ di = Len(a)
      BY <2>4, <3>2 DEF Walk
    <3> HIDE DEF a, z
    <3>4. a \o << >> = a
      BY <3>3, Lists!JoinNone
    <3>5. a = z
      <4>1. CASE si = n
        BY <3>3, <4>1
      <4>2. CASE di = LINE_MAX - 1
        <5>1. Len(z) = Len(a) + Len(x) /\ Len(a) \in Nat /\ Len(x) \in Nat
          BY <3>3
        <5>2. Len(x) = 0
          BY <1>1, <3>3, <4>2, <5>1
        <5>3. x = << >>
          BY <5>2
        <5> QED BY <3>3, <3>4, <5>3
      <4> QED BY <2>3, <4>1, <4>2
    <3> QED BY <2>3, <3>4, <3>5 DEF a, z
  <2> QED BY <2>3, <2>4, Zenon DEF Yields, v
<1>4. ASSUME NEW si \in 0 .. n, NEW di \in 0 .. LINE_MAX - 1, Bound(t, si), ~Halts(src, Mark(si, di)),
             \A m \in 0 .. n, d \in 0 .. LINE_MAX - 1 : m > si /\ Bound(t, m) => Done(m, d)
      PROVE  Done(si, di)
  BY <1>2, <1>4, YieldsOn
<1> HIDE DEF Done
<1>5. 0 \in Good
  <2> SUFFICES ASSUME NEW si \in 0 .. n, NEW di \in 0 .. LINE_MAX - 1, si + 0 >= n PROVE Done(si, di)
    OBVIOUS
  <2>1. si = n
    BY <1>1
  <2>2. Sym(src, si) = NUL /\ Mark(si, di).si = si
    BY <2>1, SymIs DEF Mark
  <2>3. Halts(src, Mark(si, di))
    BY <2>2, Zenon DEF Halts
  <2> QED BY <1>3, <2>3
<1>6. ASSUME NEW k \in Nat, k \in Good PROVE k + 1 \in Good
  <2> SUFFICES ASSUME NEW si \in 0 .. n, NEW di \in 0 .. LINE_MAX - 1, si + (k + 1) >= n, Bound(t, si)
               PROVE  Done(si, di)
    OBVIOUS
  <2>1. \A m \in 0 .. n, d \in 0 .. LINE_MAX - 1 : m > si /\ Bound(t, m) => Done(m, d)
    <3> SUFFICES ASSUME NEW m \in 0 .. n, NEW d \in 0 .. LINE_MAX - 1, m > si, Bound(t, m) PROVE Done(m, d)
      OBVIOUS
    <3>1. m + k >= n
      BY <1>1
    <3> QED BY <1>6, <3>1
  <2> QED BY <1>3, <1>4, <2>1
<1> HIDE DEF Good
<1>7. Nat \subseteq Good
  BY <1>5, <1>6, Lists!NatSet
<1>8. Done(0, 0)
  <2>1. Bound(t, 0)
    <3>1. ~InName(t, 0 + 1)
      BY DEF InName
    <3> QED BY <1>1, <3>1 DEF Bound
  <2>2. n \in Good /\ 0 \in 0 .. n /\ 0 \in 0 .. LINE_MAX - 1 /\ 0 + n >= n
    BY <1>1, <1>7
  <2> QED BY <2>1, <2>2 DEF Good
<1>9. Calm(e) /\ (0 = Len(j[0]) /\ Len(j[n]) <= LINE_MAX - 1 => j[0] \o e.text = j[n])
  BY <1>2, <1>8, Zenon DEF Yields, Done
<1>10. e.text \in Seq(Cells)
  <2>1. Mark(0, 0) \in Marked
    BY DEF Mark, Marked
  <2> QED BY <1>2, <2>1
<1>11. Len(j[0]) = 0 /\ j[0] \o e.text = e.text
  <2> DEFINE x == e.text
  <2> HIDE DEF x
  <2>1. << >> \o x = x
    BY <1>10, Lists!JoinNone DEF x
  <2> QED BY <2>1 DEF x
<1> QED BY <1>9, <1>11

\* Where an argument ends in what a line with plain variables stands for: at the
\* first blank, or at the end.
EndsAt(input, i, e) ==
    /\ e \in i .. Len(input)
    /\ \A k \in i .. e - 1 : input[k + 1] # Blank
    /\ e < Len(input) => input[e + 1] = Blank

\* There are no quotes, so the scan stops at the first blank.
LEMMA TameEnd ==
  ASSUME NEW input \in Seq(Tame), NEW i \in 0 .. Len(input)
  PROVE  EndsAt(input, i, ArgEnd(input, i))
<1> DEFINE n == Len(input)
<1>0. n \in Nat
  OBVIOUS
<1>1. PICK f : /\ \A s \in Spots : f[s] = Scans(f, input, s)
               /\ \A k : ArgEnd(input, k) = f[Spot(k, NUL)]
  BY <1>0, ScanIs
<1> DEFINE Good == {d \in Nat : \A k \in 0 .. n : k + d >= n => EndsAt(input, k, ArgEnd(input, k))}
<1>2. ASSUME NEW k \in 0 .. n
      PROVE  /\ k = n => ArgEnd(input, k) = n
             /\ k < n /\ input[k + 1] = Blank => ArgEnd(input, k) = k
             /\ k < n /\ input[k + 1] # Blank => ArgEnd(input, k) = ArgEnd(input, k + 1)
  <2> DEFINE s == Spot(k, NUL)
             c == input[k + 1]
  <2>1. s \in Spots /\ s.j = k /\ s.quote = NUL
    BY <1>0 DEF Spot, Spots
  <2>2. ArgEnd(input, k) = Scans(f, input, s) /\ ArgEnd(input, k + 1) = f[Spot(k + 1, NUL)]
    BY <1>1, <2>1
  <2>3. CASE k = n
    <3>1. k >= Len(input)
      BY <1>0, <2>3
    <3> HIDE DEF s
    <3>2. Scans(f, input, s) = Len(input)
      BY <2>1, <3>1, Zenon DEF Scans
    <3> QED BY <1>0, <2>2, <2>3, <3>2
  <2>4. CASE k < n
    <3>1. ~(k >= Len(input)) /\ c # Escape /\ c \notin Quotes /\ k # n
      <4>1. k + 1 \in 1 .. n
        BY <1>0, <2>4
      <4>2. c \in Tame
        BY <4>1
      <4> HIDE DEF c
      <4> QED BY <1>0, <2>4, <4>2, TameIs
    <3>2. Scans(f, input, s) = IF c = Blank THEN k ELSE f[Spot(k + 1, NUL)]
      <4> HIDE DEF s, c
      <4> QED BY <2>1, <3>1 DEF Scans, c
    <3> HIDE DEF s, c
    <3> QED BY <2>2, <2>4, <3>1, <3>2 DEF c
  <2> QED BY <1>0, <2>3, <2>4
<1>3. 0 \in Good
  <2> SUFFICES ASSUME NEW k \in 0 .. n, k + 0 >= n PROVE EndsAt(input, k, ArgEnd(input, k))
    OBVIOUS
  <2>1. k = n /\ ArgEnd(input, k) = n
    BY <1>0, <1>2
  <2> QED BY <1>0, <2>1 DEF EndsAt
<1>4. ASSUME NEW d \in Nat, d \in Good PROVE d + 1 \in Good
  <2> SUFFICES ASSUME NEW k \in 0 .. n, k + (d + 1) >= n PROVE EndsAt(input, k, ArgEnd(input, k))
    OBVIOUS
  <2>1. CASE k = n
    <3>1. ArgEnd(input, k) = n
      BY <1>2, <2>1
    <3> QED BY <1>0, <2>1, <3>1 DEF EndsAt
  <2>2. CASE k < n /\ input[k + 1] = Blank
    <3>1. ArgEnd(input, k) = k
      BY <1>2, <2>2
    <3> QED BY <1>0, <2>2, <3>1 DEF EndsAt
  <2>3. CASE k < n /\ input[k + 1] # Blank
    <3> DEFINE e == ArgEnd(input, k + 1)
    <3>1. ArgEnd(input, k) = e
      BY <1>2, <2>3
    <3>2. k + 1 \in 0 .. n /\ (k + 1) + d >= n
      BY <1>0, <2>3
    <3>3. EndsAt(input, k + 1, e)
      BY <1>4, <3>2
    <3> HIDE DEF e
    <3>4. EndsAt(input, k, e)
      <4>1. /\ e \in k + 1 .. n /\ (e < n => input[e + 1] = Blank)
            /\ \A m \in k + 1 .. e - 1 : input[m + 1] # Blank
        BY <3>3 DEF EndsAt
      <4>2. ASSUME NEW m \in k .. e - 1 PROVE input[m + 1] # Blank
        <5>1. CASE m = k
          BY <2>3, <5>1
        <5>2. CASE m # k
          <6>1. m \in k + 1 .. e - 1
            BY <1>0, <4>1, <5>2
          <6> QED BY <4>1, <6>1
        <5> QED BY <5>1, <5>2
      <4>3. e \in k .. n
        BY <1>0, <4>1
      <4> QED BY <4>1, <4>2, <4>3 DEF EndsAt
    <3> QED BY <3>1, <3>4
  <2> QED BY <1>0, <2>1, <2>2, <2>3
<1> HIDE DEF Good
<1>5. Nat \subseteq Good
  BY <1>3, <1>4, Lists!NatSet
<1>6. n \in Good /\ i + n >= n
  BY <1>0, <1>5
<1> QED BY <1>6 DEF Good

\* The least element, by what it is.
LEMMA LeastIs ==
  ASSUME NEW C \in SUBSET Nat, NEW x \in C, \A y \in C : x <= y
  PROVE  Min(C) = x
<1>1. Min(C) \in C /\ \A y \in C : Min(C) <= y
  BY LeastOf
<1>2. Min(C) <= x /\ x <= Min(C) /\ Min(C) \in Nat /\ x \in Nat
  BY <1>1
<1> QED BY <1>2

\* The place behind an end that is not the last.
LEMMA Between ==
  ASSUME NEW n \in Nat, NEW a \in Nat, NEW e \in a .. n, e # a, e # n
  PROVE  e + 1 \in 1 .. n /\ e + 1 > a + 1 /\ e < n
OBVIOUS

\* What tokenize makes of it, by the first and the last place of its first word.
Firsts(all) == {i \in DOMAIN all : all[i] # Blank}

Ends(all) == {i \in DOMAIN all : i > Min(Firsts(all)) /\ all[i] = Blank} \cup {Len(all) + 1}

Answers(all, argv) ==
    IF Firsts(all) = {} THEN argv = << >>
    ELSE Min(Ends(all)) <= MAX_ARGS * ARG_WIDTH =>
            argv # << >> /\ argv[1] = SubSeq(all, Min(Firsts(all)), Min(Ends(all)) - 1)

\* tokenize finds the first word.
LEMMA FirstWord ==
  ASSUME NEW all \in Seq(Tame)
  PROVE  Answers(all, tokenize(all))
<1> DEFINE n == Len(all)
           argv == tokenize(all)
           start == Min(Starts(all, 0))
           end == ArgEnd(all, start)
           P == MAX_ARGS * ARG_WIDTH
<1>0. n \in Nat /\ DOMAIN all = 1 .. n
  OBVIOUS
<1>1. P \in Nat
  BY UserShellAssumption
<1> HIDE DEF P
<1>2. CASE Starts(all, 0) = {}
  <2>1. Firsts(all) = {}
    <3> SUFFICES ASSUME NEW i \in Firsts(all) PROVE FALSE
      OBVIOUS
    <3>1. i \in 1 .. n /\ all[i] # Blank
      BY <1>0 DEF Firsts
    <3>2. i - 1 \in 0 .. n - 1 /\ (i - 1) + 1 = i
      BY <1>0, <3>1
    <3> QED BY <1>2, <3>1, <3>2 DEF Starts
  <2>2. argv = << >>
    BY <1>2, TokenizeIs
  <2> QED BY <2>1, <2>2 DEF Answers
<1>3. CASE Starts(all, 0) # {}
  <2>1. start \in 0 .. n - 1 /\ all[start + 1] # Blank /\ \A j \in 0 .. start - 1 : all[j + 1] = Blank
    BY <1>0, <1>3, StartIs
  <2>2. start \in 0 .. n /\ start \in Nat
    BY <1>0, <2>1
  <2>3. EndsAt(all, start, end)
    <3> HIDE DEF start
    <3> QED BY <2>2, TameEnd
  <2>4. end < P => argv = <<SubSeq(all, start + 1, end)>>
    BY <1>3, TokenizeIs DEF P
  <2> HIDE DEF start, end, argv
  <2>5. Firsts(all) # {} /\ Min(Firsts(all)) = start + 1
    <3> DEFINE C == Firsts(all)
    <3>1. start + 1 \in C /\ C \in SUBSET Nat
      BY <1>0, <2>1 DEF Firsts
    <3>2. ASSUME NEW y \in C PROVE start + 1 <= y
      <4>1. y \in 1 .. n /\ all[y] # Blank
        BY <1>0 DEF Firsts
      <4>2. CASE y < start + 1
        <5>1. y - 1 \in 0 .. start - 1 /\ (y - 1) + 1 = y
          BY <2>2, <4>1, <4>2
        <5> QED BY <2>1, <4>1, <5>1
      <4> QED BY <2>2, <4>1, <4>2
    <3> HIDE DEF C
    <3> QED BY <3>1, <3>2, LeastIs DEF C
  <2>6. /\ end \in start .. n /\ (end < n => all[end + 1] = Blank)
        /\ \A k \in start .. end - 1 : all[k + 1] # Blank
    BY <2>3 DEF EndsAt
  <2>7. end \in Nat /\ end # start
    BY <1>0, <2>1, <2>2, <2>6
  <2>8. Min(Ends(all)) = end + 1
    <3> DEFINE C == Ends(all)
    <3>1. C = {i \in 1 .. n : i > start + 1 /\ all[i] = Blank} \cup {n + 1}
      BY <1>0, <2>5 DEF Ends
    <3> HIDE DEF C
    <3>2. C \in SUBSET Nat
      BY <1>0, <3>1
    <3>3. end + 1 \in C
      <4>1. CASE end = n
        BY <3>1, <4>1
      <4>2. CASE end # n
        <5>1. end \in start .. n /\ end \in Nat /\ end # start
          BY <2>6, <2>7
        <5>2. end + 1 \in 1 .. n /\ end + 1 > start + 1 /\ end < n
          BY <1>0, <2>2, <4>2, <5>1, Between
        <5> QED BY <2>6, <3>1, <5>2
      <4> QED BY <4>1, <4>2
    <3>4. ASSUME NEW y \in C PROVE end + 1 <= y
      <4>1. CASE y = n + 1
        BY <1>0, <2>6, <2>7, <4>1
      <4>2. CASE y \in 1 .. n /\ y > start + 1 /\ all[y] = Blank
        <5>1. CASE y < end + 1
          <6>1. y - 1 \in start .. end - 1 /\ (y - 1) + 1 = y
            BY <2>2, <2>7, <4>2, <5>1
          <6> QED BY <2>6, <4>2, <6>1
        <5> QED BY <2>7, <4>2, <5>1
      <4> QED BY <3>1, <4>1, <4>2
    <3>5. Min(C) = end + 1
      BY <3>2, <3>3, <3>4, LeastIs
    <3> QED BY <3>5 DEF C
  <2>9. Min(Ends(all)) <= P => end < P /\ Min(Ends(all)) - 1 = end
    BY <1>1, <2>7, <2>8
  <2>10. Min(Ends(all)) <= P =>
            argv # << >> /\ argv[1] = SubSeq(all, Min(Firsts(all)), Min(Ends(all)) - 1)
    <3> DEFINE word == SubSeq(all, Min(Firsts(all)), Min(Ends(all)) - 1)
    <3>1. Min(Ends(all)) <= P => argv = <<word>>
      BY <2>4, <2>5, <2>9
    <3> HIDE DEF word
    <3>2. <<word>> # << >> /\ <<word>>[1] = word
      OBVIOUS
    <3> QED BY <3>1, <3>2, Zenon DEF word
  <2> QED BY <2>5, <2>10, Zenon DEF Answers, P, argv
<1> QED BY <1>2, <1>3

\* What a line stands for.
Stands(env, t, st) == FlattenSeq([k \in DOMAIN t |-> Value(env, t, k, st)])

\* What the shell makes of a line with plain variables.
Fine(env, t, st, argv) ==
    Len(Stands(env, t, st)) < LINE_MAX => Answers(Stands(env, t, st), argv)

\* expand_vars and tokenize on a line with plain variables.
LEMMA LineRight ==
  ASSUME NEW src, NEW t, Holding(src, t), PlainLine(t), NEW env \in Seq(Variables), NEW st,
         NEW e, e = expand_vars(src, env, st)
  PROVE  Calm(e) /\ Fine(env, t, st, tokenize(e.text))
<1> DEFINE n == Len(t)
           q == [k \in 1 .. n |-> Value(env, t, k, st)]
           all == Stands(env, t, st)
<1>0. t \in Seq(Symbols) /\ n \in Nat /\ DOMAIN t = 1 .. n /\ LINE_MAX \in Nat
  BY Constants DEF Holding
<1>1. \A k \in 1 .. n : Value(env, t, k, st) \in Seq(Tame)
  BY <1>0, ValueTame
<1>2. q \in Seq(Seq(Tame)) /\ Len(q) = n
  BY <1>0, <1>1
<1>3. \A k \in 1 .. n : q[k] \in Seq(Tame)
  BY <1>1
<1>4. all = Lists!Flat(q)
  <2>1. all = FlattenSeq(q)
    BY <1>0 DEF Stands
  <2> HIDE DEF q
  <2> QED BY <2>1 DEF FlattenSeq, Lists!Flat
<1>5. q = [k \in 1 .. n |-> Value(env, t, k, st)]
  OBVIOUS
<1> HIDE DEF q, all
<1>6. PICK j : /\ Lists!Joins(q, j) /\ all = j[n]
               /\ \A k \in 0 .. n : j[k] \in Seq(Tame)
  BY <1>2, <1>4, Lists!FlatJoins
<1>7. Walk(Cells, n, q, j) /\ j[0] = << >>
  <2>1. \A k \in 0 .. n : j[k] \in Seq(Cells)
    BY <1>6, TameIs
  <2>2. \A k \in 1 .. n : q[k] \in Seq(Cells)
    BY <1>3, TameIs
  <2>3. j[0] = << >> /\ \A k \in 0 .. n - 1 : j[k + 1] = j[k] \o q[k + 1]
    BY <1>2, <1>6 DEF Lists!Joins
  <2> QED BY <2>1, <2>2, <2>3 DEF Walk
<1>8. Calm(e) /\ (Len(j[n]) <= LINE_MAX - 1 => e.text = j[n])
  BY <1>5, <1>7, ExpandPlain
<1>9. all \in Seq(Tame)
  BY <1>0, <1>6
<1>10. Len(all) < LINE_MAX => e.text = all
  <2>1. Len(all) \in Nat
    BY <1>9
  <2> QED BY <1>0, <1>6, <1>8, <2>1
<1>11. Answers(all, tokenize(all))
  BY <1>9, FirstWord
<1> QED BY <1>8, <1>10, <1>11, Zenon DEF Fine, all

\* RunsFirstWord in these words.
LEMMA RunsIs ==
  RunsFirstWord <=> (PlainLine(ran.text) =>
                        state # "wild" /\ Fine(ran.env, ran.text, ran.status, ran.argv))
BY Zenon DEF RunsFirstWord, Fine, Stands, Answers, Ends, Firsts

\* A line with plain variables makes the shell run the first word of what it stands
\* for: expand_vars stays inside its arrays, and neither it nor tokenize reads what an
\* earlier line left in them, for lines and environments of every length.
THEOREM RunsRight == Spec => []RunsFirstWord
<1>1. Init => RunsFirstWord
  <2> SUFFICES ASSUME Init PROVE RunsFirstWord
    OBVIOUS
  <2> DEFINE t == << >>
             all == Stands(ran.env, t, 0)
  <2>1. ran.text = t /\ ran.status = 0 /\ ran.argv = << >> /\ state = "runs"
    BY DEF Init, Nothing
  <2>2. all = << >>
    <3> DEFINE q == [k \in DOMAIN t |-> Value(ran.env, t, k, 0)]
    <3>1. q = << >>
      OBVIOUS
    <3>2. all = FlattenSeq(q)
      BY DEF Stands
    <3> HIDE DEF q
    <3> QED BY <3>1, <3>2 DEF FlattenSeq
  <2> HIDE DEF all
  <2>3. Answers(all, << >>)
    <3>1. Firsts(all) = {}
      BY <2>2 DEF Firsts
    <3> QED BY <3>1 DEF Answers
  <2>4. Fine(ran.env, t, 0, << >>)
    BY <2>3 DEF Fine, all
  <2> HIDE DEF t
  <2> QED BY <2>1, <2>4, RunsIs
<1>2. ReadInv /\ ReadInv' /\ EnvKept /\ RunsFirstWord /\ [Next]_vars => RunsFirstWord'
  <2> SUFFICES ASSUME ReadInv, ReadInv', EnvKept, RunsFirstWord, [Next]_vars
               PROVE  PlainLine(ran'.text) =>
                         state' # "wild" /\ Fine(ran'.env, ran'.text, ran'.status, ran'.argv)
    BY Zenon DEF RunsFirstWord, Fine, Stands, Answers, Ends, Firsts
  <2>1. env_vars \in Seq(Variables)
    BY StartIsEnv DEF EnvKept
  <2>2. CASE UNCHANGED <<ran, state>>
    BY <2>1, <2>2, RunsIs
  <2>3. CASE Enter /\ execute_command(line', Text)
    <3> DEFINE e == expand_vars(line', env_vars, last_exit_status)
    <3> SUFFICES ASSUME PlainLine(Text)
                 PROVE  state' # "wild" /\ Fine(env_vars, Text, last_exit_status, tokenize(e.text))
                        /\ ran'.text = Text /\ ran'.env = env_vars /\ ran'.status = last_exit_status /\ ran'.argv = tokenize(e.text)
      BY <2>3 DEF execute_command
    <3>1. Holding(line', Text)
      <4>1. /\ Text \in Seq(Symbols) /\ Len(Text) = len /\ \A k \in 1 .. len : Text[k] = line[k - 1]
            /\ len \in 0 .. LINE_MAX - 1
        BY TextIs DEF ReadInv, LineInv
      <4>2. line' = [line EXCEPT ![len] = NUL] /\ line \in [Index -> Symbols \cup {NUL, JUNK}]
        BY <2>3 DEF Enter, ReadInv, LineInv
      <4>3. LINE_MAX \in Nat
        BY Constants
      <4>4. line' \in [Index -> Cells]
        BY DEF ReadInv, LineInv, Cells
      <4>5. line'[len] = NUL
        BY <4>1, <4>2, <4>3 DEF Index
      <4>6. ASSUME NEW k \in 1 .. len PROVE line'[k - 1] = Text[k]
        BY <4>1, <4>2, <4>3 DEF Index
      <4> HIDE DEF Text
      <4> QED BY <4>1, <4>4, <4>5, <4>6 DEF Holding
    <3>2. Calm(e) /\ Fine(env_vars, Text, last_exit_status, tokenize(e.text))
      BY <2>1, <3>1, LineRight
    <3>3. ~e.outside
      BY <3>2, Zenon DEF Calm
    <3>4. state = "runs"
      BY <2>3 DEF Enter, Key
    <3>5. state' # "wild"
      BY <2>3, <3>3, <3>4, Zenon DEF execute_command
    <3>6. ran' = [text |-> Text, env |-> env_vars, status |-> last_exit_status, argv |-> tokenize(e.text)]
      BY <2>3, Zenon DEF execute_command
    <3> HIDE DEF e
    <3> QED BY <2>1, <3>2, <3>5, <3>6
  <2>4. UNCHANGED <<ran, state>> \/ (Enter /\ execute_command(line', Text))
    BY DEF Next, Enter, Up, Down, Left, Right, Erase, Insert, shell_vars, vars
  <2> QED BY <2>2, <2>3, <2>4
<1> QED BY <1>1, <1>2, ReadCorrect, EnvStays, PTL DEF Spec
=============================================================================
