----------------------------- MODULE UserShell -----------------------------
(***************************************************************************)
(* The shell that runs as a program, user/shell.c: read_line and its       *)
(* history, the expansion of variables, the cutting of a line into         *)
(* arguments, the builtin commands and the environment.                    *)
(*                                                                         *)
(* A cell of a string holds a symbol: a word, which stands for a run of    *)
(* letters, or one of the characters that the shell treats specially.      *)
(* Lengths count symbols.  The array line is never cleared: what earlier   *)
(* lines left in it stays behind the end of the present one.  Nothing that *)
(* the shell prints is modelled: it prints to descriptor 0, which          *)
(* c_syscall_handler rejects.                                              *)
(***************************************************************************)
EXTENDS Integers, Sequences, FiniteSetsExt, SequencesExt

CONSTANTS LINE_MAX, MAX_ARGS, MAX_ENV, ENV_VAL_MAX, HISTORY_SIZE,
          ARG_WIDTH,     \* 4, the factor in the limit max_args * 4 of tokenize
          NAME_LIMIT,    \* 63, the longest name that expand_vars takes
          Words,         \* the words that the user types
          Alphabets,     \* bound: a user types the symbols of one of these
          MAX_KEYS       \* bound: keys that a user presses

ASSUME UserShellAssumption ==
    /\ {LINE_MAX, MAX_ARGS, MAX_ENV, ENV_VAL_MAX, HISTORY_SIZE, ARG_WIDTH, NAME_LIMIT}
          \subseteq Nat \ {0}
    /\ MAX_ARGS > 1
    /\ MAX_KEYS \in Nat

Blank  == " "
Quotes == {"'", "\""}
Escape == "\\"
Marks  == {"$", "{", "}", "="}
Symbols == Words \cup {Blank, Escape} \cup Quotes \cup Marks

\* The terminator, what an array has before it is written, and what is read behind
\* its end.
NUL     == ""
JUNK    == "junk"
OUTSIDE == "outside"

ASSUME AlphabetAssumption ==
    /\ Words \cap ({Blank, Escape, NUL, JUNK, OUTSIDE} \cup Quotes \cup Marks) = {}
    /\ Alphabets \subseteq SUBSET Symbols

VARIABLES
    line, pos, len,       \* the array of _start, and the variables of read_line
    hist_idx,
    history,              \* history_count is its length
    env_vars,             \* [name, value] in order; env_count is its length
    last_exit_status,
    state,                \* "runs", "exited", or "wild": memory behind an array was used
    ran,                  \* the last line, what it was run with, and its arguments
    alphabet, keys        \* what the user types, and how many keys are left

vars == <<line, pos, len, hist_idx, history, env_vars, last_exit_status, state, ran,
          alphabet, keys>>

shell_vars == <<env_vars, last_exit_status, state, ran>>

Index == 0 .. LINE_MAX - 1

strcpy(buf, str) == [i \in Index |-> IF i < Len(str) THEN str[i + 1]
                                     ELSE IF i = Len(str) THEN NUL ELSE buf[i]]
-----------------------------------------------------------------------------
\* env_set, on an environment: replaces the value, or adds a variable if there is
\* room.
env_set(env, name, value) ==
    LET at == {i \in DOMAIN env : env[i].name = name}
        new == [name |-> name, value |-> value]
    IN  IF Len(name) + 1 + Len(value) >= ENV_VAL_MAX THEN env
        ELSE IF at # {} THEN [env EXCEPT ![Min(at)] = new]
        ELSE IF Len(env) < MAX_ENV THEN Append(env, new)
        ELSE env

\* unset compares the whole of an entry, name and value, with its argument.
env_unset(env, arg) ==
    LET at == {i \in DOMAIN env : env[i].name \o <<"=">> \o env[i].value = arg}
    IN  IF at = {} THEN env ELSE RemoveAt(env, Min(at))

\* The three digits of $?.
Status(n) == CASE n = 0 -> "000" [] n = 1 -> "001" [] OTHER -> "127"

env_get(env, status, name) ==
    LET at == {i \in DOMAIN env : env[i].name = name}
    IN  IF at # {} THEN env[Min(at)].value
        ELSE IF name = <<"?">> THEN <<Status(status)>> ELSE << >>

StartEnv ==
    FoldLeft(LAMBDA env, v : env_set(env, <<v[1]>>, v[2]), << >>,
             <<<<"SHELL", <<"antigravity-sh">>>>, <<"USER", <<"user">>>>,
               <<"HOME", <<"/">>>>, <<"PS1", <<"$", Blank>>>>>>)

Nothing == [text |-> << >>, env |-> << >>, status |-> 0, argv |-> << >>]

Init ==
    /\ \E junk \in {NUL, JUNK} : line = [i \in Index |-> junk]
    /\ pos = 0
    /\ len = 0
    /\ hist_idx = 0
    /\ history = << >>
    /\ env_vars = StartEnv
    /\ last_exit_status = 0
    /\ state = "runs"
    /\ ran = Nothing
    /\ alphabet \in Alphabets
    /\ keys = MAX_KEYS
-----------------------------------------------------------------------------
\* What expand_vars reads of src.
Sym(src, i) == IF i \in Index THEN src[i] ELSE OUTSIDE

\* The characters of a name after a plain $; a $ is one of them.
NameSymbols == Words \cup {"$"}

\* The end of the run of at most NAME_LIMIT symbols from i on that are in set.
RunEnd(src, i, set) ==
    Min({j \in i .. i + NAME_LIMIT : j = i + NAME_LIMIT \/ Sym(src, j) \notin set})

Piece(src, i, j) == [k \in 1 .. j - i |-> src[i + k - 1]]

\* One round of the loop of expand_vars at si: the text it adds, whether the limit
\* on the result is looked at, and where the next round starts.  After ${name} the
\* next symbol is left out, be it the terminator.
Round(src, si, env, status) ==
    LET next == Sym(src, si + 1)
        braced == RunEnd(src, si + 2, (Symbols \cup {JUNK}) \ {"}"})
        plain == RunEnd(src, si + 1, NameSymbols)
    IN  CASE Sym(src, si) # "$" ->
               [text |-> <<Sym(src, si)>>, checked |-> TRUE, next |-> si + 1]
          [] Sym(src, si) = "$" /\ next = "{" ->
               [text    |-> env_get(env, status, Piece(src, si + 2, braced)), checked |-> TRUE,
                next    |-> IF Sym(src, braced) = "}" THEN braced + 2 ELSE braced + 1]
          [] Sym(src, si) = "$" /\ next # "{" /\ plain = si + 1 ->
               [text    |-> IF next = NUL THEN <<"$">> ELSE <<"$", next>>, checked |-> FALSE,
                next    |-> si + 2]
          [] OTHER ->
               [text    |-> env_get(env, status, Piece(src, si + 1, plain)), checked |-> TRUE,
                next    |-> plain]

\* The text of a round, as far as it fits where it is looked at.
Cut(round, room) ==
    IF round.checked /\ Len(round.text) > room THEN SubSeq(round.text, 1, room) ELSE round.text

\* expand_vars: the expansion, and whether memory outside the arrays was used.
expand_vars(src, env, status) ==
    LET from[at \in [si : Nat, di : Nat]] ==
            IF at.di >= LINE_MAX - 1 THEN [text |-> << >>, outside |-> at.di >= LINE_MAX]
            ELSE IF Sym(src, at.si) \in {NUL, OUTSIDE}
            THEN [text |-> << >>, outside |-> Sym(src, at.si) = OUTSIDE]
            ELSE LET round == Round(src, at.si, env, status)
                     text  == Cut(round, LINE_MAX - 1 - at.di)
                     rest  == from[[si |-> round.next, di |-> at.di + Len(text)]]
                 IN  [text |-> text \o rest.text, outside |-> rest.outside]
    IN  from[[si |-> 0, di |-> 0]]

\* The end of the argument that starts at i: the first blank outside quotes.
ArgEnd(input, i) ==
    LET at(j, quote) == [j |-> j, quote |-> quote]
        scan[s \in [j : Nat, quote : Quotes \cup {NUL}]] ==
            IF s.j >= Len(input) THEN Len(input)
            ELSE LET c == input[s.j + 1]
                 IN  IF s.quote # NUL THEN scan[at(s.j + 1, IF c = s.quote THEN NUL ELSE s.quote)]
                     ELSE CASE c = Blank    -> s.j
                            [] c \in Quotes -> scan[at(s.j + 1, c)]
                            [] c = Escape   -> scan[at(s.j + 2, NUL)]
                            [] OTHER        -> scan[at(s.j + 1, NUL)]
    IN  scan[at(i, NUL)]

\* tokenize: it ends an argument by a terminator in the line and then finds the
\* line at its end.  An argument that ends behind max_args * 4 is not ended at all.
tokenize(input) ==
    LET from[at \in [i : Nat, argc : Nat]] ==
            LET starts == {j \in at.i .. Len(input) - 1 : input[j + 1] # Blank}
                start  == Min(starts)
                end    == ArgEnd(input, start)
            IN  IF starts = {} \/ at.argc >= MAX_ARGS - 1 THEN << >>
                ELSE IF end < MAX_ARGS * ARG_WIDTH THEN <<SubSeq(input, start + 1, end)>>
                ELSE <<SubSeq(input, start + 1, Len(input))>> \o from[[i |-> end, argc |-> at.argc + 1]]
    IN  from[[i |-> 0, argc |-> 0]]

Silent == {"help", "clear", "echo", "env", "history", "true", "export", "unset", "exit"}

\* What execute_builtin answers; execute_command makes 127 of a command that there
\* is not.
ExitStatus(argv) ==
    CASE Len(argv[1]) = 1 /\ argv[1][1] \in Silent -> 0
      [] argv[1] = <<"false">>                     -> 1
      [] OTHER                                     -> 127

\* The environment after a command.
Environment(env, argv) ==
    LET args == Tail(argv)
        set(e, arg) == LET eq == {i \in DOMAIN arg : arg[i] = "="}
                       IN  IF eq = {} THEN e
                           ELSE env_set(e, SubSeq(arg, 1, Min(eq) - 1),
                                           SubSeq(arg, Min(eq) + 1, Len(arg)))
    IN  CASE argv[1] = <<"export">>               -> FoldLeft(set, env, args)
          [] argv[1] = <<"unset">> /\ args # << >> -> env_unset(env, args[1])
          [] OTHER                                -> env

execute_command(cmdline, text) ==
    LET expanded == expand_vars(cmdline, env_vars, last_exit_status)
        argv == tokenize(expanded.text)
    IN  /\ ran' = [text |-> text, env |-> env_vars, status |-> last_exit_status, argv |-> argv]
        /\ IF expanded.outside
           THEN state' = "wild" /\ UNCHANGED <<env_vars, last_exit_status>>
           ELSE IF argv = << >> THEN UNCHANGED <<env_vars, last_exit_status, state>>
           ELSE /\ last_exit_status' = ExitStatus(argv)
                /\ env_vars' = Environment(env_vars, argv)
                /\ state' = IF argv[1] = <<"exit">> THEN "exited" ELSE "runs"
-----------------------------------------------------------------------------
\* The text between two indices of line.
Text == Piece(line, 0, len)

\* The history after a line.
history_add(str) ==
    IF str = << >> \/ (history # << >> /\ Last(history) = str) THEN history
    ELSE IF Len(history) < HISTORY_SIZE THEN Append(history, str)
    ELSE Append(Tail(history), str)

\* A key is pressed while the shell waits for one.
Key == state = "runs" /\ keys > 0 /\ keys' = keys - 1 /\ UNCHANGED alphabet

\* An Enter that does not end the line.
enter_open ==
    /\ Key
    /\ line' = line
    /\ history' = history_add(Text)
    /\ IF line'[0] = NUL THEN UNCHANGED shell_vars ELSE execute_command(line', Text)
    /\ pos' = 0
    /\ len' = 0
    /\ hist_idx' = Len(history')

\* Enter: the line ends, is recorded and executed, and the next one is read.
Enter ==
    /\ Key
    /\ line' = [line EXCEPT ![len] = NUL]
    /\ history' = history_add(Text)
    /\ IF line'[0] = NUL THEN UNCHANGED shell_vars ELSE execute_command(line', Text)
    /\ pos' = 0
    /\ len' = 0
    /\ hist_idx' = Len(history')

Recall(i) ==
    /\ line' = strcpy(line, history[i + 1])
    /\ len' = Len(history[i + 1])
    /\ pos' = len'

Up ==
    /\ Key
    /\ hist_idx > 0
    /\ hist_idx' = hist_idx - 1
    /\ Recall(hist_idx')
    /\ UNCHANGED <<history, shell_vars>>

Down ==
    /\ Key
    /\ hist_idx < Len(history)
    /\ hist_idx' = hist_idx + 1
    /\ IF hist_idx' = Len(history)
       THEN line' = [line EXCEPT ![0] = NUL] /\ len' = 0 /\ pos' = 0
       ELSE Recall(hist_idx')
    /\ UNCHANGED <<history, shell_vars>>

Left ==
    /\ Key
    /\ pos > 0
    /\ pos' = pos - 1
    /\ UNCHANGED <<line, len, hist_idx, history, shell_vars>>

\* Right goes to the end of the line.
Right ==
    /\ Key
    /\ pos < len
    /\ pos' = len
    /\ UNCHANGED <<line, len, hist_idx, history, shell_vars>>

Erase ==
    /\ Key
    /\ pos > 0
    /\ pos' = pos - 1
    /\ len' = len - 1
    /\ line' = [i \in Index |-> IF i \in pos - 1 .. len - 2 THEN line[i + 1] ELSE line[i]]
    /\ UNCHANGED <<hist_idx, history, shell_vars>>

\* An insertion that leaves no room for the terminator.
insert_full(c) ==
    /\ Key
    /\ len < LINE_MAX
    /\ line' = [i \in Index |-> IF i = pos THEN c
                                ELSE IF i \in pos + 1 .. len THEN line[i - 1] ELSE line[i]]
    /\ pos' = pos + 1
    /\ len' = len + 1
    /\ UNCHANGED <<hist_idx, history, shell_vars>>

\* An insertion that moves what is right of the cursor from the left end on.
insert_smear(c) ==
    /\ Key
    /\ len < LINE_MAX - 1
    /\ line' = [i \in Index |-> IF i = pos THEN c
                                ELSE IF i \in pos + 1 .. len THEN line[pos] ELSE line[i]]
    /\ pos' = pos + 1
    /\ len' = len + 1
    /\ UNCHANGED <<hist_idx, history, shell_vars>>

Insert(c) ==
    /\ Key
    /\ len < LINE_MAX - 1
    /\ line' = [i \in Index |-> IF i = pos THEN c
                                ELSE IF i \in pos + 1 .. len THEN line[i - 1] ELSE line[i]]
    /\ pos' = pos + 1
    /\ len' = len + 1
    /\ UNCHANGED <<hist_idx, history, shell_vars>>

Next == Enter \/ Up \/ Down \/ Left \/ Right \/ Erase \/ \E c \in alphabet : Insert(c)

Spec == Init /\ [][Next]_vars
-----------------------------------------------------------------------------
\* The terminator that Enter writes is inside the array, and the history inside its
\* own, however lines are edited and recalled.
TypeOK ==
    /\ line \in [Index -> Symbols \cup {NUL, JUNK}]
    /\ len \in 0 .. LINE_MAX - 1 /\ pos \in 0 .. len
    /\ Len(history) <= HISTORY_SIZE /\ hist_idx \in 0 .. Len(history)
    /\ \A i \in DOMAIN history : Len(history[i]) \in 1 .. LINE_MAX - 1
    /\ last_exit_status \in {0, 1, 127}
    /\ state \in {"runs", "exited", "wild"}

Reader == INSTANCE CommandReader WITH
              Chars  <- Symbols,
              MaxLen <- LINE_MAX - 1,
              Depth  <- HISTORY_SIZE,
              text   <- Text,
              cursor <- pos,
              lines  <- history,
              chosen <- hist_idx

\* read_line edits and recalls lines as a reader of command lines promises, though it
\* never clears its array and shifts symbols in place.
ReaderSpec == Reader!Spec

\* Lines with plain variables only, each of a name that fits.
PlainLine(t) ==
    /\ \A k \in DOMAIN t : t[k] \notin {"{", "}", Escape} \cup Quotes
    /\ \A k \in DOMAIN t : t[k] = "$" =>
          \E n \in 1 .. NAME_LIMIT :
             /\ k + n <= Len(t)
             /\ \A j \in k + 1 .. k + n : t[j] \in Words
             /\ k + n < Len(t) => t[k + n + 1] \notin NameSymbols

\* The value of what stands at k: of a variable the value at its $, and nothing at
\* its name.
Value(env, t, k, status) ==
    LET run(i) == {j \in i + 1 .. Len(t) : \A m \in i + 1 .. j : t[m] \in Words}
    IN  IF t[k] = "$" THEN env_get(env, status, [n \in 1 .. Cardinality(run(k)) |-> t[k + n]])
        ELSE IF \E i \in 1 .. k - 1 : t[i] = "$" /\ k \in run(i) THEN << >>
        ELSE <<t[k]>>

\* A line with plain variables makes the shell run the first word of what the line
\* stands for, with the variables as they are when it is entered: the expansion
\* stops at the end of the line, and neither uses memory behind an array nor what
\* earlier lines left in it.
RunsFirstWord ==
    LET t == ran.text
        all == FlattenSeq([k \in DOMAIN t |-> Value(ran.env, t, k, ran.status)])
        first == {i \in DOMAIN all : all[i] # Blank}
        ends == {i \in DOMAIN all : i > Min(first) /\ all[i] = Blank} \cup {Len(all) + 1}
    IN  PlainLine(t) =>
            /\ state # "wild"
            /\ Len(all) < LINE_MAX =>
                  IF first = {} THEN ran.argv = << >>
                  ELSE Min(ends) <= MAX_ARGS * ARG_WIDTH =>
                          ran.argv # << >> /\ ran.argv[1] = SubSeq(all, Min(first), Min(ends) - 1)
=============================================================================
