--------------------------- MODULE SequenceFacts ---------------------------
(***************************************************************************)
(* What FoldLeft of the community modules computes, for every operator and *)
(* every sequence: vga_puts and the bytes that keyboard_handler has still  *)
(* to read are such folds.  A module that folds its own operator takes     *)
(* these facts with INSTANCE.  Then insertion in and removal from a text   *)
(* kept in an array, which both line editors do in place, and what         *)
(* FlattenSeq makes of a sequence of pieces: a file of its blocks, the     *)
(* expansion of a line of its values.                                      *)
(*                                                                         *)
(* FoldLeft is a recursive function on the sets of indices.  Whether such  *)
(* a function exists is a question of induction, which is done here with   *)
(* the least element of the set of counterexamples.                        *)
(***************************************************************************)
EXTENDS Integers, Sequences, WellFoundedInduction, TLAPS

CONSTANT op(_, _)

Greatest(s) == CHOOSE x \in s : \A y \in s : x >= y

\* The equation of the recursive function in FoldLeft, and FoldLeft.
Step(base, q, it) ==
    [s \in SUBSET DOMAIN q |->
        IF s = {} THEN base ELSE op(it[s \ {Greatest(s)}], q[Greatest(s)])]

Fold(base, q) == (CHOOSE it : it = Step(base, q, it))[DOMAIN q]

\* A set of naturals has a least element.
LEMMA Least ==
  ASSUME NEW C \in SUBSET Nat, C # {}
  PROVE  \E x \in C : \A y \in 0 .. x - 1 : y \notin C
<1>1. PICK x \in C : \A y \in C : ~(<<y, x>> \in OpToRel(<, Nat))
  BY NatLessThanWellFounded, WFMin
<1>2. OpToRel(<, Nat) = {ss \in Nat \X Nat : ss[1] < ss[2]}
  BY DEF OpToRel
<1>3. ASSUME NEW y \in 0 .. x - 1, y \in C PROVE FALSE
  <2>1. <<y, x>> \in {ss \in Nat \X Nat : ss[1] < ss[2]}
    OBVIOUS
  <2> QED BY <1>1, <1>2, <1>3, <2>1
<1> QED BY <1>3

\* Induction on the naturals, for sets.
LEMMA NatSet ==
  ASSUME NEW S, 0 \in S, \A n \in Nat : n \in S => n + 1 \in S
  PROVE  Nat \subseteq S
<1> DEFINE C == Nat \ S
<1> SUFFICES ASSUME C # {} PROVE FALSE
  OBVIOUS
<1>1. PICK x \in C : \A y \in 0 .. x - 1 : y \notin C
  <2>1. C \in SUBSET Nat /\ C # {}
    OBVIOUS
  <2> HIDE DEF C
  <2> QED BY <2>1, Least
<1>2. x \in Nat /\ x # 0 /\ x - 1 \in Nat /\ x - 1 \in 0 .. x - 1
  OBVIOUS
<1>3. x - 1 \in S
  BY <1>1, <1>2
<1>4. (x - 1) + 1 \in S
  BY <1>2, <1>3
<1> QED BY <1>2, <1>4

\* The greatest index of a set of indices up to n + 1.
LEMMA GreatestIs ==
  ASSUME NEW n \in Nat, NEW s \in SUBSET (1 .. n + 1), n + 1 \in s
  PROVE  Greatest(s) = n + 1
<1>1. \A y \in s : y \in 1 .. n + 1 /\ n + 1 >= y
  OBVIOUS
<1>2. Greatest(s) \in s /\ \A y \in s : Greatest(s) >= y
  BY <1>1 DEF Greatest
<1>3. Greatest(s) \in 1 .. n + 1
  BY <1>1, <1>2, Zenon
<1>4. Greatest(s) >= n + 1
  BY <1>2
<1> QED BY <1>3, <1>4

\* A set of numbers up to n that is not empty has a greatest element.
LEMMA GreatestIn ==
  ASSUME NEW n \in Nat, NEW s \in SUBSET (1 .. n), s # {}
  PROVE  Greatest(s) \in s
<1> DEFINE Good == {m \in Nat : \A t \in SUBSET (1 .. m) : t # {} => Greatest(t) \in t}
<1>1. 0 \in Good
  <2>1. 1 .. 0 = {}
    OBVIOUS
  <2> QED BY <2>1
<1>2. ASSUME NEW m \in Nat, m \in Good PROVE m + 1 \in Good
  <2> SUFFICES ASSUME NEW t \in SUBSET (1 .. m + 1), t # {} PROVE Greatest(t) \in t
    OBVIOUS
  <2>1. CASE m + 1 \in t
    BY <2>1, GreatestIs
  <2>2. CASE m + 1 \notin t
    <3>1. t \in SUBSET (1 .. m)
      BY <2>2
    <3> QED BY <1>2, <3>1
  <2> QED BY <2>1, <2>2
<1> HIDE DEF Good
<1>3. Nat \subseteq Good
  BY <1>1, <1>2, NatSet
<1> QED BY <1>3 DEF Good

\* There is a function as the one in FoldLeft.
LEMMA StepsExist ==
  ASSUME NEW base, NEW q, NEW n \in Nat, DOMAIN q = 1 .. n
  PROVE  \E it : it = Step(base, q, it)
<1> DEFINE Eq(it, m) == it = [s \in SUBSET (1 .. m) |->
                          IF s = {} THEN base ELSE op(it[s \ {Greatest(s)}], q[Greatest(s)])]
           Good == {m \in Nat : \E it : Eq(it, m)}
<1>1. 0 \in Good
  <2> DEFINE it == [s \in SUBSET (1 .. 0) |-> base]
  <2>1. Eq(it, 0)
    OBVIOUS
  <2> QED BY <2>1
<1>2. ASSUME NEW m \in Nat, m \in Good PROVE m + 1 \in Good
  <2>1. PICK f : Eq(f, m)
    BY <1>2
  <2> DEFINE g == [s \in SUBSET (1 .. m + 1) |->
                     IF m + 1 \in s THEN op(f[s \ {m + 1}], q[m + 1]) ELSE f[s]]
             h == [s \in SUBSET (1 .. m + 1) |->
                     IF s = {} THEN base ELSE op(g[s \ {Greatest(s)}], q[Greatest(s)])]
  <2>2. ASSUME NEW s \in SUBSET (1 .. m + 1) PROVE g[s] = h[s]
    <3>1. CASE m + 1 \in s
      <4>1. Greatest(s) = m + 1
        BY <3>1, GreatestIs
      <4>2. s \ {m + 1} \in SUBSET (1 .. m + 1) /\ m + 1 \notin s \ {m + 1}
        OBVIOUS
      <4>3. g[s \ {m + 1}] = f[s \ {m + 1}]
        BY <4>2
      <4> QED BY <3>1, <4>1, <4>3
    <3>2. CASE m + 1 \notin s /\ s # {}
      <4>1. s \in SUBSET (1 .. m)
        BY <3>2
      <4>2. s \ {Greatest(s)} \in SUBSET (1 .. m + 1) /\ m + 1 \notin s \ {Greatest(s)}
        BY <3>2
      <4>3. g[s \ {Greatest(s)}] = f[s \ {Greatest(s)}]
        BY <4>2
      <4>4. g[s] = f[s]
        BY <3>2
      <4>5. f[s] = op(f[s \ {Greatest(s)}], q[Greatest(s)])
        BY <2>1, <3>2, <4>1
      <4>6. h[s] = op(g[s \ {Greatest(s)}], q[Greatest(s)])
        BY <3>2
      <4> HIDE DEF g, h, Eq
      <4> QED BY <4>3, <4>4, <4>5, <4>6
    <3>3. CASE s = {}
      <4>1. f[{}] = base
        BY <2>1
      <4> QED BY <3>3, <4>1
    <3> QED BY <3>1, <3>2, <3>3
  <2>3. g = h
    BY <2>2
  <2>4. Eq(g, m + 1)
    <3> HIDE DEF g
    <3> QED BY <2>3
  <2> HIDE DEF g, Eq
  <2> QED BY <2>4
<1> HIDE DEF Good
<1>3. n \in Good
  BY <1>1, <1>2, NatSet
<1> QED BY <1>3 DEF Good, Step

\* A loop over the first n elements of q; r are the values it goes through.
Run(base, q, n, r) ==
    r[0] = base /\ \A k \in 0 .. n - 1 : r[k + 1] = op(r[k], q[k + 1])

\* The values of that function on initial segments are those of a loop.
LEMMA StepsRun ==
  ASSUME NEW base, NEW q, NEW n \in Nat, DOMAIN q = 1 .. n
  PROVE  \E r : Run(base, q, n, r) /\ Fold(base, q) = r[n]
<1> DEFINE it == CHOOSE it : it = Step(base, q, it)
<1>1. it = Step(base, q, it)
  BY StepsExist
<1>2. Fold(base, q) = it[1 .. n]
  BY DEF Fold
<1> HIDE DEF it
<1> DEFINE r == [k \in 0 .. n |-> it[1 .. k]]
<1>3. r[0] = base
  <2>1. 1 .. 0 = {}
    OBVIOUS
  <2>2. it[{}] = base
    BY <1>1 DEF Step
  <2> QED BY <2>1, <2>2
<1>4. ASSUME NEW k \in 0 .. n - 1 PROVE r[k + 1] = op(r[k], q[k + 1])
  <2>0. k \in Nat /\ k + 1 \in 1 .. k + 1 /\ k \in 0 .. n /\ k + 1 \in 0 .. n
    OBVIOUS
  <2>1. 1 .. k + 1 \in SUBSET (1 .. n) /\ 1 .. k + 1 # {}
    BY <2>0
  <2>2. Greatest(1 .. k + 1) = k + 1
    BY <2>0, GreatestIs
  <2>3. (1 .. k + 1) \ {k + 1} = 1 .. k
    OBVIOUS
  <2>4. it[1 .. k + 1] = op(it[(1 .. k + 1) \ {Greatest(1 .. k + 1)}], q[Greatest(1 .. k + 1)])
    BY <1>1, <2>1 DEF Step
  <2> QED BY <2>0, <2>2, <2>3, <2>4
<1>5. r[n] = Fold(base, q)
  BY <1>2
<1> HIDE DEF r
<1> QED BY <1>3, <1>4, <1>5 DEF Run

\* Two such loops over sequences that agree up to n do the same.
LEMMA RunsAgree ==
  ASSUME NEW n \in Nat, NEW base, NEW p, NEW q, NEW r, NEW t,
         \A k \in 0 .. n - 1 : p[k + 1] = q[k + 1],
         Run(base, p, n, r), Run(base, q, n, t)
  PROVE  r[n] = t[n]
<1> DEFINE Same == {k \in Nat : k <= n => r[k] = t[k]}
<1>1. 0 \in Same
  BY DEF Run
<1>2. ASSUME NEW k \in Nat, k \in Same PROVE k + 1 \in Same
  BY <1>2 DEF Run
<1> HIDE DEF Same
<1>3. n \in Same
  BY <1>1, <1>2, NatSet
<1> QED BY <1>3 DEF Same

\* A fold of no elements.
THEOREM FoldNone == ASSUME NEW base PROVE Fold(base, << >>) = base
<1>1. DOMAIN << >> = 1 .. 0
  OBVIOUS
<1>2. PICK r : Run(base, << >>, 0, r) /\ Fold(base, << >>) = r[0]
  BY <1>1, StepsRun
<1> QED BY <1>2 DEF Run

\* A fold of one more element.
THEOREM FoldLast ==
  ASSUME NEW base, NEW T, NEW q \in Seq(T), NEW b \in T
  PROVE  Fold(base, Append(q, b)) = op(Fold(base, q), b)
<1> DEFINE n == Len(q)
           p == Append(q, b)
<1>1. n \in Nat /\ DOMAIN q = 1 .. n /\ DOMAIN p = 1 .. n + 1 /\ p[n + 1] = b
      /\ \A k \in 0 .. n - 1 : p[k + 1] = q[k + 1]
  OBVIOUS
<1> HIDE DEF n, p
<1>2. PICK r : Run(base, q, n, r) /\ Fold(base, q) = r[n]
  BY <1>1, StepsRun
<1>3. PICK t : Run(base, p, n + 1, t) /\ Fold(base, p) = t[n + 1]
  <2>1. n + 1 \in Nat
    BY <1>1
  <2> QED BY <1>1, <2>1, StepsRun
<1>4. t[n] = r[n]
  <2>1. \A k \in 0 .. n - 1 : k \in 0 .. (n + 1) - 1
    BY <1>1
  <2>2. Run(base, p, n, t)
    BY <1>3, <2>1 DEF Run
  <2> QED BY <1>1, <1>2, <1>3, <2>2, RunsAgree
<1>5. t[n + 1] = op(t[n], p[n + 1])
  BY <1>1, <1>3 DEF Run
<1> QED BY <1>1, <1>2, <1>3, <1>4, <1>5 DEF p

\* A fold begins with the first element.
THEOREM FoldFirst ==
  ASSUME NEW base, NEW T, NEW q \in Seq(T), q # << >>
  PROVE  Fold(base, q) = Fold(op(base, Head(q)), Tail(q))
<1> DEFINE n == Len(q) - 1
           p == Tail(q)
           b == Head(q)
<1>1. n \in Nat /\ DOMAIN q = 1 .. n + 1 /\ DOMAIN p = 1 .. n /\ q[0 + 1] = b
      /\ \A k \in 0 .. n - 1 : p[k + 1] = q[(k + 1) + 1]
  OBVIOUS
<1> HIDE DEF n, p, b
<1>2. PICK r : Run(base, q, n + 1, r) /\ Fold(base, q) = r[n + 1]
  <2>1. n + 1 \in Nat
    BY <1>1
  <2> QED BY <1>1, <2>1, StepsRun
<1>3. PICK t : Run(op(base, b), p, n, t) /\ Fold(op(base, b), p) = t[n]
  BY <1>1, StepsRun, SMTT(30)
<1> DEFINE u == [k \in 0 .. n |-> r[k + 1]]
           w == [k \in 1 .. n |-> q[k + 1]]
<1>4. u[0] = op(base, b)
  <2>1. 0 \in 0 .. n /\ 0 \in 0 .. (n + 1) - 1
    BY <1>1
  <2>2. r[0 + 1] = op(r[0], q[0 + 1])
    BY <1>2, <2>1 DEF Run
  <2> QED BY <1>1, <1>2, <2>1, <2>2 DEF Run
<1>5. ASSUME NEW k \in 0 .. n - 1 PROVE u[k + 1] = op(u[k], w[k + 1]) /\ w[k + 1] = p[k + 1]
  <2>1. k \in 0 .. n /\ k + 1 \in 0 .. n /\ k + 1 \in 1 .. n /\ k + 1 \in 0 .. (n + 1) - 1
    BY <1>1
  <2>2. r[(k + 1) + 1] = op(r[k + 1], q[(k + 1) + 1])
    BY <1>2, <2>1 DEF Run
  <2> QED BY <1>1, <2>1, <2>2
<1>6. u[n] = r[n + 1]
  BY <1>1
<1> HIDE DEF u, w
<1>7. Run(op(base, b), w, n, u)
  BY <1>4, <1>5 DEF Run
<1>8. u[n] = t[n]
  <2>1. \A k \in 0 .. n - 1 : w[k + 1] = p[k + 1]
    BY <1>5
  <2> QED BY <1>1, <1>3, <1>7, <2>1, RunsAgree
<1> QED BY <1>2, <1>3, <1>6, <1>8 DEF p, b

\* A sequence and the part of it before its last element.
LEMMA Fronts ==
  ASSUME NEW T, NEW n \in Nat, NEW q \in Seq(T), Len(q) = n + 1
  PROVE  /\ SubSeq(q, 1, n) \in Seq(T) /\ Len(SubSeq(q, 1, n)) = n /\ q[n + 1] \in T
         /\ q = Append(SubSeq(q, 1, n), q[n + 1])
OBVIOUS

\* A fold never leaves a set that its operator does not leave.
THEOREM FoldIn ==
  ASSUME NEW T, NEW S, NEW base \in S, NEW q \in Seq(T),
         \A s \in S, b \in T : op(s, b) \in S
  PROVE  Fold(base, q) \in S
<1> DEFINE Good == {n \in Nat : \A p \in Seq(T) : Len(p) = n => Fold(base, p) \in S}
<1>1. 0 \in Good
  <2> SUFFICES ASSUME NEW p \in Seq(T), Len(p) = 0 PROVE Fold(base, p) \in S
    OBVIOUS
  <2>1. p = << >>
    OBVIOUS
  <2> QED BY <2>1, FoldNone
<1>2. ASSUME NEW n \in Nat, n \in Good PROVE n + 1 \in Good
  <2> SUFFICES ASSUME NEW p \in Seq(T), Len(p) = n + 1 PROVE Fold(base, p) \in S
    OBVIOUS
  <2> DEFINE f == SubSeq(p, 1, n)
             b == p[n + 1]
  <2>1. f \in Seq(T) /\ b \in T /\ Len(f) = n /\ p = Append(f, b)
    BY Fronts
  <2> HIDE DEF f, b
  <2>2. Fold(base, f) \in S
    BY <1>2, <2>1
  <2>3. Fold(base, p) = op(Fold(base, f), b)
    BY <2>1, FoldLast
  <2> QED BY <2>1, <2>2, <2>3
<1>3. Len(q) \in Nat
  OBVIOUS
<1> HIDE DEF Good
<1>4. Len(q) \in Good
  BY <1>1, <1>2, <1>3, NatSet
<1> QED BY <1>4 DEF Good

\* A fold of one sequence after another.
THEOREM FoldConcat ==
  ASSUME NEW T, NEW base, NEW p \in Seq(T), NEW q \in Seq(T)
  PROVE  Fold(base, p \o q) = Fold(Fold(base, p), q)
<1> DEFINE mid == Fold(base, p)
           Good == {n \in Nat : \A r \in Seq(T) : Len(r) = n => Fold(base, p \o r) = Fold(mid, r)}
<1> HIDE DEF mid
<1>1. 0 \in Good
  <2> SUFFICES ASSUME NEW r \in Seq(T), Len(r) = 0 PROVE Fold(base, p \o r) = Fold(mid, r)
    OBVIOUS
  <2>1. r = << >> /\ p \o r = p
    OBVIOUS
  <2> QED BY <2>1, FoldNone DEF mid
<1>2. ASSUME NEW n \in Nat, n \in Good PROVE n + 1 \in Good
  <2> SUFFICES ASSUME NEW r \in Seq(T), Len(r) = n + 1 PROVE Fold(base, p \o r) = Fold(mid, r)
    OBVIOUS
  <2> DEFINE f == SubSeq(r, 1, n)
             b == r[n + 1]
  <2>1. f \in Seq(T) /\ b \in T /\ Len(f) = n /\ r = Append(f, b)
    BY Fronts
  <2> HIDE DEF f, b
  <2>2. Fold(base, p \o f) = Fold(mid, f)
    BY <1>2, <2>1
  <2>3. p \o r = Append(p \o f, b) /\ p \o f \in Seq(T)
    BY <2>1, SMTT(30)
  <2>4. Fold(base, p \o r) = op(Fold(base, p \o f), b)
    <3> DEFINE u == p \o f
    <3>1. u \in Seq(T) /\ p \o r = Append(u, b)
      BY <2>3
    <3> HIDE DEF u
    <3>2. Fold(base, Append(u, b)) = op(Fold(base, u), b)
      BY <3>1, FoldLast
    <3> QED BY <3>1, <3>2 DEF u
  <2>5. Fold(mid, r) = op(Fold(mid, f), b)
    BY <2>1, FoldLast
  <2> QED BY <2>2, <2>4, <2>5
<1>3. Len(q) \in Nat
  OBVIOUS
<1> HIDE DEF Good
<1>4. Len(q) \in Good
  BY <1>1, <1>2, <1>3, NatSet
<1> QED BY <1>4 DEF Good, mid
-----------------------------------------------------------------------------
\* Strings with the same characters.
LEMMA SameString ==
  ASSUME NEW T, NEW m \in Seq(T), NEW n \in Seq(T), Len(m) = Len(n),
         \A i \in 1 .. Len(m) : m[i] = n[i]
  PROVE  m = n
OBVIOUS

\* A text with a character inserted behind p others, and one without its p-th.
Insertion(w, p, c) == SubSeq(w, 1, p) \o <<c>> \o SubSeq(w, p + 1, Len(w))

Removal(w, p) == SubSeq(w, 1, p - 1) \o SubSeq(w, p + 1, Len(w))

\* One text behind another.
LEMMA Joined ==
  ASSUME NEW T, NEW a \in Seq(T), NEW b \in Seq(T)
  PROVE  /\ a \o b \in Seq(T) /\ Len(a \o b) = Len(a) + Len(b)
         /\ \A k \in 1 .. Len(a) : (a \o b)[k] = a[k]
         /\ \A k \in 1 .. Len(b) : (a \o b)[Len(a) + k] = b[k]
<1>1. a \o b \in Seq(T) /\ Len(a \o b) = Len(a) + Len(b)
  OBVIOUS
<1>2. \A k \in 1 .. Len(a) : (a \o b)[k] = a[k]
  OBVIOUS
<1>3. \A k \in 1 .. Len(b) : (a \o b)[Len(a) + k] = b[k]
  OBVIOUS
<1> QED BY <1>1, <1>2, <1>3

\* The same for a text that is known to be such a sequence.
LEMMA JoinedAs ==
  ASSUME NEW T, NEW a \in Seq(T), NEW b \in Seq(T), NEW r, r = a \o b
  PROVE  /\ r \in Seq(T) /\ Len(r) = Len(a) + Len(b)
         /\ \A k \in 1 .. Len(a) : r[k] = a[k]
         /\ \A k \in 1 .. Len(b) : r[Len(a) + k] = b[k]
BY Joined

\* A shift to the right and a character in the gap insert it in the text.
LEMMA TextInsert ==
  ASSUME NEW T, NEW w \in Seq(T), NEW l \in Seq(T), NEW p \in Nat, NEW n \in Nat, p <= n,
         NEW c \in T, Len(w) = n, Len(l) = n + 1,
         \A k \in 1 .. p : l[k] = w[k],
         l[p + 1] = c,
         \A k \in p + 2 .. n + 1 : l[k] = w[k - 1]
  PROVE  l = Insertion(w, p, c)
<1> DEFINE a == SubSeq(w, 1, p)
           b == SubSeq(w, p + 1, n)
           e == <<c>>
           r == a \o e \o b
<1>2. /\ a \in Seq(T) /\ Len(a) = p /\ \A k \in 1 .. p : a[k] = w[k]
  OBVIOUS
<1>3. /\ b \in Seq(T) /\ Len(b) = n - p /\ \A k \in 1 .. n - p : b[k] = w[p + k]
  OBVIOUS
<1>4. e \in Seq(T) /\ Len(e) = 1 /\ e[1] = c
  OBVIOUS
<1> HIDE DEF a, b, e
<1>5. /\ r \in Seq(T) /\ Len(r) = n + 1
      /\ \A k \in 1 .. p : r[k] = a[k]
      /\ r[p + 1] = e[1]
      /\ \A k \in p + 2 .. n + 1 : r[k] = b[k - (p + 1)]
  <2> DEFINE d == a \o e
  <2>1. d = a \o e /\ r = d \o b
    OBVIOUS
  <2> HIDE DEF d, r
  <2>2. /\ d \in Seq(T) /\ Len(d) = Len(a) + Len(e)
        /\ \A k \in 1 .. Len(a) : d[k] = a[k]
        /\ \A k \in 1 .. Len(e) : d[Len(a) + k] = e[k]
    <3>1. a \in Seq(T) /\ e \in Seq(T)
      BY <1>2, <1>4
    <3> QED BY <2>1, <3>1, JoinedAs, SMTT(30)
  <2>3. /\ r \in Seq(T) /\ Len(r) = Len(d) + Len(b)
        /\ \A k \in 1 .. Len(d) : r[k] = d[k]
        /\ \A k \in 1 .. Len(b) : r[Len(d) + k] = b[k]
    <3>1. d \in Seq(T) /\ b \in Seq(T)
      BY <1>3, <2>2
    <3> QED BY <2>1, <3>1, JoinedAs, SMTT(30)
  <2>4. Len(a) = p /\ Len(e) = 1 /\ Len(b) = n - p /\ Len(d) = p + 1
    BY <1>2, <1>3, <1>4, <2>2
  <2>5. Len(r) = n + 1 /\ r \in Seq(T)
    BY <2>3, <2>4
  <2>6. ASSUME NEW k \in 1 .. p PROVE r[k] = a[k]
    BY <2>2, <2>3, <2>4, SMTT(30)
  <2>7. r[p + 1] = e[1]
    BY <2>2, <2>3, <2>4, SMTT(30)
  <2>8. ASSUME NEW k \in p + 2 .. n + 1 PROVE r[k] = b[k - (p + 1)]
    <3>1. k - (p + 1) \in 1 .. n - p /\ (p + 1) + (k - (p + 1)) = k
      OBVIOUS
    <3> QED BY <2>3, <2>4, <3>1
  <2> QED BY <2>5, <2>6, <2>7, <2>8
<1> HIDE DEF r
<1>6. \A k \in 1 .. n + 1 : r[k] = l[k]
  <2> TAKE k \in 1 .. n + 1
  <2>1. CASE k \in 1 .. p
    BY <1>2, <1>5, <2>1, SMTT(30)
  <2>2. CASE k = p + 1
    BY <1>4, <1>5, <2>2
  <2>3. CASE k \in p + 2 .. n + 1
    <3>1. k - (p + 1) \in 1 .. n - p /\ p + (k - (p + 1)) = k - 1
      BY <2>3
    <3>2. b[k - (p + 1)] = w[k - 1]
      BY <1>3, <3>1
    <3> QED BY <1>5, <2>3, <3>2
  <2> QED BY <2>1, <2>2, <2>3
<1>7. l = r
  BY <1>5, <1>6, SameString
<1> QED BY <1>7 DEF r, a, b, e, Insertion

\* A shift to the left removes a character of the text.
LEMMA TextRemove ==
  ASSUME NEW T, NEW w \in Seq(T), NEW l \in Seq(T), NEW p \in Nat, NEW n \in Nat, 0 < p, p <= n,
         Len(w) = n, Len(l) = n - 1,
         \A k \in 1 .. p - 1 : l[k] = w[k],
         \A k \in p .. n - 1 : l[k] = w[k + 1]
  PROVE  l = Removal(w, p)
<1> DEFINE a == SubSeq(w, 1, p - 1)
           b == SubSeq(w, p + 1, n)
           r == a \o b
<1>2. /\ a \in Seq(T) /\ Len(a) = p - 1 /\ \A k \in 1 .. p - 1 : a[k] = w[k]
  OBVIOUS
<1>3. /\ b \in Seq(T) /\ Len(b) = n - p /\ \A k \in 1 .. n - p : b[k] = w[p + k]
  OBVIOUS
<1> HIDE DEF a, b
<1>5. /\ r \in Seq(T) /\ Len(r) = n - 1
      /\ \A k \in 1 .. p - 1 : r[k] = a[k]
      /\ \A k \in p .. n - 1 : r[k] = b[k - (p - 1)]
  <2>1. r = a \o b
    OBVIOUS
  <2> HIDE DEF r
  <2>2. /\ r \in Seq(T) /\ Len(r) = Len(a) + Len(b)
        /\ \A k \in 1 .. Len(a) : r[k] = a[k]
        /\ \A k \in 1 .. Len(b) : r[Len(a) + k] = b[k]
    <3>1. a \in Seq(T) /\ b \in Seq(T)
      BY <1>2, <1>3
    <3> QED BY <2>1, <3>1, JoinedAs, SMTT(30)
  <2>3. Len(a) = p - 1 /\ Len(b) = n - p
    BY <1>2, <1>3
  <2>4. Len(r) = n - 1 /\ r \in Seq(T)
    BY <2>2, <2>3
  <2>5. ASSUME NEW k \in 1 .. p - 1 PROVE r[k] = a[k]
    BY <2>2, <2>3
  <2>6. ASSUME NEW k \in p .. n - 1 PROVE r[k] = b[k - (p - 1)]
    <3>1. k - (p - 1) \in 1 .. n - p /\ (p - 1) + (k - (p - 1)) = k
      OBVIOUS
    <3> QED BY <2>2, <2>3, <3>1
  <2> QED BY <2>4, <2>5, <2>6
<1> HIDE DEF r
<1>6. \A k \in 1 .. n - 1 : r[k] = l[k]
  <2> TAKE k \in 1 .. n - 1
  <2>1. CASE k \in 1 .. p - 1
    BY <1>2, <1>5, <2>1
  <2>3. CASE k \in p .. n - 1
    <3>1. k - (p - 1) \in 1 .. n - p /\ p + (k - (p - 1)) = k + 1
      BY <2>3
    <3>2. b[k - (p - 1)] = w[k + 1]
      BY <1>3, <3>1
    <3> QED BY <1>5, <2>3, <3>2
  <2> QED BY <2>1, <2>3
<1>7. l = r
  BY <1>5, <1>6, SameString
<1> QED BY <1>7 DEF r, a, b, Removal
-----------------------------------------------------------------------------
\* FlattenSeq of the community modules: what a walk over pieces puts together.
Flat(q) ==
    IF Len(q) = 0 THEN q
    ELSE (CHOOSE f : f = [i \in 1 .. Len(q) |-> IF i = 1 THEN q[i] ELSE f[i - 1] \o q[i]])[Len(q)]

\* The texts that the walk goes through.
Joins(q, r) == r[0] = << >> /\ \A k \in 0 .. Len(q) - 1 : r[k + 1] = r[k] \o q[k + 1]

\* A text behind an empty one.
LEMMA JoinNone == ASSUME NEW T, NEW a \in Seq(T) PROVE << >> \o a = a /\ a \o << >> = a
OBVIOUS

\* There is such a walk over every sequence of pieces.
LEMMA JoinsExist ==
  ASSUME NEW T, NEW q \in Seq(Seq(T))
  PROVE  \E r : r \in [0 .. Len(q) -> Seq(T)] /\ Joins(q, r)
<1> DEFINE Part(n, r) == /\ r \in [0 .. n -> Seq(T)] /\ r[0] = << >>
                         /\ \A k \in 0 .. n - 1 : r[k + 1] = r[k] \o q[k + 1]
           Good == {n \in Nat : n <= Len(q) => \E r : Part(n, r)}
<1>0. Len(q) \in Nat /\ \A k \in 1 .. Len(q) : q[k] \in Seq(T)
  OBVIOUS
<1>1. 0 \in Good
  <2> DEFINE r == [k \in 0 .. 0 |-> << >>]
  <2>1. Part(0, r)
    OBVIOUS
  <2> HIDE DEF Part
  <2> QED BY <2>1
<1>2. ASSUME NEW n \in Nat, n \in Good PROVE n + 1 \in Good
  <2>0. CASE ~(n + 1 <= Len(q))
    <3> HIDE DEF Part
    <3> QED BY <2>0
  <2> SUFFICES ASSUME n + 1 <= Len(q) PROVE \E r : Part(n + 1, r)
    <3> HIDE DEF Part
    <3> QED BY <2>0
  <2>1. PICK s : Part(n, s)
    <3> HIDE DEF Part
    <3> QED BY <1>0, <1>2
  <2> DEFINE end == s[n] \o q[n + 1]
             r == [k \in 0 .. n + 1 |-> IF k = n + 1 THEN end ELSE s[k]]
  <2>2. s[n] \in Seq(T) /\ q[n + 1] \in Seq(T)
    BY <1>0, <2>1
  <2>3. end \in Seq(T)
    BY <2>2
  <2> HIDE DEF end
  <2>4. r \in [0 .. n + 1 -> Seq(T)] /\ r[0] = << >>
    BY <2>1, <2>3
  <2>5. ASSUME NEW k \in 0 .. (n + 1) - 1 PROVE r[k + 1] = r[k] \o q[k + 1]
    <3>1. CASE k = n
      <4>1. r[n + 1] = end /\ r[n] = s[n]
        OBVIOUS
      <4> HIDE DEF r
      <4> QED BY <3>1, <4>1, Zenon DEF end
    <3>2. CASE k \in 0 .. n - 1
      <4>1. r[k + 1] = s[k + 1] /\ r[k] = s[k]
        BY <3>2
      <4>2. s[k + 1] = s[k] \o q[k + 1]
        BY <2>1, <3>2
      <4> HIDE DEF r
      <4> QED BY <4>1, <4>2, Zenon
    <3>3. k = n \/ k \in 0 .. n - 1
      OBVIOUS
    <3> HIDE DEF r
    <3> QED BY <3>1, <3>2, <3>3, Zenon
  <2> HIDE DEF r
  <2>6. Part(n + 1, r)
    BY <2>4, <2>5, Zenon
  <2> QED BY <2>6, Zenon
<1> HIDE DEF Good
<1>3. Nat \subseteq Good
  BY <1>1, <1>2, NatSet
<1>4. Len(q) \in Good
  BY <1>0, <1>3
<1>5. PICK r : Part(Len(q), r)
  <2> HIDE DEF Part
  <2> QED BY <1>0, <1>4 DEF Good
<1>6. r \in [0 .. Len(q) -> Seq(T)] /\ Joins(q, r)
  BY <1>5, Zenon DEF Joins
<1> QED BY <1>6, Zenon

\* All walks over the same pieces go through the same texts.
LEMMA JoinsAgree ==
  ASSUME NEW T, NEW q \in Seq(Seq(T)), NEW r, Joins(q, r), NEW s, Joins(q, s), NEW m \in 0 .. Len(q)
  PROVE  r[m] = s[m] /\ r[m] \in Seq(T)
<1> DEFINE Same == {k \in Nat : k <= Len(q) => r[k] = s[k] /\ r[k] \in Seq(T)}
<1>0. Len(q) \in Nat /\ \A k \in 1 .. Len(q) : q[k] \in Seq(T)
  OBVIOUS
<1>1. 0 \in Same
  <2>1. r[0] = << >> /\ s[0] = << >>
    BY DEF Joins
  <2>2. << >> \in Seq(T)
    OBVIOUS
  <2> QED BY <2>1, <2>2
<1>2. ASSUME NEW k \in Nat, k \in Same PROVE k + 1 \in Same
  <2> SUFFICES ASSUME k + 1 <= Len(q) PROVE r[k + 1] = s[k + 1] /\ r[k + 1] \in Seq(T)
    OBVIOUS
  <2>1. k \in 0 .. Len(q) - 1 /\ k + 1 \in 1 .. Len(q)
    BY <1>0
  <2>2. r[k + 1] = r[k] \o q[k + 1] /\ s[k + 1] = s[k] \o q[k + 1]
    BY <2>1 DEF Joins
  <2>3. r[k] = s[k] /\ r[k] \in Seq(T) /\ q[k + 1] \in Seq(T)
    BY <1>0, <1>2, <2>1
  <2> QED BY <2>2, <2>3, JoinedAs
<1> HIDE DEF Same
<1>3. Nat \subseteq Same
  BY <1>1, <1>2, NatSet
<1>4. m \in Same
  BY <1>0, <1>3
<1> QED BY <1>0, <1>4 DEF Same

\* FlattenSeq ends where the walk does.
THEOREM FlatIs ==
  ASSUME NEW T, NEW q \in Seq(Seq(T)), NEW r, Joins(q, r)
  PROVE  Flat(q) = r[Len(q)] /\ Flat(q) \in Seq(T)
<1> DEFINE n == Len(q)
           Eq(f) == f = [i \in 1 .. n |-> IF i = 1 THEN q[i] ELSE f[i - 1] \o q[i]]
<1>0. n \in Nat /\ \A k \in 1 .. n : q[k] \in Seq(T)
  OBVIOUS
<1>1. CASE n = 0
  <2>1. Flat(q) = q /\ q = << >>
    BY <1>1 DEF Flat
  <2> QED BY <1>1, <2>1 DEF Joins
<1>2. CASE n # 0
  <2> DEFINE f == CHOOSE g : Eq(g)
             h == [i \in 1 .. n |-> r[i]]
  <2>1. Flat(q) = f[n]
    BY <1>2 DEF Flat
  <2>2. Eq(h)
    <3>1. ASSUME NEW i \in 1 .. n PROVE h[i] = IF i = 1 THEN q[i] ELSE h[i - 1] \o q[i]
      <4>1. i - 1 \in 0 .. n - 1 /\ (i - 1) + 1 = i
        BY <1>0
      <4>2. r[(i - 1) + 1] = r[i - 1] \o q[(i - 1) + 1]
        BY <4>1 DEF Joins
      <4>3. r[i] = r[i - 1] \o q[i]
        BY <4>1, <4>2
      <4>4. CASE i = 1
        <5>1. r[0] = << >> /\ q[1] \in Seq(T)
          BY <1>0, <1>2 DEF Joins
        <5>2. r[i - 1] = << >> /\ q[i] \in Seq(T)
          BY <4>4, <5>1
        <5>3. r[i] = q[i]
          BY <4>3, <5>2, JoinNone, Zenon
        <5> QED BY <4>4, <5>3
      <4>5. CASE i # 1
        <5>1. i - 1 \in 1 .. n
          BY <1>0, <4>5
        <5>2. h[i - 1] = r[i - 1] /\ h[i] = r[i]
          BY <5>1
        <5> HIDE DEF h
        <5> QED BY <4>3, <4>5, <5>2, Zenon
      <4> QED BY <4>4, <4>5
    <3> QED BY <3>1
  <2>3. Eq(f)
    <3> HIDE DEF Eq, h
    <3> QED BY <2>2
  <2> HIDE DEF f, h
  <2> DEFINE s == [k \in 0 .. n |-> IF k = 0 THEN << >> ELSE f[k]]
  <2>4. Joins(q, s)
    <3>1. ASSUME NEW k \in 0 .. n - 1 PROVE s[k + 1] = s[k] \o q[k + 1]
      <4>0. k + 1 \in 1 .. n /\ k + 1 \in 0 .. n /\ k \in 0 .. n /\ (k + 1) - 1 = k
        BY <1>0
      <4>1. s[k + 1] = f[k + 1]
        BY <4>0
      <4>2. f[k + 1] = IF k + 1 = 1 THEN q[k + 1] ELSE f[(k + 1) - 1] \o q[k + 1]
        BY <2>3, <4>0
      <4>3. CASE k = 0
        <5>1. s[k] = << >> /\ q[k + 1] \in Seq(T)
          BY <1>0, <4>0, <4>3
        <5>2. f[k + 1] = q[k + 1]
          BY <4>2, <4>3
        <5> HIDE DEF s
        <5> QED BY <4>1, <5>1, <5>2, JoinNone, Zenon
      <4>4. CASE k # 0
        <5>1. s[k] = f[k]
          BY <4>0, <4>4
        <5>2. k + 1 # 1
          BY <4>0, <4>4
        <5>3. f[k + 1] = f[(k + 1) - 1] \o q[k + 1]
          BY <4>2, <5>2, Zenon
        <5>4. f[(k + 1) - 1] = f[k]
          BY <4>0
        <5> HIDE DEF s
        <5> QED BY <4>1, <5>1, <5>3, <5>4, Zenon
      <4> QED BY <4>3, <4>4
    <3>2. s[0] = << >>
      BY <1>0
    <3> HIDE DEF s
    <3> QED BY <3>1, <3>2 DEF Joins
  <2>5. s[n] = f[n] /\ n \in 0 .. n
    BY <1>0, <1>2
  <2> HIDE DEF s
  <2>6. r[n] = s[n] /\ r[n] \in Seq(T)
    BY <2>4, <2>5, JoinsAgree
  <2> QED BY <2>1, <2>5, <2>6
<1> QED BY <1>1, <1>2

\* What FlattenSeq gives, and the walk behind it.
THEOREM FlatJoins ==
  ASSUME NEW T, NEW q \in Seq(Seq(T))
  PROVE  \E r : /\ Joins(q, r) /\ Flat(q) = r[Len(q)]
                /\ \A k \in 0 .. Len(q) : r[k] \in Seq(T)
<1>1. PICK r : r \in [0 .. Len(q) -> Seq(T)] /\ Joins(q, r)
  BY JoinsExist
<1>2. Flat(q) = r[Len(q)]
  BY <1>1, FlatIs
<1>3. \A k \in 0 .. Len(q) : r[k] \in Seq(T)
  BY <1>1
<1> QED BY <1>1, <1>2, <1>3, Zenon

\* Of fewer pieces it gives a prefix.
THEOREM FlatPrefix ==
  ASSUME NEW T, NEW p \in Seq(Seq(T)), NEW q \in Seq(Seq(T)), Len(p) <= Len(q),
         \A k \in 1 .. Len(p) : p[k] = q[k]
  PROVE  /\ Flat(p) \in Seq(T) /\ Flat(q) \in Seq(T) /\ Len(Flat(p)) <= Len(Flat(q))
         /\ \A i \in 1 .. Len(Flat(p)) : Flat(p)[i] = Flat(q)[i]
<1>0. Len(p) \in Nat /\ Len(q) \in Nat /\ \A k \in 1 .. Len(q) : q[k] \in Seq(T)
  OBVIOUS
<1>1. PICK r : Joins(q, r) /\ Flat(q) = r[Len(q)] /\ \A k \in 0 .. Len(q) : r[k] \in Seq(T)
  BY FlatJoins
<1>2. Joins(p, r)
  <2>1. ASSUME NEW k \in 0 .. Len(p) - 1 PROVE r[k + 1] = r[k] \o p[k + 1]
    <3>1. k \in 0 .. Len(q) - 1 /\ k + 1 \in 1 .. Len(p)
      BY <1>0
    <3>2. r[k + 1] = r[k] \o q[k + 1]
      BY <1>1, <3>1 DEF Joins
    <3>3. p[k + 1] = q[k + 1]
      BY <3>1
    <3> QED BY <3>2, <3>3, Zenon
  <2> QED BY <1>1, <2>1, Zenon DEF Joins
<1>3. Flat(p) = r[Len(p)]
  BY <1>2, FlatIs
<1> DEFINE m == Len(p)
           Good == {j \in Nat : m + j <= Len(q) =>
                       /\ Len(r[m]) <= Len(r[m + j])
                       /\ \A i \in 1 .. Len(r[m]) : r[m][i] = r[m + j][i]}
<1>4. 0 \in Good
  <2>1. m + 0 = m /\ r[m] \in Seq(T)
    BY <1>0, <1>1
  <2>2. Len(r[m]) \in Nat
    BY <2>1
  <2> HIDE DEF m
  <2> QED BY <2>1, <2>2
<1>5. ASSUME NEW j \in Nat, j \in Good PROVE j + 1 \in Good
  <2> SUFFICES ASSUME m + (j + 1) <= Len(q)
               PROVE  /\ Len(r[m]) <= Len(r[m + (j + 1)])
                      /\ \A i \in 1 .. Len(r[m]) : r[m][i] = r[m + (j + 1)][i]
    OBVIOUS
  <2> DEFINE k == m + j
  <2>1. k \in 0 .. Len(q) - 1 /\ m + (j + 1) = k + 1 /\ k + 1 \in 1 .. Len(q) /\ k \in 0 .. Len(q)
        /\ m + j <= Len(q) /\ m \in 0 .. Len(q)
    BY <1>0
  <2>2. /\ Len(r[m]) <= Len(r[k])
        /\ \A i \in 1 .. Len(r[m]) : r[m][i] = r[k][i]
    BY <1>5, <2>1
  <2> HIDE DEF k, m
  <2>3. r[k + 1] = r[k] \o q[k + 1]
    BY <1>1, <2>1 DEF Joins
  <2>4. r[k] \in Seq(T) /\ q[k + 1] \in Seq(T) /\ r[m] \in Seq(T)
    BY <1>0, <1>1, <2>1
  <2>5. /\ Len(r[k + 1]) = Len(r[k]) + Len(q[k + 1])
        /\ \A i \in 1 .. Len(r[k]) : r[k + 1][i] = r[k][i]
    <3> DEFINE a == r[k]
               b == q[k + 1]
               c == r[k + 1]
    <3>1. a \in Seq(T) /\ b \in Seq(T) /\ c = a \o b
      BY <2>3, <2>4, Zenon
    <3> HIDE DEF a, b, c
    <3>2. Len(c) = Len(a) + Len(b) /\ \A i \in 1 .. Len(a) : c[i] = a[i]
      BY <3>1, JoinedAs
    <3> QED BY <3>2, Zenon DEF a, b, c
  <2>6. Len(r[k]) \in Nat /\ Len(q[k + 1]) \in Nat /\ Len(r[m]) \in Nat
    BY <2>4
  <2>7. \A i \in 1 .. Len(r[m]) : i \in 1 .. Len(r[k])
    BY <2>2, <2>6
  <2>8. Len(r[m]) <= Len(r[k + 1])
    <3> DEFINE a == Len(r[m])
               b == Len(r[k])
               c == Len(q[k + 1])
               d == Len(r[k + 1])
    <3>1. a \in Nat /\ b \in Nat /\ c \in Nat /\ a <= b /\ d = b + c
      BY <2>2, <2>5, <2>6, Zenon
    <3> HIDE DEF a, b, c, d
    <3>2. a <= d
      BY <3>1
    <3> QED BY <3>2 DEF a, d
  <2>9. \A i \in 1 .. Len(r[m]) : r[m][i] = r[k + 1][i]
    BY <2>2, <2>5, <2>7, Zenon
  <2> QED BY <2>1, <2>8, <2>9
<1> HIDE DEF Good
<1>6. Nat \subseteq Good
  BY <1>4, <1>5, NatSet
<1>7. Len(q) - m \in Good /\ m + (Len(q) - m) = Len(q)
  BY <1>0, <1>6
<1>8. r[m] \in Seq(T) /\ r[Len(q)] \in Seq(T)
  BY <1>0, <1>1
<1> QED BY <1>0, <1>1, <1>3, <1>7, <1>8 DEF Good

\* An element of a sequence.
In(x, q) == \E i \in 1 .. Len(q) : q[i] = x

\* The elements of what FlattenSeq gives are those of the pieces.
THEOREM FlatRange ==
  ASSUME NEW T, NEW q \in Seq(Seq(T)), NEW x
  PROVE  In(x, Flat(q)) <=> \E k \in 1 .. Len(q) : In(x, q[k])
<1>0. Len(q) \in Nat /\ \A k \in 1 .. Len(q) : q[k] \in Seq(T)
  OBVIOUS
<1>1. PICK r : Joins(q, r) /\ Flat(q) = r[Len(q)] /\ \A k \in 0 .. Len(q) : r[k] \in Seq(T)
  BY FlatJoins
<1> DEFINE Has(t) == \E i \in 1 .. Len(t) : t[i] = x
           Good == {m \in Nat : m <= Len(q) => (Has(r[m]) <=> \E k \in 1 .. m : Has(q[k]))}
<1>2. 0 \in Good
  <2>1. r[0] = << >>
    BY <1>1 DEF Joins
  <2>2. ~Has(r[0])
    BY <2>1
  <2> HIDE DEF Has
  <2> QED BY <2>2
<1>3. ASSUME NEW a \in Seq(T), NEW b \in Seq(T) PROVE Has(a \o b) <=> Has(a) \/ Has(b)
  <2> DEFINE c == a \o b
  <2>1. /\ Len(c) = Len(a) + Len(b) /\ Len(a) \in Nat /\ Len(b) \in Nat
        /\ \A k \in 1 .. Len(a) : c[k] = a[k]
        /\ \A k \in 1 .. Len(b) : c[Len(a) + k] = b[k]
    BY JoinedAs
  <2> HIDE DEF c
  <2>2. ASSUME NEW i \in 1 .. Len(c), c[i] = x PROVE Has(a) \/ Has(b)
    <3>1. CASE i \in 1 .. Len(a)
      BY <2>1, <2>2, <3>1
    <3>2. CASE ~(i \in 1 .. Len(a))
      <4>1. i - Len(a) \in 1 .. Len(b) /\ Len(a) + (i - Len(a)) = i
        BY <2>1, <3>2
      <4>2. b[i - Len(a)] = c[i]
        BY <2>1, <4>1
      <4> QED BY <2>2, <4>1, <4>2
    <3> QED BY <3>1, <3>2
  <2>3. ASSUME NEW i \in 1 .. Len(a), a[i] = x PROVE Has(c)
    <3>1. i \in 1 .. Len(c)
      BY <2>1
    <3> QED BY <2>1, <2>3, <3>1
  <2>4. ASSUME NEW i \in 1 .. Len(b), b[i] = x PROVE Has(c)
    <3>1. Len(a) + i \in 1 .. Len(c)
      BY <2>1
    <3>2. c[Len(a) + i] = x
      BY <2>1, <2>4
    <3> QED BY <3>1, <3>2
  <2>5. Has(c) <=> Has(a) \/ Has(b)
    BY <2>2, <2>3, <2>4
  <2> HIDE DEF Has
  <2> QED BY <2>5 DEF c
<1>4. ASSUME NEW m \in Nat, m \in Good PROVE m + 1 \in Good
  <2> HIDE DEF Has
  <2> SUFFICES ASSUME m + 1 <= Len(q) PROVE Has(r[m + 1]) <=> \E k \in 1 .. m + 1 : Has(q[k])
    OBVIOUS
  <2>1. m \in 0 .. Len(q) - 1 /\ m \in 0 .. Len(q) /\ m + 1 \in 1 .. Len(q) /\ m <= Len(q)
    BY <1>0
  <2>2. r[m + 1] = r[m] \o q[m + 1] /\ r[m] \in Seq(T) /\ q[m + 1] \in Seq(T)
    BY <1>0, <1>1, <2>1 DEF Joins
  <2>3. Has(r[m] \o q[m + 1]) <=> Has(r[m]) \/ Has(q[m + 1])
    BY <1>3, <2>2, Zenon
  <2>3a. Has(r[m + 1]) <=> Has(r[m]) \/ Has(q[m + 1])
    BY <2>2, <2>3, Zenon
  <2>4. Has(r[m]) <=> \E k \in 1 .. m : Has(q[k])
    BY <1>4, <2>1
  <2>5. 1 .. m + 1 = 1 .. m \cup {m + 1}
    OBVIOUS
  <2> QED BY <2>3a, <2>4, <2>5
<1> HIDE DEF Good
<1>5. Nat \subseteq Good
  BY <1>2, <1>4, NatSet
<1>6. Len(q) \in Good
  BY <1>0, <1>5
<1>7. Has(r[Len(q)]) <=> \E k \in 1 .. Len(q) : Has(q[k])
  <2> HIDE DEF Has
  <2> QED BY <1>0, <1>6 DEF Good
<1> QED BY <1>1, <1>7, Zenon DEF In

\* Places in pieces of n that come one behind the other.
LEMMA Places ==
  ASSUME NEW n \in Nat, NEW m \in Nat, NEW k \in 0 .. m - 1, NEW j \in 1 .. n
  PROVE  k * n + j \in 1 .. m * n
<1> DEFINE d == m - (k + 1)
<1>1. d \in Nat /\ k \in Nat /\ m = k + 1 + d
  OBVIOUS
<1> HIDE DEF d
<1> DEFINE x == k * n
           y == d * n
<1>2. x \in Nat /\ y \in Nat /\ m * n = x + n + y
  BY <1>1
<1> HIDE DEF x, y
<1>3. x + j \in 1 .. m * n
  BY <1>2
<1> QED BY <1>3 DEF x

\* Of pieces of the same length every element is where the length puts it.
THEOREM FlatEqual ==
  ASSUME NEW T, NEW q \in Seq(Seq(T)), NEW n \in Nat, \A k \in 1 .. Len(q) : Len(q[k]) = n
  PROVE  /\ Flat(q) \in Seq(T) /\ Len(Flat(q)) = Len(q) * n
         /\ \A k \in 0 .. Len(q) - 1, j \in 1 .. n : Flat(q)[k * n + j] = q[k + 1][j]
<1>0. Len(q) \in Nat /\ \A k \in 1 .. Len(q) : q[k] \in Seq(T)
  OBVIOUS
<1>1. PICK r : Joins(q, r) /\ Flat(q) = r[Len(q)] /\ \A k \in 0 .. Len(q) : r[k] \in Seq(T)
  BY FlatJoins
<1> DEFINE Good == {m \in Nat : m <= Len(q) =>
                      /\ Len(r[m]) = m * n
                      /\ \A k \in 0 .. m - 1, j \in 1 .. n : r[m][k * n + j] = q[k + 1][j]}
<1>2. 0 \in Good
  <2>1. r[0] = << >>
    BY <1>1 DEF Joins
  <2>2. Len(r[0]) = 0 * n
    BY <2>1
  <2> QED BY <2>2
<1>3. ASSUME NEW m \in Nat, m \in Good PROVE m + 1 \in Good
  <2> SUFFICES ASSUME m + 1 <= Len(q)
               PROVE  /\ Len(r[m + 1]) = (m + 1) * n
                      /\ \A k \in 0 .. (m + 1) - 1, j \in 1 .. n : r[m + 1][k * n + j] = q[k + 1][j]
    OBVIOUS
  <2>1. m \in 0 .. Len(q) - 1 /\ m \in 0 .. Len(q) /\ m + 1 \in 1 .. Len(q) /\ m <= Len(q)
    BY <1>0
  <2> DEFINE a == r[m]
             b == q[m + 1]
             c == r[m + 1]
  <2>2. /\ Len(a) = m * n
        /\ \A k \in 0 .. m - 1, j \in 1 .. n : a[k * n + j] = q[k + 1][j]
    BY <1>3, <2>1
  <2>3. a \in Seq(T) /\ b \in Seq(T) /\ c = a \o b /\ Len(b) = n
    BY <1>0, <1>1, <2>1, Zenon DEF Joins
  <2> HIDE DEF a, b, c
  <2>4. /\ Len(c) = Len(a) + Len(b)
        /\ \A k \in 1 .. Len(a) : c[k] = a[k]
        /\ \A k \in 1 .. Len(b) : c[Len(a) + k] = b[k]
    <3>1. a \in Seq(T) /\ b \in Seq(T) /\ c = a \o b
      BY <2>3
    <3> HIDE DEF Good
    <3> QED BY <3>1, JoinedAs, SMTT(30)
  <2>5. Len(c) = (m + 1) * n
    BY <2>2, <2>3, <2>4
  <2>6. ASSUME NEW k \in 0 .. (m + 1) - 1, NEW j \in 1 .. n PROVE c[k * n + j] = q[k + 1][j]
    <3>1. CASE k \in 0 .. m - 1
      <4>1. k * n + j \in 1 .. m * n
        BY <3>1, Places
      <4>2. c[k * n + j] = a[k * n + j]
        BY <2>2, <2>4, <4>1
      <4>3. a[k * n + j] = q[k + 1][j]
        BY <2>2, <3>1
      <4> QED BY <4>2, <4>3, Zenon
    <3>2. CASE k = m
      <4>1. c[Len(a) + j] = b[j]
        BY <2>3, <2>4
      <4>2. Len(a) + j = k * n + j
        BY <2>2, <3>2
      <4>3. b[j] = q[k + 1][j]
        BY <3>2 DEF b
      <4> QED BY <4>1, <4>2, <4>3, Zenon
    <3>3. k \in 0 .. m - 1 \/ k = m
      OBVIOUS
    <3> QED BY <3>1, <3>2, <3>3, Zenon
  <2> QED BY <2>5, <2>6, Zenon DEF c
<1> HIDE DEF Good
<1>4. Nat \subseteq Good
  BY <1>2, <1>3, NatSet
<1>5. Len(q) \in Good
  BY <1>0, <1>4
<1>6. r[Len(q)] \in Seq(T) /\ Len(q) <= Len(q)
  BY <1>0, <1>1
<1> DEFINE f == r[Len(q)]
<1>7. /\ Len(f) = Len(q) * n
      /\ \A k \in 0 .. Len(q) - 1, j \in 1 .. n : f[k * n + j] = q[k + 1][j]
  BY <1>5, <1>6 DEF Good
<1> HIDE DEF f
<1>8. Flat(q) = f /\ f \in Seq(T)
  BY <1>1, <1>6 DEF f
<1> QED BY <1>7, <1>8, Zenon

\* Three texts in a row.
LEMMA JoinThree ==
  ASSUME NEW T, NEW a \in Seq(T), NEW b \in Seq(T), NEW c \in Seq(T)
  PROVE  (a \o b) \o c = a \o (b \o c)
<1> DEFINE ab == a \o b
           bc == b \o c
           x == ab \o c
           y == a \o bc
<1>1. /\ ab \in Seq(T) /\ Len(ab) = Len(a) + Len(b)
      /\ \A k \in 1 .. Len(a) : ab[k] = a[k]
      /\ \A k \in 1 .. Len(b) : ab[Len(a) + k] = b[k]
  BY JoinedAs
<1>2. /\ bc \in Seq(T) /\ Len(bc) = Len(b) + Len(c)
      /\ \A k \in 1 .. Len(b) : bc[k] = b[k]
      /\ \A k \in 1 .. Len(c) : bc[Len(b) + k] = c[k]
  BY JoinedAs
<1> HIDE DEF ab, bc
<1>3. /\ x \in Seq(T) /\ Len(x) = Len(ab) + Len(c)
      /\ \A k \in 1 .. Len(ab) : x[k] = ab[k]
      /\ \A k \in 1 .. Len(c) : x[Len(ab) + k] = c[k]
  <2>1. ab \in Seq(T)
    BY <1>1
  <2> QED BY <2>1, JoinedAs
<1>4. /\ y \in Seq(T) /\ Len(y) = Len(a) + Len(bc)
      /\ \A k \in 1 .. Len(a) : y[k] = a[k]
      /\ \A k \in 1 .. Len(bc) : y[Len(a) + k] = bc[k]
  <2>1. bc \in Seq(T)
    BY <1>2
  <2> QED BY <2>1, JoinedAs
<1> HIDE DEF x, y
<1>5. Len(a) \in Nat /\ Len(b) \in Nat /\ Len(c) \in Nat
  OBVIOUS
<1>6. Len(x) = Len(y)
  BY <1>1, <1>2, <1>3, <1>4, <1>5
<1>7. ASSUME NEW k \in 1 .. Len(x) PROVE x[k] = y[k]
  <2>1. CASE k <= Len(a)
    BY <1>1, <1>3, <1>4, <1>5, <2>1
  <2>2. CASE Len(a) < k /\ k <= Len(a) + Len(b)
    <3> DEFINE j == k - Len(a)
    <3>1. j \in 1 .. Len(b) /\ j \in 1 .. Len(bc) /\ k \in 1 .. Len(ab) /\ k = Len(a) + j
      BY <1>1, <1>2, <1>5, <2>2
    <3> HIDE DEF j
    <3> QED BY <1>1, <1>2, <1>3, <1>4, <3>1
  <2>3. CASE Len(a) + Len(b) < k
    <3> DEFINE j == k - (Len(a) + Len(b))
    <3>1. /\ j \in 1 .. Len(c) /\ Len(b) + j \in 1 .. Len(bc)
          /\ k = Len(ab) + j /\ k = Len(a) + (Len(b) + j)
      BY <1>1, <1>2, <1>3, <1>5, <2>3
    <3> HIDE DEF j
    <3> QED BY <1>2, <1>3, <1>4, <3>1
  <2> QED BY <1>1, <1>3, <1>5, <2>1, <2>2, <2>3
<1>8. x = y
  BY <1>3, <1>4, <1>6, <1>7, SameString
<1> QED BY <1>8 DEF x, y, ab, bc

\* A text consists of two others.
Consists(b, a, u) == b = a \o u

\* A walk that starts behind a text goes through the same texts behind it.
LEMMA JoinOn ==
  ASSUME NEW T, NEW a \in Seq(T), NEW y \in Seq(T), NEW u \in Seq(T),
         NEW e, Consists(e, a, y), NEW v, Consists(v, e, u), NEW z, Consists(z, y, u)
  PROVE  Consists(v, a, z)
<1>1. (a \o y) \o u = a \o (y \o u)
  BY JoinThree
<1> QED BY <1>1, Zenon DEF Consists

\* Places among n others.
LEMMA Within ==
  ASSUME NEW x \in Nat, NEW d \in Nat, NEW n \in Nat, x + d <= n, NEW j \in 0 .. d - 1
  PROVE  x + j \in 0 .. n - 1 /\ x + j + 1 \in 1 .. n
OBVIOUS

\* The whole of such a walk, over d pieces.
LEMMA WalkOn ==
  ASSUME NEW T, NEW a \in Seq(T), NEW x \in Nat, NEW d \in Nat, NEW s, NEW t, NEW w,
         t[x] = a, w[0] = << >>,
         \A j \in 0 .. d : w[j] \in Seq(T),
         \A j \in 0 .. d - 1 : /\ s[x + j + 1] \in Seq(T)
                               /\ Consists(w[j + 1], w[j], s[x + j + 1])
                               /\ Consists(t[x + j + 1], t[x + j], s[x + j + 1])
  PROVE  Consists(t[x + d], a, w[d])
<1> DEFINE Good == {j \in Nat : j <= d => Consists(t[x + j], a, w[j])}
<1>1. 0 \in Good
  <2>1. a \o << >> = a
    BY JoinNone
  <2>2. Consists(a, a, << >>)
    BY <2>1, Zenon DEF Consists
  <2>3. x + 0 = x
    OBVIOUS
  <2> QED BY <2>2, <2>3
<1>2. ASSUME NEW j \in Nat, j \in Good PROVE j + 1 \in Good
  <2> SUFFICES ASSUME j + 1 <= d PROVE Consists(t[x + (j + 1)], a, w[j + 1])
    OBVIOUS
  <2>1. j \in 0 .. d - 1 /\ j \in 0 .. d /\ j <= d /\ x + j + 1 = x + (j + 1)
    OBVIOUS
  <2>2. Consists(t[x + j], a, w[j]) /\ w[j] \in Seq(T) /\ s[x + j + 1] \in Seq(T)
    BY <1>2, <2>1
  <2>3. /\ Consists(w[j + 1], w[j], s[x + j + 1])
        /\ Consists(t[x + j + 1], t[x + j], s[x + j + 1])
    BY <2>1
  <2>4. Consists(t[x + j + 1], a, w[j + 1])
    BY <2>2, <2>3, JoinOn
  <2> QED BY <2>1, <2>4
<1> HIDE DEF Good
<1>3. d \in Good
  BY <1>1, <1>2, NatSet
<1> QED BY <1>3 DEF Good

\* Pieces that are put together from smaller ones: the k-th consists of those after
\* the o[k]-th, and c[k] is the walk over them.
Groups(T, p, s, o, c) ==
    /\ o \in [0 .. Len(p) -> 0 .. Len(s)] /\ o[0] = 0 /\ o[Len(p)] = Len(s)
    /\ \A k \in 0 .. Len(p) - 1 :
          /\ o[k] <= o[k + 1]
          /\ c[k][0] = << >> /\ c[k][o[k + 1] - o[k]] = p[k + 1]
          /\ \A j \in 0 .. o[k + 1] - o[k] : c[k][j] \in Seq(T)
          /\ \A j \in 0 .. o[k + 1] - o[k] - 1 : Consists(c[k][j + 1], c[k][j], s[o[k] + j + 1])

\* They give the same text as the smaller ones.
THEOREM FlatRegroup ==
  ASSUME NEW T, NEW p \in Seq(Seq(T)), NEW s \in Seq(Seq(T)), NEW o, NEW c, Groups(T, p, s, o, c)
  PROVE  Flat(p) = Flat(s)
<1>0. /\ Len(p) \in Nat /\ \A k \in 1 .. Len(p) : p[k] \in Seq(T)
      /\ Len(s) \in Nat /\ \A k \in 1 .. Len(s) : s[k] \in Seq(T)
  OBVIOUS
<1>1. PICK r : Joins(p, r) /\ Flat(p) = r[Len(p)] /\ \A k \in 0 .. Len(p) : r[k] \in Seq(T)
  BY FlatJoins
<1>2. PICK t : Joins(s, t) /\ Flat(s) = t[Len(s)] /\ \A k \in 0 .. Len(s) : t[k] \in Seq(T)
  BY FlatJoins
<1>3. r[0] = << >> /\ \A k \in 0 .. Len(p) - 1 : Consists(r[k + 1], r[k], p[k + 1])
  BY <1>1, Zenon DEF Joins, Consists
<1>4. t[0] = << >> /\ \A k \in 0 .. Len(s) - 1 : Consists(t[k + 1], t[k], s[k + 1])
  BY <1>2, Zenon DEF Joins, Consists
<1> DEFINE Same == {k \in Nat : k <= Len(p) => r[k] = t[o[k]]}
<1>5. 0 \in Same
  BY <1>3, <1>4 DEF Groups
<1>6. ASSUME NEW k \in Nat, k \in Same PROVE k + 1 \in Same
  <2> SUFFICES ASSUME k + 1 <= Len(p) PROVE r[k + 1] = t[o[k + 1]]
    OBVIOUS
  <2> DEFINE a == r[k]
             w == c[k]
             x == o[k]
             d == o[k + 1] - o[k]
  <2>1. /\ k \in 0 .. Len(p) - 1 /\ k \in 0 .. Len(p) /\ k + 1 \in 0 .. Len(p) /\ k + 1 \in 1 .. Len(p)
    BY <1>0
  <2>2. x \in Nat /\ d \in Nat /\ x + d = o[k + 1] /\ x + d <= Len(s)
    <3>1. o[k] \in 0 .. Len(s) /\ o[k + 1] \in 0 .. Len(s) /\ o[k] <= o[k + 1]
      BY <2>1 DEF Groups
    <3> QED BY <1>0, <3>1
  <2>3. a = t[x] /\ a \in Seq(T) /\ Consists(r[k + 1], a, p[k + 1])
    BY <1>1, <1>3, <1>6, <2>1
  <2>4. /\ w[0] = << >> /\ w[d] = p[k + 1]
        /\ \A j \in 0 .. d : w[j] \in Seq(T)
        /\ \A j \in 0 .. d - 1 : Consists(w[j + 1], w[j], s[x + j + 1])
    BY <2>1 DEF Groups
  <2> HIDE DEF a, w, x, d
  <2>5. ASSUME NEW j \in 0 .. d - 1
        PROVE  s[x + j + 1] \in Seq(T) /\ Consists(t[x + j + 1], t[x + j], s[x + j + 1])
    <3>1. x + j \in 0 .. Len(s) - 1 /\ x + j + 1 \in 1 .. Len(s)
      BY <1>0, <2>2, Within
    <3> QED BY <1>0, <1>4, <3>1
  <2>6. Consists(t[x + d], a, w[d])
    BY <2>2, <2>3, <2>4, <2>5, WalkOn
  <2> QED BY <2>2, <2>3, <2>4, <2>6 DEF Consists
<1> HIDE DEF Same
<1>7. Len(p) \in Same
  BY <1>0, <1>5, <1>6, NatSet
<1>8. r[Len(p)] = t[o[Len(p)]]
  BY <1>0, <1>7 DEF Same
<1> QED BY <1>1, <1>2, <1>8 DEF Groups
=============================================================================
