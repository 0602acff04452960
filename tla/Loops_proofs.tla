---------------------------- MODULE Loops_proofs -----------------------------
(***************************************************************************)
(* What a loop gives, whatever a turn of it does: a module that proves     *)
(* something about a loop instantiates this one with its turn.             *)
(***************************************************************************)
EXTENDS Loops, WellFoundedInduction, TLAPS

CONSTANT Turn(_, _, _)  \* what becomes of a value with an element; first what is fixed

Runs(fixed, start, seq) == Loop(LAMBDA value, e : Turn(fixed, value, e), start, seq)

\* f[i] is the value after i turns.
Goes(f, fixed, start, seq, n) ==
  f = [i \in 0..n |-> IF i = 0 THEN start
                      ELSE CHOOSE y \in {Turn(fixed, x, seq[i]) : x \in {f[i - 1]}} : TRUE]

LEMMA GoesAt ==
  ASSUME NEW f, NEW fixed, NEW start, NEW seq, NEW n, Goes(f, fixed, start, seq, n), NEW i \in 0..n
  PROVE  f[i] = IF i = 0 THEN start ELSE Turn(fixed, f[i - 1], seq[i])
<1> DEFINE F(j) == IF j = 0 THEN start
                   ELSE CHOOSE y \in {Turn(fixed, x, seq[j]) : x \in {f[j - 1]}} : TRUE
<1>1. f = [j \in 0..n |-> F(j)]
  BY DEF Goes
<1> HIDE DEF F
<1>2. f[i] = F(i)
  BY <1>1
<1>3. {Turn(fixed, x, seq[i]) : x \in {f[i - 1]}} = {Turn(fixed, f[i - 1], seq[i])}
  OBVIOUS
<1>4. (CHOOSE y \in {Turn(fixed, x, seq[i]) : x \in {f[i - 1]}} : TRUE) = Turn(fixed, f[i - 1], seq[i])
  BY <1>3
<1> QED BY <1>2, <1>4 DEF F

LEMMA GoesExist ==
  ASSUME NEW fixed, NEW start, NEW seq
  PROVE  \A n \in Nat : \E f : Goes(f, fixed, start, seq, n)
<1> DEFINE Bad == {n \in Nat : ~\E f : Goes(f, fixed, start, seq, n)}
           Next(v, i) == CHOOSE y \in {Turn(fixed, x, seq[i]) : x \in {v}} : TRUE
<1> SUFFICES ASSUME Bad # {} PROVE FALSE
  OBVIOUS
<1>0. \A f, n : Goes(f, fixed, start, seq, n) <=>
        f = [i \in 0..n |-> IF i = 0 THEN start ELSE Next(f[i - 1], i)]
  BY DEF Goes
<1> HIDE DEF Next
<1>1. PICK n \in Bad : \A m \in Bad : ~(m < n)
  <2>1. PICK n \in Bad : \A m \in Bad : <<m, n>> \notin OpToRel(<, Nat)
    BY WFMin, NatLessThanWellFounded
  <2> QED BY <2>1 DEF OpToRel
<1>2. CASE n = 0
  <2> DEFINE f == [i \in 0..0 |-> start]
  <2>1. f = [i \in 0..0 |-> IF i = 0 THEN start ELSE Next(f[i - 1], i)]
    OBVIOUS
  <2> HIDE DEF f
  <2> QED BY <1>0, <1>1, <1>2, <2>1
<1>3. CASE n # 0
  <2>1. n - 1 \in Nat /\ n - 1 \notin Bad /\ n \in Nat \ {0}
    BY <1>1, <1>3
  <2>2. PICK f : f = [i \in 0..(n - 1) |-> IF i = 0 THEN start ELSE Next(f[i - 1], i)]
    BY <1>0, <2>1
  <2> DEFINE F(i) == IF i = 0 THEN start ELSE Next(f[i - 1], i)
             last == Next(f[n - 1], n)
             g == [i \in 0..n |-> IF i = n THEN last ELSE f[i]]
  <2>3. \A i \in 0..(n - 1) : f[i] = F(i)
    <3>1. f = [i \in 0..(n - 1) |-> F(i)]
      BY <2>2
    <3> HIDE DEF F
    <3> QED BY <3>1
  <2>4. ASSUME NEW i \in 0..n
        PROVE  g[i] = IF i = 0 THEN start ELSE Next(g[i - 1], i)
    <3>1. CASE i = n
      <4>1. n - 1 \in 0..n /\ n - 1 # n
        BY <2>1
      <4>2. g[n - 1] = f[n - 1]
        BY <4>1
      <4> QED BY <2>1, <3>1, <4>2
    <3>2. CASE i # n
      <4>1. i \in 0..(n - 1) /\ g[i] = f[i]
        BY <2>1, <3>2
      <4>2. i # 0 => g[i - 1] = f[i - 1]
        BY <2>1, <4>1
      <4> QED BY <2>3, <4>1, <4>2
    <3> QED BY <3>1, <3>2
  <2>5. g = [i \in 0..n |-> g[i]]
    OBVIOUS
  <2> HIDE DEF g, F
  <2>6. g = [i \in 0..n |-> IF i = 0 THEN start ELSE Next(g[i - 1], i)]
    BY <2>4, <2>5
  <2> QED BY <1>0, <1>1, <2>6
<1> QED BY <1>2, <1>3

\* A loop is the last of the values it goes through.
LEMMA RunsThrough ==
  ASSUME NEW fixed, NEW start, NEW seq, Len(seq) \in Nat
  PROVE  \E f : /\ Runs(fixed, start, seq) = f[Len(seq)]
                /\ f[0] = start
                /\ \A i \in 1..Len(seq) : f[i] = Turn(fixed, f[i - 1], seq[i])
<1> DEFINE n == Len(seq)
           IsRun(f) == f = [i \in 0..n |-> IF i = 0 THEN start
                              ELSE CHOOSE y \in {Turn(fixed, x, seq[i]) : x \in {f[i - 1]}} : TRUE]
           f == CHOOSE f : IsRun(f)
<1>1. \E g : IsRun(g)
  <2>1. PICK g : Goes(g, fixed, start, seq, n)
    BY GoesExist
  <2>2. IsRun(g)
    BY <2>1 DEF Goes
  <2> HIDE DEF IsRun
  <2> QED BY <2>2
<1>2. IsRun(f)
  <2> HIDE DEF IsRun
  <2> QED BY <1>1
<1>3. Goes(f, fixed, start, seq, n)
  BY <1>2 DEF Goes
<1>4. Runs(fixed, start, seq) = f[n]
  <2> DEFINE through(s) ==
               LET after == CHOOSE g : g = [i \in 0..Len(s) |-> IF i = 0 THEN start
                              ELSE CHOOSE y \in {Turn(fixed, x, s[i]) : x \in {g[i - 1]}} : TRUE]
               IN after[Len(s)]
  <2>1. Runs(fixed, start, seq) = CHOOSE y \in {through(s) : s \in {seq}} : TRUE
    BY DEF Runs, Loop, Once
  <2>2. through(seq) = f[n]
    OBVIOUS
  <2> HIDE DEF through
  <2>3. {through(s) : s \in {seq}} = {through(seq)}
    OBVIOUS
  <2> QED BY <2>1, <2>2, <2>3
<1> HIDE DEF f
<1>5. \A i \in 0..n : f[i] = IF i = 0 THEN start ELSE Turn(fixed, f[i - 1], seq[i])
  BY <1>3, GoesAt
<1>6. f[0] = start /\ \A i \in 1..n : f[i] = Turn(fixed, f[i - 1], seq[i])
  <2> HIDE DEF n
  <2>1. n \in Nat
    BY DEF n
  <2>2. 0 \in 0..n /\ \A i \in 1..n : i \in 0..n /\ i # 0
    BY <2>1
  <2> QED BY <1>5, <2>2
<1> QED BY <1>4, <1>6

\* What holds before the loop, and after a turn when it holds before, holds at the end;
\* it may be something else for each number of turns.
LEMMA StagesPassed ==
  ASSUME NEW fixed, NEW start, NEW seq, Len(seq) \in Nat, NEW D, start \in D[0],
         \A i \in 1..Len(seq) : \A v \in D[i - 1] : Turn(fixed, v, seq[i]) \in D[i]
  PROVE  Runs(fixed, start, seq) \in D[Len(seq)]
<1> DEFINE n == Len(seq)
<1>1. PICK f : /\ Runs(fixed, start, seq) = f[n]
               /\ f[0] = start
               /\ \A i \in 1..n : f[i] = Turn(fixed, f[i - 1], seq[i])
  BY RunsThrough
<1> DEFINE Bad == {i \in 0..n : f[i] \notin D[i]}
<1>2. Bad = {}
  <2> SUFFICES ASSUME Bad # {} PROVE FALSE
    OBVIOUS
  <2>1. PICK i \in Bad : \A j \in Bad : ~(j < i)
    <3>1. Bad \subseteq Nat
      OBVIOUS
    <3>2. PICK i \in Bad : \A j \in Bad : <<j, i>> \notin OpToRel(<, Nat)
      BY <3>1, WFMin, NatLessThanWellFounded
    <3> QED BY <3>1, <3>2 DEF OpToRel
  <2>2. i # 0
    BY <1>1, <2>1
  <2>3. i \in 1..n /\ i - 1 \in 0..n /\ i - 1 < i
    BY <2>1, <2>2
  <2>4. f[i - 1] \in D[i - 1]
    BY <2>1, <2>3
  <2> QED BY <1>1, <2>1, <2>3, <2>4
<1>3. n \in 0..n
  OBVIOUS
<1> QED BY <1>1, <1>2, <1>3

LEMMA StaysIn ==
  ASSUME NEW fixed, NEW start, NEW seq, Len(seq) \in Nat, NEW D, start \in D,
         \A i \in 1..Len(seq) : \A v \in D : Turn(fixed, v, seq[i]) \in D
  PROVE  Runs(fixed, start, seq) \in D
<1> DEFINE n == Len(seq)
           E == [i \in 0..n |-> D]
<1>1. \A i \in 0..n : E[i] = D
  OBVIOUS
<1>2. 0 \in 0..n /\ n \in 0..n /\ \A i \in 1..n : i \in 0..n /\ i - 1 \in 0..n
  OBVIOUS
<1> HIDE DEF E
<1>3. start \in E[0] /\ \A i \in 1..n : \A v \in E[i - 1] : Turn(fixed, v, seq[i]) \in E[i]
  BY <1>1, <1>2
<1>4. Runs(fixed, start, seq) \in E[n]
  BY <1>3, StagesPassed
<1> QED BY <1>1, <1>2, <1>4
=============================================================================
