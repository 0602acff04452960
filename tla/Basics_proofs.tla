---------------------------- MODULE Basics_proofs ----------------------------
(***************************************************************************)
(* What the proofs of several components rest on: sets put in order, as    *)
(* the statements give their rows; sequences joined by FlattenSeq; and     *)
(* what the statements of LearningsDb preserve.                            *)
(***************************************************************************)
EXTENDS Loops, SequencesExt, LearningsDb, FiniteSetTheorems, FunctionTheorems, SequenceTheorems,
        WellFoundedInduction, TLAPS

-----------------------------------------------------------------------------
(* A set put in order.                                                     *)

\* R puts any two elements of S in an order.
Orders(R, S) ==
  /\ \A r \in S : <<r, r>> \notin R
  /\ \A r, q \in S : r # q => <<r, q>> \in R \/ <<q, r>> \in R
  /\ \A r, q, p \in S : <<r, q>> \in R /\ <<q, p>> \in R => <<r, p>> \in R

Smaller(R, S, r) == {q \in S : <<q, r>> \in R}

\* Every place of the order is taken.
LEMMA PlaceTaken ==
  ASSUME NEW S, IsFiniteSet(S), NEW R, Orders(R, S), NEW i \in 1..Cardinality(S)
  PROVE  \E r \in S : Cardinality(Smaller(R, S, r)) = i - 1
<1> DEFINE n == Cardinality(S)
           place == [r \in S |-> Cardinality(Smaller(R, S, r)) + 1]
<1>1. n \in Nat
  BY FS_CardinalityType
<1>2. ASSUME NEW r \in S
      PROVE  /\ IsFiniteSet(Smaller(R, S, r))
             /\ Cardinality(Smaller(R, S, r)) \in Nat /\ Cardinality(Smaller(R, S, r)) < n
  <2>1. Smaller(R, S, r) \in SUBSET S /\ r \notin Smaller(R, S, r)
    BY DEF Smaller, Orders
  <2>2. /\ IsFiniteSet(Smaller(R, S, r)) /\ Cardinality(Smaller(R, S, r)) <= n
        /\ n = Cardinality(Smaller(R, S, r)) => S = Smaller(R, S, r)
    BY <2>1, FS_Subset
  <2>3. Cardinality(Smaller(R, S, r)) \in Nat
    BY <2>2, FS_CardinalityType
  <2>4. Cardinality(Smaller(R, S, r)) # n
    BY <2>1, <2>2
  <2> HIDE DEF n
  <2> QED BY <2>2, <2>3, <2>4, <1>1
<1>3. ASSUME NEW r \in S, NEW q \in S, <<r, q>> \in R
      PROVE  Cardinality(Smaller(R, S, r)) < Cardinality(Smaller(R, S, q))
  <2>1. /\ Smaller(R, S, r) \in SUBSET Smaller(R, S, q)
        /\ r \in Smaller(R, S, q) /\ r \notin Smaller(R, S, r)
    BY <1>3 DEF Smaller, Orders
  <2>2. IsFiniteSet(Smaller(R, S, q))
    BY <1>2
  <2>3. /\ Cardinality(Smaller(R, S, r)) <= Cardinality(Smaller(R, S, q))
        /\ Cardinality(Smaller(R, S, q)) = Cardinality(Smaller(R, S, r)) =>
             Smaller(R, S, q) = Smaller(R, S, r)
    BY <2>1, <2>2, FS_Subset
  <2>4. Cardinality(Smaller(R, S, r)) # Cardinality(Smaller(R, S, q))
    BY <2>1, <2>3
  <2> QED BY <2>3, <2>4, <1>2
<1>4. place \in [S -> 1..n]
  <2>1. \A r \in S : Cardinality(Smaller(R, S, r)) + 1 \in 1..n
    <3> HIDE DEF n
    <3> QED BY <1>1, <1>2
  <2> QED BY <2>1
<1>5. ASSUME NEW r \in S, NEW q \in S, place[r] = place[q]
      PROVE  r = q
  <2>1. Cardinality(Smaller(R, S, r)) = Cardinality(Smaller(R, S, q))
    BY <1>2, <1>5
  <2>2. <<r, q>> \notin R /\ <<q, r>> \notin R
    BY <1>2, <1>3, <2>1
  <2> QED BY <2>2 DEF Orders
<1>6. place \in Injection(S, 1..n)
  BY <1>4, <1>5 DEF Injection, IsInjective
<1>7. IsFiniteSet(1..n) /\ Cardinality(1..n) = n
  <2>1. IsFiniteSet(1..n) /\ Cardinality(1..n) = IF 1 > n THEN 0 ELSE n - 1 + 1
    <3> HIDE DEF n
    <3>1. 1 \in Int /\ n \in Int
      BY <1>1
    <3> QED BY <3>1, FS_Interval
  <2> HIDE DEF n
  <2> QED BY <2>1, <1>1
<1>8. place \in Surjection(S, 1..n)
  <2> HIDE DEF place
  <2>1. n = Cardinality(1..n) <=> place \in Surjection(S, 1..n)
    BY <1>6, <1>7, FS_Injection
  <2> QED BY <2>1, <1>7
<1>9. PICK r \in S : place[r] = i
  BY <1>8 DEF Surjection
<1> QED BY <1>9, <1>2

\* What Ordered gives of a set and an order.
InOrder(S, R, q) ==
  /\ q = [i \in 1..Cardinality(S) |-> CHOOSE r \in S : Cardinality(Smaller(R, S, r)) = i - 1]

LEMMA OrderedElements ==
  ASSUME NEW S, IsFiniteSet(S), NEW R, Orders(R, S), NEW q, InOrder(S, R, q), NEW V, S \subseteq V
  PROVE  /\ q \in Seq(V)
         /\ \A i \in DOMAIN q : q[i] \in S
         /\ q = <<>> <=> S = {}
<1> DEFINE n == Cardinality(S)
<1>1. n \in Nat /\ (n = 0 <=> S = {})
  BY FS_CardinalityType, FS_EmptySet
<1>2. DOMAIN q = 1..n
  BY DEF InOrder
<1>3. ASSUME NEW i \in 1..n PROVE q[i] \in S
  BY PlaceTaken, <1>3 DEF InOrder
<1> HIDE DEF n
<1>4. q \in [1..n -> S]
  <2>1. q = [i \in 1..n |-> q[i]]
    BY <1>2 DEF InOrder, n
  <2> QED BY <2>1, <1>3
<1>5. q \in Seq(V) /\ Len(q) = n
  <2>1. q \in [1..n -> V]
    BY <1>4
  <2> QED BY <2>1, <1>1
<1> QED BY <1>1, <1>2, <1>3, <1>5

\* No element is there twice.
LEMMA OrderedOnce ==
  ASSUME NEW S, IsFiniteSet(S), NEW R, Orders(R, S), NEW q, InOrder(S, R, q)
  PROVE  \A i, j \in DOMAIN q : q[i] = q[j] => i = j
<1> DEFINE n == Cardinality(S)
           At(i) == CHOOSE r \in S : Cardinality(Smaller(R, S, r)) = i - 1
<1>1. n \in Nat
  BY FS_CardinalityType
<1>2. q = [i \in 1..n |-> At(i)]
  BY DEF InOrder
<1>3. ASSUME NEW i \in 1..n
      PROVE  Cardinality(Smaller(R, S, At(i))) = i - 1
  BY PlaceTaken
<1> HIDE DEF At, n
<1>4. \A i \in 1..n : q[i] = At(i) /\ i \in Nat
  BY <1>1, <1>2
<1>5. ASSUME NEW i \in 1..n, NEW j \in 1..n, q[i] = q[j]
      PROVE  i = j
  <2>1. At(i) = At(j)
    BY <1>4, <1>5
  <2>2. i - 1 = j - 1
    BY <1>3, <2>1
  <2> QED BY <1>4, <2>2
<1> QED BY <1>2, <1>5

\* No element is left out.
LEMMA OrderedAll ==
  ASSUME NEW S, IsFiniteSet(S), NEW R, Orders(R, S), NEW q, InOrder(S, R, q)
  PROVE  \A r \in S : \E i \in DOMAIN q : q[i] = r
<1> DEFINE n == Cardinality(S)
           D == DOMAIN q
<1>1. n \in Nat /\ D = 1..n
  BY FS_CardinalityType DEF InOrder
<1>2. IsFiniteSet(D) /\ Cardinality(D) = n
  <2>1. 1 \in Int /\ n \in Int
    BY <1>1
  <2> HIDE DEF n
  <2>2. IsFiniteSet(1..n) /\ Cardinality(1..n) = IF 1 > n THEN 0 ELSE n - 1 + 1
    BY <2>1, FS_Interval
  <2> HIDE DEF D
  <2> QED BY <1>1, <2>2
<1>3. q \in [D -> S]
  <2>1. q = [i \in D |-> q[i]]
    BY DEF InOrder
  <2>2. \A i \in D : q[i] \in S
    BY OrderedElements
  <2> QED BY <2>1, <2>2
<1>4. q \in Injection(D, S)
  <2>1. \A i, j \in D : q[i] = q[j] => i = j
    BY OrderedOnce
  <2> QED BY <1>3, <2>1 DEF Injection, IsInjective
<1> HIDE DEF D
<1>5. q \in Surjection(D, S)
  BY <1>2, <1>4, FS_Injection DEF n
<1> QED BY <1>5 DEF Surjection, D

-----------------------------------------------------------------------------
(* Sequences joined.                                                       *)

\* f joins ever more of the texts of s, as FlattenSeq does.
Joins(f, s, n) == f = [i \in 1..n |-> IF i = 1 THEN s[i] ELSE f[i - 1] \o s[i]]

LEMMA JoinsAt ==
  ASSUME NEW f, NEW s, NEW n, Joins(f, s, n), NEW i \in 1..n
  PROVE  f[i] = IF i = 1 THEN s[i] ELSE f[i - 1] \o s[i]
<1> DEFINE F(k) == IF k = 1 THEN s[k] ELSE f[k - 1] \o s[k]
<1>1. f = [k \in 1..n |-> F(k)]
  BY DEF Joins
<1> HIDE DEF F
<1>2. f[i] = F(i)
  BY <1>1
<1> QED BY <1>2 DEF F

LEMMA JoinsExist ==
  ASSUME NEW s
  PROVE  \A n \in Nat : \E f : Joins(f, s, n)
<1> DEFINE Bad == {n \in Nat : ~\E f : Joins(f, s, n)}
<1> SUFFICES ASSUME Bad # {} PROVE FALSE
  OBVIOUS
<1>1. PICK n \in Bad : \A m \in Bad : ~(m < n)
  <2>1. PICK n \in Bad : \A m \in Bad : <<m, n>> \notin OpToRel(<, Nat)
    BY WFMin, NatLessThanWellFounded
  <2> QED BY <2>1 DEF OpToRel
<1>2. CASE n = 0
  <2> DEFINE f == [i \in 1..0 |-> <<>>]
  <2>1. f = [i \in 1..0 |-> IF i = 1 THEN s[i] ELSE f[i - 1] \o s[i]]
    OBVIOUS
  <2> HIDE DEF f
  <2>2. Joins(f, s, 0)
    BY <2>1 DEF Joins
  <2> QED BY <1>1, <1>2, <2>2
<1>3. CASE n # 0
  <2>1. n - 1 \in Nat /\ n - 1 \notin Bad /\ n \in Nat \ {0}
    BY <1>1, <1>3
  <2>2. PICK f : Joins(f, s, n - 1)
    BY <2>1
  <2> DEFINE last == IF n = 1 THEN s[1] ELSE f[n - 1] \o s[n]
             g == [i \in 1..n |-> IF i = n THEN last ELSE f[i]]
  <2>3. ASSUME NEW i \in 1..n PROVE g[i] = IF i = 1 THEN s[i] ELSE g[i - 1] \o s[i]
    <3>1. CASE i = n
      <4>1. g[i] = last
        BY <3>1
      <4>2. CASE n = 1
        BY <3>1, <4>1, <4>2
      <4>3. CASE n # 1
        <5>1. i - 1 \in 1..n /\ i - 1 # n
          BY <2>1, <3>1, <4>3
        <5>2. g[i - 1] = f[i - 1]
          BY <5>1
        <5> QED BY <3>1, <4>1, <4>3, <5>2
      <4> QED BY <4>2, <4>3
    <3>2. CASE i # n
      <4>1. i \in 1..(n - 1) /\ g[i] = f[i]
        BY <2>1, <3>2
      <4>2. f[i] = IF i = 1 THEN s[i] ELSE f[i - 1] \o s[i]
        BY <2>2, <4>1, JoinsAt
      <4>3. i # 1 => g[i - 1] = f[i - 1]
        BY <2>1, <4>1
      <4> QED BY <4>1, <4>2, <4>3
    <3> QED BY <3>1, <3>2
  <2>4. g = [i \in 1..n |-> g[i]]
    OBVIOUS
  <2> HIDE DEF g
  <2>5. Joins(g, s, n)
    BY <2>3, <2>4 DEF Joins
  <2> QED BY <1>1, <2>5
<1> QED BY <1>2, <1>3

\* Two that join the same texts agree.
LEMMA JoinsAgree ==
  ASSUME NEW s, NEW t, NEW f, NEW g, NEW n \in Nat, NEW m \in Nat, n <= m,
         \A i \in 1..n : s[i] = t[i], Joins(f, s, n), Joins(g, t, m)
  PROVE  \A i \in 1..n : f[i] = g[i]
<1> DEFINE Bad == {i \in 1..n : f[i] # g[i]}
<1> SUFFICES ASSUME Bad # {} PROVE FALSE
  OBVIOUS
<1>1. PICK i \in Bad : \A j \in Bad : ~(j < i)
  <2>1. Bad \subseteq Nat
    OBVIOUS
  <2>2. PICK i \in Bad : \A j \in Bad : <<j, i>> \notin OpToRel(<, Nat)
    BY <2>1, WFMin, NatLessThanWellFounded
  <2> QED BY <2>1, <2>2 DEF OpToRel
<1>2. /\ i \in 1..n /\ i \in 1..m /\ s[i] = t[i]
  OBVIOUS
<1>4. /\ f[i] = IF i = 1 THEN s[i] ELSE f[i - 1] \o s[i]
      /\ g[i] = IF i = 1 THEN t[i] ELSE g[i - 1] \o t[i]
  BY <1>2, JoinsAt
<1>3. i # 1 => f[i - 1] = g[i - 1]
  <2>1. i # 1 => i - 1 \in 1..n /\ i - 1 < i /\ i - 1 \notin Bad
    BY <1>1, <1>2
  <2> QED BY <2>1
<1> QED BY <1>2, <1>3, <1>4

LEMMA FlattenJoins ==
  ASSUME NEW X, NEW s \in Seq(X), s # <<>>
  PROVE  \E f : Joins(f, s, Len(s)) /\ FlattenSeq(s) = f[Len(s)]
<1> DEFINE f == CHOOSE f : f = [i \in 1..Len(s) |-> IF i = 1 THEN s[i] ELSE f[i - 1] \o s[i]]
<1>1. Len(s) \in Nat /\ Len(s) # 0
  BY EmptySeq, LenProperties
<1>2. Joins(f, s, Len(s))
  <2>1. \E g : g = [i \in 1..Len(s) |-> IF i = 1 THEN s[i] ELSE g[i - 1] \o s[i]]
    BY <1>1, JoinsExist DEF Joins
  <2>2. f = [i \in 1..Len(s) |-> IF i = 1 THEN s[i] ELSE f[i - 1] \o s[i]]
    BY <2>1
  <2> QED BY <2>2 DEF Joins
<1>3. FlattenSeq(s) = f[Len(s)]
  BY <1>1 DEF FlattenSeq
<1> QED BY <1>2, <1>3

\* One more follows the others.
LEMMA FlattenAppended ==
  ASSUME NEW X, NEW s \in Seq(Seq(X)), NEW x \in Seq(X)
  PROVE  FlattenSeq(Append(s, x)) = FlattenSeq(s) \o x
<1> DEFINE t == Append(s, x)
           n == Len(s)
<1>1. /\ t \in Seq(Seq(X)) /\ t # <<>> /\ Len(t) = n + 1 /\ n \in Nat
      /\ \A i \in 1..n : t[i] = s[i]
      /\ t[n + 1] = x
  BY AppendProperties, LenProperties
<1> HIDE DEF t
<1>2. PICK g : Joins(g, t, n + 1) /\ FlattenSeq(t) = g[n + 1]
  BY <1>1, FlattenJoins
<1>3. CASE s = <<>>
  <2>1. n = 0
    BY <1>3
  <2>2. FlattenSeq(s) = <<>>
    BY <1>3 DEF FlattenSeq
  <2>3. g[1] = x
    <3>1. g[1] = t[1]
      BY <1>2, <2>1, JoinsAt
    <3> QED BY <1>1, <2>1, <3>1
  <2>4. <<>> \o x = x
    BY ConcatEmptySeq
  <2> QED BY <1>2, <2>1, <2>2, <2>3, <2>4 DEF t
<1>4. CASE s # <<>>
  <2>1. PICK f : Joins(f, s, n) /\ FlattenSeq(s) = f[n]
    BY <1>4, FlattenJoins
  <2>2. n \in 1..n /\ n + 1 \in 1..(n + 1) /\ n + 1 # 1 /\ n + 1 - 1 = n
    BY <1>1, <1>4, EmptySeq
  <2>3. f[n] = g[n]
    <3>1. \A i \in 1..n : s[i] = t[i]
      BY <1>1
    <3>2. n + 1 \in Nat /\ n <= n + 1
      BY <1>1
    <3> HIDE DEF n
    <3> DEFINE m == n + 1
    <3>3. m \in Nat /\ n \in Nat /\ n <= m /\ Joins(g, t, m) /\ Joins(f, s, n)
      BY <1>1, <1>2, <2>1, <3>2
    <3> HIDE DEF m
    <3>4. \A i \in 1..n : f[i] = g[i]
      BY <3>1, <3>3, JoinsAgree
    <3> QED BY <2>2, <3>4
  <2>4. g[n + 1] = g[n] \o t[n + 1]
    <3> HIDE DEF n
    <3> DEFINE m == n + 1
    <3>1. Joins(g, t, m) /\ m \in 1..m
      BY <1>2, <2>2
    <3> HIDE DEF m
    <3>2. g[m] = IF m = 1 THEN t[m] ELSE g[m - 1] \o t[m]
      BY <3>1, JoinsAt
    <3>3. m = n + 1 /\ m # 1 /\ m - 1 = n
      BY <2>2 DEF m
    <3> QED BY <3>2, <3>3
  <2> QED BY <1>1, <1>2, <2>1, <2>3, <2>4 DEF t
<1> QED BY <1>3, <1>4

-----------------------------------------------------------------------------
(* What the statements of LearningsDb preserve, for any set of words and   *)
(* of patterns: the types of the rows, and that the ids of the words have  *)
(* an upper bound, so that NextId is a new id.                             *)

Bounded(d) == \E b \in Nat : \A i \in Ids(d) : i <= b

GoodDb(d, Words, Patterns) == d \in Db(Words, Patterns) /\ Bounded(d)

\* A bounded, non-empty set of positive numbers has a largest element.
LEMMA LargestElement ==
  ASSUME NEW S \in SUBSET (Nat \ {0}), S # {}, NEW b \in Nat, \A i \in S : i <= b
  PROVE  \E m \in S : \A i \in S : i <= m
<1> DEFINE T == {c \in Nat : \A i \in S : i <= c}
<1>1. T \subseteq Nat /\ T # {}
  OBVIOUS
<1>2. \E x \in T : \A y \in T : ~(<<y, x>> \in OpToRel(<, Nat))
  <2> HIDE DEF T
  <2> QED BY <1>1, NatLessThanWellFounded, WFMin
<1>3. PICK m \in T : \A y \in T : ~(y < m)
  BY <1>1, <1>2 DEF OpToRel
<1>4. m \in S
  <2> SUFFICES ASSUME m \notin S PROVE FALSE
    OBVIOUS
  <2>1. PICK i \in S : TRUE
    OBVIOUS
  <2>2. m \in Nat /\ i \in Nat \ {0} /\ i <= m
    BY <2>1, <1>3
  <2>3. m - 1 \in Nat /\ m - 1 < m
    BY <2>2
  <2>4. \A j \in S : j <= m - 1
    BY <2>2, <1>3
  <2> QED BY <2>3, <2>4, <1>3
<1> QED BY <1>3, <1>4

\* The id of an inserted row is positive and larger than every id of the table.
LEMMA NextIdIsNew ==
  ASSUME NEW Words, NEW Patterns, NEW d, GoodDb(d, Words, Patterns)
  PROVE  NextId(d) \in Nat \ {0} /\ \A i \in Ids(d) : i < NextId(d)
<1>1. Ids(d) \in SUBSET (Nat \ {0})
  BY DEF GoodDb, Db, WordRow, Ids
<1>2. CASE d.words = {}
  BY <1>2 DEF NextId, Ids
<1>3. CASE d.words # {}
  <2>1. Ids(d) # {}
    BY <1>3 DEF Ids
  <2>2. \E m \in Ids(d) : \A i \in Ids(d) : i <= m
    BY <1>1, <2>1, LargestElement DEF GoodDb, Bounded
  <2> DEFINE m == CHOOSE m \in Ids(d) : \A i \in Ids(d) : i <= m
  <2>3. m \in Ids(d) /\ \A i \in Ids(d) : i <= m
    BY <2>2
  <2>4. NextId(d) = 1 + m
    BY <1>3 DEF NextId
  <2> HIDE DEF m
  <2> QED BY <1>1, <2>3, <2>4
<1> QED BY <1>2, <1>3

LEMMA EmptyDbGood ==
  ASSUME NEW Words, NEW Patterns
  PROVE  GoodDb(EmptyDb, Words, Patterns)
BY DEF GoodDb, Bounded, Ids, Db, EmptyDb

LEMMA IdOfType ==
  ASSUME NEW Words, NEW Patterns, NEW d, GoodDb(d, Words, Patterns), NEW w
  PROVE  IdOf(d, w) \in Int /\ (Stored(d, w) => \E q \in d.words : q.word = w /\ q.id = IdOf(d, w))
<1>1. CASE Stored(d, w)
  <2>1. PICK r \in RowsOf(d, w) : IdOf(d, w) = r.id
    BY <1>1 DEF IdOf, Stored
  <2> QED BY <2>1 DEF RowsOf, GoodDb, Db, WordRow
<1>2. CASE ~Stored(d, w)
  BY <1>2 DEF IdOf, NoId
<1> QED BY <1>1, <1>2

LEMMA InsertWordGood ==
  ASSUME NEW Words, NEW Patterns, NEW d, GoodDb(d, Words, Patterns),
         NEW w \in Words, NEW c \in Int
  PROVE  GoodDb(InsertWord(d, w, c), Words, Patterns)
<1>1. CASE Stored(d, w)
  BY <1>1 DEF InsertWord
<1>2. CASE ~Stored(d, w)
  <2> DEFINE new == [id |-> NextId(d), word |-> w, confidence |-> c]
             e == InsertWord(d, w, c)
  <2>1. NextId(d) \in Nat \ {0} /\ \A i \in Ids(d) : i < NextId(d)
    BY NextIdIsNew
  <2>2. e = [words |-> d.words \cup {new}, patterns |-> d.patterns]
    BY <1>2 DEF InsertWord, GoodDb, Db
  <2>3. e \in Db(Words, Patterns)
    BY <2>1, <2>2 DEF GoodDb, Db, WordRow
  <2>4. Ids(e) = Ids(d) \cup {NextId(d)}
    <3>1. e.words = d.words \cup {new} /\ new.id = NextId(d)
      BY <2>2
    <3> HIDE DEF e, new
    <3> QED BY <3>1 DEF Ids
  <2>5. Bounded(e)
    <3>1. \A i \in Ids(e) : i <= NextId(d)
      BY <2>1, <2>4 DEF GoodDb, Ids, Db, WordRow
    <3> QED BY <3>1, <2>1 DEF Bounded
  <2> QED BY <2>3, <2>5 DEF GoodDb
<1> QED BY <1>1, <1>2

LEMMA BumpConfidenceGood ==
  ASSUME NEW Words, NEW Patterns, NEW d, GoodDb(d, Words, Patterns), NEW w
  PROVE  GoodDb(BumpConfidence(d, w), Words, Patterns)
<1> DEFINE bump(r) == IF r.word = w THEN [r EXCEPT !.confidence = @ + 1] ELSE r
           e == BumpConfidence(d, w)
<1>1. e = [words |-> {bump(r) : r \in d.words}, patterns |-> d.patterns]
  BY DEF BumpConfidence, GoodDb, Db
<1>2. \A r \in d.words : bump(r) \in WordRow(Words) /\ bump(r).id = r.id
  BY DEF GoodDb, Db, WordRow
<1>3. e \in Db(Words, Patterns)
  <2> HIDE DEF bump
  <2> QED BY <1>1, <1>2 DEF GoodDb, Db
<1>4. Ids(e) = Ids(d)
  <2> HIDE DEF bump
  <2> QED BY <1>1, <1>2 DEF Ids
<1> QED BY <1>3, <1>4 DEF GoodDb, Bounded

LEMMA InsertPatternGood ==
  ASSUME NEW Words, NEW Patterns, NEW d, GoodDb(d, Words, Patterns),
         NEW p \in Patterns, NEW i \in Int
  PROVE  /\ GoodDb(InsertPattern(d, p, i), Words, Patterns)
         /\ InsertPattern(d, p, i).words = d.words
<1> DEFINE new == [pattern |-> p, word_id |-> i, learned |-> 0]
           e == InsertPattern(d, p, i)
<1>1. CASE \E r \in d.patterns : r.pattern = p /\ r.word_id = i
  BY <1>1 DEF InsertPattern
<1>2. CASE ~(\E r \in d.patterns : r.pattern = p /\ r.word_id = i)
  <2>1. e = [words |-> d.words, patterns |-> d.patterns \cup {new}]
    BY <1>2 DEF InsertPattern, GoodDb, Db
  <2>2. e \in Db(Words, Patterns)
    BY <2>1 DEF GoodDb, Db, PatternRow
  <2>3. e.words = d.words
    BY <2>1
  <2> QED BY <2>2, <2>3 DEF GoodDb, Bounded, Ids
<1> QED BY <1>1, <1>2

LEMMA MarkLearnedGood ==
  ASSUME NEW Words, NEW Patterns, NEW d, GoodDb(d, Words, Patterns), NEW p, NEW i
  PROVE  /\ GoodDb(MarkLearned(d, p, i), Words, Patterns)
         /\ MarkLearned(d, p, i).words = d.words
<1> DEFINE mark(r) == IF r.pattern = p /\ r.word_id = i THEN [r EXCEPT !.learned = 1] ELSE r
           marked == {mark(r) : r \in d.patterns}
           e == MarkLearned(d, p, i)
<1>0. e = [d EXCEPT !.patterns = marked]
  BY Zenon DEF MarkLearned
<1>1. e = [words |-> d.words, patterns |-> marked]
  <2> HIDE DEF marked, e
  <2> QED BY <1>0 DEF GoodDb, Db
<1>2. \A r \in d.patterns : mark(r) \in PatternRow(Patterns)
  BY DEF GoodDb, Db, PatternRow
<1>3. e \in Db(Words, Patterns) /\ e.words = d.words
  <2> HIDE DEF mark
  <2> QED BY <1>1, <1>2 DEF GoodDb, Db
<1> QED BY <1>3 DEF GoodDb, Bounded, Ids

LEMMA PersistPatternGood ==
  ASSUME NEW Words, NEW Patterns, NEW d, GoodDb(d, Words, Patterns),
         NEW p \in Patterns, NEW i \in Int, NEW isPrefix \in BOOLEAN
  PROVE  /\ GoodDb(PersistPattern(d, p, i, isPrefix), Words, Patterns)
         /\ PersistPattern(d, p, i, isPrefix).words = d.words
BY InsertPatternGood, MarkLearnedGood DEF PersistPattern

LEMMA DeleteRowsGood ==
  ASSUME NEW Words, NEW Patterns, NEW d, GoodDb(d, Words, Patterns), NEW i
  PROVE  GoodDb(DeleteRows(d, i), Words, Patterns)
<1>1. DeleteRows(d, i) \in Db(Words, Patterns)
  BY DEF DeleteRows, GoodDb, Db
<1>2. Ids(DeleteRows(d, i)) \subseteq Ids(d)
  BY DEF DeleteRows, Ids
<1> QED BY <1>1, <1>2 DEF GoodDb, Bounded

-----------------------------------------------------------------------------
(* What the statements never do: give two rows of words one word or one id,*)
(* or, the deletion apart, take back anything that is stored.              *)

OneToOne(d) == \A q, r \in d.words : q.word = r.word \/ q.id = r.id => q = r

\* Words keep their ids, patterns their words; confidence does not fall, and what
\* was learned stays learned.
Grown(d, e) ==
  /\ \A q \in d.words : \E r \in e.words :
       r.word = q.word /\ r.id = q.id /\ r.confidence >= q.confidence
  /\ \A q \in d.patterns : \E r \in e.patterns :
       r.pattern = q.pattern /\ r.word_id = q.word_id /\ r.learned >= q.learned

LEMMA GrownReflexive ==
  ASSUME NEW Words, NEW Patterns, NEW d \in Db(Words, Patterns)
  PROVE  Grown(d, d)
<1>1. \A q \in d.words : q.confidence \in Int
  BY DEF Db, WordRow
<1>2. \A q \in d.patterns : q.learned \in Int
  BY DEF Db, PatternRow
<1> QED BY <1>1, <1>2 DEF Grown

LEMMA GrownTransitive ==
  ASSUME NEW Words, NEW Patterns, NEW c \in Db(Words, Patterns), NEW d \in Db(Words, Patterns),
         NEW e \in Db(Words, Patterns), Grown(c, d), Grown(d, e)
  PROVE  Grown(c, e)
<1>1. \A x \in {c, d, e} :
        /\ \A q \in x.words : q.confidence \in Int
        /\ \A q \in x.patterns : q.learned \in Int
  BY DEF Db, WordRow, PatternRow
<1>2. ASSUME NEW q \in c.words
      PROVE  \E r \in e.words : r.word = q.word /\ r.id = q.id /\ r.confidence >= q.confidence
  <2>1. PICK m \in d.words : m.word = q.word /\ m.id = q.id /\ m.confidence >= q.confidence
    BY DEF Grown
  <2>2. PICK r \in e.words : r.word = m.word /\ r.id = m.id /\ r.confidence >= m.confidence
    BY DEF Grown
  <2> QED BY <1>1, <2>1, <2>2
<1>3. ASSUME NEW q \in c.patterns
      PROVE  \E r \in e.patterns :
               r.pattern = q.pattern /\ r.word_id = q.word_id /\ r.learned >= q.learned
  <2>1. PICK m \in d.patterns :
          m.pattern = q.pattern /\ m.word_id = q.word_id /\ m.learned >= q.learned
    BY DEF Grown
  <2>2. PICK r \in e.patterns :
          r.pattern = m.pattern /\ r.word_id = m.word_id /\ r.learned >= m.learned
    BY DEF Grown
  <2> QED BY <1>1, <2>1, <2>2
<1> QED BY <1>2, <1>3 DEF Grown

\* In such a file the id of a word is the id of its one row.
LEMMA IdOfRow ==
  ASSUME NEW d, OneToOne(d), NEW q \in d.words
  PROVE  /\ Stored(d, q.word) /\ IdOf(d, q.word) = q.id
         /\ (CHOOSE r \in RowsOf(d, q.word) : TRUE) = q
<1>1. RowsOf(d, q.word) = {q}
  BY DEF RowsOf, OneToOne
<1> QED BY <1>1 DEF Stored, IdOf

LEMMA InsertWordGrows ==
  ASSUME NEW Words, NEW Patterns, NEW d, GoodDb(d, Words, Patterns), OneToOne(d),
         NEW w \in Words, NEW c \in Int
  PROVE  Grown(d, InsertWord(d, w, c)) /\ OneToOne(InsertWord(d, w, c))
<1> DEFINE new == [id |-> NextId(d), word |-> w, confidence |-> c]
           e == InsertWord(d, w, c)
<1>1. Grown(d, d)
  BY GrownReflexive DEF GoodDb
<1>2. CASE Stored(d, w)
  BY <1>1, <1>2 DEF InsertWord
<1>3. CASE ~Stored(d, w)
  <2>0. NextId(d) \in Nat \ {0} /\ \A i \in Ids(d) : i < NextId(d)
    BY NextIdIsNew
  <2>1. \A q \in d.words : q.id < NextId(d) /\ q.id \in Int /\ q.word # w
    <3>1. \A q \in d.words : q.id \in Ids(d)
      BY DEF Ids
    <3>2. \A q \in d.words : q.word # w
      BY <1>3 DEF Stored, RowsOf
    <3>3. \A q \in d.words : q.id \in Int
      BY DEF GoodDb, Db, WordRow
    <3> QED BY <2>0, <3>1, <3>2, <3>3
  <2>2. NextId(d) \in Int
    BY <2>0
  <2>3. e.words = d.words \cup {new} /\ e.patterns = d.patterns
        /\ new.id = NextId(d) /\ new.word = w
    BY <1>3 DEF InsertWord, GoodDb, Db
  <2> HIDE DEF e, new
  <2>4. Grown(d, e)
    BY <1>1, <2>3 DEF Grown
  <2>5. OneToOne(e)
    BY <2>1, <2>2, <2>3 DEF OneToOne
  <2> QED BY <2>4, <2>5 DEF e
<1> QED BY <1>2, <1>3

LEMMA BumpConfidenceGrows ==
  ASSUME NEW Words, NEW Patterns, NEW d, GoodDb(d, Words, Patterns), OneToOne(d), NEW w
  PROVE  Grown(d, BumpConfidence(d, w)) /\ OneToOne(BumpConfidence(d, w))
<1> DEFINE bump(r) == IF r.word = w THEN [r EXCEPT !.confidence = @ + 1] ELSE r
           e == BumpConfidence(d, w)
<1>1. e.words = {bump(r) : r \in d.words} /\ e.patterns = d.patterns
  BY DEF BumpConfidence, GoodDb, Db
<1>2. \A r \in d.words :
        bump(r).id = r.id /\ bump(r).word = r.word /\ bump(r).confidence >= r.confidence
  BY DEF GoodDb, Db, WordRow
<1>3. Grown(d, d)
  BY GrownReflexive DEF GoodDb
<1> HIDE DEF bump, e
<1>4. Grown(d, e)
  BY <1>1, <1>2, <1>3 DEF Grown
<1>5. OneToOne(e)
  <2> SUFFICES ASSUME NEW q \in d.words, NEW r \in d.words,
                      bump(q).word = bump(r).word \/ bump(q).id = bump(r).id
               PROVE  bump(q) = bump(r)
    BY <1>1 DEF OneToOne
  <2>1. q.word = r.word \/ q.id = r.id
    BY <1>2
  <2> QED BY <2>1 DEF OneToOne
<1> QED BY <1>4, <1>5 DEF e

\* insert or ignore: nothing else changes, and afterwards the pattern is there.
LEMMA InsertPatternGrows ==
  ASSUME NEW Words, NEW Patterns, NEW d, GoodDb(d, Words, Patterns), NEW p, NEW i
  PROVE  LET e == InsertPattern(d, p, i) IN
         /\ e.words = d.words /\ Grown(d, e)
         /\ \E r \in e.patterns : r.pattern = p /\ r.word_id = i
<1> DEFINE e == InsertPattern(d, p, i)
<1>1. Grown(d, d)
  BY GrownReflexive DEF GoodDb
<1>2. CASE \E r \in d.patterns : r.pattern = p /\ r.word_id = i
  BY <1>1, <1>2 DEF InsertPattern
<1>3. CASE ~(\E r \in d.patterns : r.pattern = p /\ r.word_id = i)
  <2> DEFINE new == [pattern |-> p, word_id |-> i, learned |-> 0]
  <2>1. e.words = d.words /\ e.patterns = d.patterns \cup {new}
        /\ new.pattern = p /\ new.word_id = i
    BY <1>3 DEF InsertPattern, GoodDb, Db
  <2> HIDE DEF e, new
  <2>2. Grown(d, e)
    BY <1>1, <2>1 DEF Grown
  <2> QED BY <2>1, <2>2 DEF e
<1> QED BY <1>2, <1>3

\* The update that marks a pattern as learned marks every row of it.
LEMMA MarkLearnedGrows ==
  ASSUME NEW Words, NEW Patterns, NEW d, GoodDb(d, Words, Patterns), NEW p, NEW i
  PROVE  LET e == MarkLearned(d, p, i) IN
         /\ e.words = d.words /\ Grown(d, e)
         /\ (\E r \in d.patterns : r.pattern = p /\ r.word_id = i) =>
              \E r \in e.patterns : r.pattern = p /\ r.word_id = i /\ r.learned = 1
<1> DEFINE mark(r) == IF r.pattern = p /\ r.word_id = i THEN [r EXCEPT !.learned = 1] ELSE r
           marked == {mark(r) : r \in d.patterns}
           e == MarkLearned(d, p, i)
<1>0. e = [d EXCEPT !.patterns = marked]
  BY Zenon DEF MarkLearned
<1>1. e.words = d.words /\ e.patterns = marked
  <2> HIDE DEF marked, e
  <2> QED BY <1>0 DEF GoodDb, Db
<1>2. \A r \in d.patterns :
        /\ mark(r).pattern = r.pattern /\ mark(r).word_id = r.word_id
        /\ mark(r).learned >= r.learned
        /\ r.pattern = p /\ r.word_id = i => mark(r).learned = 1
  BY DEF GoodDb, Db, PatternRow
<1>3. Grown(d, d)
  BY GrownReflexive DEF GoodDb
<1> HIDE DEF mark, e
<1>4. Grown(d, e)
  BY <1>1, <1>2, <1>3 DEF Grown
<1> QED BY <1>1, <1>2, <1>4 DEF e

LEMMA PersistPatternGrows ==
  ASSUME NEW Words, NEW Patterns, NEW d, GoodDb(d, Words, Patterns), OneToOne(d),
         NEW p \in Patterns, NEW i \in Int, NEW isPrefix \in BOOLEAN
  PROVE  /\ \A e \in {InsertPattern(d, p, i), PersistPattern(d, p, i, isPrefix)} :
              Grown(d, e) /\ OneToOne(e) /\ e.words = d.words
         /\ \E r \in PersistPattern(d, p, i, isPrefix).patterns :
              r.pattern = p /\ r.word_id = i /\ (~isPrefix => r.learned = 1)
<1> DEFINE e == InsertPattern(d, p, i)
           m == MarkLearned(e, p, i)
<1>1. /\ e.words = d.words /\ Grown(d, e) /\ GoodDb(e, Words, Patterns)
      /\ \E r \in e.patterns : r.pattern = p /\ r.word_id = i
  BY InsertPatternGrows, InsertPatternGood
<1>2. /\ m.words = e.words /\ Grown(e, m) /\ GoodDb(m, Words, Patterns)
      /\ \E r \in m.patterns : r.pattern = p /\ r.word_id = i /\ r.learned = 1
  <2> HIDE DEF e
  <2> QED BY <1>1, MarkLearnedGrows, MarkLearnedGood
<1>3. PersistPattern(d, p, i, isPrefix) = IF isPrefix THEN e ELSE m
  BY DEF PersistPattern
<1> HIDE DEF e, m
<1>4. Grown(d, m)
  <2>1. d \in Db(Words, Patterns) /\ e \in Db(Words, Patterns) /\ m \in Db(Words, Patterns)
    BY <1>1, <1>2 DEF GoodDb
  <2> QED BY <1>1, <1>2, <2>1, GrownTransitive
<1>5. OneToOne(e) /\ OneToOne(m)
  BY <1>1, <1>2 DEF OneToOne
<1> QED BY <1>1, <1>2, <1>3, <1>4, <1>5 DEF e

LEMMA DeleteRowsOneToOne ==
  ASSUME NEW d, OneToOne(d), NEW i
  PROVE  OneToOne(DeleteRows(d, i))
BY DEF DeleteRows, OneToOne

=============================================================================
