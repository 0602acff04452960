----------------------------- MODULE Handle_proofs ----------------------------
(***************************************************************************)
(* What the calls of a handle are made of, for any scheme, words, rules,   *)
(* failures and learnings file: the loop of stem(), the pools, and what    *)
(* tokenizing, rendering, the reduction of noise, the products, learning   *)
(* and the lookups of words give.                                          *)
(*                                                                         *)
(* That stem() finds the stems the tables define is an invariant of its    *)
(* loop: the letters left and the letters taken are the word the loop      *)
(* started from, or its last stem, and no rule applies to an ending        *)
(* shorter than what was taken.  It is part of IInv, with what the index   *)
(* of an export needs.                                                     *)
(*                                                                         *)
(* Files is the set of the learnings files a handle can make.  What a loop *)
(* over a list computes follows from Loops_proofs.                         *)
(***************************************************************************)
EXTENDS Handle, Basics_proofs

-----------------------------------------------------------------------------
(* Sequences and first rows.                                               *)

\* A text ends in what it was put together with.
LEMMA EndingOf ==
  ASSUME NEW S, NEW u \in Seq(S), NEW v \in Seq(S)
  PROVE  /\ SubSeq(u \o v, 1, Len(u \o v) - Len(v)) = u
         /\ SubSeq(u \o v, Len(u \o v) - Len(v) + 1, Len(u \o v)) = v
<1>1. /\ u \o v \in Seq(S) /\ Len(u \o v) = Len(u) + Len(v)
      /\ Len(u) \in Nat /\ Len(v) \in Nat
  BY ConcatProperties, LenProperties
<1>2. SubSeq(u \o v, 1, Len(u)) = u
  <2>1. CASE Len(u) = 0
    <3>1. u = <<>>
      BY <2>1, EmptySeq
    <3> QED BY <2>1, <3>1, SubSeqEmpty
  <2>2. CASE Len(u) # 0
    <3>1. 1 \in 1..Len(u) /\ Len(u) \in 1..Len(u)
      BY <2>2, <1>1
    <3>2. SubSeq(u \o v, 1, Len(u)) = SubSeq(u, 1, Len(u))
      BY <3>1, SubSeqOfConcat1
    <3> QED BY <3>2, SubSeqFull
  <2> QED BY <2>1, <2>2
<1>3. SubSeq(u \o v, Len(u) + 1, Len(u) + Len(v)) = v
  <2>1. CASE Len(v) = 0
    <3>1. v = <<>>
      BY <2>1, EmptySeq
    <3>2. Len(u) + 1 \in Int /\ Len(u) + Len(v) \in Int /\ Len(u) + Len(v) < Len(u) + 1
      BY <1>1, <2>1
    <3> QED BY <3>1, <3>2, SubSeqEmpty
  <2>2. CASE Len(v) # 0
    <3>1. /\ Len(u) + 1 \in (Len(u) + 1)..(Len(u) + Len(v))
          /\ Len(u) + Len(v) \in (Len(u) + 1)..(Len(u) + Len(v))
      BY <2>2, <1>1
    <3>2. SubSeq(u \o v, Len(u) + 1, Len(u) + Len(v))
            = SubSeq(v, Len(u) + 1 - Len(u), Len(u) + Len(v) - Len(u))
      BY <3>1, SubSeqOfConcat2
    <3>3. Len(u) + 1 - Len(u) = 1 /\ Len(u) + Len(v) - Len(u) = Len(v)
      BY <1>1
    <3> QED BY <3>2, <3>3, SubSeqFull
  <2> QED BY <2>1, <2>2
<1>4. Len(u \o v) - Len(v) = Len(u)
  BY <1>1
<1> QED BY <1>1, <1>2, <1>3, <1>4

\* The last letter of a text moves to what was taken from its end.
LEMMA LetterMoves ==
  ASSUME NEW S, NEW u \in Seq(S), u # <<>>, NEW v \in Seq(S)
  PROVE  /\ Front(u) \in Seq(S) /\ <<Last(u)>> \o v \in Seq(S)
         /\ Len(<<Last(u)>> \o v) = Len(v) + 1
         /\ Front(u) \o (<<Last(u)>> \o v) = u \o v
<1> DEFINE n == Len(u)
<1>1. n \in Nat \ {0} /\ n \in 1..n /\ 1 \in 1..n
  BY EmptySeq, LenProperties
<1>2. Last(u) = u[n] /\ u[n] \in S
  BY <1>1, ElementOfSeq DEF Last
<1>3. Front(u) = SubSeq(u, 1, n - 1) /\ Front(u) \in Seq(S)
  <2>1. \A i \in 1..(n - 1) : u[i] \in S
    BY <1>1, ElementOfSeq
  <2> QED BY <1>1, <2>1, SubSeqProperties DEF Front
<1>4. <<u[n]>> \in Seq(S) /\ Len(<<u[n]>>) = 1
  BY <1>2
<1>5. u = Front(u) \o <<u[n]>>
  BY <1>1, <1>3, SubSeqRecursiveSecond, SubSeqFull
<1> DEFINE front == Front(u)
           one == <<u[n]>>
<1>6. one = <<Last(u)>>
  BY <1>2
<1>7. /\ front \in Seq(S) /\ one \in Seq(S) /\ Len(one) = 1
      /\ u = front \o one
  BY <1>3, <1>4, <1>5
<1> HIDE DEF front, one, n
<1>8. one \o v \in Seq(S) /\ Len(one \o v) = 1 + Len(v) /\ Len(v) \in Nat
  BY <1>7, ConcatProperties, LenProperties
<1>9. (front \o one) \o v = front \o (one \o v)
  BY <1>7, ConcatAssociative
<1>10. u \o v = front \o (one \o v)
  BY <1>7, <1>9
<1>11. front \in Seq(S) /\ one \o v \in Seq(S) /\ Len(one \o v) = Len(v) + 1
  BY <1>7, <1>8
<1> QED BY <1>6, <1>10, <1>11 DEF front

\* The first row is a row, and none is before it.
LEMMA FirstRow ==
  ASSUME NEW rows \in SUBSET Nat, rows # {}
  PROVE  Min(rows) \in rows /\ \A i \in rows : Min(rows) <= i
<1>1. \E x \in rows : \A y \in rows : ~(<<y, x>> \in OpToRel(<, Nat))
  BY NatLessThanWellFounded, WFMin
<1>2. PICK x \in rows : \A y \in rows : ~(y < x)
  BY <1>1 DEF OpToRel
<1>3. \E z \in rows : \A y \in rows : z =< y
  BY <1>2
<1> QED BY <1>3 DEF Min

\* The smallest element is found.
LEMMA SmallestIs ==
  ASSUME NEW ks \in SUBSET Nat, NEW k \in ks, \A i \in ks : k <= i
  PROVE  Min(ks) = k
<1>1. ks # {}
  OBVIOUS
<1>2. Min(ks) \in ks /\ \A i \in ks : Min(ks) <= i
  BY <1>1, FirstRow
<1>3. Min(ks) <= k /\ k <= Min(ks) /\ Min(ks) \in Nat /\ k \in Nat
  BY <1>2
<1> QED BY <1>3

-----------------------------------------------------------------------------
(* The loop of stem().                                                     *)

\* The tables hold rows of the calls that made them: an exception is never empty.
Tables(rs, es) ==
  /\ rs \in Seq(Rule)
  /\ es \in Seq(Exception) /\ \A i \in DOMAIN es : es[i].exception # <<>>

\* The first row with the ending is the exception, as the reference definition says it.
LEMMA ExceptedByFirst ==
  ASSUME NEW rs, NEW es, Tables(rs, es), NEW u, NEW v
  PROVE  Excepted(es, u, v) <=>
           \E i \in DOMAIN es :
             /\ es[i] = [stem |-> v, exception |-> LastSyllable(u)]
             /\ \A j \in 1..(i - 1) : es[j].stem # v
<1> DEFINE rows == {i \in DOMAIN es : es[i].stem = v}
           syllable == LastSyllable(u)
<1>1. /\ es \in Seq(Exception) /\ Len(es) \in Nat /\ DOMAIN es = 1..Len(es)
      /\ \A i \in DOMAIN es : es[i].exception # <<>>
  BY LenProperties DEF Tables
<1>2. \A i \in DOMAIN es : es[i] = [stem |-> es[i].stem, exception |-> es[i].exception]
  <2>1. \A e \in Exception : e = [stem |-> e.stem, exception |-> e.exception]
    BY DEF Exception
  <2>2. \A i \in DOMAIN es : es[i] \in Exception
    BY <1>1, ElementOfSeq
  <2> QED BY <2>1, <2>2
<1>3. rows \in SUBSET Nat
  BY <1>1
<1>4. Excepted(es, u, v) <=> rows # {} /\ syllable # <<>> /\ es[Min(rows)].exception = syllable
  BY DEF Excepted
<1>5. ASSUME rows # {}, es[Min(rows)].exception = syllable
      PROVE  \E i \in DOMAIN es :
               /\ es[i] = [stem |-> v, exception |-> syllable]
               /\ \A j \in 1..(i - 1) : es[j].stem # v
  <2> DEFINE first == Min(rows)
  <2>1. first \in rows /\ \A i \in rows : first <= i
    <3> HIDE DEF rows
    <3> QED BY <1>3, <1>5, FirstRow
  <2>2. es[first] = [stem |-> v, exception |-> syllable]
    BY <1>2, <1>5, <2>1
  <2> HIDE DEF first
  <2>3. \A j \in 1..(first - 1) : es[j].stem # v
    BY <1>1, <2>1
  <2> QED BY <2>1, <2>2, <2>3
<1>6. ASSUME NEW i \in DOMAIN es, es[i] = [stem |-> v, exception |-> syllable],
             \A j \in 1..(i - 1) : es[j].stem # v
      PROVE  rows # {} /\ syllable # <<>> /\ es[Min(rows)].exception = syllable
  <2>1. es[i].stem = v /\ es[i].exception = syllable
    BY <1>6
  <2>2. i \in rows /\ syllable # <<>>
    BY <1>1, <2>1
  <2>3. \A j \in rows : i <= j
    BY <1>1, <1>6
  <2>4. Min(rows) = i
    <3> HIDE DEF rows
    <3> QED BY <1>3, <2>2, <2>3, SmallestIs
  <2> QED BY <2>1, <2>2, <2>4
<1> HIDE DEF rows, syllable
<1>7. QED BY <1>4, <1>5, <1>6 DEF syllable

\* Whether a rule applies to an ending is what a turn of the loop asks the tables.
LEMMA AppliesToEnding ==
  ASSUME NEW rs, NEW es, Tables(rs, es), NEW u \in Text, NEW v \in Text
  PROVE  Applies(rs, es, u \o v, Len(v)) <=> HasRule(rs, v) /\ ~Excepted(es, u, v)
<1>1. /\ SubSeq(u \o v, 1, Len(u \o v) - Len(v)) = u
      /\ SubSeq(u \o v, Len(u \o v) - Len(v) + 1, Len(u \o v)) = v
  BY EndingOf DEF Text
<1>2. Excepted(es, u, v) <=>
        \E i \in DOMAIN es :
          /\ es[i] = [stem |-> v, exception |-> LastSyllable(u)]
          /\ \A j \in 1..(i - 1) : es[j].stem # v
  BY ExceptedByFirst
<1> QED BY <1>1, <1>2 DEF Applies, HasRule

\* The new ending of a rule is that of a row, and a text.
LEMMA NewEndingIsText ==
  ASSUME NEW rs, NEW es, Tables(rs, es), NEW v, HasRule(rs, v)
  PROVE  NewEnding(rs, v) \in Text
<1> DEFINE rows == {i \in DOMAIN rs : rs[i].old = v}
<1>1. rs \in Seq(Rule) /\ Len(rs) \in Nat /\ DOMAIN rs = 1..Len(rs)
  BY LenProperties DEF Tables
<1>2. rows \in SUBSET Nat /\ rows # {}
  BY <1>1 DEF HasRule
<1>3. Min(rows) \in rows
  <2> HIDE DEF rows
  <2> QED BY <1>2, FirstRow
<1>4. rs[Min(rows)] \in Rule
  BY <1>1, <1>3, ElementOfSeq
<1>5. NewEnding(rs, v) = rs[Min(rows)].new
  BY DEF NewEnding
<1> HIDE DEF rows
<1> QED BY <1>4, <1>5 DEF Rule

\* What stems[i] is made from.
Preceding(word, stems, i) == IF i = 1 THEN word ELSE stems[i - 1]

\* What the loop goes on from since it has found its stems.
Base(word, stems) == Preceding(word, stems, Len(stems) + 1)

IsStemAt(rs, es, word, stems, i) ==
  /\ HasStem(rs, es, Preceding(word, stems, i))
  /\ stems[i] = StemOf(rs, es, Preceding(word, stems, i))

\* The invariant of the loop.
StemsSoFar(rs, es, word, s) ==
  /\ s = [word |-> s.word, suffix |-> s.suffix, stems |-> s.stems]
  /\ s.word \in Text /\ s.suffix \in Text /\ s.stems \in Seq(Text)
  /\ s.word \o s.suffix = Base(word, s.stems)
  /\ \A k \in 1..Len(s.suffix) : ~Applies(rs, es, Base(word, s.stems), k)
  /\ \A i \in 1..Len(s.stems) : IsStemAt(rs, es, word, s.stems, i)

\* It holds where the loop begins.
LEMMA NoStemsYet ==
  ASSUME NEW rs, NEW es, NEW word \in Text
  PROVE  StemsSoFar(rs, es, word, StartStemming(word))
<1> DEFINE s == StartStemming(word)
<1>1. s.word = word /\ s.suffix = <<>> /\ s.stems = <<>>
  BY DEF StartStemming
<1>2. word \o <<>> = word /\ <<>> \in Text /\ <<>> \in Seq(Text) /\ Len(<<>>) = 0
  BY ConcatEmptySeq, EmptySeq DEF Text
<1>3. s = [word |-> s.word, suffix |-> s.suffix, stems |-> s.stems]
  BY DEF StartStemming
<1>4. Base(word, <<>>) = word
  BY <1>2 DEF Base, Preceding
<1> HIDE DEF s
<1>5. StemsSoFar(rs, es, word, s)
  BY <1>1, <1>2, <1>3, <1>4 DEF StemsSoFar
<1> QED BY <1>5 DEF s

\* A stem that is appended has its place in the list.
LEMMA Appended ==
  ASSUME NEW word, NEW stems \in Seq(Text), NEW w \in Text
  PROVE  /\ Append(stems, w) \in Seq(Text) /\ Len(Append(stems, w)) = Len(stems) + 1
         /\ Len(stems) \in Nat
         /\ Append(stems, w)[Len(stems) + 1] = w
         /\ Base(word, Append(stems, w)) = w
         /\ Preceding(word, Append(stems, w), Len(stems) + 1) = Base(word, stems)
         /\ \A i \in 1..Len(stems) :
              /\ Append(stems, w)[i] = stems[i]
              /\ Preceding(word, Append(stems, w), i) = Preceding(word, stems, i)
<1> DEFINE n == Len(stems)
           all == Append(stems, w)
<1>1. /\ all \in Seq(Text) /\ Len(all) = n + 1 /\ n \in Nat
      /\ \A i \in 1..n : all[i] = stems[i]
      /\ all[n + 1] = w
  BY AppendProperties, LenProperties
<1> HIDE DEF all
<1>2. Base(word, all) = w
  BY <1>1 DEF Base, Preceding
<1>3. Preceding(word, all, n + 1) = Base(word, stems)
  BY <1>1 DEF Base, Preceding
<1>4. \A i \in 1..n : Preceding(word, all, i) = Preceding(word, stems, i)
  BY <1>1 DEF Preceding
<1> QED BY <1>1, <1>2, <1>3, <1>4 DEF all

\* When no rule applies to less of the base than v, and one applies to v, the stem of
\* the base has the new ending in the place of v.
LEMMA StemFound ==
  ASSUME NEW rs, NEW es, Tables(rs, es), NEW u \in Text, NEW v \in Text, Len(v) \in Nat \ {0},
         HasRule(rs, v), ~Excepted(es, u, v),
         \A k \in 1..(Len(v) - 1) : ~Applies(rs, es, u \o v, k)
  PROVE  HasStem(rs, es, u \o v) /\ StemOf(rs, es, u \o v) = u \o NewEnding(rs, v)
<1> DEFINE base == u \o v
           n == Len(v)
           ks == {k \in 1..Len(base) : Applies(rs, es, base, k)}
<1>1. Len(base) = Len(u) + n /\ Len(u) \in Nat /\ n \in Nat \ {0}
  BY ConcatProperties, LenProperties DEF Text
<1>2. Applies(rs, es, base, n)
  BY AppliesToEnding
<1>3. /\ SubSeq(base, 1, Len(base) - n) = u
      /\ SubSeq(base, Len(base) - n + 1, Len(base)) = v
  BY EndingOf DEF Text
<1>4. \A k \in 1..(n - 1) : ~Applies(rs, es, base, k)
  OBVIOUS
<1>5. HasStem(rs, es, base)
  <2> HIDE DEF base, n
  <2>1. n \in 1..Len(base)
    BY <1>1
  <2> QED BY <1>2, <2>1 DEF HasStem
<1>6. StemOf(rs, es, base)
        = SubSeq(base, 1, Len(base) - Min(ks))
            \o NewEnding(rs, SubSeq(base, Len(base) - Min(ks) + 1, Len(base)))
  BY DEF StemOf
<1> HIDE DEF base, n
<1>7. ks \in SUBSET Nat /\ n \in ks /\ \A k \in ks : n <= k
  <2>1. n \in 1..Len(base)
    BY <1>1
  <2>2. \A k \in 1..Len(base) : Applies(rs, es, base, k) => n <= k
    BY <1>1, <1>4
  <2>3. ks \in SUBSET Nat
    BY <1>1
  <2> QED BY <1>2, <2>1, <2>2, <2>3
<1>8. Min(ks) = n
  <2> HIDE DEF ks
  <2> QED BY <1>7, SmallestIs
<1> HIDE DEF ks
<1>9. StemOf(rs, es, base) = u \o NewEnding(rs, v)
  BY <1>3, <1>6, <1>8
<1> QED BY <1>5, <1>9 DEF base

\* The letters of one turn.
LEMMA TakenLetter ==
  ASSUME NEW a \in Text, a # <<>>, NEW b \in Text
  PROVE  /\ Front(a) \in Text /\ <<Last(a)>> \o b \in Text
         /\ Front(a) \o (<<Last(a)>> \o b) = a \o b
         /\ Len(<<Last(a)>> \o b) = Len(b) + 1 /\ Len(b) \in Nat
<1>1. a \in Seq(Char) /\ b \in Seq(Char) /\ Text = Seq(Char)
  BY DEF Text
<1>2. Len(b) \in Nat
  BY <1>1, LenProperties
<1> QED BY <1>1, <1>2, LetterMoves

\* A turn of the loop keeps the invariant.
LEMMA TurnKeeps ==
  ASSUME NEW rs, NEW es, Tables(rs, es), NEW word \in Text, NEW s,
         StemsSoFar(rs, es, word, s), s.word # <<>>
  PROVE  StemsSoFar(rs, es, word, StemTurn(rs, es, s))
<1> DEFINE u == Front(s.word)
           v == <<Last(s.word)>> \o s.suffix
           t == Taken(s)
           base == Base(word, s.stems)
<1>1. /\ s = [word |-> s.word, suffix |-> s.suffix, stems |-> s.stems]
      /\ s.word \in Text /\ s.suffix \in Text /\ s.stems \in Seq(Text)
      /\ s.word \o s.suffix = base
      /\ \A k \in 1..Len(s.suffix) : ~Applies(rs, es, base, k)
      /\ \A i \in 1..Len(s.stems) : IsStemAt(rs, es, word, s.stems, i)
  BY DEF StemsSoFar
<1>2. /\ u \in Text /\ v \in Text /\ u \o v = s.word \o s.suffix
      /\ Len(v) = Len(s.suffix) + 1 /\ Len(s.suffix) \in Nat
  BY <1>1, TakenLetter
<1>3. t = [word |-> u, suffix |-> v, stems |-> s.stems]
  BY DEF Taken
<1> HIDE DEF u, v, t, base
<1>4. u \o v = base
  BY <1>1, <1>2
<1>5. CASE HasRule(rs, v) /\ ~Excepted(es, u, v)
  <2> DEFINE w == u \o NewEnding(rs, v)
             turned == [word |-> w, suffix |-> <<>>, stems |-> Append(s.stems, w)]
  <2>1. NewEnding(rs, v) \in Text
    BY <1>5, NewEndingIsText
  <2>2. w \in Text
    BY <1>2, <2>1, ConcatProperties DEF Text
  <2>3. HasStem(rs, es, base) /\ StemOf(rs, es, base) = w
    <3>1. Len(v) \in Nat \ {0} /\ \A k \in 1..(Len(v) - 1) : ~Applies(rs, es, u \o v, k)
      BY <1>1, <1>2, <1>4
    <3> QED BY <1>2, <1>4, <1>5, <3>1, StemFound
  <2>4. StemTurn(rs, es, s) = turned
    BY <1>3, <1>5 DEF StemTurn, Stemmed, t
  <2> HIDE DEF w
  <2> DEFINE n == Len(s.stems)
             all == Append(s.stems, w)
  <2>5. /\ all \in Seq(Text) /\ Len(all) = n + 1 /\ n \in Nat /\ all[n + 1] = w
        /\ Base(word, all) = w /\ Preceding(word, all, n + 1) = base
        /\ \A i \in 1..n : all[i] = s.stems[i] /\ Preceding(word, all, i) = Preceding(word, s.stems, i)
    BY <1>1, <2>2, Appended DEF base
  <2> HIDE DEF all, n
  <2>6. \A i \in 1..n : IsStemAt(rs, es, word, all, i)
    BY <1>1, <2>5 DEF IsStemAt, n
  <2>7. IsStemAt(rs, es, word, all, n + 1)
    BY <2>3, <2>5 DEF IsStemAt
  <2>8. \A i \in 1..Len(all) : IsStemAt(rs, es, word, all, i)
    BY <2>5, <2>6, <2>7
  <2>9. w \o <<>> = w /\ <<>> \in Text /\ Len(<<>>) = 0
    BY <2>2, ConcatEmptySeq, EmptySeq DEF Text
  <2>10. /\ turned = [word |-> turned.word, suffix |-> turned.suffix, stems |-> turned.stems]
         /\ turned.word = w /\ turned.suffix = <<>> /\ turned.stems = all
    BY DEF all
  <2> HIDE DEF turned
  <2>11. StemsSoFar(rs, es, word, turned)
    BY <2>2, <2>5, <2>8, <2>9, <2>10 DEF StemsSoFar
  <2> QED BY <2>4, <2>11
<1>6. CASE ~(HasRule(rs, v) /\ ~Excepted(es, u, v))
  <2>1. StemTurn(rs, es, s) = t
    BY <1>3, <1>6 DEF StemTurn, t
  <2>2. ~Applies(rs, es, base, Len(v))
    BY <1>2, <1>4, <1>6, AppliesToEnding
  <2>3. \A k \in 1..Len(v) : ~Applies(rs, es, base, k)
    BY <1>1, <1>2, <2>2
  <2>4. /\ t.word = u /\ t.suffix = v /\ t.stems = s.stems
        /\ t = [word |-> t.word, suffix |-> t.suffix, stems |-> t.stems]
    BY <1>3
  <2>5. StemsSoFar(rs, es, word, t)
    BY <1>1, <1>2, <1>4, <2>3, <2>4 DEF StemsSoFar, base
  <2> QED BY <2>1, <2>5
<1> QED BY <1>5, <1>6

\* When no letter is left the loop has found all stems.
LEMMA AllFound ==
  ASSUME NEW rs, NEW es, NEW word \in Text, NEW s,
         StemsSoFar(rs, es, word, s), s.word = <<>>
  PROVE  AreStems(rs, es, word, s.stems)
<1> DEFINE base == Base(word, s.stems)
<1>1. /\ s.suffix \in Text /\ s.stems \in Seq(Text) /\ s.word \o s.suffix = base
      /\ \A k \in 1..Len(s.suffix) : ~Applies(rs, es, base, k)
      /\ \A i \in 1..Len(s.stems) : IsStemAt(rs, es, word, s.stems, i)
  BY DEF StemsSoFar
<1>2. base = s.suffix
  BY <1>1, ConcatEmptySeq DEF Text
<1>3. ~HasStem(rs, es, base)
  BY <1>1, <1>2 DEF HasStem
<1>4. DOMAIN s.stems = 1..Len(s.stems)
  BY <1>1, LenProperties
<1> QED BY <1>1, <1>3, <1>4 DEF AreStems, IsStemAt, Base, Preceding

-----------------------------------------------------------------------------
(* The calls.                                                              *)

Learning == frame.pc \in {"count", "stem", "commit"}

Exporting == frame.pc \in {"read", "write"}

\* The tables of the scheme, and the locals of the calls.
Shape ==
  /\ faults \in Nat
  /\ Tables(rules, exceptions)
  /\ "pc" \in DOMAIN frame
  /\ Learning =>
       /\ frame = [pc |-> frame.pc, word |-> frame.word, stem |-> frame.stem]
       /\ frame.word \in Text \ {<<>>}
  /\ Exporting => "kind" \in DOMAIN frame

\* Until something fails a transaction is open only in learn, and has no index.
IndexInv ==
  /\ file = [db |-> file.db, index |-> file.index]
  /\ txn # <<>> => txn[1] = [db |-> txn[1].db, index |-> txn[1].index]
  /\ Learning => txn # <<>>
  /\ faults = 0 =>
       /\ txn # <<>> => Learning /\ txn[1].index = FALSE /\ file.index = FALSE
       /\ file.index # FALSE => Exporting /\ frame.kind = "full"

\* Until something fails, learn is in the loop of stem() or behind it.
StemInv ==
  /\ frame.pc = "count" => frame.stem = StartStemming(frame.word)
  /\ faults = 0 /\ frame.pc = "stem" =>
       StemsSoFar(rules, exceptions, frame.word, frame.stem) /\ frame.stem.word # <<>>
  /\ faults = 0 /\ frame.pc = "commit" /\ count > 0 =>
       StemsSoFar(rules, exceptions, frame.word, frame.stem) /\ frame.stem.word = <<>>

IInv == Shape /\ IndexInv /\ StemInv

\* Rows that are created keep the tables what they are.
LEMMA RuleAdded ==
  ASSUME NEW rs, NEW es, Tables(rs, es), NEW r \in Rules
  PROVE  Tables(Append(rs, r), es)
<1>1. r \in Rule
  BY HandleAssumption
<1> QED BY <1>1, AppendProperties DEF Tables

\* The same for an exception, whose own text is not empty.
LEMMA ExceptionAdded ==
  ASSUME NEW rs, NEW es, Tables(rs, es), NEW e \in Exceptions
  PROVE  Tables(rs, Append(es, e))
<1> DEFINE n == Len(es)
           all == Append(es, e)
<1>1. e \in Exception /\ e.exception # <<>>
  BY HandleAssumption
<1>2. /\ es \in Seq(Exception) /\ n \in Nat /\ DOMAIN es = 1..n
      /\ \A i \in 1..n : es[i].exception # <<>>
  BY LenProperties DEF Tables
<1>3. /\ all \in Seq(Exception) /\ Len(all) = n + 1 /\ all[n + 1] = e
      /\ \A i \in 1..n : all[i] = es[i]
  BY <1>1, <1>2, AppendProperties
<1>4. DOMAIN all = 1..(n + 1)
  BY <1>3, LenProperties
<1> HIDE DEF all, n
<1>5. \A i \in DOMAIN all : all[i].exception # <<>>
  BY <1>1, <1>2, <1>3, <1>4
<1> QED BY <1>3, <1>5 DEF Tables, all

\* A handle on empty tables has learned and exported nothing.
LEMMA Initially == Init => IInv
<1> SUFFICES ASSUME Init PROVE IInv
  OBVIOUS
<1>1. /\ file = [db |-> EmptyDb, index |-> FALSE] /\ txn = <<>>
      /\ rules = <<>> /\ exceptions = <<>> /\ faults = 0 /\ frame = [pc |-> "idle"]
  BY DEF Init, Idle
<1>2. Tables(<<>>, <<>>)
  BY EmptySeq DEF Tables
<1>3. "pc" \in DOMAIN frame /\ frame.pc = "idle"
  BY <1>1
<1>4. Shape
  BY <1>1, <1>2, <1>3 DEF Shape, Learning, Exporting
<1>5. IndexInv
  BY <1>1, <1>3 DEF IndexInv, Learning
<1>6. StemInv
  BY <1>3 DEF StemInv
<1> QED BY <1>4, <1>5, <1>6 DEF IInv

\* What a step has to leave alone while no call is in the middle of learning.
Restful ==
  /\ faults' \in Nat
  /\ faults' = 0 => faults = 0
  /\ Tables(rules', exceptions')
  /\ "pc" \in DOMAIN frame' /\ frame'.pc \notin {"count", "stem", "commit", "read", "write"}
  /\ ~Learning
  /\ UNCHANGED <<file, txn>>

\* A handle that waits for a call, or is in one that neither learns nor exports.
LEMMA RestfulKeeps ==
  ASSUME IInv, Restful, ~Exporting
  PROVE  IInv'
<1>1. Shape'
  BY DEF IInv, Restful, Shape, Learning, Exporting
<1>2. IndexInv'
  BY DEF IInv, Restful, IndexInv, Learning, Exporting
<1>3. StemInv'
  BY DEF Restful, StemInv
<1> QED BY <1>1, <1>2, <1>3 DEF IInv

\* Nothing is promised of what a failure leaves but the shape of it.
LEMMA FailureKeeps ==
  ASSUME IInv, Fault, UNCHANGED <<file, rules, exceptions>>, txn' \in {<<>>, txn}, frame' = Idle
  PROVE  IInv'
<1>1. faults' \in Nat /\ faults' # 0
  BY DEF IInv, Shape, Fault
<1>2. "pc" \in DOMAIN frame' /\ frame'.pc = "idle"
  BY DEF Idle
<1>3. Shape'
  BY <1>1, <1>2 DEF IInv, Shape, Learning, Exporting
<1>4. IndexInv'
  BY <1>1, <1>2 DEF IInv, IndexInv, Learning
<1>5. StemInv'
  BY <1>2 DEF StemInv
<1> QED BY <1>3, <1>4, <1>5 DEF IInv

-----------------------------------------------------------------------------
(* The steps of a call that learns.                                        *)

\* The locals of a call that learns keep their shape when it goes on.
LEMMA LearningGoesOn ==
  ASSUME IInv, Learning, NEW p \in {"stem", "commit"}, NEW s,
         frame' = [frame EXCEPT !.stem = s, !.pc = p]
  PROVE  /\ frame'.pc = p /\ frame'.word = frame.word /\ frame'.stem = s
         /\ frame' = [pc |-> frame'.pc, word |-> frame'.word, stem |-> frame'.stem]
         /\ frame'.word \in Text \ {<<>>}
         /\ "pc" \in DOMAIN frame' /\ Learning'
<1>1. /\ frame = [pc |-> frame.pc, word |-> frame.word, stem |-> frame.stem]
      /\ frame.word \in Text \ {<<>>}
  BY DEF IInv, Shape
<1>2. frame' = [pc |-> p, word |-> frame.word, stem |-> s]
  BY <1>1
<1> QED BY <1>1, <1>2 DEF Learning

\* A learn that is refused leaves the tables alone; one that begins starts its stems
\* from the word.
LEMMA LearnKeeps ==
  ASSUME IInv, NEW word \in LearnCalls, Learn(word)
  PROVE  IInv'
<1>1. /\ frame.pc = "idle" /\ faults' = faults /\ rules' = rules /\ exceptions' = exceptions
      /\ ~Learning /\ ~Exporting
  BY DEF Learn, Call, bounds, scheme, Learning, Exporting
<1>2. CASE enabled /\ txn = <<>> /\ CanLearnWord(word)
  <2>1. /\ txn' = <<[file EXCEPT !.db = LearnInto(@, word, 1)]>>
        /\ frame' = [pc |-> "count", word |-> word, stem |-> StartStemming(word)]
        /\ file' = file
    BY <1>2 DEF Learn
  <2>2. word \in Text \ {<<>>}
    BY HandleAssumption
  <2>3. file = [db |-> file.db, index |-> file.index]
    BY DEF IInv, IndexInv
  <2>4. /\ txn'[1] = [db |-> txn'[1].db, index |-> txn'[1].index]
        /\ txn'[1].index = file.index /\ txn' # <<>>
    BY <2>1, <2>3
  <2>5. Learning' /\ ~Exporting' /\ frame'.pc = "count"
    BY <2>1 DEF Learning, Exporting
  <2>6. Shape'
    BY <1>1, <2>1, <2>2, <2>5 DEF IInv, Shape
  <2>7. faults = 0 => file.index = FALSE
    BY <1>1 DEF IInv, IndexInv
  <2>8. IndexInv'
    BY <1>1, <2>1, <2>3, <2>4, <2>5, <2>7 DEF IndexInv
  <2>9. StemInv'
    BY <2>1, <2>5 DEF StemInv
  <2> QED BY <2>6, <2>8, <2>9 DEF IInv
<1>3. CASE ~(enabled /\ txn = <<>> /\ CanLearnWord(word))
  <2>1. UNCHANGED <<file, txn, frame>>
    BY <1>3 DEF Learn, store
  <2>2. Restful
    BY <1>1, <2>1 DEF Restful, IInv, Shape
  <2> QED BY <1>1, <2>2, RestfulKeeps
<1> QED BY <1>2, <1>3

\* The loop begins at the word when there are rules, and is passed by when there are none.
LEMMA CountRulesKeeps ==
  ASSUME IInv, CountRules
  PROVE  IInv'
<1> DEFINE n == IF count = -1 THEN Len(rules) ELSE count
           p == IF n > 0 THEN "stem" ELSE "commit"
<1>1. /\ frame.pc = "count" /\ count' = n /\ frame' = [frame EXCEPT !.pc = p]
      /\ UNCHANGED <<file, txn, rules, exceptions, faults>>
  BY DEF CountRules, store, scheme, bounds
<1>2. Learning /\ frame.stem = StartStemming(frame.word)
  BY <1>1 DEF Learning, IInv, StemInv
<1>3. /\ frame = [pc |-> frame.pc, word |-> frame.word, stem |-> frame.stem]
      /\ frame.word \in Text \ {<<>>}
  BY <1>2 DEF IInv, Shape
<1> HIDE DEF p
<1>4. frame' = [pc |-> p, word |-> frame.word, stem |-> frame.stem]
  BY <1>1, <1>3
<1>5. p \in {"stem", "commit"} /\ (p = "commit" => ~(n > 0))
  BY DEF p
<1> HIDE DEF n
<1>6. Learning' /\ ~Exporting'
  BY <1>4, <1>5 DEF Learning, Exporting
<1>7. Shape'
  BY <1>1, <1>3, <1>4, <1>6 DEF IInv, Shape
<1>8. IndexInv'
  BY <1>1, <1>2, <1>6, <1>7 DEF IInv, IndexInv, Shape, Learning, Exporting
<1>9. StemsSoFar(rules, exceptions, frame.word, frame.stem)
  BY <1>2, <1>3, NoStemsYet
<1>10. frame.stem.word # <<>>
  BY <1>2, <1>3 DEF StartStemming
<1>11. StemInv'
  BY <1>1, <1>4, <1>5, <1>9, <1>10 DEF StemInv
<1> QED BY <1>7, <1>8, <1>11 DEF IInv

\* A turn of the loop, or a failure in it.
LEMMA StemKeeps ==
  ASSUME IInv, Stem \/ SyllableFails
  PROVE  IInv'
<1>1. /\ frame.pc = "stem" /\ Learning
      /\ UNCHANGED <<file, txn, rules, exceptions>>
  BY DEF Stem, SyllableFails, store, scheme, Learning
<1>2. /\ frame = [pc |-> frame.pc, word |-> frame.word, stem |-> frame.stem]
      /\ frame.word \in Text \ {<<>>}
      /\ Tables(rules, exceptions) /\ faults \in Nat
  BY <1>1 DEF IInv, Shape
<1>3. ASSUME NEW s, frame' = StemmedTo(s), faults' \in Nat, faults' = 0 => faults = 0,
             faults' = 0 => StemsSoFar(rules, exceptions, frame.word, s)
      PROVE  IInv'
  <2> DEFINE p == IF s.word = <<>> THEN "commit" ELSE "stem"
  <2>1. frame' = [frame EXCEPT !.stem = s, !.pc = p] /\ p \in {"stem", "commit"}
    BY <1>3 DEF StemmedTo
  <2>2. /\ p = "stem" => s.word # <<>>
        /\ p = "commit" => s.word = <<>>
    OBVIOUS
  <2> HIDE DEF p
  <2>3. /\ frame'.pc = p /\ frame'.word = frame.word /\ frame'.stem = s
        /\ frame' = [pc |-> frame'.pc, word |-> frame'.word, stem |-> frame'.stem]
        /\ frame'.word \in Text \ {<<>>}
        /\ "pc" \in DOMAIN frame' /\ Learning'
    BY <1>1, <2>1, LearningGoesOn
  <2>4. ~Exporting'
    BY <2>1, <2>3 DEF Exporting
  <2>5. Shape'
    BY <1>1, <1>2, <1>3, <2>3, <2>4 DEF Shape
  <2>6. IndexInv'
    BY <1>1, <1>3, <2>3, <2>4 DEF IInv, IndexInv, Exporting
  <2>7. StemInv'
    BY <1>1, <1>3, <2>1, <2>2, <2>3 DEF StemInv
  <2> QED BY <2>5, <2>6, <2>7 DEF IInv
<1>4. CASE Stem
  <2> DEFINE s == StemTurn(rules, exceptions, frame.stem)
  <2>1. frame' = StemmedTo(s) /\ faults' = faults
    BY <1>4 DEF Stem, bounds
  <2>2. ASSUME faults = 0
        PROVE  StemsSoFar(rules, exceptions, frame.word, s)
    <3>1. StemsSoFar(rules, exceptions, frame.word, frame.stem) /\ frame.stem.word # <<>>
      BY <1>1, <2>2 DEF IInv, StemInv
    <3> QED BY <1>2, <3>1, TurnKeeps
  <2> HIDE DEF s
  <2> QED BY <1>2, <1>3, <2>1, <2>2
<1>5. CASE SyllableFails
  <2>1. faults' = faults + 1
    BY <1>5 DEF SyllableFails, Fault
  <2>2. PICK s : frame' = StemmedTo(s)
    BY <1>5 DEF SyllableFails
  <2>3. faults' \in Nat /\ faults' # 0
    BY <1>2, <2>1
  <2> QED BY <1>3, <2>2, <2>3
<1> QED BY <1>4, <1>5

\* Behind the commit no transaction is open.
LEMMA CommitKeeps ==
  ASSUME IInv, Commit
  PROVE  IInv'
<1>1. /\ frame.pc = "commit" /\ Learning /\ txn' = <<>> /\ frame' = Idle
      /\ UNCHANGED <<rules, exceptions, faults>>
  BY DEF Commit, Return, scheme, bounds, Learning
<1>2. PICK d : file' = [txn[1] EXCEPT !.db = d]
  BY DEF Commit
<1>3. txn[1] = [db |-> txn[1].db, index |-> txn[1].index] /\ (faults = 0 => txn[1].index = FALSE)
  BY <1>1 DEF IInv, IndexInv
<1>4. file' = [db |-> d, index |-> txn[1].index]
  BY <1>2, <1>3
<1>5. "pc" \in DOMAIN frame' /\ frame'.pc = "idle"
  BY <1>1 DEF Idle
<1>6. Shape'
  BY <1>1, <1>5 DEF IInv, Shape, Learning, Exporting
<1>7. IndexInv'
  BY <1>1, <1>3, <1>4, <1>5 DEF IndexInv, Learning
<1>8. StemInv'
  BY <1>5 DEF StemInv
<1> QED BY <1>6, <1>7, <1>8 DEF IInv

-----------------------------------------------------------------------------
(* The steps of an export, and of others.                                  *)

\* What the index becomes in the file or in an open transaction.
LEMMA SetViewKeeps ==
  ASSUME IInv, NEW b, SetView([View EXCEPT !.index = b])
  PROVE  /\ file' = [db |-> file'.db, index |-> file'.index]
         /\ txn' # <<>> => txn'[1] = [db |-> txn'[1].db, index |-> txn'[1].index]
         /\ txn = <<>> => txn' = <<>> /\ file'.index = b
         /\ txn # <<>> => txn' # <<>>
<1>1. /\ file = [db |-> file.db, index |-> file.index]
      /\ txn # <<>> => txn[1] = [db |-> txn[1].db, index |-> txn[1].index]
  BY DEF IInv, IndexInv
<1>2. CASE txn = <<>>
  <2>1. file' = [file EXCEPT !.index = b] /\ txn' = txn
    BY <1>2 DEF SetView, View
  <2>2. file' = [db |-> file.db, index |-> b]
    BY <1>1, <2>1
  <2> QED BY <1>2, <2>1, <2>2
<1>3. CASE txn # <<>>
  <2>1. txn' = <<[txn[1] EXCEPT !.index = b]>> /\ file' = file
    BY <1>3 DEF SetView, View
  <2>2. txn'[1] = [db |-> txn[1].db, index |-> b] /\ txn' # <<>>
    BY <1>1, <1>3, <2>1
  <2> QED BY <1>1, <1>3, <2>1, <2>2
<1> QED BY <1>2, <1>3

\* A full export begins with its index.
LEMMA ExportKeeps ==
  ASSUME IInv, NEW kind \in {"full", "words"}, Export(kind)
  PROVE  IInv'
<1>1. /\ frame.pc = "idle" /\ faults' = faults /\ rules' = rules /\ exceptions' = exceptions
      /\ ~Learning /\ ~Exporting
  BY DEF Export, Call, scheme, Learning, Exporting
<1>2. CASE enabled /\ ~(kind = "full" /\ View.index)
  <2> DEFINE b == View.index \/ kind = "full"
  <2>1. SetView([View EXCEPT !.index = b]) /\ frame' = [pc |-> "read", kind |-> kind]
    BY <1>2 DEF Export
  <2>2. /\ "pc" \in DOMAIN frame' /\ "kind" \in DOMAIN frame' /\ frame'.kind = kind
        /\ frame'.pc = "read" /\ ~Learning' /\ Exporting'
    BY <2>1 DEF Learning, Exporting
  <2>3. Shape'
    BY <1>1, <2>2 DEF IInv, Shape
  <2>4. /\ file' = [db |-> file'.db, index |-> file'.index]
        /\ txn' # <<>> => txn'[1] = [db |-> txn'[1].db, index |-> txn'[1].index]
        /\ txn = <<>> => txn' = <<>> /\ file'.index = b
    <3> HIDE DEF b
    <3> QED BY <2>1, SetViewKeeps
  <2>5. faults = 0 => txn = <<>> /\ file.index = FALSE
    BY <1>1 DEF IInv, IndexInv
  <2>6. faults = 0 /\ kind = "words" => file'.index = FALSE
    BY <2>4, <2>5 DEF View
  <2>7. IndexInv'
    BY <1>1, <2>2, <2>4, <2>5, <2>6 DEF IndexInv
  <2>8. StemInv'
    BY <2>2 DEF StemInv
  <2> QED BY <2>3, <2>7, <2>8 DEF IInv
<1>3. CASE ~(enabled /\ ~(kind = "full" /\ View.index))
  <2>1. UNCHANGED <<file, txn, frame>>
    BY <1>3 DEF Export
  <2>2. Restful
    BY <1>1, <2>1 DEF Restful, IInv, Shape
  <2> QED BY <1>1, <2>2, RestfulKeeps
<1> QED BY <1>2, <1>3

\* What is read and written leaves the index as it is.
LEMMA WritingKeeps ==
  ASSUME IInv, ReadWords \/ WriteWord
  PROVE  IInv'
<1>1. /\ Exporting /\ ~Learning
      /\ UNCHANGED <<file, txn, rules, exceptions, faults>>
  BY DEF ReadWords, WriteWord, Exporting, Learning, store, scheme, bounds
<1>2. "kind" \in DOMAIN frame /\ "pc" \in DOMAIN frame
  BY <1>1 DEF IInv, Shape
<1>3. /\ "kind" \in DOMAIN frame' /\ "pc" \in DOMAIN frame' /\ frame'.pc = "write"
      /\ frame'.kind = frame.kind
  <2>1. CASE ReadWords
    BY <2>1 DEF ReadWords
  <2>2. CASE WriteWord
    BY <1>2, <2>2 DEF WriteWord
  <2> QED BY <2>1, <2>2
<1>4. Exporting' /\ ~Learning'
  BY <1>3 DEF Exporting, Learning
<1>5. Shape'
  BY <1>1, <1>3, <1>4 DEF IInv, Shape
<1>6. IndexInv'
  BY <1>1, <1>3, <1>4 DEF IInv, IndexInv
<1>7. StemInv'
  BY <1>3 DEF StemInv
<1> QED BY <1>5, <1>6, <1>7 DEF IInv

\* A full export ends without its index.
LEMMA FinishKeeps ==
  ASSUME IInv, FinishExport
  PROVE  IInv'
<1> DEFINE b == IF frame.kind = "full" THEN FALSE ELSE View.index
<1>1. /\ frame.pc = "write" /\ ~Learning /\ frame' = Idle
      /\ SetView([View EXCEPT !.index = b])
      /\ UNCHANGED <<rules, exceptions, faults>>
  BY DEF FinishExport, EndExport, Return, Learning, scheme, bounds
<1>2. "pc" \in DOMAIN frame' /\ frame'.pc = "idle" /\ ~Learning' /\ ~Exporting'
  BY <1>1 DEF Idle, Learning, Exporting
<1>3. Shape'
  BY <1>1, <1>2 DEF IInv, Shape
<1>4. /\ file' = [db |-> file'.db, index |-> file'.index]
      /\ txn' # <<>> => txn'[1] = [db |-> txn'[1].db, index |-> txn'[1].index]
      /\ txn = <<>> => txn' = <<>> /\ file'.index = b
  <2> HIDE DEF b
  <2> QED BY <1>1, SetViewKeeps
<1>5. faults = 0 => txn = <<>> /\ b = FALSE
  BY <1>1 DEF IInv, IndexInv, View
<1> HIDE DEF b
<1>6. IndexInv'
  BY <1>1, <1>2, <1>4, <1>5 DEF IndexInv
<1>7. StemInv'
  BY <1>2 DEF StemInv
<1> QED BY <1>3, <1>6, <1>7 DEF IInv

\* Another process writes words, while this handle has no transaction.
LEMMA OtherKeeps ==
  ASSUME IInv, Other
  PROVE  IInv'
<1>1. /\ txn = <<>> /\ UNCHANGED <<txn, rules, exceptions, count, frame, faults>>
  BY DEF Other, LearnElsewhere, DeleteElsewhere, Elsewhere, scheme, stemming
<1>2. PICK d : file' = [file EXCEPT !.db = d]
  BY DEF Other, LearnElsewhere, DeleteElsewhere
<1>3. file = [db |-> file.db, index |-> file.index] /\ ~Learning
  BY <1>1 DEF IInv, IndexInv
<1>4. file' = [db |-> d, index |-> file.index]
  BY <1>2, <1>3
<1>5. Shape'
  BY <1>1 DEF IInv, Shape, Learning, Exporting
<1>6. IndexInv'
  BY <1>1, <1>4 DEF IInv, IndexInv, Learning, Exporting
<1>7. StemInv'
  BY <1>1 DEF IInv, StemInv
<1> QED BY <1>5, <1>6, <1>7 DEF IInv

-----------------------------------------------------------------------------
(* All steps.                                                              *)

\* A call that does not learn or export, or has not yet begun.
LEMMA RestfulSteps ==
  ASSUME IInv,
         \/ EnableSuggestions \/ FlushBuffer
         \/ \E input \in Inputs : Transliterate(input)
         \/ \E word \in Values : ReverseTransliterate(word)
         \/ \E r \in Rules : CreateStemrule(r)
         \/ \E e \in Exceptions : CreateStemException(e)
         \/ BestMatch \/ Match \/ Probe \/ Suggest
  PROVE  IInv'
<1>1. /\ faults \in Nat /\ Tables(rules, exceptions) /\ "pc" \in DOMAIN frame
  BY DEF IInv, Shape
<1>2. ASSUME Call, UNCHANGED <<file, txn>>, Tables(rules', exceptions'),
             frame' = frame \/ ("pc" \in DOMAIN frame' /\ frame'.pc = "best")
      PROVE  IInv'
  <2>1. Restful /\ ~Exporting
    BY <1>1, <1>2 DEF Call, Restful, Learning, Exporting
  <2> QED BY <2>1, RestfulKeeps
<1>3. ASSUME frame.pc \in {"best", "match", "probe", "suggest"},
             UNCHANGED <<file, txn, rules, exceptions, faults>>,
             "pc" \in DOMAIN frame', frame'.pc \in {"match", "probe", "suggest", "idle"}
      PROVE  IInv'
  <2>1. Restful /\ ~Exporting
    BY <1>1, <1>3 DEF Restful, Learning, Exporting
  <2> QED BY <2>1, RestfulKeeps
<1>4. CASE EnableSuggestions
  BY <1>1, <1>2, <1>4 DEF EnableSuggestions, store, scheme
<1>5. CASE FlushBuffer
  BY <1>1, <1>2, <1>5 DEF FlushBuffer, store, scheme
<1>6. ASSUME NEW input \in Inputs, Transliterate(input)
      PROVE  IInv'
  <2>1. "pc" \in DOMAIN frame' /\ frame'.pc = "best"
    BY <1>6 DEF Transliterate
  <2> QED BY <1>1, <1>2, <1>6, <2>1 DEF Transliterate, store, scheme
<1>7. ASSUME NEW word \in Values, ReverseTransliterate(word)
      PROVE  IInv'
  BY <1>1, <1>2, <1>7 DEF ReverseTransliterate, store, scheme
<1>8. ASSUME NEW r \in Rules, CreateStemrule(r)
      PROVE  IInv'
  <2>1. Tables(rules', exceptions')
    BY <1>1, <1>8, RuleAdded DEF CreateStemrule
  <2> QED BY <1>2, <1>8, <2>1 DEF CreateStemrule, store
<1>9. ASSUME NEW e \in Exceptions, CreateStemException(e)
      PROVE  IInv'
  <2>1. Tables(rules', exceptions')
    BY <1>1, <1>9, ExceptionAdded DEF CreateStemException
  <2> QED BY <1>2, <1>9, <2>1 DEF CreateStemException, store
<1>10. CASE BestMatch
  <2>1. "pc" \in DOMAIN frame' /\ frame'.pc \in {"match", "suggest"}
    BY <1>1, <1>10 DEF BestMatch
  <2> QED BY <1>3, <1>10, <2>1 DEF BestMatch, store, scheme, bounds
<1>11. CASE Match
  <2>1. "pc" \in DOMAIN frame' /\ frame'.pc = "probe"
    BY <1>1, <1>11 DEF Match
  <2> QED BY <1>3, <1>11, <2>1 DEF Match, store, scheme, bounds
<1>12. CASE Probe
  <2>1. "pc" \in DOMAIN frame' /\ frame'.pc \in {"match", "suggest"}
    BY <1>1, <1>12 DEF Probe
  <2> QED BY <1>3, <1>12, <2>1 DEF Probe, store, scheme, bounds
<1>13. CASE Suggest
  <2>1. "pc" \in DOMAIN frame' /\ frame'.pc = "idle"
    BY <1>13 DEF Suggest, Return, Idle
  <2> QED BY <1>3, <1>13, <2>1 DEF Suggest, store, scheme, bounds
<1> QED BY <1>4, <1>5, <1>6, <1>7, <1>8, <1>9, <1>10, <1>11, <1>12, <1>13

\* A handle that is opened again waits for a call.
LEMMA ReopenKeeps ==
  ASSUME IInv, Reopen
  PROVE  IInv'
<1>1. /\ frame.pc = "idle" /\ frame' = Idle /\ txn' = <<>>
      /\ UNCHANGED <<file, rules, exceptions, faults>>
  BY DEF Reopen, Call, Restarted, scheme
<1>2. "pc" \in DOMAIN frame' /\ frame'.pc = "idle"
  BY <1>1 DEF Idle
<1>3. Shape'
  BY <1>1, <1>2 DEF IInv, Shape, Learning, Exporting
<1>4. IndexInv'
  BY <1>1, <1>2 DEF IInv, IndexInv, Learning, Exporting
<1>5. StemInv'
  BY <1>2 DEF StemInv
<1> QED BY <1>3, <1>4, <1>5 DEF IInv

\* A call that fails at a statement, or with the process.
LEMMA FailsKeeps ==
  ASSUME IInv, ReadFails \/ StemFails \/ ExportFails \/ Die
  PROVE  IInv'
<1>1. /\ Fault /\ UNCHANGED <<file, rules, exceptions>>
      /\ txn' \in {<<>>, txn} /\ frame' = Idle
  BY DEF ReadFails, StemFails, ExportFails, Die, Restarted, Return, store, scheme
<1> QED BY <1>1, FailureKeeps

\* The step of the invariant, by the actions of Next.
LEMMA Stepwise == IInv /\ [Next]_vars => IInv'
<1> SUFFICES ASSUME IInv, [Next]_vars PROVE IInv'
  OBVIOUS
<1>1. CASE Enter
  BY <1>1, RestfulSteps, ReopenKeeps, LearnKeeps, ExportKeeps DEF Enter
<1>2. CASE Step
  BY <1>2, RestfulSteps, CountRulesKeeps, StemKeeps, CommitKeeps, WritingKeeps, FinishKeeps DEF Step
<1>3. CASE Fails
  BY <1>3, FailsKeeps, StemKeeps DEF Fails
<1>4. CASE Other
  BY <1>4, OtherKeeps
<1>5. CASE UNCHANGED vars
  BY <1>5 DEF IInv, Shape, IndexInv, StemInv, Learning, Exporting, vars, store, scheme,
              stemming, memory, bounds
<1> QED BY <1>1, <1>2, <1>3, <1>4, <1>5 DEF Next

\* The index an export creates in the learnings file is dropped when the export is
\* done; only a failure or the end of the process leaves it (words-table.c:1023).
THEOREM IndexIsDropped == Spec => []IndexOnlyWhileExporting
<1>1. IInv => IndexOnlyWhileExporting
  BY DEF IInv, IndexInv, Exporting, IndexOnlyWhileExporting
<1> QED BY <1>1, Initially, Stepwise, PTL DEF Spec

\* For all rules and exceptions, and all words, the loop of stem() finds just the
\* stems the two tables define, in the order of their making (learn.c:325).
THEOREM StemsFollowRules == Spec => []StemsByRules
<1>1. ASSUME IInv, frame.pc = "commit", count > 0, faults = 0
      PROVE  AreStems(rules, exceptions, frame.word, frame.stem.stems)
  <2>1. StemsSoFar(rules, exceptions, frame.word, frame.stem) /\ frame.stem.word = <<>>
    BY <1>1 DEF IInv, StemInv
  <2>2. frame.word \in Text
    BY <1>1 DEF IInv, Shape, Learning
  <2> QED BY <2>1, <2>2, AllFound
<1>2. IInv => StemsByRules
  BY <1>1 DEF StemsByRules
<1> QED BY <1>2, Initially, Stepwise, PTL DEF Spec

-----------------------------------------------------------------------------
(* vpool gives out no object twice, whatever was returned in between.      *)

\* A pool is the record of its fields.
LEMMA Fields ==
  ASSUME NEW p \in Pool
  PROVE  p = [made |-> p.made, next |-> p.next, free |-> p.free]
  BY DEF Pool

\* What is on the list of returned objects when its last one is taken off.
LEMMA FreeTaken ==
  ASSUME NEW p \in Pool, p.free # <<>>
  PROVE  LET rest == SubSeq(p.free, 1, Len(p.free) - 1) IN
         /\ rest \in Seq(Nat \ {0})
         /\ Len(rest) = Len(p.free) - 1
         /\ \A i \in 1..Len(rest) : rest[i] = p.free[i]
<1> DEFINE last == Len(p.free) - 1
<1>1. p.free \in Seq(Nat \ {0})
  BY DEF Pool
<1>2. last \in Nat
  BY <1>1
<1>3. \A i \in 1..last : p.free[i] \in Nat \ {0}
  BY <1>1
<1> HIDE DEF last
<1>4. /\ SubSeq(p.free, 1, last) \in Seq(Nat \ {0})
      /\ Len(SubSeq(p.free, 1, last)) = IF 1 <= last THEN last - 1 + 1 ELSE 0
      /\ \A i \in 1..(last - 1 + 1) : SubSeq(p.free, 1, last)[i] = p.free[1 + i - 1]
  BY <1>2, <1>3, SubSeqProperties
<1> QED
  BY <1>2, <1>4 DEF last

\* What is on it when one is put back.
LEMMA FreePut ==
  ASSUME NEW p \in Pool, NEW slot \in Nat \ {0}
  PROVE  LET all == Append(p.free, slot) IN
         /\ all \in Seq(Nat \ {0})
         /\ Len(all) = Len(p.free) + 1
         /\ all[Len(p.free) + 1] = slot
         /\ \A i \in 1..Len(p.free) : all[i] = p.free[i]
  BY DEF Pool

\* vpool_get: the object it gives is not in use, and it is the only one that comes into
\* use; a sound pool stays sound.
THEOREM TakeIsFresh ==
  ASSUME NEW p \in Pool, Sound(p)
  PROVE  /\ Take(p) \in Pool /\ Sound(Take(p))
         /\ Slot(p) \notin InUse(p)
         /\ InUse(Take(p)) = InUse(p) \cup {Slot(p)}
<1> DEFINE n == Len(p.free)
<1>1. n \in Nat /\ p.next \in Nat /\ p.made \in Nat /\ p.free \in Seq(Nat \ {0})
  BY DEF Pool
<1>2. /\ p.next <= p.made /\ \A i \in 1..n : p.free[i] \in 1..p.next
      /\ \A i, j \in 1..n : p.free[i] = p.free[j] => i = j
  BY DEF Sound
<1>3. InUse(p) = {s \in 1..p.next : \A i \in 1..n : p.free[i] # s}
  BY DEF InUse
<1>4. CASE p.free # <<>>
  <2> DEFINE rest == SubSeq(p.free, 1, n - 1)
  <2>1. /\ rest \in Seq(Nat \ {0}) /\ Len(rest) = n - 1
        /\ \A i \in 1..(n - 1) : rest[i] = p.free[i]
    BY <1>4, FreeTaken
  <2>2. n \in Nat \ {0}
    BY <1>1, <1>4
  <2>3. Slot(p) = p.free[n] /\ Take(p) = [p EXCEPT !.free = rest]
    BY <1>4 DEF Slot, Take
  <2>4. Take(p) \in Pool /\ Take(p).next = p.next /\ Take(p).made = p.made /\ Take(p).free = rest
    BY <2>1, <2>3 DEF Pool
  <2> HIDE DEF rest, n
  <2>5. Sound(Take(p))
    BY <1>1, <1>2, <2>1, <2>2, <2>4 DEF Sound
  <2>6. Slot(p) \notin InUse(p)
    BY <1>3, <2>2, <2>3
  <2>7. InUse(Take(p)) = {s \in 1..p.next : \A i \in 1..(n - 1) : p.free[i] # s}
    BY <2>1, <2>4 DEF InUse
  <2>8. p.free[n] \in 1..p.next /\ \A i \in 1..(n - 1) : p.free[i] # p.free[n]
    BY <1>1, <1>2, <2>2
  <2>9. InUse(Take(p)) = InUse(p) \cup {Slot(p)}
    <3>1. \A s \in 1..p.next :
            (\A i \in 1..(n - 1) : p.free[i] # s) <=> (\A i \in 1..n : p.free[i] # s) \/ s = p.free[n]
      BY <2>2, <2>8
    <3> QED
      BY <3>1, <1>3, <2>3, <2>7, <2>8
  <2> QED
    BY <2>4, <2>5, <2>6, <2>9
<1>5. CASE p.free = <<>>
  <2> DEFINE made == IF p.next < p.made THEN p.made ELSE p.made + 1
  <2>1. Slot(p) = p.next + 1 /\ Take(p) = [p EXCEPT !.next = p.next + 1, !.made = made]
    BY <1>5 DEF Slot, Take
  <2>2. made \in Nat /\ p.next + 1 <= made
    BY <1>1 DEF Sound
  <2> HIDE DEF made
  <2>3. Take(p) = [made |-> made, next |-> p.next + 1, free |-> <<>>]
    BY <1>5, <2>1, Fields
  <2>4. Take(p) \in Pool /\ Take(p).next = p.next + 1 /\ Take(p).made = made /\ Take(p).free = <<>>
    BY <1>1, <2>2, <2>3 DEF Pool
  <2>5. Sound(Take(p))
    BY <2>2, <2>4 DEF Sound
  <2>6. InUse(p) = 1..p.next /\ InUse(Take(p)) = 1..(p.next + 1)
    BY <1>5, <2>4 DEF InUse
  <2> QED
    BY <1>1, <2>1, <2>4, <2>5, <2>6
<1> QED
  BY <1>4, <1>5

\* vpool_return of an object in use: it is no longer in use, and a sound pool stays so.
THEOREM GiveBackFrees ==
  ASSUME NEW p \in Pool, Sound(p), NEW slot \in InUse(p)
  PROVE  /\ GiveBack(p, slot) \in Pool /\ Sound(GiveBack(p, slot))
         /\ InUse(GiveBack(p, slot)) = InUse(p) \ {slot}
<1> DEFINE n == Len(p.free)
           all == Append(p.free, slot)
<1>1. n \in Nat /\ p.next \in Nat /\ p.made \in Nat
  BY DEF Pool
<1>2. slot \in 1..p.next /\ \A i \in 1..n : p.free[i] # slot
  BY DEF InUse
<1>3. /\ all \in Seq(Nat \ {0}) /\ Len(all) = n + 1 /\ all[n + 1] = slot
      /\ \A i \in 1..n : all[i] = p.free[i]
  BY <1>1, <1>2, FreePut
<1>4. GiveBack(p, slot) = [p EXCEPT !.free = all]
  BY DEF GiveBack
<1> HIDE DEF all
<1>5. /\ GiveBack(p, slot) \in Pool /\ GiveBack(p, slot).free = all
      /\ GiveBack(p, slot).next = p.next /\ GiveBack(p, slot).made = p.made
  BY <1>3, <1>4 DEF Pool
<1>6. /\ \A i \in 1..n : p.free[i] \in 1..p.next
      /\ \A i, j \in 1..n : p.free[i] = p.free[j] => i = j
      /\ p.next <= p.made
  BY DEF Sound
<1>7. InUse(p) = {s \in 1..p.next : \A i \in 1..n : p.free[i] # s}
  BY DEF InUse
<1> HIDE DEF n
<1>8. Sound(GiveBack(p, slot))
  <2>1. \A i \in 1..(n + 1) : all[i] \in 1..p.next
    BY <1>1, <1>2, <1>3, <1>6
  <2>2. \A i, j \in 1..(n + 1) : all[i] = all[j] => i = j
    BY <1>1, <1>2, <1>3, <1>6
  <2> QED
    BY <2>1, <2>2, <1>3, <1>5, <1>6 DEF Sound
<1>9. InUse(GiveBack(p, slot)) = {s \in 1..p.next : \A i \in 1..(n + 1) : all[i] # s}
  BY <1>3, <1>5 DEF InUse
<1>10. \A s \in 1..p.next :
         (\A i \in 1..(n + 1) : all[i] # s) <=> (\A i \in 1..n : p.free[i] # s) /\ s # slot
  BY <1>1, <1>3
<1> QED
  BY <1>5, <1>8, <1>9, <1>7, <1>10

\* vpool_reset: nothing is in use, and a sound pool stays so.
THEOREM ResetFreesAll ==
  ASSUME NEW p \in Pool
  PROVE  Reset(p) \in Pool /\ Sound(Reset(p)) /\ InUse(Reset(p)) = {}
<1>1. p.made \in Nat
  BY DEF Pool
<1>2. Reset(p) = [made |-> p.made, next |-> 0, free |-> <<>>]
  BY DEF Reset
<1>3. Reset(p) \in Pool /\ Reset(p).next = 0 /\ Reset(p).free = <<>> /\ Reset(p).made \in Nat
  BY <1>1, <1>2 DEF Pool
<1> QED
  BY <1>3 DEF Sound, InUse

-----------------------------------------------------------------------------
(* The tokens of a text.                                                   *)

SchemeToken ==
  [id : Nat \ {0}, sym : SchemeSymbol, more : SUBSET Flags] \cup [id : {-99}, sym : SchemeSymbol]

LEMMA SymbolFields ==
  ASSUME NEW s \in SchemeSymbol
  PROVE  /\ s.pattern \in Text /\ s.value1 \in Text /\ s.value2 \in Text /\ s.value3 \in Text
         /\ s.priority \in Int
         /\ s = [type |-> s.type, match |-> s.match, pattern |-> s.pattern, value1 |-> s.value1,
                 value2 |-> s.value2, value3 |-> s.value3, tag |-> s.tag,
                 priority |-> s.priority, accept |-> s.accept]
BY DEF SchemeSymbol

LEMMA TokenHasSymbol ==
  ASSUME NEW t \in SchemeToken
  PROVE  t.sym \in SchemeSymbol
BY DEF SchemeToken

LEMMA FoldIsText ==
  ASSUME NEW text \in Text
  PROVE  Fold(text) \in Text
<1>1. Len(text) \in Nat /\ DOMAIN text = 1..Len(text) /\ \A i \in 1..Len(text) : text[i] \in Char
  BY LenProperties, ElementOfSeq DEF Text
<1>2. \A i \in 1..Len(text) : Lower[text[i]] \in Char
  BY <1>1, LowerAssumption
<1>3. Fold(text) \in [1..Len(text) -> Char]
  BY <1>1, <1>2 DEF Fold
<1> QED BY <1>1, <1>3 DEF Text

\* A row whose pattern is put in lower case.
LEMMA LowerToken ==
  ASSUME NEW r \in Symbols
  PROVE  LET z == [r EXCEPT !.sym.pattern = Fold(@)] IN
         z \in SchemeToken /\ z.id = r.id
<1> DEFINE z == [r EXCEPT !.sym.pattern = Fold(@)]
           s == r.sym
           p == Fold(s.pattern)
           y == [s EXCEPT !.pattern = p]
<1>1. /\ r.id \in Nat \ {0} /\ s \in SchemeSymbol /\ r.more \in SUBSET Flags
      /\ r = [id |-> r.id, sym |-> r.sym, more |-> r.more]
  BY SchemeAssumption
<1>2. p \in Text
  BY <1>1, SymbolFields, FoldIsText
<1>3. z = [r EXCEPT !.sym = y]
  OBVIOUS
<1> HIDE DEF p, z
<1>4. y = [type |-> s.type, match |-> s.match, pattern |-> p, value1 |-> s.value1,
           value2 |-> s.value2, value3 |-> s.value3, tag |-> s.tag,
           priority |-> s.priority, accept |-> s.accept]
  BY <1>1, SymbolFields
<1>5. y \in SchemeSymbol
  <2> HIDE DEF y, s
  <2> QED BY <1>1, <1>2, <1>4 DEF SchemeSymbol
<1> HIDE DEF y, s
<1>6. z = [id |-> r.id, sym |-> y, more |-> r.more]
  BY <1>1, <1>3
<1> QED BY <1>1, <1>5, <1>6 DEF z, SchemeToken

-----------------------------------------------------------------------------
(* Rows in order.                                                          *)

IdLess(V) == {p \in V \X V : p[1].id < p[2].id}

InIdOrder(S) == Ordered(S, LAMBDA r, q : r.id < q.id)

LEMMA OrderedById ==
  ASSUME NEW V, NEW S \in SUBSET V, IsFiniteSet(S),
         \A r \in S : r.id \in Int, \A r, q \in S : r.id = q.id => r = q
  PROVE  /\ InIdOrder(S) \in Seq(V)
         /\ \A i \in DOMAIN InIdOrder(S) : InIdOrder(S)[i] \in S
         /\ InIdOrder(S) = <<>> <=> S = {}
         /\ \A r \in S : \E i \in DOMAIN InIdOrder(S) : InIdOrder(S)[i] = r
<1>1. \A r, q \in S : <<r, q>> \in IdLess(V) <=> r.id < q.id
  BY DEF IdLess
<1>2. Orders(IdLess(V), S)
  BY <1>1 DEF Orders
<1>3. \A r \in S : Smaller(IdLess(V), S, r) = {q \in S : q.id < r.id}
  BY <1>1 DEF Smaller
<1>4. InIdOrder(S) = [i \in 1..Cardinality(S) |->
             CHOOSE r \in S : Cardinality({q \in S : q.id < r.id}) = i - 1]
  BY DEF InIdOrder, Ordered, Once
<1>5. \A i \in 1..Cardinality(S) :
          (CHOOSE r \in S : Cardinality({q \in S : q.id < r.id}) = i - 1)
          = CHOOSE r \in S : Cardinality(Smaller(IdLess(V), S, r)) = i - 1
  BY <1>3
<1>6. InOrder(S, IdLess(V), InIdOrder(S))
  BY <1>4, <1>5 DEF InOrder
<1> QED BY <1>2, <1>6, OrderedElements, OrderedAll

\* First what has more of it, and what has as much in the order of the ids.
MoreOrEarlier(V, much) ==
  {p \in V \X V : much[p[1]] > much[p[2]] \/ (much[p[1]] = much[p[2]] /\ p[1].id < p[2].id)}

LEMMA MoreFirst ==
  ASSUME NEW V, NEW S \in SUBSET V, NEW much, \A r \in S : much[r] \in Int,
         \A r \in S : r.id \in Int, \A r, q \in S : r.id = q.id => r = q
  PROVE  /\ Orders(MoreOrEarlier(V, much), S)
         /\ \A r \in S : Smaller(MoreOrEarlier(V, much), S, r) \subseteq S
         /\ \A r, q \in S : q \in Smaller(MoreOrEarlier(V, much), S, r) <=>
              much[q] > much[r] \/ (much[q] = much[r] /\ q.id < r.id)
<1> DEFINE R == MoreOrEarlier(V, much)
           id(r) == r.id
<1>1. \A r, q \in S : <<r, q>> \in R <=> much[r] > much[q] \/ (much[r] = much[q] /\ r.id < q.id)
  BY DEF MoreOrEarlier
<1> HIDE DEF R
<1>2. Orders(R, S)
  BY <1>1 DEF Orders
<1>3. /\ \A r \in S : Smaller(R, S, r) \subseteq S
      /\ \A r, q \in S : q \in Smaller(R, S, r) <=>
           much[q] > much[r] \/ (much[q] = much[r] /\ q.id < r.id)
  BY <1>1 DEF Smaller
<1> QED BY <1>2, <1>3 DEF R

InPriorityOrder(S) ==
  Ordered(S, LAMBDA r, q : \/ r.sym.priority > q.sym.priority
                           \/ r.sym.priority = q.sym.priority /\ r.id < q.id)

InConfidenceOrder(S) ==
  Ordered(S, LAMBDA r, q : \/ r.confidence > q.confidence
                           \/ r.confidence = q.confidence /\ r.id < q.id)

LEMMA OrderedByPriority ==
  ASSUME NEW V, NEW S \in SUBSET V, IsFiniteSet(S), \A r \in S : r.sym.priority \in Int,
         \A r \in S : r.id \in Int, \A r, q \in S : r.id = q.id => r = q
  PROVE  /\ InPriorityOrder(S) \in Seq(V)
         /\ \A i \in DOMAIN InPriorityOrder(S) : InPriorityOrder(S)[i] \in S
         /\ InPriorityOrder(S) = <<>> <=> S = {}
<1> DEFINE much == [r \in S |-> r.sym.priority]
           R == MoreOrEarlier(V, much)
           P(q, r) == \/ q.sym.priority > r.sym.priority
                      \/ q.sym.priority = r.sym.priority /\ q.id < r.id
<1>1. \A r \in S : much[r] = r.sym.priority
  OBVIOUS
<1>2. \A r, q \in S : P(q, r) <=> much[q] > much[r] \/ (much[q] = much[r] /\ q.id < r.id)
  BY <1>1
<1> HIDE DEF much
<1>8. \A r \in S : much[r] \in Int
  BY <1>1
<1>3. /\ Orders(R, S)
      /\ \A r \in S : Smaller(R, S, r) \subseteq S
      /\ \A r, q \in S : q \in Smaller(R, S, r) <=>
           much[q] > much[r] \/ (much[q] = much[r] /\ q.id < r.id)
  BY <1>8, MoreFirst
<1>4. InPriorityOrder(S) = [i \in 1..Cardinality(S) |->
             CHOOSE r \in S : Cardinality({q \in S : P(q, r)}) = i - 1]
  BY DEF InPriorityOrder, Ordered, Once
<1> HIDE DEF R, P
<1>5. \A r \in S : {q \in S : P(q, r)} = Smaller(R, S, r)
  BY <1>2, <1>3
<1>6. \A i \in 1..Cardinality(S) :
          (CHOOSE r \in S : Cardinality({q \in S : P(q, r)}) = i - 1)
          = CHOOSE r \in S : Cardinality(Smaller(R, S, r)) = i - 1
  BY <1>5
<1>7. InOrder(S, R, InPriorityOrder(S))
  BY <1>4, <1>6 DEF InOrder
<1> QED BY <1>3, <1>7, OrderedElements

LEMMA OrderedByConfidence ==
  ASSUME NEW V, NEW S \in SUBSET V, IsFiniteSet(S), \A r \in S : r.confidence \in Int,
         \A r \in S : r.id \in Int, \A r, q \in S : r.id = q.id => r = q
  PROVE  /\ InConfidenceOrder(S) \in Seq(V)
         /\ \A i \in DOMAIN InConfidenceOrder(S) : InConfidenceOrder(S)[i] \in S
         /\ InConfidenceOrder(S) = <<>> <=> S = {}
         /\ \A i, j \in DOMAIN InConfidenceOrder(S) :
              InConfidenceOrder(S)[i] = InConfidenceOrder(S)[j] => i = j
         /\ \A r \in S : \E i \in DOMAIN InConfidenceOrder(S) : InConfidenceOrder(S)[i] = r
<1> DEFINE much == [r \in S |-> r.confidence]
           R == MoreOrEarlier(V, much)
           P(q, r) == \/ q.confidence > r.confidence
                      \/ q.confidence = r.confidence /\ q.id < r.id
<1>1. \A r \in S : much[r] = r.confidence
  OBVIOUS
<1>2. \A r, q \in S : P(q, r) <=> much[q] > much[r] \/ (much[q] = much[r] /\ q.id < r.id)
  BY <1>1
<1> HIDE DEF much
<1>8. \A r \in S : much[r] \in Int
  BY <1>1
<1>3. /\ Orders(R, S)
      /\ \A r \in S : Smaller(R, S, r) \subseteq S
      /\ \A r, q \in S : q \in Smaller(R, S, r) <=>
           much[q] > much[r] \/ (much[q] = much[r] /\ q.id < r.id)
  BY <1>8, MoreFirst
<1>4. InConfidenceOrder(S) = [i \in 1..Cardinality(S) |->
             CHOOSE r \in S : Cardinality({q \in S : P(q, r)}) = i - 1]
  BY DEF InConfidenceOrder, Ordered, Once
<1> HIDE DEF R, P
<1>5. \A r \in S : {q \in S : P(q, r)} = Smaller(R, S, r)
  BY <1>2, <1>3
<1>6. \A i \in 1..Cardinality(S) :
          (CHOOSE r \in S : Cardinality({q \in S : P(q, r)}) = i - 1)
          = CHOOSE r \in S : Cardinality(Smaller(R, S, r)) = i - 1
  BY <1>5
<1>7. InOrder(S, R, InConfidenceOrder(S))
  BY <1>4, <1>6 DEF InOrder
<1>9. /\ InConfidenceOrder(S) \in Seq(V)
      /\ \A i \in DOMAIN InConfidenceOrder(S) : InConfidenceOrder(S)[i] \in S
      /\ InConfidenceOrder(S) = <<>> <=> S = {}
  BY <1>3, <1>7, OrderedElements
<1>10. \A i, j \in DOMAIN InConfidenceOrder(S) :
         InConfidenceOrder(S)[i] = InConfidenceOrder(S)[j] => i = j
  BY <1>3, <1>7, OrderedOnce
<1>11. \A r \in S : \E i \in DOMAIN InConfidenceOrder(S) : InConfidenceOrder(S)[i] = r
  BY <1>3, <1>7, OrderedAll
<1> QED BY <1>9, <1>10, <1>11

ByValueInLower(text, match) == {[r EXCEPT !.sym.pattern = Fold(@)] : r \in ByValue(Symbols, text, match)}

\* By value they are rows of the table, with their patterns in lower case.
LEMMA MatchesByValue ==
  ASSUME NEW text, NEW using, using # "pattern", NEW match
  PROVE  /\ Matches(Symbols, text, using, match) \in Seq(ByValueInLower(text, match))
         /\ ByValueInLower(text, match) \in SUBSET SchemeToken
<1>0. /\ Symbols \in SUBSET SchemeToken /\ IsFiniteSet(Symbols)
      /\ \A r \in Symbols : r.id \in Int /\ \A q \in Symbols : r.id = q.id => r = q
  BY SchemeAssumption DEF SchemeToken
<1> DEFINE B == ByValue(Symbols, text, match)
           lower(r) == [r EXCEPT !.sym.pattern = Fold(@)]
           T == {lower(r) : r \in B}
           G == Grouped(B)
<1>1. Matches(Symbols, text, using, match) = InPriorityOrder(G)
  BY DEF Matches, InPriorityOrder
<1>2. B \in SUBSET Symbols
  BY DEF ByValue
<1>3. G \in SUBSET T
  BY DEF Grouped
<1> HIDE DEF B, G
<1>4. \A r \in B : lower(r) \in SchemeToken /\ lower(r).id = r.id
  BY <1>2, LowerToken
<1>5. IsFiniteSet(T)
  <2> DEFINE f == [r \in B |-> lower(r)]
  <2>1. f \in Surjection(B, T)
    BY DEF Surjection
  <2>2. IsFiniteSet(B)
    BY <1>0, <1>2, FS_Subset
  <2> HIDE DEF f, T
  <2> QED BY <2>1, <2>2, FS_Surjection
<1> HIDE DEF lower
<1>6. T \in SUBSET SchemeToken /\ \A x, y \in T : x.id = y.id => x = y
  BY <1>0, <1>2, <1>4
<1>7. \A x \in SchemeToken : x.id \in Int /\ x.sym.priority \in Int
  BY TokenHasSymbol, SymbolFields DEF SchemeToken
<1> HIDE DEF T
<1>8. /\ G \in SUBSET T /\ IsFiniteSet(G)
      /\ \A r \in G : r.id \in Int /\ r.sym.priority \in Int
      /\ \A x, y \in G : x.id = y.id => x = y
  BY <1>3, <1>5, <1>6, <1>7, FS_Subset
<1>9. InPriorityOrder(G) \in Seq(T)
  BY <1>8, OrderedByPriority
<1>10. T = ByValueInLower(text, match)
  BY DEF T, lower, B, ByValueInLower
<1> QED BY <1>1, <1>6, <1>9, <1>10

\* The tokens of a piece.
LEMMA MatchesTyped ==
  ASSUME NEW text, NEW using, NEW match
  PROVE  Matches(Symbols, text, using, match) \in Seq(SchemeToken)
<1>1. /\ Symbols \in SUBSET SchemeToken /\ IsFiniteSet(Symbols)
      /\ \A r \in Symbols : r.id \in Int /\ \A q \in Symbols : r.id = q.id => r = q
  BY SchemeAssumption DEF SchemeToken
<1>2. CASE using = "pattern"
  <2> DEFINE S == {r \in Symbols : r.sym.pattern = text /\ r.sym.match = "exact"}
  <2>1. Matches(Symbols, text, using, match) = InIdOrder(S)
    BY <1>2 DEF Matches, InIdOrder
  <2>2. S \in SUBSET Symbols
    OBVIOUS
  <2> HIDE DEF S
  <2>3. /\ S \in SUBSET SchemeToken /\ IsFiniteSet(S)
        /\ \A r \in S : r.id \in Int
        /\ \A r, q \in S : r.id = q.id => r = q
    BY <1>1, <2>2, FS_Subset
  <2> QED BY <2>1, <2>3, OrderedById
<1>3. CASE using # "pattern"
  BY <1>3, MatchesByValue, SeqMonotonic
<1> QED BY <1>2, <1>3

-----------------------------------------------------------------------------
(* The cut of a text.                                                      *)

\* f[i] is what is cut from place i on: one piece, and what is cut behind it.
Cuts(f, n, piece, next) ==
  f = [i \in 1..(n + 1) |-> IF i > n THEN <<>> ELSE <<piece[i]>> \o f[next[i]]]

LEMMA CutAt ==
  ASSUME NEW f, NEW n, NEW piece, NEW next, Cuts(f, n, piece, next), NEW i \in 1..(n + 1)
  PROVE  f[i] = IF i > n THEN <<>> ELSE <<piece[i]>> \o f[next[i]]
<1> DEFINE F(j) == IF j > n THEN <<>> ELSE <<piece[j]>> \o f[next[j]]
<1>1. f = [j \in 1..(n + 1) |-> F(j)]
  BY DEF Cuts
<1> HIDE DEF F
<1>2. f[i] = F(i)
  BY <1>1
<1> QED BY <1>2 DEF F

\* From place n + 1 - m on.
CutsBehind(f, n, m, piece, next) ==
  f = [i \in (n + 1 - m)..(n + 1) |-> IF i > n THEN <<>> ELSE <<piece[i]>> \o f[next[i]]]

LEMMA CutsExist ==
  ASSUME NEW n \in Nat, NEW piece, NEW next, \A i \in 1..n : next[i] \in (i + 1)..(n + 1)
  PROVE  \E f : Cuts(f, n, piece, next)
<1> DEFINE Bad == {m \in 0..n : ~\E f : CutsBehind(f, n, m, piece, next)}
<1>1. Bad = {}
  <2> SUFFICES ASSUME Bad # {} PROVE FALSE
    OBVIOUS
  <2>1. PICK m \in Bad : \A k \in Bad : ~(k < m)
    <3>1. Bad \subseteq Nat
      OBVIOUS
    <3>2. PICK m \in Bad : \A k \in Bad : <<k, m>> \notin OpToRel(<, Nat)
      BY <3>1, WFMin, NatLessThanWellFounded
    <3> QED BY <3>1, <3>2 DEF OpToRel
  <2>2. CASE m = 0
    <3> DEFINE f == [i \in (n + 1)..(n + 1) |-> <<>>]
    <3>1. f = [i \in (n + 1)..(n + 1) |-> IF i > n THEN <<>> ELSE <<piece[i]>> \o f[next[i]]]
      OBVIOUS
    <3> HIDE DEF f
    <3>2. CutsBehind(f, n, 0, piece, next)
      <4>1. n + 1 - 0 = n + 1
        OBVIOUS
      <4> QED BY <3>1, <4>1 DEF CutsBehind
    <3> QED BY <2>1, <2>2, <3>2
  <2>3. CASE m # 0
    <3>1. m \in 1..n /\ m - 1 \in 0..n /\ m - 1 \notin Bad
      BY <2>1, <2>3
    <3>2. PICK f : CutsBehind(f, n, m - 1, piece, next)
      BY <3>1
    <3> DEFINE at == n + 1 - m
               first == <<piece[at]>> \o f[next[at]]
               g == [i \in at..(n + 1) |-> IF i = at THEN first ELSE f[i]]
               F(i) == IF i > n THEN <<>> ELSE <<piece[i]>> \o f[next[i]]
    <3>3. at \in 1..n /\ n + 1 - (m - 1) = at + 1
      BY <3>1
    <3>4. \A i \in (at + 1)..(n + 1) : f[i] = F(i)
      <4>1. f = [i \in (at + 1)..(n + 1) |-> F(i)]
        BY <3>2, <3>3 DEF CutsBehind
      <4> HIDE DEF F, at
      <4> QED BY <4>1
    <3> HIDE DEF at
    <3>5. ASSUME NEW i \in at..(n + 1)
          PROVE  g[i] = IF i > n THEN <<>> ELSE <<piece[i]>> \o g[next[i]]
      <4>1. i <= n => next[i] \in at..(n + 1) /\ next[i] # at
        BY <3>3
      <4>2. i <= n => g[next[i]] = f[next[i]]
        BY <4>1
      <4>3. CASE i = at
        BY <3>3, <4>2, <4>3
      <4>4. CASE i # at
        <5> HIDE DEF F
        <5>1. i \in (at + 1)..(n + 1)
          BY <3>3, <4>4
        <5>2. f[i] = F(i)
          BY <3>4, <5>1
        <5>3. g[i] = f[i]
          BY <4>4
        <5>4. g[i] = IF i > n THEN <<>> ELSE <<piece[i]>> \o f[next[i]]
          BY <5>2, <5>3 DEF F
        <5> QED BY <3>3, <4>2, <5>4
      <4> QED BY <4>3, <4>4
    <3>6. g = [i \in at..(n + 1) |-> g[i]]
      OBVIOUS
    <3> HIDE DEF g
    <3>7. CutsBehind(g, n, m, piece, next)
      BY <3>5, <3>6 DEF CutsBehind, at
    <3> QED BY <2>1, <3>7
  <2> QED BY <2>2, <2>3
<1>2. n \in 0..n /\ n \notin Bad /\ n + 1 - n = 1
  BY <1>1
<1> QED BY <1>2 DEF CutsBehind, Cuts

LEMMA CutTyped ==
  ASSUME NEW n \in Nat, NEW piece, NEW next, \A i \in 1..n : next[i] \in (i + 1)..(n + 1),
         NEW X, \A i \in 1..n : piece[i] \in X, NEW f, Cuts(f, n, piece, next)
  PROVE  \A i \in 1..(n + 1) : f[i] \in Seq(X)
<1>0. \A i \in 1..(n + 1) : f[i] = IF i > n THEN <<>> ELSE <<piece[i]>> \o f[next[i]]
  BY CutAt
<1> DEFINE Bad == {k \in 0..n : f[n + 1 - k] \notin Seq(X)}
<1>1. Bad = {}
  <2> SUFFICES ASSUME Bad # {} PROVE FALSE
    OBVIOUS
  <2>1. PICK k \in Bad : \A j \in Bad : ~(j < k)
    <3>1. Bad \subseteq Nat
      OBVIOUS
    <3>2. PICK k \in Bad : \A j \in Bad : <<j, k>> \notin OpToRel(<, Nat)
      BY <3>1, WFMin, NatLessThanWellFounded
    <3> QED BY <3>1, <3>2 DEF OpToRel
  <2> DEFINE i == n + 1 - k
  <2>2. i \in 1..(n + 1) /\ f[i] \notin Seq(X)
    BY <2>1
  <2>3. f[i] = IF i > n THEN <<>> ELSE <<piece[i]>> \o f[next[i]]
    <3> HIDE DEF i
    <3> QED BY <1>0, <2>2
  <2>4. i <= n
    BY <2>2, <2>3
  <2>5. next[i] \in (i + 1)..(n + 1) /\ piece[i] \in X
    BY <2>2, <2>4
  <2> DEFINE j == n + 1 - next[i]
  <2>6. j \in 0..n /\ j < k /\ n + 1 - j = next[i]
    BY <2>1, <2>2, <2>5
  <2>7. f[next[i]] \in Seq(X)
    BY <2>1, <2>6
  <2> HIDE DEF i, j
  <2>8. <<piece[i]>> \o f[next[i]] \in Seq(X)
    BY <2>5, <2>7, ConcatProperties
  <2> QED BY <2>2, <2>3, <2>4, <2>8
<1>2. \A i \in 1..(n + 1) : n + 1 - i \in 0..n /\ n + 1 - (n + 1 - i) = i
  OBVIOUS
<1> QED BY <1>1, <1>2

\* The longest symbol at a place.
LEMMA LongestFound ==
  ASSUME NEW text \in Text, NEW i \in 1..Len(text), NEW using, NEW match
  PROVE  LET n == LongestAt(text, i, using, match) IN
         /\ n \in 0..(Len(text) - i + 1)
         /\ n > 0 => TokensAt(text, i, n, using, match) # <<>>
<1> DEFINE b == Len(text) - i + 1
           T(k) == TokensAt(text, i, k, using, match)
           S == {k \in 1..b : T(k) # <<>>}
           Longest(n) == /\ n > 0 => T(n) # <<>>
                         /\ \A m \in (n + 1)..b : T(m) = <<>>
<1>1. b \in Nat
  BY LenProperties DEF Text
<1>2. LongestAt(text, i, using, match) = CHOOSE n \in 0..b : Longest(n)
  BY DEF LongestAt
<1> HIDE DEF b, T
<1>3. \E n \in 0..b : Longest(n)
  <2>1. CASE S = {}
    <3>1. Longest(0)
      BY <1>1, <2>1
    <3> QED BY <1>1, <3>1
  <2>2. CASE S # {}
    <3>1. S \in SUBSET (Nat \ {0}) /\ \A k \in S : k <= b
      BY <1>1
    <3>2. PICK n \in S : \A k \in S : k <= n
      BY <1>1, <2>2, <3>1, LargestElement
    <3>3. Longest(n)
      BY <1>1, <3>2
    <3> QED BY <1>1, <3>2, <3>3
  <2> QED BY <2>1, <2>2
<1> HIDE DEF Longest
<1>4. LongestAt(text, i, using, match) \in 0..b /\ Longest(LongestAt(text, i, using, match))
  BY <1>2, <1>3
<1> QED BY <1>4 DEF Longest, b, T

LEMMA OtherIsToken ==
  ASSUME NEW c \in Char
  PROVE  OtherToken(c) \in SchemeToken
<1> DEFINE s == [type |-> "other", match |-> "exact", pattern |-> <<c>>, value1 |-> <<c>>,
            value2 |-> <<>>, value3 |-> <<>>, tag |-> "none", priority |-> 0, accept |-> "all"]
<1>1. <<c>> \in Text /\ <<>> \in Text
  BY DEF Text
<1>2. "other" \in SymbolKinds /\ "none" \in Tags
  BY DEF SymbolKinds, Types, Tags
<1>3. s \in SchemeSymbol
  <2> DEFINE one == <<c>>
             empty == <<>>
  <2>1. s = [type |-> "other", match |-> "exact", pattern |-> one, value1 |-> one,
            value2 |-> empty, value3 |-> empty, tag |-> "none", priority |-> 0, accept |-> "all"]
    OBVIOUS
  <2>2. one \in Text /\ empty \in Text
    BY <1>1
  <2> HIDE DEF one, empty, s
  <2> QED BY <1>2, <2>1, <2>2 DEF SchemeSymbol
<1>4. OtherToken(c) = [id |-> -99, sym |-> s]
  BY DEF OtherToken
<1> HIDE DEF s
<1> QED BY <1>3, <1>4 DEF SchemeToken

\* A text is cut into what the table has for its pieces, and other tokens.
LEMMA TokenizeInto ==
  ASSUME NEW text \in Text, NEW using, NEW match, NEW X,
         \A c \in Char : <<OtherToken(c)>> \in X,
         \A part \in Text \ {<<>>} : Matches(Symbols, part, using, match) # <<>> =>
           Matches(Symbols, part, using, match) \in X
  PROVE  Tokenize(text, using, match) \in Seq(X)
<1> DEFINE n == Len(text)
           Longest(i) == LongestAt(text, i, using, match)
           piece == [i \in 1..n |-> IF Longest(i) = 0 THEN <<OtherToken(text[i])>>
                                    ELSE TokensAt(text, i, Longest(i), using, match)]
           next == [i \in 1..n |-> IF Longest(i) = 0 THEN i + 1 ELSE i + Longest(i)]
           Cut(f, i) == IF i > n THEN <<>> ELSE <<piece[i]>> \o f[next[i]]
           Body(f, i) ==
             LET cut(k) == IF k = 0 THEN <<<<OtherToken(text[i])>>>> \o f[i + 1]
                           ELSE <<TokensAt(text, i, k, using, match)>> \o f[i + k]
             IN IF i > Len(text) THEN <<>> ELSE Once(cut, LongestAt(text, i, using, match))
           g == CHOOSE f : f = [i \in 1..(Len(text) + 1) |-> Body(f, i)]
<1>1. n \in Nat /\ \A i \in 1..n : text[i] \in Char
  BY LenProperties, ElementOfSeq DEF Text
<1>2. \A i \in 1..n : /\ Longest(i) \in 0..(n - i + 1)
                      /\ Longest(i) > 0 => TokensAt(text, i, Longest(i), using, match) # <<>>
  BY LongestFound
<1>3. \A i \in 1..n : next[i] \in (i + 1)..(n + 1)
  <2> HIDE DEF n, Longest
  <2> QED BY <1>1, <1>2
<1>4. ASSUME NEW i \in 1..n PROVE piece[i] \in X
  <2> DEFINE k == Longest(i)
             part == SubSeq(text, i, i + k - 1)
  <2>1. piece[i] = IF k = 0 THEN <<OtherToken(text[i])>> ELSE Matches(Symbols, part, using, match)
    BY DEF TokensAt
  <2>2. k \in 0..(n - i + 1) /\ (k > 0 => Matches(Symbols, part, using, match) # <<>>)
    BY <1>2 DEF TokensAt
  <2> HIDE DEF Longest, k, piece
  <2>3. CASE k = 0
    BY <1>1, <2>1, <2>3
  <2>4. CASE k # 0
    <3> DEFINE last == i + k - 1
    <3>1. last \in Int /\ last <= n /\ i <= last /\ i \in Int /\ i >= 1 /\ k > 0
      BY <1>1, <2>2, <2>4
    <3> HIDE DEF last
    <3>2. \A m \in i..last : text[m] \in Char
      BY <1>1, <3>1
    <3>3. SubSeq(text, i, last) \in Seq(Char) /\ Len(SubSeq(text, i, last)) = last - i + 1
      BY <3>1, <3>2, SubSeqProperties
    <3>4. Len(SubSeq(text, i, last)) # 0
      BY <3>1, <3>3
    <3>5. SubSeq(text, i, last) \in Text \ {<<>>}
      BY <3>3, <3>4, EmptySeq DEF Text
    <3>6. part \in Text \ {<<>>}
      BY <3>5 DEF last
    <3> HIDE DEF part
    <3> QED BY <2>1, <2>2, <2>4, <3>1, <3>6
  <2> QED BY <2>3, <2>4
<1>5. ASSUME NEW f, NEW i \in 1..(n + 1)
      PROVE  Body(f, i) = Cut(f, i)
  <2>1. CASE i > n
    BY <2>1
  <2>2. CASE ~(i > n)
    <3> DEFINE cut(k) == IF k = 0 THEN <<<<OtherToken(text[i])>>>> \o f[i + 1]
                         ELSE <<TokensAt(text, i, k, using, match)>> \o f[i + k]
    <3>1. Body(f, i) = CHOOSE y \in {cut(x) : x \in {Longest(i)}} : TRUE
      BY <2>2 DEF Once
    <3>2. i \in 1..n
      BY <1>1, <2>2
    <3>3. /\ piece[i] = IF Longest(i) = 0 THEN <<OtherToken(text[i])>>
                        ELSE TokensAt(text, i, Longest(i), using, match)
          /\ next[i] = IF Longest(i) = 0 THEN i + 1 ELSE i + Longest(i)
      BY <3>2
    <3> HIDE DEF piece, next
    <3>4. cut(Longest(i)) = <<piece[i]>> \o f[next[i]]
      <4> HIDE DEF Longest
      <4>1. CASE Longest(i) = 0
        BY <4>1, <3>3
      <4>2. CASE Longest(i) # 0
        BY <4>2, <3>3
      <4> QED BY <4>1, <4>2
    <3> HIDE DEF cut, Body
    <3>5. {cut(x) : x \in {Longest(i)}} = {cut(Longest(i))}
      OBVIOUS
    <3> QED BY <2>2, <3>1, <3>4, <3>5
  <2> QED BY <2>1, <2>2
<1>6. Tokenize(text, using, match) = g[1]
  BY DEF Tokenize
<1> HIDE DEF Body, piece, next
<1>7. ASSUME NEW f
      PROVE  [i \in 1..(n + 1) |-> Body(f, i)] = [i \in 1..(n + 1) |-> Cut(f, i)]
  <2> HIDE DEF n
  <2> QED BY <1>5
<1>8. Cuts(g, n, piece, next)
  <2>1. \E f : Cuts(f, n, piece, next)
    <3> HIDE DEF n
    <3> QED BY <1>1, <1>3, CutsExist
  <2>2. PICK f : f = [i \in 1..(n + 1) |-> Cut(f, i)]
    BY <2>1 DEF Cuts
  <2> HIDE DEF Cut
  <2>3. f = [i \in 1..(n + 1) |-> Body(f, i)]
    BY <1>7, <2>2
  <2>4. g = [i \in 1..(n + 1) |-> Body(g, i)]
    BY <2>3
  <2> HIDE DEF g
  <2>5. g = [i \in 1..(n + 1) |-> Cut(g, i)]
    BY <1>7, <2>4
  <2> QED BY <2>5 DEF Cut, Cuts
<1> HIDE DEF g, n
<1>9. \A i \in 1..(n + 1) : g[i] \in Seq(X)
  BY <1>1, <1>3, <1>4, <1>8, CutTyped
<1>10. 1 \in 1..(n + 1)
  BY <1>1
<1> QED BY <1>6, <1>9, <1>10

\* They are positions that have tokens.
LEMMA TokenizeTyped ==
  ASSUME NEW text \in Text, NEW using, NEW match
  PROVE  Tokenize(text, using, match) \in Seq(Seq(SchemeToken) \ {<<>>})
<1> DEFINE X == Seq(SchemeToken) \ {<<>>}
<1>1. \A c \in Char : <<OtherToken(c)>> \in X
  BY OtherIsToken
<1>2. \A part : Matches(Symbols, part, using, match) # <<>> => Matches(Symbols, part, using, match) \in X
  BY MatchesTyped
<1> HIDE DEF X
<1>3. Tokenize(text, using, match) \in Seq(X)
  BY <1>1, <1>2, TokenizeInto
<1> QED BY <1>3 DEF X

-----------------------------------------------------------------------------
(* The tokens of a word, reduced.                                          *)

Positions == Seq(Seq(SchemeToken))

AcceptTurn(at, kept, t) == IF Acceptable(at[1], at[2], t) THEN Append(kept, t) ELSE kept
Accepting == INSTANCE Loops_proofs WITH Turn <- AcceptTurn

PlaceTurn(p, kept, i) ==
  Once(LAMBDA item : IF item = <<>> THEN kept ELSE Append(kept, item), Accepted(p, i))
Placing == INSTANCE Loops_proofs WITH Turn <- PlaceTurn

HighTurn(none, kept, t) == IF t.sym.priority > Low THEN Append(kept, t) ELSE kept
Heightening == INSTANCE Loops_proofs WITH Turn <- HighTurn

LowTurn(none, q, i) == IF TooMany(q) THEN WithoutLow(q, i) ELSE q
Lowering == INSTANCE Loops_proofs WITH Turn <- LowTurn

CountTurn(none, n, item) == n + Len(item)
Counting == INSTANCE Loops_proofs WITH Turn <- CountTurn

PopTurn(none, q, n) == IF TooMany(q) /\ NextArray(q) # 0 THEN Popped(q, NextArray(q)) ELSE q
Popping == INSTANCE Loops_proofs WITH Turn <- PopTurn

LEMMA UpToIs ==
  ASSUME NEW n \in Nat
  PROVE  /\ UpTo(n) \in Seq(Nat \ {0}) /\ Len(UpTo(n)) = n
         /\ \A i \in 1..n : UpTo(n)[i] = i
BY DEF UpTo

\* Kept are tokens of the position, but none of the types that are never learned.
LEMMA AcceptedOf ==
  ASSUME NEW S, NEW p, NEW i, p[i] \in Seq(S)
  PROVE  Accepted(p, i) \in Seq({t \in S : t.sym.type \notin NeverLearned})
<1> DEFINE s == p[i]
           at == <<p, i>>
           K == {t \in S : t.sym.type \notin NeverLearned}
<1>1. Accepted(p, i) = Accepting!Runs(at, <<>>, s)
  BY DEF Accepting!Runs, Accepting!Loop, Accepting!Once, Loop, Once, AcceptTurn, Accepted
<1>2. Len(s) \in Nat /\ \A j \in 1..Len(s) : s[j] \in S
  BY LenProperties, ElementOfSeq
<1> HIDE DEF s
<1>3. ASSUME NEW j \in 1..Len(s), NEW kept \in Seq(K)
      PROVE  AcceptTurn(at, kept, s[j]) \in Seq(K)
  <2>1. CASE Acceptable(at[1], at[2], s[j])
    <3>1. s[j] \in K
      BY <1>2, <2>1 DEF Acceptable
    <3> HIDE DEF K
    <3> QED BY <2>1, <3>1, AppendProperties DEF AcceptTurn
  <2>2. CASE ~Acceptable(at[1], at[2], s[j])
    BY <2>2 DEF AcceptTurn
  <2> QED BY <2>1, <2>2
<1> HIDE DEF at, K
<1>4. <<>> \in Seq(K)
  OBVIOUS
<1>5. Accepting!Runs(at, <<>>, s) \in Seq(K)
  BY <1>2, <1>3, <1>4, Accepting!StaysIn
<1> QED BY <1>1, <1>5 DEF K

LEMMA AcceptedTyped ==
  ASSUME NEW p, NEW i, p[i] \in Seq(SchemeToken)
  PROVE  Accepted(p, i) \in Seq(SchemeToken)
<1> DEFINE K == {t \in SchemeToken : t.sym.type \notin NeverLearned}
<1>1. Accepted(p, i) \in Seq(K)
  BY AcceptedOf
<1>2. K \subseteq SchemeToken
  OBVIOUS
<1> HIDE DEF K
<1> QED BY <1>1, <1>2, SeqMonotonic

LEMMA ApplyAcceptanceInto ==
  ASSUME NEW p, Len(p) \in Nat, NEW X,
         \A j \in 1..Len(p) : Accepted(p, j) # <<>> => Accepted(p, j) \in X
  PROVE  ApplyAcceptance(p) \in Seq(X)
<1> DEFINE s == UpTo(Len(p))
<1>1. ApplyAcceptance(p) = Placing!Runs(p, <<>>, s)
  BY DEF Placing!Runs, Placing!Loop, Placing!Once, Loop, Once, PlaceTurn, ApplyAcceptance
<1>2. /\ Len(p) \in Nat /\ Len(s) = Len(p) /\ \A j \in 1..Len(p) : s[j] = j
  BY UpToIs
<1>3. ASSUME NEW j \in 1..Len(s), NEW kept \in Seq(X)
      PROVE  PlaceTurn(p, kept, s[j]) \in Seq(X)
  <2> DEFINE item == Accepted(p, j)
             put(x) == IF x = <<>> THEN kept ELSE Append(kept, x)
  <2>1. item # <<>> => item \in X
    BY <1>2
  <2>2. PlaceTurn(p, kept, s[j]) = CHOOSE y \in {put(x) : x \in {item}} : TRUE
    BY <1>2 DEF PlaceTurn, Once
  <2> HIDE DEF item
  <2>3. {put(x) : x \in {item}} = {put(item)}
    OBVIOUS
  <2>4. put(item) \in Seq(X)
    BY <2>1, AppendProperties
  <2> HIDE DEF put
  <2> QED BY <2>2, <2>3, <2>4
<1>4. <<>> \in Seq(X) /\ Len(s) \in Nat
  BY <1>2
<1> HIDE DEF s
<1>5. Placing!Runs(p, <<>>, s) \in Seq(X)
  BY <1>3, <1>4, Placing!StaysIn
<1> QED BY <1>1, <1>5

\* No position is left without a token.
LEMMA ApplyAcceptanceTyped ==
  ASSUME NEW p \in Positions
  PROVE  ApplyAcceptance(p) \in Seq(Seq(SchemeToken) \ {<<>>})
<1> DEFINE X == Seq(SchemeToken) \ {<<>>}
<1>1. Len(p) \in Nat /\ \A j \in 1..Len(p) : p[j] \in Seq(SchemeToken)
  BY LenProperties, ElementOfSeq DEF Positions
<1>2. \A j \in 1..Len(p) : Accepted(p, j) # <<>> => Accepted(p, j) \in X
  BY <1>1, AcceptedTyped
<1> HIDE DEF X
<1>3. ApplyAcceptance(p) \in Seq(X)
  BY <1>1, <1>2, ApplyAcceptanceInto
<1> QED BY <1>3 DEF X

\* What is left without low priority: of several tokens the first is, when it is high.
High(s) ==
  Loop(LAMBDA kept, t : IF t.sym.priority > Low THEN Append(kept, t) ELSE kept, <<>>, s)

LEMMA HighOf ==
  ASSUME NEW S, NEW s \in Seq(S)
  PROVE  High(s) \in Seq(S)
<1>1. High(s) = Heightening!Runs(0, <<>>, s)
  BY DEF Heightening!Runs, Heightening!Loop, Heightening!Once, Loop, Once, HighTurn, High
<1>2. Len(s) \in Nat /\ \A j \in 1..Len(s) : s[j] \in S
  BY LenProperties, ElementOfSeq
<1>3. \A j \in 1..Len(s) : \A kept \in Seq(S) : HighTurn(0, kept, s[j]) \in Seq(S)
  BY <1>2, AppendProperties DEF HighTurn
<1>4. <<>> \in Seq(S)
  OBVIOUS
<1>5. Heightening!Runs(0, <<>>, s) \in Seq(S)
  <2> DEFINE D == Seq(S)
  <2>1. \A j \in 1..Len(s) : \A kept \in D : HighTurn(0, kept, s[j]) \in D
    BY <1>3
  <2> HIDE DEF D
  <2>2. <<>> \in D
    BY <1>4 DEF D
  <2>3. Heightening!Runs(0, <<>>, s) \in D
    BY <1>2, <2>1, <2>2, Heightening!StaysIn
  <2> QED BY <2>3 DEF D
<1> QED BY <1>1, <1>5

LEMMA HighOnes ==
  ASSUME NEW s \in Seq(SchemeToken)
  PROVE  /\ High(s) \in Seq(SchemeToken) /\ Len(High(s)) <= Len(s)
         /\ s # <<>> /\ s[1].sym.priority > Low => High(s) # <<>> /\ High(s)[1] = s[1]
<1> DEFINE n == Len(s)
           Firm(kept) == kept # <<>> /\ kept[1] = s[1]
           high == s[1].sym.priority > Low
           D == [k \in 0..n |-> {kept \in Seq(SchemeToken) : Len(kept) <= k /\ (k > 0 /\ high => Firm(kept))}]
<1>1. High(s) = Heightening!Runs(0, <<>>, s)
  BY DEF Heightening!Runs, Heightening!Loop, Heightening!Once, Loop, Once, HighTurn, High
<1>2. n \in Nat /\ \A j \in 1..n : s[j] \in SchemeToken
  BY LenProperties, ElementOfSeq
<1> HIDE DEF n, high
<1>3. \A k \in 0..n : D[k] = {kept \in Seq(SchemeToken) : Len(kept) <= k /\ (k > 0 /\ high => Firm(kept))}
  OBVIOUS
<1> HIDE DEF D
<1>4. <<>> \in D[0]
  <2>1. 0 \in 0..n /\ <<>> \in Seq(SchemeToken) /\ Len(<<>>) = 0
    BY <1>2
  <2>2. D[0] = {kept \in Seq(SchemeToken) : Len(kept) <= 0 /\ (0 > 0 /\ high => Firm(kept))}
    BY <1>3, <2>1
  <2> HIDE DEF Firm
  <2> QED BY <2>1, <2>2
<1>5. ASSUME NEW k \in 1..n, NEW kept \in D[k - 1]
      PROVE  HighTurn(0, kept, s[k]) \in D[k]
  <2>1. k - 1 \in 0..n /\ k \in 0..n /\ k > 0
    BY <1>2
  <2>2. kept \in Seq(SchemeToken) /\ Len(kept) <= k - 1 /\ (k - 1 > 0 /\ high => Firm(kept)) /\ Len(kept) \in Nat
    BY <1>3, <2>1, LenProperties
  <2>3. CASE s[k].sym.priority > Low
    <3> DEFINE all == Append(kept, s[k])
    <3>1. HighTurn(0, kept, s[k]) = all
      BY <2>3 DEF HighTurn
    <3>2. /\ all \in Seq(SchemeToken) /\ Len(all) = Len(kept) + 1 /\ all # <<>>
          /\ all[Len(kept) + 1] = s[k] /\ \A i \in 1..Len(kept) : all[i] = kept[i]
      BY <1>2, <2>2, AppendProperties
    <3> HIDE DEF all
    <3>3. high => Firm(all)
      <4>1. CASE k = 1
        <5>1. Len(kept) = 0
          BY <2>2, <4>1
        <5> QED BY <3>2, <4>1, <5>1
      <4>2. CASE k # 1
        <5>1. high => 1 \in 1..Len(kept) /\ kept[1] = s[1]
          BY <2>1, <2>2, <4>2, EmptySeq
        <5> QED BY <3>2, <5>1
      <4> QED BY <4>1, <4>2
    <3>4. Len(all) <= k
      BY <2>1, <2>2, <3>2
    <3> QED BY <1>3, <2>1, <3>1, <3>2, <3>3, <3>4
  <2>4. CASE ~(s[k].sym.priority > Low)
    <3>1. HighTurn(0, kept, s[k]) = kept
      BY <2>4 DEF HighTurn
    <3>2. high => Firm(kept)
      BY <2>1, <2>2, <2>4 DEF high
    <3>3. Len(kept) <= k
      BY <2>1, <2>2
    <3> QED BY <1>3, <2>1, <2>2, <3>1, <3>2, <3>3
  <2> QED BY <2>3, <2>4
<1>6. Heightening!Runs(0, <<>>, s) \in D[n]
  BY <1>2, <1>4, <1>5, Heightening!StagesPassed DEF n
<1>7. n \in 0..n /\ (s # <<>> => n > 0)
  BY <1>2, EmptySeq DEF n
<1> QED BY <1>1, <1>3, <1>6, <1>7 DEF high, n

LEMMA WithoutLowIs ==
  ASSUME NEW p, NEW i
  PROVE  WithoutLow(p, i) = IF Len(p[i]) = 1 THEN p ELSE [p EXCEPT ![i] = High(p[i])]
BY DEF WithoutLow, High

-----------------------------------------------------------------------------
(* Tokens are taken away.                                                  *)

\* A position of the least value.
LEMMA LeastValue ==
  ASSUME NEW n \in Nat, NEW S \in SUBSET (1..n), S # {}, NEW f, \A i \in S : f[i] \in Int
  PROVE  \E i \in S : \A j \in S : f[i] <= f[j]
<1> DEFINE Bad == {m \in 0..n : \E i \in S : i <= m /\ ~\E k \in S : k <= m /\ \A j \in S : j <= m => f[k] <= f[j]}
<1>0. \A i \in S : i \in 1..n
  OBVIOUS
<1>1. Bad = {}
  <2> SUFFICES ASSUME Bad # {} PROVE FALSE
    OBVIOUS
  <2>1. PICK m \in Bad : \A k \in Bad : ~(k < m)
    <3>1. Bad \subseteq Nat
      OBVIOUS
    <3>2. PICK m \in Bad : \A k \in Bad : <<k, m>> \notin OpToRel(<, Nat)
      BY <3>1, WFMin, NatLessThanWellFounded
    <3> QED BY <3>1, <3>2 DEF OpToRel
  <2>2. PICK i \in S : i <= m
    BY <2>1
  <2>3. m \in 0..n /\ m - 1 \in 0..n /\ m - 1 \notin Bad
    <3>1. m \in 0..n
      BY <2>1
    <3>2. i \in 1..n /\ m - 1 \in 0..n /\ m - 1 < m
      BY <1>0, <2>2, <3>1
    <3> HIDE DEF Bad
    <3> QED BY <2>1, <3>1, <3>2
  <2>4. \A j \in S : j <= m => j <= m - 1 \/ j = m
    BY <2>3
  <2>5. ~\E k \in S : k <= m /\ \A j \in S : j <= m => f[k] <= f[j]
    BY <2>1
  <2> HIDE DEF Bad
  <2>6. CASE \E j \in S : j <= m - 1
    <3>1. PICK k \in S : k <= m - 1 /\ \A j \in S : j <= m - 1 => f[k] <= f[j]
      BY <2>3, <2>6 DEF Bad
    <3>2. k <= m
      BY <2>3, <3>1
    <3>3. CASE m \in S
      <4>1. f[m] \in Int /\ f[k] \in Int /\ \A j \in S : f[j] \in Int
        BY <3>3
      <4>2. CASE f[k] <= f[m]
        BY <2>4, <2>5, <3>1, <3>2, <4>2
      <4>3. CASE ~(f[k] <= f[m])
        <5>1. \A j \in S : j <= m => f[m] <= f[j]
          BY <2>4, <3>1, <4>1, <4>3
        <5> QED BY <2>3, <2>5, <3>3, <5>1
      <4> QED BY <4>2, <4>3
    <3>4. CASE m \notin S
      BY <2>4, <2>5, <3>1, <3>2, <3>4
    <3> QED BY <3>3, <3>4
  <2>7. CASE ~\E j \in S : j <= m - 1
    <3>1. i = m /\ \A j \in S : j <= m => j = m
      BY <2>2, <2>4, <2>7
    <3>2. f[m] <= f[m]
      BY <3>1
    <3> QED BY <2>3, <2>5, <3>1, <3>2
  <2> QED BY <2>6, <2>7
<1>2. n \in 0..n /\ \A j \in S : j <= n
  BY <1>0
<1>3. n \notin Bad
  BY <1>1
<1> QED BY <1>2, <1>3

\* Tokens are taken from a position that has not one token only.
LEMMA NextArrayFound ==
  ASSUME NEW q \in Seq(Seq(SchemeToken) \ {<<>>}), NextArray(q) \in DOMAIN q
  PROVE  Len(q[NextArray(q)]) # 1
<1> DEFINE several == {i \in DOMAIN q : Len(q[i]) # 1}
           priority(i) == Last(q[i]).sym.priority
           lowest(i) == Min({priority(j) : j \in {k \in several : k <= i}})
           largest == CHOOSE i \in DOMAIN q : \A j \in DOMAIN q :
                   Len(q[i]) > Len(q[j]) \/ (Len(q[i]) = Len(q[j]) /\ i <= j)
           f == [i \in several |-> priority(i)]
           T == {i \in several : \A j \in several : priority(i) <= priority(j)}
<1>1. NextArray(q) = IF \A i \in several : priority(i) = lowest(i)
                     THEN IF Len(q[largest]) = 1 THEN 0 ELSE largest
                     ELSE Min(T)
  BY DEF NextArray
<1>2. Len(q) \in Nat /\ DOMAIN q = 1..Len(q) /\ \A i \in 1..Len(q) : q[i] \in Seq(SchemeToken) \ {<<>>}
  BY LenProperties, ElementOfSeq
<1>3. \A i \in several : priority(i) \in Int
  <2> SUFFICES ASSUME NEW i \in DOMAIN q PROVE priority(i) \in Int
    OBVIOUS
  <2>1. q[i] \in Seq(SchemeToken) /\ Len(q[i]) \in 1..Len(q[i])
    BY <1>2, EmptySeq, LenProperties
  <2>2. Last(q[i]) \in SchemeToken
    BY <2>1, ElementOfSeq DEF Last
  <2> QED BY <2>2, TokenHasSymbol, SymbolFields
<1>4. CASE \A i \in several : priority(i) = lowest(i)
  <2>1. NextArray(q) = IF Len(q[largest]) = 1 THEN 0 ELSE largest
    BY <1>1, <1>4
  <2> HIDE DEF largest
  <2>2. Len(q[largest]) # 1 /\ NextArray(q) = largest
    BY <1>2, <2>1
  <2> QED BY <2>2
<1>5. CASE ~(\A i \in several : priority(i) = lowest(i))
  <2>1. NextArray(q) = Min(T)
    BY <1>1, <1>5
  <2>2. several # {} /\ several \in SUBSET (1..Len(q))
    BY <1>2, <1>5
  <2>3. \A i \in several : f[i] = priority(i)
    OBVIOUS
  <2> HIDE DEF several, priority, f
  <2>4. \A i \in several : f[i] \in Int
    BY <1>3, <2>3
  <2>5. \E i \in several : \A j \in several : f[i] <= f[j]
    BY <1>2, <2>2, <2>4, LeastValue
  <2>6. T # {} /\ T \in SUBSET Nat
    <3>1. PICK i \in several : \A j \in several : priority(i) <= priority(j)
      BY <2>3, <2>5
    <3>2. \A j \in several : j \in Nat
      BY <2>2
    <3> QED BY <3>1, <3>2
  <2> HIDE DEF T
  <2>7. Min(T) \in T
    BY <2>6, FirstRow
  <2> QED BY <2>1, <2>7 DEF T, several
<1> QED BY <1>4, <1>5

LEMMA FrontTyped ==
  ASSUME NEW S, NEW s \in Seq(S)
  PROVE  /\ Front(s) \in Seq(S) /\ Len(Front(s)) <= Len(s)
         /\ Len(s) > 1 => Front(s) # <<>> /\ Front(s)[1] = s[1]
<1>1. Len(s) \in Nat /\ \A i \in 1..Len(s) : s[i] \in S
  BY LenProperties, ElementOfSeq
<1> DEFINE n == Len(s) - 1
<1>2. Front(s) = SubSeq(s, 1, n) /\ n \in Int
  BY <1>1 DEF Front
<1>3. \A i \in 1..n : s[i] \in S
  BY <1>1
<1> HIDE DEF n
<1>4. /\ SubSeq(s, 1, n) \in Seq(S)
      /\ Len(SubSeq(s, 1, n)) = IF 1 <= n THEN n - 1 + 1 ELSE 0
      /\ \A i \in 1..(n - 1 + 1) : SubSeq(s, 1, n)[i] = s[1 + i - 1]
  BY <1>2, <1>3, SubSeqProperties
<1>5. Len(Front(s)) <= Len(s)
  BY <1>1, <1>2, <1>4 DEF n
<1>6. ASSUME Len(s) > 1
      PROVE  Front(s) # <<>> /\ Front(s)[1] = s[1]
  <2>1. 1 <= n /\ 1 \in 1..(n - 1 + 1) /\ 1 + 1 - 1 = 1 /\ n - 1 + 1 > 0
    BY <1>1, <1>6 DEF n
  <2> DEFINE r == SubSeq(s, 1, n)
  <2>2. Len(r) > 0 /\ r[1] = s[1]
    BY <1>4, <2>1
  <2>3. Front(s) = r
    BY <1>2
  <2> HIDE DEF r
  <2> QED BY <2>2, <2>3
<1> QED BY <1>2, <1>4, <1>5, <1>6

LEMMA TokensInNat ==
  ASSUME NEW p \in Positions
  PROVE  TokensIn(p) \in Nat
<1>1. TokensIn(p) = Counting!Runs(0, 0, p)
  BY DEF Counting!Runs, Counting!Loop, Counting!Once, Loop, Once, CountTurn, TokensIn
<1>2. Len(p) \in Nat /\ \A j \in 1..Len(p) : Len(p[j]) \in Nat
  BY LenProperties, ElementOfSeq DEF Positions
<1> DEFINE D == Nat
<1>3. \A j \in 1..Len(p) : \A n \in D : CountTurn(0, n, p[j]) \in D
  BY <1>2 DEF CountTurn
<1>4. 0 \in D
  OBVIOUS
<1> HIDE DEF D
<1>5. Counting!Runs(0, 0, p) \in D
  BY <1>2, <1>3, <1>4, Counting!StaysIn
<1> QED BY <1>1, <1>5 DEF D

LEMMA ListOf ==
  ASSUME NEW X, NEW n \in Nat, NEW f, f = [i \in 1..n |-> f[i]], \A i \in 1..n : f[i] \in X
  PROVE  f \in Seq(X) /\ Len(f) = n
<1>1. f \in [1..n -> X]
  OBVIOUS
<1> QED BY <1>1

LEMMA ItemChanged ==
  ASSUME NEW X, NEW p \in Seq(X), NEW i, NEW item, i \in DOMAIN p => item \in X
  PROVE  [p EXCEPT ![i] = item] \in Seq(X)
<1> DEFINE n == Len(p)
           q == [p EXCEPT ![i] = item]
<1>1. n \in Nat /\ DOMAIN p = 1..n /\ \A j \in 1..n : p[j] \in X
  BY LenProperties, ElementOfSeq
<1>2. q = [j \in DOMAIN p |-> q[j]] /\ \A j \in DOMAIN p : q[j] = IF j = i THEN item ELSE p[j]
  OBVIOUS
<1> HIDE DEF q, n
<1>3. q = [j \in 1..n |-> q[j]] /\ \A j \in 1..n : q[j] \in X
  BY <1>1, <1>2
<1>4. q \in Seq(X)
  BY <1>1, <1>3, ListOf
<1> QED BY <1>4 DEF q

\* A position is changed.
LEMMA PositionChanged ==
  ASSUME NEW p \in Positions, NEW i, NEW item, i \in DOMAIN p => item \in Seq(SchemeToken)
  PROVE  LET q == [p EXCEPT ![i] = item] IN
         /\ q \in Positions /\ DOMAIN q = DOMAIN p /\ Len(q) = Len(p)
         /\ \A j \in DOMAIN p : q[j] = IF j = i THEN item ELSE p[j]
<1> DEFINE q == [p EXCEPT ![i] = item]
<1>1. /\ Len(p) \in Nat /\ DOMAIN p = 1..Len(p) /\ \A j \in 1..Len(p) : p[j] \in Seq(SchemeToken)
      /\ p = [j \in 1..Len(p) |-> p[j]]
  BY LenProperties, ElementOfSeq DEF Positions
<1>2. DOMAIN q = DOMAIN p /\ \A j \in DOMAIN p : q[j] = IF j = i THEN item ELSE p[j]
  OBVIOUS
<1>3. q = [j \in DOMAIN p |-> q[j]]
  OBVIOUS
<1> DEFINE n == Len(p)
           X == Seq(SchemeToken)
<1> HIDE DEF q
<1>4. q \in [1..n -> X]
  BY <1>1, <1>2, <1>3
<1>5. q \in Positions /\ Len(q) = Len(p)
  <2>1. n \in Nat
    BY <1>1
  <2> HIDE DEF n, X
  <2>2. q \in Seq(X) /\ Len(q) = n
    BY <1>4, <2>1
  <2> QED BY <2>2 DEF n, X, Positions
<1> QED BY <1>2, <1>5 DEF q

LEMMA RemoveLowInto ==
  ASSUME NEW X, NEW p \in Seq(X), \A item \in X : High(item) \in X
  PROVE  RemoveLow(p) \in Seq(X)
<1> DEFINE s == UpTo(Len(p))
<1>1. RemoveLow(p) = Lowering!Runs(0, p, s)
  BY DEF Lowering!Runs, Lowering!Loop, Lowering!Once, Loop, Once, LowTurn, RemoveLow
<1>2. Len(p) \in Nat /\ Len(s) = Len(p)
  BY LenProperties, UpToIs
<1>3. ASSUME NEW i \in 1..Len(s), NEW q \in Seq(X)
      PROVE  LowTurn(0, q, s[i]) \in Seq(X)
  <2> DEFINE k == s[i]
  <2>1. k \in DOMAIN q => High(q[k]) \in X
    BY ElementOfSeq, LenProperties
  <2> HIDE DEF k
  <2>2. [q EXCEPT ![k] = High(q[k])] \in Seq(X)
    BY <2>1, ItemChanged
  <2>3. WithoutLow(q, k) \in Seq(X)
    BY <2>2, WithoutLowIs
  <2> QED BY <2>3 DEF LowTurn, k
<1> HIDE DEF s
<1>4. Lowering!Runs(0, p, s) \in Seq(X)
  BY <1>2, <1>3, Lowering!StaysIn
<1> QED BY <1>1, <1>4

LEMMA RemoveLowTyped ==
  ASSUME NEW p \in Positions
  PROVE  RemoveLow(p) \in Positions
BY HighOf, RemoveLowInto DEF Positions

LEMMA PopUntilFitsInto ==
  ASSUME NEW X, NEW p \in Seq(X), p \in Positions, \A item \in X : Front(item) \in X
  PROVE  PopUntilFits(p) \in Seq(X)
<1> DEFINE s == UpTo(TokensIn(p))
<1>1. PopUntilFits(p) = Popping!Runs(0, p, s)
  BY DEF Popping!Runs, Popping!Loop, Popping!Once, Loop, Once, PopTurn, PopUntilFits
<1>2. Len(s) \in Nat
  BY TokensInNat, UpToIs
<1>3. ASSUME NEW i \in 1..Len(s), NEW q \in Seq(X)
      PROVE  PopTurn(0, q, s[i]) \in Seq(X)
  <2> DEFINE k == NextArray(q)
  <2>1. k \in DOMAIN q => Front(q[k]) \in X
    BY ElementOfSeq, LenProperties
  <2> HIDE DEF k
  <2>2. [q EXCEPT ![k] = Front(q[k])] \in Seq(X)
    BY <2>1, ItemChanged
  <2>3. Popped(q, k) \in Seq(X)
    BY <2>2 DEF Popped
  <2> QED BY <2>3 DEF PopTurn, k
<1> HIDE DEF s
<1>4. Popping!Runs(0, p, s) \in Seq(X)
  BY <1>2, <1>3, Popping!StaysIn
<1> QED BY <1>1, <1>4

LEMMA PopUntilFitsTyped ==
  ASSUME NEW p \in Positions
  PROVE  PopUntilFits(p) \in Positions
BY FrontTyped, PopUntilFitsInto DEF Positions

LEMMA ReducedTyped ==
  ASSUME NEW w \in Text
  PROVE  /\ Reduced(w) \in Positions
         /\ Kept(w) \in Seq(Seq(SchemeToken) \ {<<>>})
<1> DEFINE p == Tokenize(w, "value", "all")
<1>1. p \in Seq(Seq(SchemeToken) \ {<<>>})
  BY TokenizeTyped
<1>2. Seq(Seq(SchemeToken) \ {<<>>}) \subseteq Positions
  <2>1. Seq(SchemeToken) \ {<<>>} \subseteq Seq(SchemeToken)
    OBVIOUS
  <2> QED BY <2>1, SeqMonotonic DEF Positions
<1> HIDE DEF p
<1>3. ApplyAcceptance(p) \in Seq(Seq(SchemeToken) \ {<<>>})
  BY <1>1, <1>2, ApplyAcceptanceTyped
<1>4. ReduceNoise(p) \in Positions
  BY <1>1, <1>2, <1>3, RemoveLowTyped, PopUntilFitsTyped DEF ReduceNoise
<1> QED BY <1>3, <1>4 DEF Reduced, Kept, p

-----------------------------------------------------------------------------
(* The products of a word, and their patterns.                             *)

LEMMA FlattenTyped ==
  ASSUME NEW X, NEW s \in Seq(Seq(X))
  PROVE  FlattenSeq(s) \in Seq(X)
<1>1. CASE s = <<>>
  BY <1>1 DEF FlattenSeq
<1>2. CASE s # <<>>
  <2> DEFINE n == Len(s)
  <2>1. PICK f : Joins(f, s, n) /\ FlattenSeq(s) = f[n]
    BY <1>2, FlattenJoins
  <2>2. n \in Nat \ {0} /\ \A i \in 1..n : s[i] \in Seq(X)
    BY <1>2, EmptySeq, LenProperties, ElementOfSeq
  <2> HIDE DEF n
  <2>3. \A i \in 1..n : f[i] = IF i = 1 THEN s[i] ELSE f[i - 1] \o s[i]
    BY <2>1, JoinsAt
  <2> DEFINE Bad == {i \in 1..n : f[i] \notin Seq(X)}
  <2>4. Bad = {}
    <3> SUFFICES ASSUME Bad # {} PROVE FALSE
      OBVIOUS
    <3>1. PICK i \in Bad : \A j \in Bad : ~(j < i)
      <4>1. Bad \subseteq Nat
        OBVIOUS
      <4>2. PICK i \in Bad : \A j \in Bad : <<j, i>> \notin OpToRel(<, Nat)
        BY <4>1, WFMin, NatLessThanWellFounded
      <4> QED BY <4>1, <4>2 DEF OpToRel
    <3>2. i # 1 => i - 1 \in 1..n /\ i - 1 < i
      BY <2>2, <3>1
    <3>3. i # 1 => f[i - 1] \in Seq(X)
      BY <3>1, <3>2
    <3>4. f[i] = IF i = 1 THEN s[i] ELSE f[i - 1] \o s[i]
      BY <2>3
    <3>5. i # 1 => f[i - 1] \o s[i] \in Seq(X)
      BY <2>2, <3>3, ConcatProperties
    <3> QED BY <2>2, <3>4, <3>5
  <2> QED BY <2>1, <2>2, <2>4
<1> QED BY <1>1, <1>2

LEMMA PatternOfTyped ==
  ASSUME NEW tokens \in Seq(SchemeToken)
  PROVE  PatternOf(tokens) \in Text
<1> DEFINE part(i) == IF tokens[i].sym.type \in {"joiner", "non_joiner"} THEN <<>> ELSE tokens[i].sym.pattern
           s == [i \in DOMAIN tokens |-> part(i)]
           n == Len(tokens)
<1>1. n \in Nat /\ DOMAIN tokens = 1..n /\ \A i \in 1..n : tokens[i] \in SchemeToken
  BY LenProperties, ElementOfSeq
<1>2. \A i \in 1..n : part(i) \in Text
  <2>1. \A i \in 1..n : tokens[i].sym.pattern \in Text
    BY <1>1, TokenHasSymbol, SymbolFields
  <2> QED BY <2>1 DEF Text
<1>3. PatternOf(tokens) = Fold(FlattenSeq(s))
  BY DEF PatternOf
<1> HIDE DEF part, n
<1>4. s = [i \in 1..n |-> s[i]] /\ \A i \in 1..n : s[i] \in Text
  BY <1>1, <1>2
<1> HIDE DEF s
<1>5. s \in Seq(Seq(Char))
  BY <1>1, <1>4, ListOf DEF Text
<1>6. FlattenSeq(s) \in Text
  BY <1>5, FlattenTyped DEF Text
<1> QED BY <1>3, <1>6, FoldIsText

Offsets(p) == [DOMAIN p -> Nat \ {0}]

LEMMA NextOffsetsTyped ==
  ASSUME NEW p, NEW o \in Offsets(p)
  PROVE  NextOffsets(p, o) = <<>> \/ NextOffsets(p, o) \in Offsets(p)
<1> DEFINE m == Max({i \in DOMAIN p : o[i] # Len(p[i])})
           next(i) == IF i < m THEN o[i] ELSE IF i = m THEN o[i] + 1 ELSE 1
<1>1. NextOffsets(p, o) = <<>> \/ NextOffsets(p, o) = [i \in DOMAIN p |-> next(i)]
  BY DEF NextOffsets
<1> HIDE DEF m
<1>2. \A i \in DOMAIN p : next(i) \in Nat \ {0}
  BY DEF Offsets
<1> HIDE DEF next
<1> QED BY <1>1, <1>2 DEF Offsets

LEMMA ProductAtTyped ==
  ASSUME NEW p \in Positions, NEW o \in Offsets(p)
  PROVE  ProductAt(p, o) \in Seq(SchemeToken)
<1> DEFINE part(i) == IF o[i] <= Len(p[i]) THEN <<p[i][o[i]]>> ELSE <<>>
           s == [i \in DOMAIN p |-> part(i)]
           n == Len(p)
<1>1. n \in Nat /\ DOMAIN p = 1..n /\ \A i \in 1..n : p[i] \in Seq(SchemeToken) /\ o[i] \in Nat \ {0}
  BY LenProperties, ElementOfSeq DEF Positions, Offsets
<1>2. ProductAt(p, o) = FlattenSeq(s)
  BY DEF ProductAt
<1>3. ASSUME NEW i \in 1..n PROVE part(i) \in Seq(SchemeToken)
  <2>1. o[i] <= Len(p[i]) => o[i] \in 1..Len(p[i])
    BY <1>1
  <2>2. o[i] <= Len(p[i]) => p[i][o[i]] \in SchemeToken
    BY <1>1, <2>1, ElementOfSeq
  <2> QED BY <2>2
<1> HIDE DEF part, n
<1>4. s = [i \in 1..n |-> s[i]] /\ \A i \in 1..n : s[i] \in Seq(SchemeToken)
  BY <1>1, <1>3
<1> HIDE DEF s
<1>5. s \in Seq(Seq(SchemeToken))
  BY <1>1, <1>4, ListOf
<1> QED BY <1>2, <1>5, FlattenTyped

OffsetTurn(p, found, n) ==
  IF NextOffsets(p, Last(found)) = <<>> THEN found ELSE Append(found, NextOffsets(p, Last(found)))
Enumerating == INSTANCE Loops_proofs WITH Turn <- OffsetTurn

Ones(p) == [i \in DOMAIN p |-> 1]

\* The offsets that are enumerated: there are no more of them than patterns are learned.
OffsetsFound(p) ==
  Loop(LAMBDA found, n : IF NextOffsets(p, Last(found)) = <<>> THEN found
                         ELSE Append(found, NextOffsets(p, Last(found))),
       <<Ones(p)>>, UpTo(ProductLimit(p) - 1))

LEMMA OffsetsFoundTyped ==
  ASSUME NEW p
  PROVE  /\ OffsetsFound(p) \in Seq(Offsets(p))
         /\ Len(OffsetsFound(p)) \in 1..MaxPatterns
         /\ OffsetsFound(p)[1] = Ones(p)
<1> DEFINE n == MaxPatterns - 1
           s == UpTo(n)
           start == <<Ones(p)>>
           O == Offsets(p)
           D == [k \in 0..n |-> {found \in Seq(O) : /\ found # <<>> /\ Len(found) <= k + 1
                                                    /\ found[1] = Ones(p)}]
<1>1. OffsetsFound(p) = Enumerating!Runs(p, start, s)
  BY DEF Enumerating!Runs, Enumerating!Loop, Enumerating!Once, Loop, Once, OffsetTurn, OffsetsFound, ProductLimit
<1>2. n \in Nat /\ Len(s) = n
  BY NoiseAssumption, UpToIs
<1>3. Ones(p) \in O
  BY DEF Ones, Offsets
<1>4. \A k \in 0..n : D[k] = {found \in Seq(O) : /\ found # <<>> /\ Len(found) <= k + 1
                                                 /\ found[1] = Ones(p)}
  OBVIOUS
<1> HIDE DEF D, s
<1>5. start \in D[0]
  <2>1. start \in Seq(O) /\ start # <<>> /\ Len(start) = 1 /\ start[1] = Ones(p)
    BY <1>3
  <2>2. 0 \in 0..n /\ 1 <= 0 + 1
    BY <1>2
  <2>3. D[0] = {found \in Seq(O) : found # <<>> /\ Len(found) <= 0 + 1 /\ found[1] = Ones(p)}
    BY <1>4, <2>2
  <2> HIDE DEF start, O
  <2> QED BY <2>1, <2>2, <2>3
<1> HIDE DEF start, n, O
<1>6. ASSUME NEW k \in 1..n, NEW found \in D[k - 1]
      PROVE  OffsetTurn(p, found, s[k]) \in D[k]
  <2>1. k - 1 \in 0..n /\ k \in 0..n /\ k - 1 + 1 = k
    BY <1>2
  <2>2. found \in Seq(O) /\ found # <<>> /\ Len(found) <= k /\ found[1] = Ones(p)
    BY <1>4, <2>1
  <2>3. Len(found) \in Nat /\ Len(found) \in 1..Len(found) /\ 1 \in 1..Len(found)
    BY <2>2, EmptySeq, LenProperties
  <2>4. Last(found) \in Offsets(p)
    BY <2>2, <2>3, ElementOfSeq DEF Last, O
  <2> DEFINE next == NextOffsets(p, Last(found))
             all == Append(found, next)
  <2>5. next = <<>> \/ next \in O
    BY <2>4, NextOffsetsTyped DEF O
  <2>6. OffsetTurn(p, found, s[k]) = IF next = <<>> THEN found ELSE all
    BY DEF OffsetTurn
  <2> HIDE DEF next
  <2>7. CASE next = <<>>
    <3>1. Len(found) <= k + 1
      BY <2>1, <2>2, <2>3
    <3> QED BY <1>4, <2>1, <2>2, <2>6, <2>7, <3>1
  <2>8. CASE next # <<>>
    <3>1. /\ all \in Seq(O) /\ Len(all) = Len(found) + 1 /\ \A i \in 1..Len(found) : all[i] = found[i]
      BY <2>2, <2>5, <2>8, AppendProperties
    <3> HIDE DEF all
    <3>2. Len(all) <= k + 1 /\ all # <<>> /\ all[1] = Ones(p)
      <4>1. Len(all) <= k + 1 /\ Len(all) # 0
        BY <2>1, <2>2, <2>3, <3>1
      <4> QED BY <2>2, <2>3, <3>1, <4>1
    <3> QED BY <1>4, <2>1, <2>6, <2>8, <3>1, <3>2
  <2> QED BY <2>7, <2>8
<1>7. Enumerating!Runs(p, start, s) \in D[n]
  BY <1>2, <1>5, <1>6, Enumerating!StagesPassed
<1>8. OffsetsFound(p) \in Seq(O) /\ OffsetsFound(p) # <<>> /\ Len(OffsetsFound(p)) <= n + 1
      /\ OffsetsFound(p)[1] = Ones(p)
  <2>1. n \in 0..n
    BY <1>2
  <2> QED BY <1>1, <1>4, <1>7, <2>1
<1>9. Len(OffsetsFound(p)) \in 1..MaxPatterns
  <2>1. Len(OffsetsFound(p)) \in Nat /\ Len(OffsetsFound(p)) # 0
    BY <1>8, EmptySeq, LenProperties
  <2>2. n + 1 = MaxPatterns /\ MaxPatterns \in Nat
    BY NoiseAssumption DEF n
  <2> QED BY <1>8, <2>1, <2>2
<1> QED BY <1>8, <1>9 DEF O

LEMMA ProductsTyped ==
  ASSUME NEW p \in Positions
  PROVE  /\ Products(p) \in Seq(Seq(SchemeToken))
         /\ Len(Products(p)) \in 1..MaxPatterns
         /\ Products(p)[1] = ProductAt(p, Ones(p))
<1> DEFINE offsets == OffsetsFound(p)
           n == Len(offsets)
           q == [k \in DOMAIN offsets |-> ProductAt(p, offsets[k])]
<1>1. Products(p) = q
  BY DEF Products, OffsetsFound, Ones
<1>2. offsets \in Seq(Offsets(p)) /\ n \in 1..MaxPatterns /\ offsets[1] = Ones(p)
  BY OffsetsFoundTyped
<1>3. n \in Nat /\ DOMAIN offsets = 1..n /\ \A k \in 1..n : offsets[k] \in Offsets(p)
  BY <1>2, LenProperties, ElementOfSeq
<1> HIDE DEF n, offsets
<1>4. q = [k \in 1..n |-> q[k]] /\ \A k \in 1..n : q[k] \in Seq(SchemeToken) /\ q[k] = ProductAt(p, offsets[k])
  BY <1>3, ProductAtTyped
<1> HIDE DEF q
<1>5. q \in Seq(Seq(SchemeToken)) /\ Len(q) = n
  BY <1>3, <1>4, ListOf
<1>6. 1 \in 1..n
  BY <1>2, <1>3, NoiseAssumption
<1> QED BY <1>1, <1>2, <1>4, <1>5, <1>6

-----------------------------------------------------------------------------
(* What tokens are written as.                                             *)

Renderings == [text : Text, previous : Seq(SchemeToken)]

RenderTurn(none, r, token) == Render(r, token)
Rendered == INSTANCE Loops_proofs WITH Turn <- RenderTurn

TypeTurn(none, r, token) == TypeToken(r, token)
Typed == INSTANCE Loops_proofs WITH Turn <- TypeTurn

LEMMA Joined ==
  ASSUME NEW u \in Text, NEW v \in Text
  PROVE  u \o v \in Text
BY ConcatProperties DEF Text

LEMMA WithoutTyped ==
  ASSUME NEW u \in Text, NEW v \in Text
  PROVE  Without(u, v) \in Text
<1> DEFINE n == Len(u) - Len(v)
<1>1. n \in Int /\ \A i \in 1..n : u[i] \in Char
  BY LenProperties, ElementOfSeq DEF Text
<1> HIDE DEF n
<1>2. SubSeq(u, 1, n) \in Seq(Char)
  BY <1>1, SubSeqProperties
<1> QED BY <1>2 DEF Without, n, Text

LEMMA ViramaTyped == Virama \in Text
<1> DEFINE S == {r.id : r \in Viramas(Symbols)}
           Earliest(r) == \A q \in Viramas(Symbols) : r.id <= q.id
<1>1. /\ Viramas(Symbols) # {} /\ Viramas(Symbols) \subseteq Symbols
      /\ \A r \in Symbols : r.id \in Nat \ {0} /\ r.sym \in SchemeSymbol
  BY SchemeAssumption DEF Viramas
<1>2. S \in SUBSET Nat /\ S # {}
  BY <1>1
<1> HIDE DEF S
<1>3. Min(S) \in S /\ \A i \in S : Min(S) <= i
  BY <1>2, FirstRow
<1>4. \E r \in Viramas(Symbols) : Earliest(r)
  BY <1>3 DEF S
<1> DEFINE first == CHOOSE r \in Viramas(Symbols) : Earliest(r)
<1>5. Virama = first.sym.value1
  BY DEF Virama, FirstVirama
<1> HIDE DEF Earliest
<1>6. first \in Viramas(Symbols)
  BY <1>4
<1> HIDE DEF first
<1> QED BY <1>1, <1>5, <1>6, SymbolFields

LEMMA PreviousSymbol ==
  ASSUME NEW r \in Renderings
  PROVE  /\ r.text \in Text
         /\ r.previous # <<>> => r.previous[1].sym \in SchemeSymbol
<1>1. r.text \in Text /\ r.previous \in Seq(SchemeToken)
  BY DEF Renderings
<1>2. r.previous # <<>> => 1 \in 1..Len(r.previous)
  BY <1>1, EmptySeq, LenProperties
<1>3. r.previous # <<>> => r.previous[1] \in SchemeToken
  BY <1>1, <1>2, ElementOfSeq
<1> QED BY <1>1, <1>3, TokenHasSymbol

LEMMA MlUnicodeTyped ==
  ASSUME NEW r \in Renderings, NEW s \in SchemeSymbol, MlUnicodeRenderer(r, s) # <<>>
  PROVE  MlUnicodeRenderer(r, s)[1] \in Text
<1> DEFINE p == r.previous[1].sym
<1>1. /\ r.text \in Text /\ (r.previous # <<>> => p \in SchemeSymbol)
      /\ s.value2 \in Text /\ s.value3 \in Text
  BY PreviousSymbol, SymbolFields
<1>2. CASE r.previous # <<>> /\ s.type = "vowel" /\ s.pattern = <<"r">>
  <2>1. MlUnicodeRenderer(r, s) = <<r.text \o s.value3>>
    BY <1>2 DEF MlUnicodeRenderer
  <2> QED BY <1>1, <2>1, Joined
<1>3. CASE ~(r.previous # <<>> /\ s.type = "vowel" /\ s.pattern = <<"r">>)
  <2>1. CASE r.previous # <<>> /\ s.tag = "render_value2"
    <3>1. MlUnicodeRenderer(r, s) = <<r.text \o s.value2>>
      BY <1>3, <2>1 DEF MlUnicodeRenderer
    <3> QED BY <1>1, <3>1, Joined
  <2>2. CASE ~(r.previous # <<>> /\ s.tag = "render_value2")
    <3> DEFINE taken == ChilluTaken(r)
    <3>1. MlUnicodeRenderer(r, s) =
            IF Follows(r, "chill") /\ s.type = "vowel" /\ taken # <<>>
            THEN <<taken[1] \o p.value3 \o s.value2>> ELSE <<>>
      BY <1>3, <2>2 DEF MlUnicodeRenderer
    <3>2. Follows(r, "chill") /\ taken # <<>>
      BY <3>1
    <3>3. p \in SchemeSymbol
      BY <1>1, <3>2 DEF Follows
    <3>4. p.value1 \in Text /\ p.value2 \in Text /\ p.value3 \in Text
      BY <3>3, SymbolFields
    <3>5. taken = <<Without(r.text, p.value1)>> \/ taken = <<Without(r.text, p.value2)>>
      BY <3>2 DEF ChilluTaken
    <3> HIDE DEF taken, p
    <3>6. taken[1] \in Text
      BY <1>1, <3>4, <3>5, WithoutTyped
    <3>7. taken[1] \o p.value3 \o s.value2 \in Text
      BY <1>1, <3>4, <3>6, Joined
    <3>8. MlUnicodeRenderer(r, s) = <<taken[1] \o p.value3 \o s.value2>>
      BY <3>1
    <3> QED BY <3>7, <3>8
  <2> QED BY <2>1, <2>2
<1> QED BY <1>2, <1>3

LEMMA PlainTextTyped ==
  ASSUME NEW r \in Renderings, NEW s \in SchemeSymbol
  PROVE  PlainText(r, s) \in Text
<1>1. /\ r.text \in Text /\ s.value1 \in Text /\ s.value2 \in Text /\ s.pattern \in Text
      /\ Virama \in Text /\ <<NonJoiner>> \in Text
  BY PreviousSymbol, SymbolFields, ViramaTyped, SymbolsAssumption DEF Text
<1>2. /\ r.text \o Virama \in Text /\ r.text \o <<NonJoiner>> \in Text
      /\ (r.text \o Virama) \o <<NonJoiner>> \in Text
      /\ Without(r.text, Virama) \o s.value2 \in Text
      /\ r.text \o s.value2 \in Text /\ r.text \o s.value1 \in Text /\ r.text \o s.pattern \in Text
  BY <1>1, Joined, WithoutTyped
<1>3. VowelText(r, s) \in Text
  BY <1>2 DEF VowelText
<1>4. CASE s.type = "virama"
  <2>1. PlainText(r, s) = (IF IsSuffix(Virama, r.text) THEN r.text ELSE r.text \o Virama) \o <<NonJoiner>>
    BY <1>4 DEF PlainText
  <2> QED BY <1>2, <2>1
<1>5. CASE s.type # "virama"
  <2>1. PlainText(r, s) \in {VowelText(r, s), r.text \o s.pattern, r.text \o s.value1}
    BY <1>5 DEF PlainText
  <2> QED BY <1>2, <1>3, <2>1
<1> QED BY <1>4, <1>5

LEMMA RenderTyped ==
  ASSUME NEW r \in Renderings, NEW t \in SchemeToken
  PROVE  Render(r, t) \in Renderings
<1> DEFINE custom == IF MlUnicode THEN MlUnicodeRenderer(r, t.sym) ELSE <<>>
           plain == PlainText(r, t.sym)
<1>1. /\ r.text \in Text /\ r.previous \in Seq(SchemeToken)
      /\ r = [text |-> r.text, previous |-> r.previous]
      /\ t.sym \in SchemeSymbol
  BY TokenHasSymbol DEF Renderings
<1>2. custom # <<>> => custom[1] \in Text
  BY <1>1, MlUnicodeTyped
<1>3. plain \in Text
  BY <1>1, PlainTextTyped
<1>4. Render(r, t) \in {[r EXCEPT !.previous = <<>>], [text |-> plain, previous |-> <<t>>]}
      \/ (custom # <<>> /\ Render(r, t) = [r EXCEPT !.text = custom[1]])
  BY DEF Render
<1> HIDE DEF custom, plain
<1>5. [r EXCEPT !.previous = <<>>] \in Renderings
  <2> DEFINE empty == <<>>
  <2>1. empty \in Seq(SchemeToken)
    OBVIOUS
  <2> HIDE DEF empty
  <2>2. [r EXCEPT !.previous = empty] = [text |-> r.text, previous |-> empty]
    BY <1>1
  <2>3. [r EXCEPT !.previous = empty] \in Renderings
    BY <1>1, <2>1, <2>2 DEF Renderings
  <2> QED BY <2>3 DEF empty
<1>6. [text |-> plain, previous |-> <<t>>] \in Renderings
  <2> DEFINE one == <<t>>
  <2>1. one \in Seq(SchemeToken)
    OBVIOUS
  <2> HIDE DEF one
  <2>2. [text |-> plain, previous |-> one] \in Renderings
    BY <1>3, <2>1 DEF Renderings
  <2> QED BY <2>2 DEF one
<1>7. custom # <<>> => [r EXCEPT !.text = custom[1]] \in Renderings
  <2>1. [r EXCEPT !.text = custom[1]] = [text |-> custom[1], previous |-> r.previous]
    BY <1>1
  <2> QED BY <1>1, <1>2, <2>1 DEF Renderings
<1> QED BY <1>4, <1>5, <1>6, <1>7

LEMMA BlankTyped == Blank \in Renderings
<1> DEFINE empty == <<>>
<1>1. Blank = [text |-> empty, previous |-> empty] /\ empty \in Text /\ empty \in Seq(SchemeToken)
  BY DEF Blank, Text
<1> HIDE DEF empty
<1> QED BY <1>1 DEF Renderings

LEMMA ResolveTokensTyped ==
  ASSUME NEW tokens \in Seq(SchemeToken)
  PROVE  ResolveTokens(tokens) \in Text
<1>1. ResolveTokens(tokens) = Rendered!Runs(0, Blank, tokens).text
  BY DEF Rendered!Runs, Rendered!Loop, Rendered!Once, Loop, Once, RenderTurn, ResolveTokens
<1>2. Len(tokens) \in Nat /\ \A i \in 1..Len(tokens) : tokens[i] \in SchemeToken
  BY LenProperties, ElementOfSeq
<1>3. \A i \in 1..Len(tokens) : \A r \in Renderings : RenderTurn(0, r, tokens[i]) \in Renderings
  BY <1>2, RenderTyped DEF RenderTurn
<1>4. Rendered!Runs(0, Blank, tokens) \in Renderings
  BY <1>2, <1>3, BlankTyped, Rendered!StaysIn
<1> QED BY <1>1, <1>4, PreviousSymbol

LEMMA TransliteratedTyped ==
  ASSUME NEW text \in Text
  PROVE  Transliterated(text) \in Text
<1> DEFINE p == Tokenize(text, "pattern", "exact")
           all(positions) == ResolveTokens(FlattenSeq(positions))
<1>1. Transliterated(text) = CHOOSE y \in {all(x) : x \in {p}} : TRUE
  BY DEF Transliterated, Once
<1>2. p \in Seq(Seq(SchemeToken))
  <2>1. Seq(SchemeToken) \ {<<>>} \subseteq Seq(SchemeToken)
    OBVIOUS
  <2> QED BY <2>1, TokenizeTyped, SeqMonotonic
<1>3. all(p) \in Text
  <2> HIDE DEF p
  <2> QED BY <1>2, FlattenTyped, ResolveTokensTyped
<1> HIDE DEF all, p
<1>4. {all(x) : x \in {p}} = {all(p)}
  OBVIOUS
<1> QED BY <1>1, <1>3, <1>4

LEMMA FirstTokensTyped ==
  ASSUME NEW p \in Seq(Seq(SchemeToken) \ {<<>>})
  PROVE  FirstTokens(p) \in Seq(SchemeToken)
<1> DEFINE n == Len(p)
           f == FirstTokens(p)
<1>1. n \in Nat /\ DOMAIN p = 1..n /\ \A i \in 1..n : p[i] \in Seq(SchemeToken) \ {<<>>}
  BY LenProperties, ElementOfSeq
<1>2. f = [i \in 1..n |-> Head(p[i])]
  BY <1>1 DEF FirstTokens
<1>3. \A i \in 1..n : Head(p[i]) \in SchemeToken
  BY <1>1, HeadTailProperties
<1> HIDE DEF f, n
<1>4. f = [i \in 1..n |-> f[i]] /\ \A i \in 1..n : f[i] \in SchemeToken
  BY <1>2, <1>3
<1>5. f \in Seq(SchemeToken)
  BY <1>1, <1>4, ListOf
<1> QED BY <1>5 DEF f

-----------------------------------------------------------------------------
(* What learning a word makes of a learnings file.                         *)

\* The patterns a word is learned with.
PatternsToLearn(w) == {PatternOf(x) : x \in ToSet(Products(Reduced(w)))}

\* Every pattern that was learned as a whole belongs to a word it was learned for.
LearnedForWords(d) ==
  \A r \in d.patterns : r.learned = 1 =>
    \E q \in d.words : q.id = r.word_id /\ r.pattern \in PatternsToLearn(q.word)

Files ==
  {d \in Db(Text, Text) : Bounded(d) /\ OneToOne(d) /\ IsFiniteSet(d.words) /\ LearnedForWords(d)}

LEMMA FileIs ==
  ASSUME NEW d
  PROVE  d \in Files <=> GoodDb(d, Text, Text) /\ OneToOne(d) /\ IsFiniteSet(d.words) /\ LearnedForWords(d)
BY DEF Files, GoodDb

\* What is learned without a new pattern.
LEMMA LearnedForKept ==
  ASSUME NEW d, NEW e, LearnedForWords(d), Grown(d, e),
         \A r \in e.patterns : r.learned = 1 => r \in d.patterns
  PROVE  LearnedForWords(e)
<1> SUFFICES ASSUME NEW r \in e.patterns, r.learned = 1
             PROVE  \E q \in e.words : q.id = r.word_id /\ r.pattern \in PatternsToLearn(q.word)
  BY DEF LearnedForWords
<1>1. PICK q \in d.words : q.id = r.word_id /\ r.pattern \in PatternsToLearn(q.word)
  BY DEF LearnedForWords
<1>2. PICK x \in e.words : x.word = q.word /\ x.id = q.id
  BY DEF Grown
<1> QED BY <1>1, <1>2

LEMMA StaysStored ==
  ASSUME NEW d \in Files, NEW e \in Files, Grown(d, e), NEW w, Stored(d, w)
  PROVE  Stored(e, w) /\ IdOf(e, w) = IdOf(d, w) /\ LearnedOf(d, w) \subseteq LearnedOf(e, w)
<1>1. PICK q \in d.words : q.word = w
  BY DEF Stored, RowsOf
<1>2. PICK x \in e.words : x.word = q.word /\ x.id = q.id
  BY DEF Grown
<1>3. IdOf(d, w) = q.id /\ IdOf(e, w) = q.id /\ Stored(e, w)
  BY <1>1, <1>2, FileIs, IdOfRow
<1>4. ASSUME NEW p \in LearnedOf(d, w)
      PROVE  p \in LearnedOf(e, w)
  <2>1. PICK r \in d.patterns : r.pattern = p /\ r.word_id = q.id /\ r.learned = 1
    BY <1>3 DEF LearnedOf
  <2>2. PICK y \in e.patterns : y.pattern = p /\ y.word_id = q.id /\ y.learned >= r.learned
    BY <2>1 DEF Grown
  <2>3. y.learned \in {0, 1}
    BY DEF Files, Db, PatternRow
  <2>4. y.learned = 1
    BY <2>1, <2>2, <2>3
  <2> QED BY <1>3, <2>2, <2>4 DEF LearnedOf
<1> QED BY <1>3, <1>4

\* What a file becomes without a deletion.
After(d) == {e \in Files : Grown(d, e)}

LEMMA AfterAfter ==
  ASSUME NEW d \in Files, NEW e \in After(d), NEW f \in After(e)
  PROVE  f \in After(d)
<1>1. d \in Db(Text, Text) /\ e \in Db(Text, Text) /\ f \in Db(Text, Text) /\ f \in Files
      /\ Grown(d, e) /\ Grown(e, f)
  BY DEF After, Files
<1>2. Grown(d, f)
  BY <1>1, GrownTransitive
<1> QED BY <1>1, <1>2 DEF After

LEMMA AfterItself ==
  ASSUME NEW d \in Files
  PROVE  d \in After(d)
BY GrownReflexive DEF After, Files

LEMMA WordLearned ==
  ASSUME NEW d \in Files, NEW w \in Text, NEW c \in Int
  PROVE  Learned(d, w, c) \in After(d) /\ Stored(Learned(d, w, c), w)
<1> DEFINE e == Learned(d, w, c)
<1>1. GoodDb(d, Text, Text) /\ OneToOne(d) /\ IsFiniteSet(d.words) /\ LearnedForWords(d)
  BY FileIs
<1>2. CASE Stored(d, w)
  <2> DEFINE bump(r) == IF r.word = w THEN [r EXCEPT !.confidence = @ + 1] ELSE r
             rows == {bump(r) : r \in d.words}
  <2>1. e = BumpConfidence(d, w)
    BY <1>2 DEF Learned
  <2>2. e = [d EXCEPT !.words = rows]
    BY <2>1 DEF BumpConfidence
  <2>3. IsFiniteSet(rows)
    <3> DEFINE f == [r \in d.words |-> bump(r)]
    <3>1. f \in Surjection(d.words, rows)
      BY DEF Surjection
    <3> HIDE DEF f, rows
    <3> QED BY <1>1, <3>1, FS_Surjection
  <2> HIDE DEF rows
  <2>4. e.words = rows /\ e.patterns = d.patterns
    <3> HIDE DEF e
    <3> QED BY <1>1, <2>2 DEF GoodDb, Db
  <2>5. GoodDb(e, Text, Text) /\ Grown(d, e) /\ OneToOne(e)
    BY <1>1, <2>1, BumpConfidenceGood, BumpConfidenceGrows
  <2> HIDE DEF e
  <2>6. LearnedForWords(e)
    BY <1>1, <2>4, <2>5, LearnedForKept
  <2>7. e \in Files
    BY <2>3, <2>4, <2>5, <2>6, FileIs
  <2>8. Stored(e, w)
    BY <1>2, <2>5, <2>7, StaysStored
  <2> QED BY <2>5, <2>7, <2>8 DEF After, e
<1>3. CASE ~Stored(d, w)
  <2> DEFINE new == [id |-> NextId(d), word |-> w, confidence |-> c]
             rows == d.words \cup {new}
  <2>1. e = InsertWord(d, w, c)
    BY <1>3 DEF Learned
  <2>2. e = [d EXCEPT !.words = rows]
    BY <1>3, <2>1 DEF InsertWord
  <2>3. IsFiniteSet(rows) /\ new \in rows /\ new.word = w
    BY <1>1, FS_AddElement
  <2> HIDE DEF rows, new
  <2>4. e.words = rows /\ e.patterns = d.patterns
    <3> HIDE DEF e
    <3> QED BY <1>1, <2>2 DEF GoodDb, Db
  <2>5. GoodDb(e, Text, Text) /\ Grown(d, e) /\ OneToOne(e)
    BY <1>1, <2>1, InsertWordGood, InsertWordGrows
  <2> HIDE DEF e
  <2>6. LearnedForWords(e)
    BY <1>1, <2>4, <2>5, LearnedForKept
  <2>7. e \in Files
    BY <2>3, <2>4, <2>5, <2>6, FileIs
  <2>8. Stored(e, w)
    BY <2>3, <2>4 DEF Stored, RowsOf
  <2> QED BY <2>5, <2>7, <2>8 DEF After, e
<1> QED BY <1>2, <1>3

\* A row that is inserted was not learned as a whole.
LEMMA InsertedPattern ==
  ASSUME NEW d \in Files, NEW p \in Text, NEW i \in Int
  PROVE  /\ InsertPattern(d, p, i) \in After(d)
         /\ \E r \in InsertPattern(d, p, i).patterns : r.pattern = p /\ r.word_id = i
<1> DEFINE e == InsertPattern(d, p, i)
           new == [pattern |-> p, word_id |-> i, learned |-> 0]
<1>1. GoodDb(d, Text, Text) /\ OneToOne(d) /\ IsFiniteSet(d.words) /\ LearnedForWords(d)
  BY FileIs
<1>2. /\ GoodDb(e, Text, Text) /\ e.words = d.words /\ Grown(d, e)
      /\ \E r \in e.patterns : r.pattern = p /\ r.word_id = i
  BY <1>1, InsertPatternGood, InsertPatternGrows
<1>3. \A r \in e.patterns : r \in d.patterns \/ r = new
  <2>1. CASE \E r \in d.patterns : r.pattern = p /\ r.word_id = i
    BY <2>1 DEF InsertPattern
  <2>2. CASE ~\E r \in d.patterns : r.pattern = p /\ r.word_id = i
    <3>1. e = [d EXCEPT !.patterns = @ \cup {new}]
      BY <2>2 DEF InsertPattern
    <3>2. e.patterns = d.patterns \cup {new}
      BY <1>1, <3>1 DEF GoodDb, Db
    <3> QED BY <3>2
  <2> QED BY <2>1, <2>2
<1>4. \A r \in e.patterns : r.learned = 1 => r \in d.patterns
  BY <1>3
<1> HIDE DEF e
<1>5. LearnedForWords(e)
  BY <1>1, <1>2, <1>4, LearnedForKept
<1>6. OneToOne(e) /\ IsFiniteSet(e.words)
  BY <1>1, <1>2 DEF OneToOne
<1> QED BY <1>2, <1>5, <1>6, FileIs DEF After, e

LEMMA MarkedPattern ==
  ASSUME NEW d \in Files, NEW w, Stored(d, w), NEW p \in PatternsToLearn(w),
         \E r \in d.patterns : r.pattern = p /\ r.word_id = IdOf(d, w)
  PROVE  /\ MarkLearned(d, p, IdOf(d, w)) \in After(d)
         /\ p \in LearnedOf(MarkLearned(d, p, IdOf(d, w)), w)
<1> DEFINE i == IdOf(d, w)
           e == MarkLearned(d, p, i)
           mark(r) == IF r.pattern = p /\ r.word_id = i THEN [r EXCEPT !.learned = 1] ELSE r
           marked == {mark(r) : r \in d.patterns}
<1>1. GoodDb(d, Text, Text) /\ OneToOne(d) /\ IsFiniteSet(d.words) /\ LearnedForWords(d)
  BY FileIs
<1>2. /\ GoodDb(e, Text, Text) /\ e.words = d.words /\ Grown(d, e)
      /\ \E r \in e.patterns : r.pattern = p /\ r.word_id = i /\ r.learned = 1
  BY <1>1, MarkLearnedGood, MarkLearnedGrows
<1>3. e.patterns = marked
  <2>1. e = [d EXCEPT !.patterns = marked]
    BY Zenon DEF MarkLearned
  <2> HIDE DEF marked, e
  <2> QED BY <1>1, <2>1 DEF GoodDb, Db
<1>4. PICK q \in d.words : q.word = w /\ q.id = i
  BY <1>1, IdOfType
<1>5. ASSUME NEW r \in e.patterns, r.learned = 1
      PROVE  \E x \in e.words : x.id = r.word_id /\ r.pattern \in PatternsToLearn(x.word)
  <2>1. PICK old \in d.patterns : r = mark(old)
    BY <1>3
  <2>2. CASE old.pattern = p /\ old.word_id = i
    <3>1. r.pattern = p /\ r.word_id = i
      BY <1>1, <2>1, <2>2 DEF GoodDb, Db, PatternRow
    <3> QED BY <1>2, <1>4, <3>1
  <2>3. CASE ~(old.pattern = p /\ old.word_id = i)
    <3>1. r = old
      BY <2>1, <2>3
    <3> QED BY <1>1, <1>2, <1>5, <3>1 DEF LearnedForWords
  <2> QED BY <2>2, <2>3
<1>6. LearnedForWords(e)
  BY <1>5 DEF LearnedForWords
<1> HIDE DEF e
<1>7. OneToOne(e) /\ IsFiniteSet(e.words)
  BY <1>1, <1>2 DEF OneToOne
<1>8. e \in Files
  BY <1>2, <1>6, <1>7, FileIs
<1>9. Stored(e, w) /\ IdOf(e, w) = i
  BY <1>2, <1>8, StaysStored
<1>10. p \in LearnedOf(e, w)
  BY <1>2, <1>9 DEF LearnedOf
<1> QED BY <1>2, <1>8, <1>10 DEF After, e

\* A prefix, or a product of the word.
LEMMA PatternAttached ==
  ASSUME NEW d \in Files, NEW tokens \in Seq(SchemeToken), NEW w, NEW isPrefix \in BOOLEAN,
         ~isPrefix => Stored(d, w) /\ PatternOf(tokens) \in PatternsToLearn(w)
  PROVE  /\ Attach(d, tokens, w, isPrefix) \in After(d)
         /\ ~isPrefix => PatternOf(tokens) \in LearnedOf(Attach(d, tokens, w, isPrefix), w)
<1> DEFINE p == PatternOf(tokens)
           i == IdOf(d, w)
           e == InsertPattern(d, p, i)
           m == MarkLearned(e, p, i)
<1>1. p \in Text /\ i \in Int
  BY PatternOfTyped, FileIs, IdOfType
<1>2. Attach(d, tokens, w, isPrefix) = IF isPrefix THEN e ELSE m
  BY DEF Attach, PersistPattern
<1> HIDE DEF p, i
<1>3. e \in After(d) /\ \E r \in e.patterns : r.pattern = p /\ r.word_id = i
  BY <1>1, InsertedPattern
<1> HIDE DEF e
<1>4. CASE isPrefix
  BY <1>2, <1>3, <1>4
<1>5. CASE ~isPrefix
  <2>1. e \in Files /\ Stored(e, w) /\ IdOf(e, w) = i
    BY <1>3, <1>5, StaysStored DEF After, i
  <2>2. m \in After(e) /\ p \in LearnedOf(m, w)
    BY <1>3, <1>5, <2>1, MarkedPattern DEF p
  <2>3. m \in After(d)
    BY <1>3, <2>2, AfterAfter
  <2> QED BY <1>2, <1>5, <2>2, <2>3 DEF p
<1> QED BY <1>4, <1>5

PrefixTurn(first, e, x) ==
  Attach(IF first THEN Learned(e, ResolveTokens(x), 1) ELSE e, x, ResolveTokens(x), TRUE)
LearningPrefixes == INSTANCE Loops_proofs WITH Turn <- PrefixTurn

ProductTurn(of, e, n) ==
  LearnPrefixes(Attach(e, of[1][n], of[2], FALSE), of[1][n], n = 1)
LearningProducts == INSTANCE Loops_proofs WITH Turn <- ProductTurn

LEMMA PrefixesTyped ==
  ASSUME NEW product \in Seq(SchemeToken)
  PROVE  PrefixesOf(product) \in Seq(Seq(SchemeToken))
<1> DEFINE k == Len(product)
           m == Max({0, k - 2})
           f == [n \in 1..m |-> SubSeq(product, 1, n + 1)]
<1>1. k \in Nat /\ \A i \in 1..k : product[i] \in SchemeToken
  BY LenProperties, ElementOfSeq
<1> HIDE DEF k
<1>2. m \in {0, k - 2} /\ \A y \in {0, k - 2} : m >= y
  <2>1. \E x \in {0, k - 2} : \A y \in {0, k - 2} : x >= y
    BY <1>1
  <2> QED BY <2>1 DEF Max
<1>3. m \in Nat
  BY <1>1, <1>2
<1> HIDE DEF m
<1>4. PrefixesOf(product) = f
  BY DEF PrefixesOf, m, k
<1>5. ASSUME NEW n \in 1..m
      PROVE  SubSeq(product, 1, n + 1) \in Seq(SchemeToken)
  <2> DEFINE l == n + 1
  <2>1. l \in Int /\ l <= k
    BY <1>1, <1>2, <1>3
  <2> HIDE DEF l
  <2>2. \A i \in 1..l : product[i] \in SchemeToken
    BY <1>1, <2>1
  <2>3. SubSeq(product, 1, l) \in Seq(SchemeToken)
    BY <2>1, <2>2, SubSeqProperties
  <2> QED BY <2>3 DEF l
<1>6. f = [n \in 1..m |-> f[n]] /\ \A n \in 1..m : f[n] \in Seq(SchemeToken)
  BY <1>5
<1> HIDE DEF f
<1> QED BY <1>3, <1>4, <1>6, ListOf

LEMMA PrefixesLearned ==
  ASSUME NEW d \in Files, NEW product \in Seq(SchemeToken), NEW first \in BOOLEAN
  PROVE  LearnPrefixes(d, product, first) \in After(d)
<1> DEFINE s == PrefixesOf(product)
<1>1. LearnPrefixes(d, product, first) = LearningPrefixes!Runs(first, d, s)
  BY DEF LearningPrefixes!Runs, LearningPrefixes!Loop, LearningPrefixes!Once, Loop, Once, PrefixTurn,
         LearnPrefixes
<1>2. Len(s) \in Nat /\ \A j \in 1..Len(s) : s[j] \in Seq(SchemeToken)
  BY PrefixesTyped, LenProperties, ElementOfSeq
<1> HIDE DEF s
<1>3. ASSUME NEW j \in 1..Len(s), NEW e \in After(d)
      PROVE  PrefixTurn(first, e, s[j]) \in After(d)
  <2> DEFINE w == ResolveTokens(s[j])
             l == IF first THEN Learned(e, w, 1) ELSE e
  <2>1. w \in Text /\ s[j] \in Seq(SchemeToken)
    BY <1>2, ResolveTokensTyped
  <2>2. e \in Files
    BY DEF After
  <2> HIDE DEF w
  <2>3. l \in After(e)
    BY <2>1, <2>2, WordLearned, AfterItself
  <2>4. l \in After(d)
    BY <2>2, <2>3, AfterAfter
  <2>5. PrefixTurn(first, e, s[j]) = Attach(l, s[j], w, TRUE)
    BY DEF PrefixTurn, w
  <2> HIDE DEF l
  <2>6. l \in Files
    BY <2>4 DEF After
  <2>7. Attach(l, s[j], w, TRUE) \in After(l)
    BY <2>1, <2>6, PatternAttached
  <2>8. Attach(l, s[j], w, TRUE) \in After(d)
    BY <2>4, <2>7, AfterAfter
  <2> QED BY <2>5, <2>8
<1>4. d \in After(d)
  BY AfterItself
<1>5. LearningPrefixes!Runs(first, d, s) \in After(d)
  BY <1>2, <1>3, <1>4, LearningPrefixes!StaysIn
<1> QED BY <1>1, <1>5

\* The first product of a word, whose pattern is always learned.
Preferred(w) == Products(Reduced(w))[1]

\* A word is learned product by product.
LEMMA LearnedByProducts ==
  ASSUME NEW d, NEW w, NEW c
  PROVE  LET products == Products(Reduced(w)) IN
         LearnInto(d, w, c) =
           LearningProducts!Runs(<<products, w>>, Learned(d, w, c), UpTo(Len(products)))
<1> DEFINE products == Products(Reduced(w))
           of == <<products, w>>
           s == UpTo(Len(products))
           start == Learned(d, w, c)
           learn(ps) == Loop(LAMBDA e, k : LearnPrefixes(Attach(e, ps[k], w, FALSE), ps[k], k = 1),
                             Learned(d, w, c), UpTo(Len(ps)))
<1>1. learn(products) = LearningProducts!Runs(of, start, s)
  BY DEF LearningProducts!Runs, LearningProducts!Loop, LearningProducts!Once, Loop, Once, ProductTurn
<1>2. LearnInto(d, w, c) = Once(learn, Once(Products, Reduced(w)))
  BY DEF LearnInto
<1>3. LearnInto(d, w, c) = learn(products)
  <2>1. Once(Products, Reduced(w)) = products
    <3> DEFINE p == Reduced(w)
    <3> HIDE DEF p
    <3>1. Once(Products, p) = CHOOSE y \in {Products(x) : x \in {p}} : TRUE
      BY DEF Once
    <3>2. {Products(x) : x \in {p}} = {Products(p)}
      OBVIOUS
    <3>3. Once(Products, p) = Products(p)
      BY <3>1, <3>2
    <3> QED BY <3>3 DEF p
  <2>2. Once(learn, products) = CHOOSE y \in {learn(x) : x \in {products}} : TRUE
    BY DEF Once
  <2>3. LearnInto(d, w, c) = CHOOSE y \in {learn(x) : x \in {products}} : TRUE
    BY <1>2, <2>1, <2>2
  <2> HIDE DEF learn, products
  <2>4. {learn(x) : x \in {products}} = {learn(products)}
    OBVIOUS
  <2> QED BY <2>3, <2>4
<1> QED BY <1>1, <1>3

LEMMA ProductsOf ==
  ASSUME NEW w \in Text
  PROVE  LET products == Products(Reduced(w))
             n == Len(products)
             s == UpTo(n)
         IN /\ n \in Nat \ {0} /\ DOMAIN products = 1..n
            /\ Len(s) = n /\ \A k \in 1..n : s[k] = k
            /\ \A k \in 1..n : products[k] \in Seq(SchemeToken) /\ PatternOf(products[k]) \in PatternsToLearn(w)
<1> DEFINE products == Products(Reduced(w))
           n == Len(products)
           s == UpTo(n)
<1>1. products \in Seq(Seq(SchemeToken)) /\ n \in 1..MaxPatterns
  BY ReducedTyped, ProductsTyped
<1>2. n \in Nat \ {0} /\ DOMAIN products = 1..n
  BY <1>1, NoiseAssumption, LenProperties
<1>3. Len(s) = n /\ \A k \in 1..n : s[k] = k
  <2>1. n \in Nat
    BY <1>2
  <2> HIDE DEF n
  <2> QED BY <2>1, UpToIs
<1>4. \A k \in 1..n : products[k] \in Seq(SchemeToken)
  <2> HIDE DEF products
  <2> QED BY <1>1, ElementOfSeq
<1>5. \A k \in 1..n : products[k] \in ToSet(products)
  <2> HIDE DEF products, n
  <2> QED BY <1>2 DEF ToSet
<1>6. PatternsToLearn(w) = {PatternOf(x) : x \in ToSet(products)}
  BY DEF PatternsToLearn
<1> HIDE DEF products, n
<1>7. \A k \in 1..n : PatternOf(products[k]) \in PatternsToLearn(w)
  BY <1>5, <1>6
<1> QED BY <1>2, <1>3, <1>4, <1>7 DEF products, n

LEMMA LearnedInto ==
  ASSUME NEW d \in Files, NEW w \in Text, NEW c \in Int
  PROVE  /\ LearnInto(d, w, c) \in After(d)
         /\ Stored(LearnInto(d, w, c), w)
         /\ PatternsToLearn(w) \subseteq LearnedOf(LearnInto(d, w, c), w)
<1> DEFINE products == Products(Reduced(w))
           n == Len(products)
           of == <<products, w>>
           s == UpTo(n)
           start == Learned(d, w, c)
           Has(e, j) == PatternOf(products[j]) \in LearnedOf(e, w)
           D == [k \in 0..n |-> {e \in After(d) : Stored(e, w) /\ \A j \in 1..k : Has(e, j)}]
<1>1. LearnInto(d, w, c) = LearningProducts!Runs(of, start, s)
  BY LearnedByProducts
<1>2. /\ n \in Nat \ {0} /\ DOMAIN products = 1..n /\ Len(s) = n /\ \A k \in 1..n : s[k] = k
      /\ \A k \in 1..n : products[k] \in Seq(SchemeToken) /\ PatternOf(products[k]) \in PatternsToLearn(w)
  BY ProductsOf
<1>3. start \in After(d) /\ Stored(start, w)
  BY WordLearned
<1> HIDE DEF products, n, s, start, Has
<1>4. \A k \in 0..n : D[k] = {e \in After(d) : Stored(e, w) /\ \A j \in 1..k : Has(e, j)}
  OBVIOUS
<1> HIDE DEF D
<1>5. start \in D[0]
  <2>1. 0 \in 0..n /\ 1..0 = {}
    BY <1>2
  <2> QED BY <1>3, <1>4, <2>1
<1>6. ASSUME NEW k \in 1..n, NEW e \in D[k - 1]
      PROVE  ProductTurn(of, e, s[k]) \in D[k]
  <2> DEFINE x == products[k]
             first == (k = 1)
             a == Attach(e, x, w, FALSE)
             l == LearnPrefixes(a, x, first)
  <2>1. k - 1 \in 0..n /\ k \in 0..n /\ \A j \in 1..k : j = k \/ j \in 1..(k - 1)
    BY <1>2
  <2>2. e \in After(d) /\ Stored(e, w) /\ (\A j \in 1..(k - 1) : Has(e, j)) /\ e \in Files
    BY <1>4, <2>1 DEF After
  <2>3. ProductTurn(of, e, s[k]) = l
    <3>1. s[k] = k /\ of[1] = products /\ of[2] = w
      BY <1>2
    <3> HIDE DEF of
    <3> QED BY <3>1 DEF ProductTurn
  <2>4. x \in Seq(SchemeToken) /\ PatternOf(x) \in PatternsToLearn(w) /\ first \in BOOLEAN
    BY <1>2
  <2> HIDE DEF x, first
  <2>5. a \in After(e) /\ PatternOf(x) \in LearnedOf(a, w)
    BY <2>2, <2>4, PatternAttached
  <2> HIDE DEF a
  <2>6. a \in Files
    BY <2>5 DEF After
  <2>7. l \in After(a)
    BY <2>4, <2>6, PrefixesLearned
  <2> HIDE DEF l
  <2>8. l \in After(e)
    BY <2>2, <2>5, <2>7, AfterAfter
  <2>9. l \in After(d)
    BY <2>2, <2>8, AfterAfter
  <2>10. Stored(l, w) /\ LearnedOf(e, w) \subseteq LearnedOf(l, w)
    BY <2>2, <2>8, StaysStored DEF After
  <2>11. Stored(a, w) /\ LearnedOf(a, w) \subseteq LearnedOf(l, w)
    BY <2>2, <2>5, <2>6, <2>7, StaysStored DEF After
  <2>12. \A j \in 1..k : Has(l, j)
    <3>1. Has(l, k)
      BY <2>5, <2>11 DEF Has, x
    <3>2. \A j \in 1..(k - 1) : Has(l, j)
      BY <2>2, <2>10 DEF Has
    <3> QED BY <2>1, <3>1, <3>2
  <2> QED BY <1>4, <2>1, <2>3, <2>9, <2>10, <2>12
<1>7. LearningProducts!Runs(of, start, s) \in D[n]
  <2>1. Len(s) \in Nat /\ \A i \in 1..Len(s) : \A v \in D[i - 1] : ProductTurn(of, v, s[i]) \in D[i]
    BY <1>2, <1>6
  <2>2. LearningProducts!Runs(of, start, s) \in D[Len(s)]
    <3> HIDE DEF of
    <3> QED BY <1>5, <2>1, LearningProducts!StagesPassed
  <2> QED BY <1>2, <2>2
<1>8. n \in 0..n
  BY <1>2
<1>9. LearnInto(d, w, c) \in D[n]
  BY <1>1, <1>7
<1> DEFINE e == LearnInto(d, w, c)
<1> HIDE DEF e
<1>10. e \in After(d) /\ Stored(e, w) /\ \A j \in 1..n : Has(e, j)
  BY <1>4, <1>8, <1>9 DEF e
<1>11. \A p \in PatternsToLearn(w) : \E j \in 1..n : p = PatternOf(products[j])
  BY <1>2 DEF PatternsToLearn, ToSet, products
<1>12. PatternsToLearn(w) \subseteq LearnedOf(e, w)
  BY <1>10, <1>11 DEF Has
<1> QED BY <1>10, <1>12 DEF e

LEMMA PreferredToLearn ==
  ASSUME NEW w \in Text
  PROVE  PatternOf(Preferred(w)) \in PatternsToLearn(w)
<1> DEFINE products == Products(Reduced(w))
           n == Len(products)
<1>1. products \in Seq(Seq(SchemeToken)) /\ n \in 1..MaxPatterns
  BY ReducedTyped, ProductsTyped
<1>2. 1 \in DOMAIN products
  BY <1>1, NoiseAssumption, LenProperties
<1> HIDE DEF products
<1>3. products[1] \in ToSet(products)
  BY <1>2 DEF ToSet
<1> QED BY <1>3 DEF PatternsToLearn, Preferred, products

\* No more patterns are learned of a word than it has products.
LEMMA FewPatterns ==
  ASSUME NEW d \in Files, NEW w \in Text
  PROVE  Cardinality(LearnedOf(d, w)) <= MaxPatterns
<1> DEFINE products == Products(Reduced(w))
           n == Len(products)
           S == PatternsToLearn(w)
           f == [k \in 1..n |-> PatternOf(products[k])]
<1>1. products \in Seq(Seq(SchemeToken)) /\ n \in 1..MaxPatterns /\ n \in Nat /\ DOMAIN products = 1..n
  BY ReducedTyped, ProductsTyped, NoiseAssumption, LenProperties
<1>2. S = {PatternOf(x) : x \in {products[k] : k \in DOMAIN products}}
  BY DEF PatternsToLearn, ToSet
<1> HIDE DEF products, n, S
<1>3. f \in Surjection(1..n, S)
  BY <1>1, <1>2 DEF Surjection
<1>4. IsFiniteSet(1..n) /\ Cardinality(1..n) = n
  <2>1. 1 \in Int /\ n \in Int
    BY <1>1
  <2>2. IsFiniteSet(1..n) /\ Cardinality(1..n) = IF 1 > n THEN 0 ELSE n - 1 + 1
    BY <2>1, FS_Interval
  <2> QED BY <1>1, <2>2
<1> HIDE DEF f
<1>5. IsFiniteSet(S) /\ Cardinality(S) <= n
  BY <1>3, <1>4, FS_Surjection
<1>6. LearnedOf(d, w) \subseteq S
  <2> SUFFICES ASSUME NEW p \in LearnedOf(d, w) PROVE p \in S
    OBVIOUS
  <2>1. PICK r \in d.patterns : r.pattern = p /\ Stored(d, w) /\ r.word_id = IdOf(d, w) /\ r.learned = 1
    BY DEF LearnedOf
  <2>2. GoodDb(d, Text, Text) /\ OneToOne(d) /\ LearnedForWords(d)
    BY FileIs
  <2>3. PICK q \in d.words : q.id = r.word_id /\ r.pattern \in PatternsToLearn(q.word)
    BY <2>1, <2>2 DEF LearnedForWords
  <2>4. PICK x \in d.words : x.word = w /\ x.id = IdOf(d, w)
    BY <2>1, <2>2, IdOfType
  <2>5. x = q
    BY <2>1, <2>2, <2>3, <2>4 DEF OneToOne
  <2> QED BY <2>1, <2>3, <2>4, <2>5 DEF S
<1>7. IsFiniteSet(LearnedOf(d, w)) /\ Cardinality(LearnedOf(d, w)) <= Cardinality(S)
  BY <1>5, <1>6, FS_Subset
<1>8. Cardinality(LearnedOf(d, w)) \in Nat /\ Cardinality(S) \in Nat /\ MaxPatterns \in Nat
  BY <1>5, <1>7, FS_CardinalityType, NoiseAssumption
<1> QED BY <1>1, <1>5, <1>7, <1>8

\* Another word keeps what it has when a word is deleted.
LEMMA RowsDeleted ==
  ASSUME NEW d \in Files, NEW w, Stored(d, w)
  PROVE  /\ DeleteRows(d, IdOf(d, w)) \in Files
         /\ \A v : v # w /\ Stored(d, v) =>
              /\ Stored(DeleteRows(d, IdOf(d, w)), v)
              /\ LearnedOf(d, v) \subseteq LearnedOf(DeleteRows(d, IdOf(d, w)), v)
<1> DEFINE i == IdOf(d, w)
           e == DeleteRows(d, i)
<1>1. GoodDb(d, Text, Text) /\ OneToOne(d) /\ IsFiniteSet(d.words) /\ LearnedForWords(d)
  BY FileIs
<1>2. GoodDb(e, Text, Text) /\ OneToOne(e)
  BY <1>1, DeleteRowsGood, DeleteRowsOneToOne
<1>3. e.words \subseteq d.words /\ \A q \in d.words : q.id # i => q \in e.words
  BY DEF DeleteRows
<1>4. \A r \in e.patterns : r \in d.patterns /\ r.word_id # i
  BY DEF DeleteRows
<1>5. \A r \in d.patterns : r.word_id # i => r \in e.patterns
  BY DEF DeleteRows
<1>6. PICK own \in d.words : own.word = w /\ own.id = i
  BY <1>1, IdOfType
<1> HIDE DEF i, e
<1>7. IsFiniteSet(e.words)
  BY <1>1, <1>3, FS_Subset
<1>8. LearnedForWords(e)
  <2> SUFFICES ASSUME NEW r \in e.patterns, r.learned = 1
               PROVE  \E q \in e.words : q.id = r.word_id /\ r.pattern \in PatternsToLearn(q.word)
    BY DEF LearnedForWords
  <2>1. PICK q \in d.words : q.id = r.word_id /\ r.pattern \in PatternsToLearn(q.word)
    BY <1>1, <1>4 DEF LearnedForWords
  <2> QED BY <1>3, <1>4, <2>1
<1>9. e \in Files
  BY <1>2, <1>7, <1>8, FileIs
<1>10. ASSUME NEW v, v # w, Stored(d, v)
       PROVE  Stored(e, v) /\ LearnedOf(d, v) \subseteq LearnedOf(e, v)
  <2>1. PICK q \in d.words : q.word = v
    BY <1>10 DEF Stored, RowsOf
  <2>2. q.id # i
    BY <1>1, <1>6, <1>10, <2>1 DEF OneToOne
  <2>3. q \in e.words
    BY <1>3, <2>2
  <2>4. IdOf(d, v) = q.id /\ IdOf(e, v) = q.id /\ Stored(e, v)
    BY <1>1, <1>2, <2>1, <2>3, IdOfRow
  <2>5. ASSUME NEW p \in LearnedOf(d, v) PROVE p \in LearnedOf(e, v)
    <3>1. PICK r \in d.patterns : r.pattern = p /\ r.word_id = q.id /\ r.learned = 1
      BY <2>4 DEF LearnedOf
    <3>2. r \in e.patterns
      BY <1>5, <2>2, <3>1
    <3> QED BY <2>4, <3>1, <3>2 DEF LearnedOf
  <2> QED BY <2>4, <2>5
<1> QED BY <1>9, <1>10 DEF e, i

-----------------------------------------------------------------------------
(* The preferred tokens of a word.                                         *)

\* Tokens were taken away from some positions, but not the first one.
Preferring(p) ==
  {q \in Positions :
     /\ DOMAIN q = DOMAIN p /\ Len(q) = Len(p)
     /\ \A i \in DOMAIN p : q[i] # <<>> /\ q[i][1] = p[i][1] /\ Len(q[i]) <= Len(p[i])}

\* Of several tokens, the first is not of low priority.
Firm(p) == \A i \in DOMAIN p : Len(p[i]) > 1 => p[i][1].sym.priority > Low

LEMMA FirstKept ==
  ASSUME NEW p \in Seq(Seq(SchemeToken) \ {<<>>}), NEW q \in Preferring(p), NEW k,
         NEW item, k \in DOMAIN p => /\ item \in Seq(SchemeToken) /\ item # <<>> /\ item[1] = q[k][1]
                                     /\ Len(item) <= Len(q[k])
  PROVE  [q EXCEPT ![k] = item] \in Preferring(p)
<1> DEFINE r == [q EXCEPT ![k] = item]
<1>1. /\ q \in Positions /\ DOMAIN q = DOMAIN p /\ Len(q) = Len(p)
      /\ \A i \in DOMAIN p : q[i] # <<>> /\ q[i][1] = p[i][1] /\ Len(q[i]) <= Len(p[i])
  BY DEF Preferring
<1>2. /\ r \in Positions /\ DOMAIN r = DOMAIN q /\ Len(r) = Len(q)
      /\ \A j \in DOMAIN q : r[j] = IF j = k THEN item ELSE q[j]
  BY <1>1, PositionChanged
<1> HIDE DEF r
<1>3. ASSUME NEW i \in DOMAIN p
      PROVE  r[i] # <<>> /\ r[i][1] = p[i][1] /\ Len(r[i]) <= Len(p[i])
  <2>1. CASE i # k
    BY <1>1, <1>2, <2>1
  <2>2. CASE i = k
    <3>1. r[i] = item /\ item # <<>> /\ item[1] = p[i][1] /\ Len(item) <= Len(q[i]) /\ Len(q[i]) <= Len(p[i])
      BY <1>1, <1>2, <2>2
    <3>2. Len(item) \in Nat /\ Len(q[i]) \in Nat /\ Len(p[i]) \in Nat
      <4>1. q[i] \in Seq(SchemeToken) /\ p[i] \in Seq(SchemeToken) /\ item \in Seq(SchemeToken)
        BY <1>1, <2>2, ElementOfSeq DEF Positions
      <4> QED BY <4>1, LenProperties
    <3> QED BY <3>1, <3>2
  <2> QED BY <2>1, <2>2
<1> QED BY <1>1, <1>2, <1>3 DEF Preferring, r

LEMMA PreferringItself ==
  ASSUME NEW p \in Seq(Seq(SchemeToken) \ {<<>>})
  PROVE  p \in Preferring(p)
<1>1. p \in Positions
  <2>1. Seq(SchemeToken) \ {<<>>} \subseteq Seq(SchemeToken)
    OBVIOUS
  <2> QED BY <2>1, SeqMonotonic DEF Positions
<1>2. \A i \in DOMAIN p : p[i] # <<>> /\ Len(p[i]) \in Nat
  <2>1. \A i \in DOMAIN p : p[i] \in Seq(SchemeToken) \ {<<>>}
    BY ElementOfSeq
  <2> QED BY <2>1, LenProperties
<1> QED BY <1>1, <1>2 DEF Preferring

LEMMA LowRemoved ==
  ASSUME NEW p \in Seq(Seq(SchemeToken) \ {<<>>}), Firm(p)
  PROVE  RemoveLow(p) \in Preferring(p)
<1> DEFINE s == UpTo(Len(p))
<1>1. RemoveLow(p) = Lowering!Runs(0, p, s)
  BY DEF Lowering!Runs, Lowering!Loop, Lowering!Once, Loop, Once, LowTurn, RemoveLow
<1>2. Len(p) \in Nat /\ Len(s) = Len(p)
  BY LenProperties, UpToIs
<1>3. ASSUME NEW i \in 1..Len(s), NEW q \in Preferring(p)
      PROVE  LowTurn(0, q, s[i]) \in Preferring(p)
  <2> DEFINE k == s[i]
  <2>1. CASE Len(q[k]) = 1
    BY <2>1, WithoutLowIs DEF LowTurn
  <2>2. CASE Len(q[k]) # 1
    <3> HIDE DEF k
    <3>1. ASSUME k \in DOMAIN p
          PROVE  /\ High(q[k]) \in Seq(SchemeToken) /\ High(q[k]) # <<>> /\ High(q[k])[1] = q[k][1]
                 /\ Len(High(q[k])) <= Len(q[k])
      <4>1. q[k] \in Seq(SchemeToken) /\ q[k] # <<>> /\ q[k][1] = p[k][1] /\ Len(q[k]) <= Len(p[k])
        BY <3>1, ElementOfSeq DEF Preferring, Positions
      <4>2. Len(q[k]) \in Nat \ {0} /\ Len(p[k]) \in Nat
        BY <3>1, <4>1, EmptySeq, LenProperties, ElementOfSeq
      <4>3. q[k][1].sym.priority > Low
        <5> DEFINE m == Len(q[k])
                   n == Len(p[k])
        <5>1. n > 1
          <6>1. m \in Nat \ {0} /\ n \in Nat /\ m <= n /\ m # 1
            BY <2>2, <4>1, <4>2 DEF k
          <6> HIDE DEF m, n
          <6> QED BY <6>1
        <5>2. p[k][1].sym.priority > Low
          BY <3>1, <5>1 DEF Firm
        <5> QED BY <4>1, <5>2
      <4> QED BY <4>1, <4>3, HighOnes
    <3>2. [q EXCEPT ![k] = High(q[k])] \in Preferring(p)
      BY <3>1, FirstKept
    <3> QED BY <3>2, WithoutLowIs DEF LowTurn, k
  <2> QED BY <2>1, <2>2
<1> HIDE DEF s
<1>4. p \in Preferring(p)
  BY PreferringItself
<1>5. Lowering!Runs(0, p, s) \in Preferring(p)
  BY <1>2, <1>3, <1>4, Lowering!StaysIn
<1> QED BY <1>1, <1>5

LEMMA TokensPopped ==
  ASSUME NEW p \in Seq(Seq(SchemeToken) \ {<<>>}), NEW start \in Preferring(p)
  PROVE  PopUntilFits(start) \in Preferring(p)
<1> DEFINE s == UpTo(TokensIn(start))
<1>1. PopUntilFits(start) = Popping!Runs(0, start, s)
  BY DEF Popping!Runs, Popping!Loop, Popping!Once, Loop, Once, PopTurn, PopUntilFits
<1>2. Len(s) \in Nat
  <2>1. start \in Positions
    BY DEF Preferring
  <2> QED BY <2>1, TokensInNat, UpToIs
<1>3. ASSUME NEW i \in 1..Len(s), NEW q \in Preferring(p)
      PROVE  PopTurn(0, q, s[i]) \in Preferring(p)
  <2> DEFINE k == NextArray(q)
  <2>1. q \in Positions /\ DOMAIN q = DOMAIN p /\ \A j \in DOMAIN p : q[j] # <<>> /\ q[j] \in Seq(SchemeToken)
    BY ElementOfSeq DEF Preferring, Positions
  <2>2. q \in Seq(Seq(SchemeToken) \ {<<>>})
    <3> DEFINE n == Len(q)
    <3>1. n \in Nat /\ DOMAIN q = 1..n /\ q = [j \in 1..n |-> q[j]]
      BY <2>1, LenProperties DEF Positions
    <3>2. \A j \in 1..n : q[j] \in Seq(SchemeToken) \ {<<>>}
      BY <2>1, <3>1
    <3> HIDE DEF n
    <3> QED BY <3>1, <3>2, ListOf
  <2>3. k \in DOMAIN q => Len(q[k]) # 1
    BY <2>2, NextArrayFound
  <2> HIDE DEF k
  <2>4. ASSUME k \in DOMAIN p
        PROVE  /\ Front(q[k]) \in Seq(SchemeToken) /\ Front(q[k]) # <<>> /\ Front(q[k])[1] = q[k][1]
               /\ Len(Front(q[k])) <= Len(q[k])
    <3>1. q[k] \in Seq(SchemeToken) /\ q[k] # <<>> /\ Len(q[k]) # 1
      BY <2>1, <2>3, <2>4
    <3> DEFINE item == q[k]
    <3>2. item \in Seq(SchemeToken) /\ item # <<>> /\ Len(item) # 1
      BY <3>1
    <3> HIDE DEF item
    <3>3. Len(item) > 1
      <4> DEFINE n == Len(item)
      <4>1. n \in Nat
        BY <3>2, LenProperties
      <4>2. n # 0 /\ n # 1
        BY <3>2, EmptySeq
      <4> HIDE DEF n
      <4>3. n > 1
        BY <4>1, <4>2
      <4> QED BY <4>3 DEF n
    <3> QED BY <3>2, <3>3, FrontTyped DEF item
  <2>5. [q EXCEPT ![k] = Front(q[k])] \in Preferring(p)
    BY <2>4, FirstKept
  <2>6. Popped(q, k) \in Preferring(p)
    BY <2>5 DEF Popped
  <2> QED BY <2>6 DEF PopTurn, k
<1> HIDE DEF s
<1>4. Popping!Runs(0, start, s) \in Preferring(p)
  BY <1>2, <1>3, Popping!StaysIn
<1> QED BY <1>1, <1>4

\* Sequences of one element each, joined.
LEMMA FlattenOnes ==
  ASSUME NEW X, NEW s \in Seq(X)
  PROVE  FlattenSeq([i \in DOMAIN s |-> <<s[i]>>]) = s
<1> DEFINE n == Len(s)
           one(i) == <<s[i]>>
           t == [i \in DOMAIN s |-> one(i)]
<1>1. n \in Nat /\ DOMAIN s = 1..n /\ \A i \in 1..n : s[i] \in X
  BY LenProperties, ElementOfSeq
<1>2. \A i \in 1..n : one(i) \in Seq(X) /\ Len(one(i)) = 1 /\ one(i)[1] = s[i]
  BY <1>1
<1>3. /\ t = [i \in 1..n |-> t[i]]
      /\ \A i \in 1..n : t[i] \in Seq(X) /\ Len(t[i]) = 1 /\ t[i][1] = s[i]
  BY <1>1, <1>2
<1> HIDE DEF one, t
<1>4. t \in Seq(Seq(X)) /\ Len(t) = n
  BY <1>1, <1>3, ListOf
<1>5. CASE n = 0
  <2>1. s = <<>> /\ t = <<>>
    BY <1>4, <1>5, EmptySeq
  <2> QED BY <2>1 DEF FlattenSeq, t, one
<1>6. CASE n # 0
  <2>1. t # <<>>
    BY <1>4, <1>6, EmptySeq
  <2>2. PICK f : Joins(f, t, n) /\ FlattenSeq(t) = f[n]
    BY <1>4, <2>1, FlattenJoins
  <2> HIDE DEF n
  <2>3. \A i \in 1..n : f[i] = IF i = 1 THEN t[i] ELSE f[i - 1] \o t[i]
    BY <2>2, JoinsAt
  <2> DEFINE Right(i) == f[i] \in Seq(X) /\ Len(f[i]) = i /\ \A j \in 1..i : f[i][j] = s[j]
             Bad == {i \in 1..n : ~Right(i)}
  <2>4. Bad = {}
    <3> SUFFICES ASSUME Bad # {} PROVE FALSE
      OBVIOUS
    <3>1. PICK i \in Bad : \A j \in Bad : ~(j < i)
      <4>1. Bad \subseteq Nat
        OBVIOUS
      <4>2. PICK i \in Bad : \A j \in Bad : <<j, i>> \notin OpToRel(<, Nat)
        BY <4>1, WFMin, NatLessThanWellFounded
      <4> QED BY <4>1, <4>2 DEF OpToRel
    <3>2. i \in 1..n /\ ~Right(i)
      BY <3>1
    <3>3. CASE i = 1
      <4>1. f[i] = t[1] /\ Len(t[1]) = 1 /\ t[1][1] = s[1] /\ t[1] \in Seq(X)
        BY <1>3, <2>3, <3>2, <3>3
      <4>2. Right(i)
        BY <3>3, <4>1
      <4> QED BY <3>2, <4>2
    <3>4. CASE i # 1
      <4>1. i - 1 \in 1..n /\ i - 1 < i
        BY <1>1, <3>2, <3>4
      <4>2. Right(i - 1)
        BY <3>1, <4>1
      <4> DEFINE u == f[i - 1]
                 v == t[i]
      <4>3. u \in Seq(X) /\ v \in Seq(X) /\ Len(u) = i - 1 /\ Len(v) = 1 /\ v[1] = s[i]
            /\ \A j \in 1..(i - 1) : u[j] = s[j]
        BY <1>3, <3>2, <4>2
      <4>4. f[i] = u \o v
        BY <2>3, <3>2, <3>4
      <4> HIDE DEF u, v
      <4>5. /\ u \o v \in Seq(X) /\ Len(u \o v) = Len(u) + Len(v)
            /\ \A j \in 1..(Len(u) + Len(v)) :
                 (u \o v)[j] = IF j <= Len(u) THEN u[j] ELSE v[j - Len(u)]
        BY <4>3, ConcatProperties
      <4>6. Len(u) + Len(v) = i
        BY <3>2, <4>3
      <4>7. ASSUME NEW j \in 1..i PROVE (u \o v)[j] = s[j]
        <5>1. CASE j <= i - 1
          BY <4>3, <4>5, <4>6, <5>1
        <5>2. CASE ~(j <= i - 1)
          <6>1. j = i /\ j - Len(u) = 1 /\ ~(j <= Len(u))
            BY <3>2, <4>3, <5>2
          <6> QED BY <4>3, <4>5, <4>6, <6>1
        <5> QED BY <5>1, <5>2
      <4>8. Right(i)
        BY <4>4, <4>5, <4>6, <4>7
      <4> QED BY <3>2, <4>8
    <3> QED BY <3>3, <3>4
  <2>5. Right(n)
    BY <1>1, <1>6, <2>4
  <2>6. f[n] = s
    BY <2>5, SeqEqual DEF n
  <2> QED BY <2>2, <2>6 DEF t, one
<1> QED BY <1>5, <1>6

LEMMA FirstProduct ==
  ASSUME NEW p \in Seq(Seq(SchemeToken) \ {<<>>}), NEW q \in Preferring(p)
  PROVE  ProductAt(q, Ones(q)) = FirstTokens(p)
<1> DEFINE o == Ones(q)
           part(i) == IF o[i] <= Len(q[i]) THEN <<q[i][o[i]]>> ELSE <<>>
           first == FirstTokens(p)
           s == [i \in DOMAIN q |-> part(i)]
           t == [i \in DOMAIN first |-> <<first[i]>>]
<1>1. ProductAt(q, o) = FlattenSeq(s)
  BY DEF ProductAt
<1>2. DOMAIN first = DOMAIN p /\ \A i \in DOMAIN p : first[i] = Head(p[i])
  BY DEF FirstTokens
<1>3. \A i \in DOMAIN q : o[i] = 1
  BY DEF Ones
<1>4. first \in Seq(SchemeToken)
  BY FirstTokensTyped
<1>5. /\ q \in Positions /\ DOMAIN q = DOMAIN p
      /\ \A i \in DOMAIN p : q[i] # <<>> /\ q[i][1] = p[i][1]
  BY DEF Preferring
<1> HIDE DEF o, first
<1>6. ASSUME NEW i \in DOMAIN p PROVE part(i) = <<first[i]>>
  <2>1. q[i] \in Seq(SchemeToken) /\ p[i] \in Seq(SchemeToken)
    BY <1>5, ElementOfSeq DEF Positions
  <2>2. Len(q[i]) \in Nat \ {0}
    BY <1>5, <2>1, EmptySeq, LenProperties
  <2>3. o[i] = 1 /\ o[i] <= Len(q[i])
    BY <1>3, <1>5, <2>2
  <2>4. part(i) = <<q[i][1]>>
    BY <2>3
  <2>5. first[i] = p[i][1]
    BY <1>2, <2>1, HeadTailProperties
  <2> QED BY <1>5, <2>4, <2>5
<1> HIDE DEF part
<1>7. s = t
  BY <1>2, <1>5, <1>6
<1>8. FlattenSeq(t) = first
  BY <1>4, FlattenOnes
<1> HIDE DEF s, t
<1> QED BY <1>1, <1>7, <1>8 DEF o, first

LEMMA PreferredIs ==
  ASSUME NEW w \in Text, Firm(Kept(w))
  PROVE  Preferred(w) = FirstTokens(Kept(w))
<1> DEFINE all == Tokenize(w, "value", "all")
           p == Kept(w)
           q == Reduced(w)
<1>1. p \in Seq(Seq(SchemeToken) \ {<<>>}) /\ q \in Positions
  BY ReducedTyped
<1>2. q \in Preferring(p)
  <2>1. CASE all = <<>>
    <3>1. ApplyAcceptance(<<>>) = <<>>
      <4> DEFINE empty == <<>>
                 s == UpTo(Len(empty))
                 D == {empty}
      <4>1. ApplyAcceptance(empty) = Placing!Runs(empty, <<>>, s)
        BY DEF Placing!Runs, Placing!Loop, Placing!Once, Loop, Once, PlaceTurn, ApplyAcceptance
      <4>2. Len(s) = 0
        BY UpToIs
      <4>3. <<>> \in D /\ Len(s) \in Nat
        BY <4>2
      <4> HIDE DEF empty, s, D
      <4>4. \A i \in 1..Len(s) : \A v \in D : PlaceTurn(empty, v, s[i]) \in D
        BY <4>2
      <4>5. Placing!Runs(empty, <<>>, s) \in D
        BY <4>3, <4>4, Placing!StaysIn
      <4> QED BY <4>1, <4>5 DEF D, empty
    <3>2. p = <<>> /\ q = <<>>
      BY <2>1, <3>1 DEF Kept, Reduced, ReduceNoise
    <3>3. p \in Preferring(p)
      BY <1>1, PreferringItself
    <3> QED BY <3>2, <3>3
  <2>2. CASE all # <<>>
    <3>1. q = PopUntilFits(RemoveLow(p))
      BY <2>2 DEF Kept, Reduced, ReduceNoise
    <3> HIDE DEF p, q
    <3>2. Firm(p)
      BY DEF p
    <3>3. RemoveLow(p) \in Preferring(p)
      BY <1>1, <3>2, LowRemoved
    <3> QED BY <1>1, <3>1, <3>3, TokensPopped
  <2> QED BY <2>1, <2>2
<1> HIDE DEF p, q
<1>3. ProductAt(q, Ones(q)) = FirstTokens(p)
  BY <1>1, <1>2, FirstProduct
<1>4. Products(q)[1] = ProductAt(q, Ones(q))
  BY <1>1, ProductsTyped
<1> QED BY <1>3, <1>4 DEF Preferred, p, q

-----------------------------------------------------------------------------
(* The tokens of low priority.                                             *)

AllHigh(s) == \A j \in DOMAIN s : s[j].sym.priority > Low

HasToken(s, t) == \E j \in DOMAIN s : s[j] = t

\* The tokens that are not low are kept, and no others.
LEMMA HighAre ==
  ASSUME NEW s \in Seq(SchemeToken)
  PROVE  AllHigh(High(s)) /\ \A j \in DOMAIN s : s[j].sym.priority > Low => HasToken(High(s), s[j])
<1> DEFINE n == Len(s)
           Good(k, kept) == AllHigh(kept) /\ \A j \in 1..k : s[j].sym.priority > Low => HasToken(kept, s[j])
           D == [k \in 0..n |-> {kept \in Seq(SchemeToken) : Good(k, kept)}]
<1>1. High(s) = Heightening!Runs(0, <<>>, s)
  BY DEF Heightening!Runs, Heightening!Loop, Heightening!Once, Loop, Once, HighTurn, High
<1>2. n \in Nat /\ DOMAIN s = 1..n /\ \A j \in 1..n : s[j] \in SchemeToken
  BY LenProperties, ElementOfSeq
<1> HIDE DEF n
<1>3. \A k \in 0..n : D[k] = {kept \in Seq(SchemeToken) : Good(k, kept)}
  OBVIOUS
<1> HIDE DEF D
<1>4. <<>> \in D[0]
  <2> DEFINE none == <<>>
  <2>1. 0 \in 0..n /\ none \in Seq(SchemeToken) /\ DOMAIN none = {} /\ 1..0 = {}
    BY <1>2
  <2> HIDE DEF none
  <2>2. Good(0, none)
    BY <2>1 DEF AllHigh
  <2>3. none \in D[0]
    BY <1>3, <2>1, <2>2
  <2> QED BY <2>3 DEF none
<1>5. ASSUME NEW k \in 1..n, NEW kept \in D[k - 1]
      PROVE  HighTurn(0, kept, s[k]) \in D[k]
  <2>1. k - 1 \in 0..n /\ k \in 0..n /\ \A j \in 1..k : j \in 1..(k - 1) \/ j = k
    BY <1>2
  <2>2. kept \in Seq(SchemeToken) /\ Good(k - 1, kept)
    BY <1>3, <2>1
  <2>3. CASE s[k].sym.priority > Low
    <3> DEFINE all == Append(kept, s[k])
               m == Len(kept)
    <3>1. HighTurn(0, kept, s[k]) = all
      BY <2>3 DEF HighTurn
    <3>2. m \in Nat /\ DOMAIN kept = 1..m
      BY <2>2, LenProperties
    <3>3. /\ all \in Seq(SchemeToken) /\ DOMAIN all = 1..(m + 1)
          /\ all[m + 1] = s[k] /\ \A i \in 1..m : all[i] = kept[i]
      BY <1>2, <2>2, AppendProperties, LenProperties
    <3> HIDE DEF all, m
    <3>4. \A i \in 1..(m + 1) : i \in 1..m \/ i = m + 1
      BY <3>2
    <3>5. AllHigh(all)
      BY <2>2, <2>3, <3>2, <3>3, <3>4 DEF AllHigh
    <3>6. \A t : HasToken(kept, t) => HasToken(all, t)
      BY <3>2, <3>3 DEF HasToken
    <3>7. HasToken(all, s[k])
      BY <3>2, <3>3 DEF HasToken
    <3>8. Good(k, all)
      BY <2>1, <2>2, <3>5, <3>6, <3>7
    <3> HIDE DEF Good
    <3> QED BY <1>3, <2>1, <3>1, <3>3, <3>8
  <2>4. CASE ~(s[k].sym.priority > Low)
    <3>1. HighTurn(0, kept, s[k]) = kept
      BY <2>4 DEF HighTurn
    <3>2. Good(k, kept)
      BY <2>1, <2>2, <2>4
    <3> HIDE DEF Good
    <3> QED BY <1>3, <2>1, <2>2, <3>1, <3>2
  <2> QED BY <2>3, <2>4
<1>6. Heightening!Runs(0, <<>>, s) \in D[n]
  BY <1>2, <1>4, <1>5, Heightening!StagesPassed DEF n
<1> QED BY <1>1, <1>2, <1>3, <1>6

\* No token of high priority is gone.
HighKept(p, q) ==
  \A i \in DOMAIN p : \A j \in DOMAIN p[i] : p[i][j].sym.priority > Low => HasToken(q[i], p[i][j])

\* Where several tokens are left, none is low.
Chosen(q, i) == Len(q[i]) > 1 => AllHigh(q[i])

\* Tokens of low priority are taken away position by position, as long as there are too
\* many products.
LEMMA LowFirst ==
  ASSUME NEW p \in Positions
  PROVE  LET q == RemoveLow(p) IN
         /\ q \in Positions /\ DOMAIN q = DOMAIN p
         /\ HighKept(p, q)
         /\ TooMany(q) => \A i \in DOMAIN p : Chosen(q, i)
<1> DEFINE s == UpTo(Len(p))
           n == Len(s)
           Good(k, q) == /\ DOMAIN q = DOMAIN p /\ HighKept(p, q)
                         /\ TooMany(q) => \A i \in 1..k : Chosen(q, i)
           D == [k \in 0..n |-> {q \in Positions : Good(k, q)}]
<1>1. RemoveLow(p) = Lowering!Runs(0, p, s)
  BY DEF Lowering!Runs, Lowering!Loop, Lowering!Once, Loop, Once, LowTurn, RemoveLow
<1>2. n \in Nat /\ n = Len(p) /\ DOMAIN p = 1..n /\ \A i \in 1..n : s[i] = i /\ p[i] \in Seq(SchemeToken)
  BY LenProperties, ElementOfSeq, UpToIs DEF Positions
<1> HIDE DEF s, n
<1>3. \A k \in 0..n : D[k] = {q \in Positions : Good(k, q)}
  OBVIOUS
<1> HIDE DEF D
<1>4. p \in D[0]
  <2>1. HighKept(p, p)
    BY DEF HighKept, HasToken
  <2>2. 0 \in 0..n /\ 1..0 = {}
    BY <1>2
  <2>3. Good(0, p)
    BY <2>1, <2>2
  <2> HIDE DEF Good
  <2> QED BY <1>3, <2>2, <2>3
<1>5. ASSUME NEW k \in 1..n, NEW q \in D[k - 1]
      PROVE  LowTurn(0, q, s[k]) \in D[k]
  <2>1. k - 1 \in 0..n /\ k \in 0..n /\ \A j \in 1..k : j \in 1..(k - 1) \/ j = k
    BY <1>2
  <2>2. q \in Positions /\ Good(k - 1, q)
    BY <1>3, <2>1
  <2>3. k \in DOMAIN q /\ q[k] \in Seq(SchemeToken) /\ s[k] = k
    BY <1>2, <2>2, ElementOfSeq DEF Positions
  <2>4. CASE ~TooMany(q)
    <3>1. LowTurn(0, q, s[k]) = q /\ Good(k, q)
      BY <2>2, <2>4 DEF LowTurn
    <3> HIDE DEF Good
    <3> QED BY <1>3, <2>1, <2>2, <3>1
  <2>5. CASE TooMany(q) /\ Len(q[k]) = 1
    <3>1. LowTurn(0, q, s[k]) = q
      BY <2>3, <2>5, WithoutLowIs DEF LowTurn
    <3>2. Chosen(q, k)
      BY <2>5 DEF Chosen
    <3>3. Good(k, q)
      BY <2>1, <2>2, <2>5, <3>2
    <3> HIDE DEF Good
    <3> QED BY <1>3, <2>1, <2>2, <3>1, <3>3
  <2>6. CASE TooMany(q) /\ Len(q[k]) # 1
    <3> DEFINE item == High(q[k])
               r == [q EXCEPT ![k] = item]
    <3>1. LowTurn(0, q, s[k]) = r
      BY <2>3, <2>6, WithoutLowIs DEF LowTurn
    <3>2. /\ item \in Seq(SchemeToken) /\ AllHigh(item)
          /\ \A j \in DOMAIN q[k] : q[k][j].sym.priority > Low => HasToken(item, q[k][j])
      BY <2>3, HighOnes, HighAre
    <3> HIDE DEF item
    <3>3. /\ r \in Positions /\ DOMAIN r = DOMAIN q
          /\ \A j \in DOMAIN q : r[j] = IF j = k THEN item ELSE q[j]
      BY <2>2, <3>2, PositionChanged
    <3> HIDE DEF r
    <3>4. HighKept(p, r)
      <4> SUFFICES ASSUME NEW i \in DOMAIN p, NEW j \in DOMAIN p[i], p[i][j].sym.priority > Low
                   PROVE  HasToken(r[i], p[i][j])
        BY DEF HighKept
      <4>1. HasToken(q[i], p[i][j]) /\ i \in DOMAIN q
        BY <2>2 DEF HighKept
      <4>2. CASE i = k
        <5>1. PICK m \in DOMAIN q[k] : q[k][m] = p[i][j]
          BY <4>1, <4>2 DEF HasToken
        <5> QED BY <3>2, <3>3, <4>1, <4>2, <5>1
      <4>3. CASE i # k
        BY <3>3, <4>1, <4>3
      <4> QED BY <4>2, <4>3
    <3>5. \A i \in 1..k : Chosen(r, i)
      <4>1. ASSUME NEW i \in 1..k PROVE Chosen(r, i)
        <5>1. i \in DOMAIN q
          BY <1>2, <2>2
        <5>2. CASE i = k
          BY <3>2, <3>3, <5>1, <5>2 DEF Chosen
        <5>3. CASE i # k
          BY <2>1, <2>2, <2>6, <3>3, <5>1, <5>3 DEF Chosen
        <5> QED BY <5>2, <5>3
      <4> QED BY <4>1
    <3>6. Good(k, r)
      BY <2>2, <3>3, <3>4, <3>5
    <3> HIDE DEF Good
    <3> QED BY <1>3, <2>1, <3>1, <3>3, <3>6
  <2> QED BY <2>4, <2>5, <2>6
<1>6. Lowering!Runs(0, p, s) \in D[n]
  BY <1>2, <1>4, <1>5, Lowering!StagesPassed DEF n
<1> QED BY <1>1, <1>2, <1>3, <1>6

\* What is left of a position without its last token.
LEMMA FrontItems ==
  ASSUME NEW S, NEW s \in Seq(S)
  PROVE  \A j \in DOMAIN Front(s) : j \in DOMAIN s /\ Front(s)[j] = s[j]
<1> DEFINE n == Len(s) - 1
           r == SubSeq(s, 1, n)
<1>1. Len(s) \in Nat /\ DOMAIN s = 1..Len(s) /\ \A i \in 1..Len(s) : s[i] \in S
  BY LenProperties, ElementOfSeq
<1>2. Front(s) = r /\ n \in Int /\ n < Len(s)
  BY <1>1 DEF Front
<1>3. \A i \in 1..n : s[i] \in S /\ i \in 1..Len(s)
  BY <1>1
<1> HIDE DEF n
<1>4. /\ r \in Seq(S)
      /\ Len(r) = IF 1 <= n THEN n - 1 + 1 ELSE 0
      /\ \A i \in 1..(n - 1 + 1) : r[i] = s[1 + i - 1]
  BY <1>2, <1>3, SubSeqProperties
<1> HIDE DEF r
<1>5. DOMAIN r = 1..Len(r)
  BY <1>4, LenProperties
<1>6. \A j \in 1..Len(r) : j \in 1..n /\ j \in 1..(n - 1 + 1) /\ 1 + j - 1 = j
  BY <1>2, <1>4
<1> QED BY <1>1, <1>2, <1>3, <1>4, <1>5, <1>6

\* Popping takes no token when there are not too many products, and puts none back.
LEMMA PoppedLast ==
  ASSUME NEW p \in Positions
  PROVE  LET q == PopUntilFits(p) IN
         /\ ~TooMany(p) => q = p
         /\ (\A i \in DOMAIN p : Chosen(p, i)) => DOMAIN q = DOMAIN p /\ \A i \in DOMAIN p : Chosen(q, i)
<1> DEFINE s == UpTo(TokensIn(p))
           A == {p}
           B == {q \in Positions : DOMAIN q = DOMAIN p /\ \A i \in DOMAIN p : Chosen(q, i)}
<1>1. PopUntilFits(p) = Popping!Runs(0, p, s)
  BY DEF Popping!Runs, Popping!Loop, Popping!Once, Loop, Once, PopTurn, PopUntilFits
<1>2. Len(s) \in Nat
  BY TokensInNat, UpToIs
<1> HIDE DEF s
<1>3. ASSUME ~TooMany(p) PROVE Popping!Runs(0, p, s) = p
  <2>1. \A i \in 1..Len(s) : \A q \in A : PopTurn(0, q, s[i]) \in A
    BY <1>3 DEF PopTurn
  <2>2. p \in A
    OBVIOUS
  <2> HIDE DEF A
  <2>3. Popping!Runs(0, p, s) \in A
    BY <1>2, <2>1, <2>2, Popping!StaysIn
  <2> QED BY <2>3 DEF A
<1>4. ASSUME \A i \in DOMAIN p : Chosen(p, i) PROVE Popping!Runs(0, p, s) \in B
  <2>1. ASSUME NEW i \in 1..Len(s), NEW q \in B PROVE PopTurn(0, q, s[i]) \in B
    <3> DEFINE k == NextArray(q)
               item == Front(q[k])
               r == [q EXCEPT ![k] = item]
    <3>1. q \in Positions /\ DOMAIN q = DOMAIN p /\ \A j \in DOMAIN p : Chosen(q, j)
      OBVIOUS
    <3> HIDE DEF B, k
    <3>2. k \in DOMAIN q => q[k] \in Seq(SchemeToken)
      BY <3>1, ElementOfSeq DEF Positions
    <3>3. k \in DOMAIN q => /\ item \in Seq(SchemeToken) /\ Len(item) <= Len(q[k])
                            /\ \A j \in DOMAIN item : j \in DOMAIN q[k] /\ item[j] = q[k][j]
      BY <3>2, FrontTyped, FrontItems
    <3>4. k \in DOMAIN q => Len(item) \in Nat /\ Len(q[k]) \in Nat
      BY <3>2, <3>3, LenProperties
    <3> HIDE DEF item
    <3>5. /\ r \in Positions /\ DOMAIN r = DOMAIN q
          /\ \A j \in DOMAIN q : r[j] = IF j = k THEN item ELSE q[j]
      BY <3>1, <3>3, PositionChanged
    <3>6. Popped(q, k) = r
      BY DEF Popped, item
    <3> HIDE DEF r
    <3>7. ASSUME NEW j \in DOMAIN p PROVE Chosen(r, j)
      <4>1. CASE j = k
        <5>1. r[j] = item /\ Chosen(q, k) /\ k \in DOMAIN q
          BY <3>1, <3>5, <4>1
        <5>2. ASSUME Len(item) > 1 PROVE AllHigh(item)
          <6>1. Len(q[k]) > 1
            BY <3>3, <3>4, <5>1, <5>2
          <6>2. AllHigh(q[k])
            BY <5>1, <6>1 DEF Chosen
          <6> QED BY <3>3, <5>1, <6>2 DEF AllHigh
        <5> QED BY <5>1, <5>2 DEF Chosen
      <4>2. CASE j # k
        BY <3>1, <3>5, <4>2 DEF Chosen
      <4> QED BY <4>1, <4>2
    <3>8. r \in B
      BY <3>1, <3>5, <3>7 DEF B
    <3> QED BY <3>6, <3>8 DEF PopTurn, k
  <2>2. p \in B
    BY <1>4
  <2> HIDE DEF B
  <2> QED BY <1>2, <2>1, <2>2, Popping!StaysIn
<1> QED BY <1>1, <1>3, <1>4

\* Of a word, none but low tokens are given up while a choice between low ones is left.
LEMMA LowGoneFirst ==
  ASSUME NEW w \in Text
  PROVE  LET p == Kept(w)
             q == Reduced(w)
         IN (\E i \in DOMAIN p : \E t \in ToSet(p[i]) : t.sym.priority > Low /\ t \notin ToSet(q[i])) =>
              \A i \in DOMAIN q : Len(q[i]) > 1 => \A t \in ToSet(q[i]) : t.sym.priority > Low
<1> DEFINE all == Tokenize(w, "value", "all")
           p == Kept(w)
           q == Reduced(w)
           r == RemoveLow(p)
<1>1. p \in Positions /\ q \in Positions
  <2>1. Seq(SchemeToken) \ {<<>>} \subseteq Seq(SchemeToken)
    OBVIOUS
  <2> QED BY <2>1, ReducedTyped, SeqMonotonic DEF Positions
<1>2. CASE all = <<>>
  <2>1. q = <<>>
    BY <1>2 DEF Reduced, ReduceNoise
  <2>2. DOMAIN q = {}
    BY <2>1
  <2> QED BY <2>2
<1>3. CASE all # <<>>
  <2>1. q = PopUntilFits(r)
    BY <1>3 DEF Kept, Reduced, ReduceNoise
  <2> HIDE DEF p, q
  <2>2. r \in Positions /\ DOMAIN r = DOMAIN p /\ HighKept(p, r) /\ (TooMany(r) => \A i \in DOMAIN p : Chosen(r, i))
    BY <1>1, LowFirst
  <2> HIDE DEF r
  <2>3. CASE TooMany(r)
    <3>1. DOMAIN q = DOMAIN p /\ \A i \in DOMAIN q : Chosen(q, i)
      BY <2>1, <2>2, <2>3, PoppedLast
    <3>2. \A i \in DOMAIN q : Len(q[i]) > 1 => \A t \in ToSet(q[i]) : t.sym.priority > Low
      BY <3>1 DEF Chosen, AllHigh, ToSet
    <3> QED BY <3>2 DEF p, q
  <2>4. CASE ~TooMany(r)
    <3>1. q = r
      BY <2>1, <2>2, <2>4, PoppedLast
    <3>2. \A i \in DOMAIN p : \A t \in ToSet(p[i]) : t.sym.priority > Low => t \in ToSet(q[i])
      BY <2>2, <3>1 DEF HighKept, HasToken, ToSet
    <3> QED BY <3>2 DEF p, q
  <2> QED BY <2>3, <2>4
<1> QED BY <1>2, <1>3

-----------------------------------------------------------------------------
(* Words that are read of a learnings file.                                *)

\* A list of words without one twice.
WordLists == {words \in Seq(Text) : IsInjective(words)}

LEMMA NoWords == <<>> \in WordLists
<1> DEFINE none == <<>>
<1>1. none \in Seq(Text) /\ DOMAIN none = {}
  OBVIOUS
<1> HIDE DEF none
<1>2. none \in WordLists
  BY <1>1 DEF WordLists, IsInjective
<1> QED BY <1>2 DEF none

LEMMA WordsOfTyped ==
  ASSUME NEW rows \in Seq(WordRow(Text))
  PROVE  WordsOf(rows) \in Seq(Text)
<1> DEFINE n == Len(rows)
           f == WordsOf(rows)
<1>1. n \in Nat /\ DOMAIN rows = 1..n /\ \A i \in 1..n : rows[i] \in WordRow(Text)
  BY LenProperties, ElementOfSeq
<1>2. f = [i \in 1..n |-> rows[i].word]
  BY <1>1 DEF WordsOf
<1>3. \A i \in 1..n : rows[i].word \in Text
  BY <1>1 DEF WordRow
<1> HIDE DEF f, n
<1>4. f = [i \in 1..n |-> f[i]] /\ \A i \in 1..n : f[i] \in Text
  BY <1>2, <1>3
<1> QED BY <1>1, <1>4, ListOf DEF f

LEMMA RowsTyped ==
  ASSUME NEW d \in Files, NEW ids
  PROVE  LET S == {r \in d.words : r.id \in ids} IN
         /\ InConfidenceOrder(S) \in Seq(WordRow(Text))
         /\ InIdOrder(S) \in Seq(WordRow(Text))
         /\ \A i, j \in DOMAIN InConfidenceOrder(S) :
              InConfidenceOrder(S)[i].word = InConfidenceOrder(S)[j].word => i = j
<1> DEFINE S == {r \in d.words : r.id \in ids}
<1>1. /\ d.words \in SUBSET WordRow(Text) /\ IsFiniteSet(d.words)
      /\ \A r, q \in d.words : r.id = q.id => r = q
  BY DEF Files, Db, OneToOne
<1>2. S \in SUBSET d.words
  OBVIOUS
<1> HIDE DEF S
<1>3. /\ S \in SUBSET WordRow(Text) /\ IsFiniteSet(S)
      /\ \A r \in S : r.id \in Int /\ r.confidence \in Int
      /\ \A r, q \in S : r.id = q.id => r = q
  BY <1>1, <1>2, FS_Subset DEF WordRow
<1>4. InConfidenceOrder(S) \in Seq(WordRow(Text)) /\ InIdOrder(S) \in Seq(WordRow(Text))
  BY <1>3, OrderedByConfidence, OrderedById
<1>5. /\ \A i \in DOMAIN InConfidenceOrder(S) : InConfidenceOrder(S)[i] \in S
      /\ \A i, j \in DOMAIN InConfidenceOrder(S) :
           InConfidenceOrder(S)[i] = InConfidenceOrder(S)[j] => i = j
  BY <1>3, OrderedByConfidence
<1>6. \A r, q \in S : r.word = q.word => r = q
  BY <1>2 DEF Files, OneToOne
<1>7. \A i, j \in DOMAIN InConfidenceOrder(S) :
        InConfidenceOrder(S)[i].word = InConfidenceOrder(S)[j].word => i = j
  BY <1>5, <1>6
<1> QED BY <1>4, <1>7 DEF S

LEMMA ByConfidenceTyped ==
  ASSUME NEW d \in Files, NEW ids
  PROVE  ByConfidence(d, ids) \in WordLists
<1> DEFINE rows == InConfidenceOrder({r \in d.words : r.id \in ids})
<1>1. ByConfidence(d, ids) = CHOOSE y \in {WordsOf(x) : x \in {rows}} : TRUE
  BY DEF ByConfidence, Once, InConfidenceOrder
<1>2. /\ rows \in Seq(WordRow(Text))
      /\ \A i, j \in DOMAIN rows : rows[i].word = rows[j].word => i = j
  BY RowsTyped
<1> HIDE DEF rows
<1>3. {WordsOf(x) : x \in {rows}} = {WordsOf(rows)}
  OBVIOUS
<1>4. WordsOf(rows) \in Seq(Text)
  BY <1>2, WordsOfTyped
<1>5. IsInjective(WordsOf(rows))
  BY <1>2 DEF WordsOf, IsInjective
<1> QED BY <1>1, <1>3, <1>4, <1>5 DEF WordLists

LEMMA MatchesOfTyped ==
  ASSUME NEW d \in Files, NEW lookup
  PROVE  MatchesOf(d, lookup) \in Seq(Text)
<1> DEFINE ids == FirstIds({r \in d.patterns : r.pattern = lookup}, MatchLimit)
           rows == InIdOrder({r \in d.words : r.id \in ids})
<1>1. MatchesOf(d, lookup) = CHOOSE y \in {WordsOf(x) : x \in {rows}} : TRUE
  BY DEF MatchesOf, Once, InIdOrder
<1> HIDE DEF ids
<1>2. rows \in Seq(WordRow(Text))
  BY RowsTyped
<1> HIDE DEF rows
<1>3. {WordsOf(x) : x \in {rows}} = {WordsOf(rows)}
  OBVIOUS
<1> QED BY <1>1, <1>2, <1>3, WordsOfTyped

LEMMA OfferedTyped ==
  ASSUME NEW d \in Files, NEW input
  PROVE  BestMatches(d, input) \in WordLists /\ Suggested(d, input) \in WordLists
<1> DEFINE best == FirstIds({r \in d.patterns : r.pattern = Fold(input) /\ r.learned = 1}, Limit)
           more == FirstIds({r \in d.patterns : GoesOn(r.pattern, Fold(input)) /\ r.learned = 1}, Limit)
<1>1. /\ BestMatches(d, input) = IF Len(input) < MinimumLength THEN <<>> ELSE ByConfidence(d, best)
      /\ Suggested(d, input) = IF Len(input) < MinimumLength THEN <<>> ELSE ByConfidence(d, more)
  BY DEF BestMatches, Suggested
<1> HIDE DEF best, more
<1>2. ByConfidence(d, best) \in WordLists /\ ByConfidence(d, more) \in WordLists /\ <<>> \in WordLists
  BY ByConfidenceTyped, NoWords
<1> QED BY <1>1, <1>2

LEMMA PieceTyped ==
  ASSUME NEW text \in Text, NEW a \in Nat \ {0}, NEW b \in Int, b <= Len(text)
  PROVE  SubSeq(text, a, b) \in Text
<1>1. Len(text) \in Nat /\ \A i \in 1..Len(text) : text[i] \in Char
  BY LenProperties, ElementOfSeq DEF Text
<1>2. \A i \in a..b : text[i] \in Char
  BY <1>1
<1>3. a \in Int
  OBVIOUS
<1>4. SubSeq(text, a, b) \in Seq(Char)
  BY <1>2, <1>3, SubSeqProperties
<1> QED BY <1>4 DEF Text

LEMMA RowTextsTyped ==
  ASSUME NEW f, f.found \in Seq(Text), f.input \in Text, f.matched \in Nat
  PROVE  RowTexts(f) \in Seq(Text)
<1> DEFINE found == f.found
           n == Len(found)
           rest == SubSeq(f.input, f.matched + 1, Len(f.input))
           behind == FirstTokens(Tokenize(rest, "pattern", "exact"))
           row(i) == FirstTokens(Tokenize(found[i], "value", "exact")) \o behind
           rows == Rows(found, rest)
           texts == RowTexts(f)
<1>1. n \in Nat /\ DOMAIN found = 1..n /\ \A i \in 1..n : found[i] \in Text
  BY LenProperties, ElementOfSeq
<1>2. rest \in Text
  <2> DEFINE a == f.matched + 1
             b == Len(f.input)
  <2>1. a \in Nat \ {0} /\ b \in Int /\ b <= b
    BY LenProperties DEF Text
  <2> HIDE DEF a
  <2> QED BY <2>1, PieceTyped
<1>3. rows = [i \in 1..n |-> row(i)]
  BY <1>1 DEF Rows
<1>4. texts = [i \in DOMAIN rows |-> ResolveTokens(rows[i])]
  BY DEF RowTexts
<1> HIDE DEF found, n, rest
<1>5. behind \in Seq(SchemeToken)
  BY <1>2, TokenizeTyped, FirstTokensTyped
<1> HIDE DEF behind
<1>6. \A i \in 1..n : row(i) \in Seq(SchemeToken)
  BY <1>1, <1>5, TokenizeTyped, FirstTokensTyped, ConcatProperties
<1> HIDE DEF row
<1>7. DOMAIN rows = 1..n /\ \A i \in 1..n : rows[i] \in Seq(SchemeToken)
  BY <1>3, <1>6
<1> HIDE DEF rows, texts
<1>8. texts = [i \in 1..n |-> texts[i]] /\ \A i \in 1..n : texts[i] = ResolveTokens(rows[i])
  BY <1>4, <1>7
<1>9. \A i \in 1..n : texts[i] \in Text
  BY <1>7, <1>8, ResolveTokensTyped
<1> QED BY <1>1, <1>8, <1>9, ListOf DEF texts

LEMMA PlainIs ==
  ASSUME NEW input \in Inputs
  PROVE  Plain[input] \in Text
<1>1. input \in Text
  BY HandleAssumption
<1> QED BY <1>1, TransliteratedTyped DEF Plain

-----------------------------------------------------------------------------
(* Words that are offered, each once.                                      *)

AddTurn(none, words, w) == AddNew(words, w)
Adding == INSTANCE Loops_proofs WITH Turn <- AddTurn

LEMMA AddedNew ==
  ASSUME NEW words \in WordLists, NEW w \in Text
  PROVE  /\ AddNew(words, w) \in WordLists
         /\ ToSet(words) \subseteq ToSet(AddNew(words, w)) /\ w \in ToSet(AddNew(words, w))
<1>1. words \in Seq(Text) /\ IsInjective(words)
  BY DEF WordLists
<1>2. CASE w \in ToSet(words)
  BY <1>2 DEF AddNew
<1>3. CASE w \notin ToSet(words)
  <2> DEFINE n == Len(words)
             all == Append(words, w)
  <2>1. AddNew(words, w) = all
    BY <1>3 DEF AddNew
  <2>2. /\ n \in Nat /\ DOMAIN words = 1..n
        /\ all \in Seq(Text) /\ Len(all) = n + 1 /\ all[n + 1] = w
        /\ \A i \in 1..n : all[i] = words[i]
    BY <1>1, LenProperties, AppendProperties
  <2> HIDE DEF all, n
  <2>3. DOMAIN all = 1..(n + 1)
    BY <2>2, LenProperties
  <2>4. \A i \in 1..n : words[i] # w
    BY <1>3, <2>2 DEF ToSet
  <2>5. \A i, j \in 1..n : words[i] = words[j] => i = j
    BY <1>1, <2>2 DEF IsInjective
  <2>6. IsInjective(all)
    <3> SUFFICES ASSUME NEW i \in 1..(n + 1), NEW j \in 1..(n + 1), all[i] = all[j] PROVE i = j
      BY <2>3 DEF IsInjective
    <3>1. i \in 1..n \/ i = n + 1
      BY <2>2
    <3>2. j \in 1..n \/ j = n + 1
      BY <2>2
    <3> QED BY <2>2, <2>4, <2>5, <3>1, <3>2
  <2>7. n + 1 \in 1..(n + 1) /\ \A i \in 1..n : i \in 1..(n + 1)
    BY <2>2
  <2>8. ToSet(words) \subseteq ToSet(all) /\ w \in ToSet(all)
    BY <2>2, <2>3, <2>7 DEF ToSet
  <2> QED BY <2>1, <2>2, <2>6, <2>8 DEF WordLists
<1> QED BY <1>2, <1>3

LEMMA AllAdded ==
  ASSUME NEW words \in WordLists, NEW more \in Seq(Text)
  PROVE  /\ Loop(AddNew, words, more) \in WordLists
         /\ ToSet(words) \cup ToSet(more) \subseteq ToSet(Loop(AddNew, words, more))
<1> DEFINE n == Len(more)
           Has(all, k) == ToSet(words) \subseteq ToSet(all) /\ \A j \in 1..k : more[j] \in ToSet(all)
           D == [k \in 0..n |-> {all \in WordLists : Has(all, k)}]
           all == Loop(AddNew, words, more)
<1>1. all = Adding!Runs(0, words, more)
  BY DEF Adding!Runs, Adding!Loop, Adding!Once, Loop, Once, AddTurn
<1>2. n \in Nat /\ DOMAIN more = 1..n /\ \A k \in 1..n : more[k] \in Text
  BY LenProperties, ElementOfSeq
<1> HIDE DEF n
<1>3. \A k \in 0..n : D[k] = {v \in WordLists : Has(v, k)}
  OBVIOUS
<1> HIDE DEF D
<1>4. words \in D[0]
  BY <1>2, <1>3
<1>5. ASSUME NEW k \in 1..n, NEW v \in D[k - 1]
      PROVE  AddTurn(0, v, more[k]) \in D[k]
  <2>1. k - 1 \in 0..n /\ k \in 0..n /\ \A j \in 1..k : j = k \/ j \in 1..(k - 1)
    BY <1>2
  <2>2. v \in WordLists /\ Has(v, k - 1)
    BY <1>3, <2>1
  <2> DEFINE next == AddNew(v, more[k])
  <2>3. next \in WordLists /\ ToSet(v) \subseteq ToSet(next) /\ more[k] \in ToSet(next)
    BY <1>2, <2>2, AddedNew
  <2>4. AddTurn(0, v, more[k]) = next
    BY DEF AddTurn
  <2> HIDE DEF next
  <2>5. Has(next, k)
    BY <2>1, <2>2, <2>3
  <2> QED BY <1>3, <2>1, <2>3, <2>4, <2>5
<1>6. Adding!Runs(0, words, more) \in D[n]
  BY <1>2, <1>4, <1>5, Adding!StagesPassed DEF n
<1>7. n \in 0..n
  BY <1>2
<1> HIDE DEF all
<1>8. all \in WordLists /\ Has(all, n)
  BY <1>1, <1>3, <1>6, <1>7
<1>9. ToSet(more) \subseteq ToSet(all)
  BY <1>2, <1>8 DEF ToSet
<1> QED BY <1>8, <1>9 DEF all

\* No words yet.

-----------------------------------------------------------------------------
(* The longest beginning that is a pattern.                                *)

IdsTurn(n, ids, r) == IF r.word_id \in ToSet(ids) \/ Len(ids) = n THEN ids ELSE Append(ids, r.word_id)
Taking == INSTANCE Loops_proofs WITH Turn <- IdsTurn

LEMMA NoRowsInOrder == InKeyOrder({}) = <<>>
<1> DEFINE P(r, q) == \/ Before(r.pattern, q.pattern)
                      \/ r.pattern = q.pattern /\ r.word_id < q.word_id
           place(s) == [i \in 1..Cardinality(s) |-> CHOOSE r \in s : Cardinality({q \in s : P(q, r)}) = i - 1]
           none == {}
<1>1. InKeyOrder(none) = CHOOSE y \in {place(x) : x \in {none}} : TRUE
  BY DEF InKeyOrder, Ordered, Once
<1>2. Cardinality(none) = 0
  BY FS_EmptySet
<1>3. place(none) = <<>>
  <2>1. 1..Cardinality(none) = {}
    BY <1>2
  <2> QED BY <2>1
<1> HIDE DEF place, none
<1>4. {place(x) : x \in {none}} = {place(none)}
  OBVIOUS
<1> QED BY <1>1, <1>3, <1>4 DEF none

\* Words are found by the patterns they are stored with.
LEMMA MatchHasRow ==
  ASSUME NEW d \in Files, NEW lookup, MatchesOf(d, lookup) # <<>>
  PROVE  \E r \in d.patterns : r.pattern = lookup
<1> DEFINE found == {r \in d.patterns : r.pattern = lookup}
           ids == FirstIds(found, MatchLimit)
           S == {r \in d.words : r.id \in ids}
           rows == InIdOrder(S)
<1> SUFFICES ASSUME found = {} PROVE FALSE
  OBVIOUS
<1>1. ids = {}
  <2> DEFINE seq == InKeyOrder(found)
             none == <<>>
             D == {none}
  <2>1. ids = ToSet(Taking!Runs(MatchLimit, none, seq))
    BY DEF Taking!Runs, Taking!Loop, Taking!Once, Loop, Once, IdsTurn, FirstIds
  <2>2. seq = <<>>
    BY NoRowsInOrder
  <2> HIDE DEF seq
  <2>3. Len(seq) = 0
    BY <2>2
  <2>4. none \in D /\ Len(seq) \in Nat /\ \A i \in 1..Len(seq) : \A v \in D : IdsTurn(MatchLimit, v, seq[i]) \in D
    BY <2>3
  <2> HIDE DEF D
  <2>5. Taking!Runs(MatchLimit, none, seq) \in D
    BY <2>4, Taking!StaysIn
  <2>6. Taking!Runs(MatchLimit, none, seq) = none
    BY <2>5 DEF D
  <2>7. ToSet(none) = {}
    BY DEF ToSet
  <2> HIDE DEF none
  <2> QED BY <2>1, <2>6, <2>7
<1>2. MatchesOf(d, lookup) = CHOOSE y \in {WordsOf(x) : x \in {rows}} : TRUE
  BY DEF MatchesOf, Once, InIdOrder
<1> HIDE DEF ids
<1>3. S = {}
  BY <1>1
<1> HIDE DEF S
<1>4. rows = <<>>
  <2>1. S \in SUBSET WordRow(Text) /\ IsFiniteSet(S) /\ \A r \in S : r.id \in Int
    BY <1>3, FS_EmptySet
  <2>2. \A r, q \in S : r.id = q.id => r = q
    BY <1>3
  <2> QED BY <1>3, <2>1, <2>2, OrderedById
<1> HIDE DEF rows
<1>5. {WordsOf(x) : x \in {rows}} = {WordsOf(rows)}
  OBVIOUS
<1>6. WordsOf(rows) = <<>>
  BY <1>4 DEF WordsOf
<1> QED BY <1>2, <1>5, <1>6

\* A pattern that goes on behind x with a letter before z is looked for.
LEMMA FoundBehind ==
  ASSUME NEW y \in Text, NEW k \in 1..Len(y), k < Len(y), Rank[y[k + 1]] < Rank["z"]
  PROVE  GoesOn(y, SubSeq(y, 1, k))
<1> DEFINE x == SubSeq(y, 1, k)
           n == Len(y)
           c == "z"
           last == <<c>>
           xz == x \o last
<1>1. n \in Nat /\ y \in Seq(Char) /\ k \in 1..n /\ k + 1 \in 1..n /\ \A i \in 1..n : y[i] \in Char
  BY LenProperties, ElementOfSeq DEF Text
<1>2. x \in Seq(Char) /\ Len(x) = k /\ \A i \in 1..k : x[i] = y[i]
  <2>1. \A i \in 1..k : y[i] \in Char
    BY <1>1
  <2>2. /\ x \in Seq(Char) /\ Len(x) = IF 1 <= k THEN k - 1 + 1 ELSE 0
        /\ \A i \in 1..(k - 1 + 1) : x[i] = y[1 + i - 1]
    BY <1>1, <2>1, SubSeqProperties
  <2> HIDE DEF x
  <2> QED BY <1>1, <2>2
<1>3. c \in Char
  BY SuggestionsAssumption
<1>4. Rank[c] \in Nat /\ \A i \in 1..n : Rank[y[i]] \in Nat
  BY <1>1, <1>3, SuggestionsAssumption
<1>5. Rank[y[k + 1]] < Rank[c]
  OBVIOUS
<1> HIDE DEF c
<1>6. last \in Seq(Char) /\ Len(last) = 1 /\ last[1] = c
  BY <1>3
<1> HIDE DEF x, last, n
<1>7. /\ xz \in Seq(Char) /\ Len(xz) = k + 1
      /\ xz[k + 1] = c /\ \A i \in 1..k : xz[i] = y[i]
  <2>1. /\ xz \in Seq(Char) /\ Len(xz) = Len(x) + Len(last)
        /\ \A i \in 1..(Len(x) + Len(last)) :
             xz[i] = IF i <= Len(x) THEN x[i] ELSE last[i - Len(x)]
    BY <1>2, <1>6, ConcatProperties
  <2> HIDE DEF xz
  <2>2. k + 1 \in 1..(k + 1) /\ ~(k + 1 <= k) /\ k + 1 - k = 1 /\ \A i \in 1..k : i \in 1..(k + 1) /\ i <= k
    BY <1>1
  <2> QED BY <1>1, <1>2, <1>6, <2>1, <2>2
<1>8. Before(x, y)
  <2>1. IsPrefix(x, y)
    <3>1. SubSeq(x, 1, Len(x)) = x /\ SubSeq(y, 1, Len(x)) = x
      BY <1>2, SubSeqFull DEF x
    <3> QED BY <1>1, <1>2, <3>1 DEF IsPrefix, n
  <2>2. x # y
    BY <1>1, <1>2 DEF n
  <2> QED BY <2>1, <2>2 DEF IsStrictPrefix, Before
<1>9. ~Before(xz, y)
  <2> HIDE DEF xz
  <2>1. ~IsPrefix(xz, y)
    <3> SUFFICES ASSUME IsPrefix(xz, y) PROVE FALSE
      OBVIOUS
    <3>1. SubSeq(xz, 1, k + 1) = SubSeq(y, 1, k + 1)
      BY <1>7 DEF IsPrefix
    <3>2. \A i \in 1..(k + 1) : xz[i] \in Char /\ y[i] \in Char
      BY <1>1, <1>7, ElementOfSeq, LenProperties
    <3> DEFINE u == SubSeq(xz, 1, k + 1)
               v == SubSeq(y, 1, k + 1)
    <3>3. \A i \in 1..(k + 1 - 1 + 1) : u[i] = xz[1 + i - 1] /\ v[i] = y[1 + i - 1]
      BY <1>1, <3>2, SubSeqProperties
    <3>4. u = v
      BY <3>1
    <3> HIDE DEF u, v
    <3>5. k + 1 \in 1..(k + 1 - 1 + 1) /\ 1 + (k + 1) - 1 = k + 1
      BY <1>1
    <3>6. xz[k + 1] = y[k + 1]
      BY <3>3, <3>4, <3>5
    <3> QED BY <1>1, <1>4, <1>5, <1>7, <3>6
  <2>2. ASSUME NEW i \in 1..Min({Len(xz), Len(y)}), Rank[xz[i]] < Rank[y[i]]
        PROVE  FALSE
    <3>1. Min({k + 1, n}) = k + 1
      <4>1. k + 1 \in {k + 1, n} /\ \A j \in {k + 1, n} : k + 1 =< j
        BY <1>1
      <4>2. \A m \in {k + 1, n} : (\A j \in {k + 1, n} : m =< j) => m = k + 1
        BY <1>1
      <4> QED BY <4>1, <4>2 DEF Min
    <3>2. i \in 1..(k + 1)
      BY <1>7, <2>2, <3>1 DEF n
    <3>3. CASE i = k + 1
      BY <1>1, <1>4, <1>5, <1>7, <2>2, <3>3
    <3>4. CASE i # k + 1
      <4>1. i \in 1..k /\ xz[i] = y[i] /\ Rank[y[i]] \in Nat
        BY <1>1, <1>4, <1>7, <3>2, <3>4
      <4> QED BY <2>2, <4>1
    <3> QED BY <3>3, <3>4
  <2> QED BY <2>1, <2>2 DEF Before, IsStrictPrefix
<1> QED BY <1>8, <1>9 DEF GoesOn, xz, last, c, x

\* m is the longest beginning of up to k letters by which a word is found.
LongestUpTo(d, input, k, m) ==
  /\ m \in 0..k
  /\ m > 0 => MatchesOf(d, SubSeq(input, 1, m)) # <<>>
  /\ \A n \in 1..k : n > m => MatchesOf(d, SubSeq(input, 1, n)) = <<>>

\* One letter more.
LEMMA LongestGoesOn ==
  ASSUME NEW d, NEW input, NEW k \in Nat \ {0}, NEW m, LongestUpTo(d, input, k - 1, m)
  PROVE  LET words == MatchesOf(d, SubSeq(input, 1, k)) IN
         /\ words = <<>> => LongestUpTo(d, input, k, m)
         /\ words # <<>> => LongestUpTo(d, input, k, k)
<1> DEFINE M(n) == MatchesOf(d, SubSeq(input, 1, n))
<1>1. m \in 0..(k - 1) /\ (m > 0 => M(m) # <<>>) /\ \A n \in 1..(k - 1) : n > m => M(n) = <<>>
  BY DEF LongestUpTo
<1>2. \A n \in 1..k : n \in 1..(k - 1) \/ n = k
  OBVIOUS
<1>3. ASSUME M(k) = <<>> PROVE LongestUpTo(d, input, k, m)
  <2>1. m \in 0..k /\ (m > 0 => M(m) # <<>>) /\ \A n \in 1..k : n > m => M(n) = <<>>
    <3> HIDE DEF M
    <3> QED BY <1>1, <1>2, <1>3
  <2> QED BY <2>1 DEF LongestUpTo
<1>4. ASSUME M(k) # <<>> PROVE LongestUpTo(d, input, k, k)
  <2>1. k \in 0..k /\ M(k) # <<>> /\ \A n \in 1..k : ~(n > k)
    BY <1>4
  <2> QED BY <2>1 DEF LongestUpTo
<1> QED BY <1>3, <1>4

\* When the search stops, nothing longer is left to be found.
LEMMA LongestStops ==
  ASSUME NEW d \in Files, NEW input \in Text, NEW k \in 1..Len(input), NEW m,
         LongestUpTo(d, input, k, m), \A r \in d.patterns : BelowZ(r.pattern),
         ~(PossibleMatches(d, SubSeq(input, 1, k)) /\ k < Len(input))
  PROVE  m = LongestMatch(d, input)
<1> DEFINE M(n) == MatchesOf(d, SubSeq(input, 1, n))
           S == {0} \cup {n \in 1..Len(input) : M(n) # <<>>}
<1>1. m \in 0..k /\ (m > 0 => M(m) # <<>>) /\ (\A n \in 1..k : n > m => M(n) = <<>>)
      /\ Len(input) \in Nat /\ input \in Seq(Char)
  BY LenProperties DEF LongestUpTo, Text
<1>2. ASSUME NEW n \in 1..Len(input), n > k, M(n) # <<>>
      PROVE  FALSE
  <2> DEFINE y == SubSeq(input, 1, n)
  <2>1. PICK r \in d.patterns : r.pattern = y
    BY <1>2, MatchHasRow
  <2>2. /\ y \in Seq(Char) /\ Len(y) = n
        /\ \A i \in 1..n : y[i] = input[i]
    <3>1. \A i \in 1..n : input[i] \in Char
      BY <1>1, ElementOfSeq
    <3>2. /\ y \in Seq(Char) /\ Len(y) = IF 1 <= n THEN n - 1 + 1 ELSE 0
          /\ \A i \in 1..(n - 1 + 1) : y[i] = input[1 + i - 1]
      BY <1>1, <3>1, SubSeqProperties
    <3> HIDE DEF y
    <3> QED BY <1>1, <3>2
  <2>3. SubSeq(y, 1, k) = SubSeq(input, 1, k)
    BY <1>1, <1>2, <2>2
  <2> HIDE DEF y
  <2>4. DOMAIN y = 1..n /\ k + 1 \in 1..n /\ k \in 1..Len(y) /\ k < Len(y)
    BY <1>1, <1>2, <2>2, LenProperties
  <2>5. Rank[y[k + 1]] < Rank["z"]
    BY <2>1, <2>4 DEF BelowZ
  <2>6. y \in Text
    BY <2>2 DEF Text
  <2>7. GoesOn(y, SubSeq(y, 1, k))
    BY <2>4, <2>5, <2>6, FoundBehind
  <2>8. PossibleMatches(d, SubSeq(input, 1, k))
    BY <2>1, <2>3, <2>7 DEF PossibleMatches
  <2>9. k < Len(input)
    BY <1>1, <1>2
  <2> QED BY <2>8, <2>9
<1>3. LongestMatch(d, input) = Max(S)
  BY DEF LongestMatch
<1> HIDE DEF M
<1>4. m \in S /\ \A n \in S : n \in Nat /\ m >= n
  BY <1>1, <1>2
<1> HIDE DEF S
<1>5. \A x \in S : (\A n \in S : x >= n) => x = m
  BY <1>1, <1>4
<1>6. Max(S) = m
  BY <1>4, <1>5 DEF Max
<1> QED BY <1>3, <1>6

-----------------------------------------------------------------------------
(* Words that are spelled the same.                                        *)

LEMMA NotBeforeItself ==
  ASSUME NEW p \in Text
  PROVE  ~Before(p, p)
<1>1. Len(p) \in Nat /\ \A i \in 1..Len(p) : p[i] \in Char
  BY LenProperties, ElementOfSeq DEF Text
<1>2. Min({Len(p), Len(p)}) = Len(p)
  <2>1. \A m \in {Len(p)} : (\A j \in {Len(p)} : m =< j) => m = Len(p)
    OBVIOUS
  <2>2. Len(p) \in {Len(p)} /\ \A j \in {Len(p)} : Len(p) =< j
    BY <1>1
  <2>3. {Len(p), Len(p)} = {Len(p)}
    OBVIOUS
  <2> QED BY <2>1, <2>2, <2>3 DEF Min
<1>3. \A i \in 1..Len(p) : Rank[p[i]] \in Nat
  BY <1>1, SuggestionsAssumption
<1>4. \A i \in 1..Len(p) : ~(Rank[p[i]] < Rank[p[i]])
  BY <1>3
<1>5. ~IsStrictPrefix(p, p)
  BY DEF IsStrictPrefix
<1> QED BY <1>2, <1>4, <1>5 DEF Before

\* The rows of one pattern, by which whole words are found.
Same(p, S) ==
  /\ IsFiniteSet(S)
  /\ \A r \in S : r.pattern = p /\ r.word_id \in Int
  /\ \A r, q \in S : r.word_id = q.word_id => r = q

\* They are all read.
LEMMA SameInOrder ==
  ASSUME NEW p \in Text, NEW S, Same(p, S)
  PROVE  /\ Len(InKeyOrder(S)) = Cardinality(S) /\ Cardinality(S) \in Nat
         /\ \A i \in 1..Cardinality(S) : InKeyOrder(S)[i] \in S
         /\ \A r \in S : \E i \in 1..Cardinality(S) : InKeyOrder(S)[i] = r
<1> DEFINE R == {c \in S \X S : c[1].word_id < c[2].word_id}
           P(r, q) == \/ Before(r.pattern, q.pattern)
                      \/ r.pattern = q.pattern /\ r.word_id < q.word_id
           seq == InKeyOrder(S)
           n == Cardinality(S)
<1>1. \A r, q \in S : <<r, q>> \in R <=> r.word_id < q.word_id
  OBVIOUS
<1>2. \A r, q \in S : P(r, q) <=> r.word_id < q.word_id
  BY NotBeforeItself DEF Same
<1>3. seq = [i \in 1..Cardinality(S) |-> CHOOSE r \in S : Cardinality({q \in S : P(q, r)}) = i - 1]
  BY DEF InKeyOrder, Ordered, Once
<1> HIDE DEF R, P, seq, n
<1>4. Orders(R, S)
  BY <1>1 DEF Orders, Same
<1>5. \A r \in S : {q \in S : P(q, r)} = Smaller(R, S, r)
  BY <1>1, <1>2 DEF Smaller
<1> DEFINE At(i) == CHOOSE r \in S : Cardinality({q \in S : P(q, r)}) = i - 1
           Of(i) == CHOOSE r \in S : Cardinality(Smaller(R, S, r)) = i - 1
<1>6. \A i \in 1..Cardinality(S) : At(i) = Of(i)
  BY <1>5
<1>7. InOrder(S, R, seq)
  <2>1. seq = [i \in 1..Cardinality(S) |-> At(i)]
    BY <1>3
  <2> HIDE DEF At, Of
  <2>2. seq = [i \in 1..Cardinality(S) |-> Of(i)]
    BY <1>6, <2>1
  <2> QED BY <2>2 DEF InOrder, Of
<1>8. IsFiniteSet(S) /\ n \in Nat /\ DOMAIN seq = 1..n
  BY <1>3, FS_CardinalityType DEF Same, n
<1>9. seq \in Seq(S) /\ \A i \in DOMAIN seq : seq[i] \in S
  BY <1>4, <1>7, <1>8, OrderedElements
<1>10. \A r \in S : \E i \in DOMAIN seq : seq[i] = r
  BY <1>4, <1>7, <1>8, OrderedAll
<1>11. Len(seq) = n
  BY <1>8, <1>9, LenProperties
<1> QED BY <1>8, <1>9, <1>10, <1>11 DEF seq, n

\* So their words are found, when they are not more than are looked for.
LEMMA SameFound ==
  ASSUME NEW p \in Text, NEW S, Same(p, S), NEW n \in Nat, Cardinality(S) <= n, NEW r \in S
  PROVE  r.word_id \in FirstIds(S, n)
<1> DEFINE seq == InKeyOrder(S)
           m == Cardinality(S)
           none == <<>>
           Has(ids, j) == seq[j].word_id \in ToSet(ids)
           D == [k \in 0..m |-> {ids \in Seq(Int) : Len(ids) <= k /\ \A j \in 1..k : Has(ids, j)}]
<1>1. FirstIds(S, n) = ToSet(Taking!Runs(n, none, seq))
  BY DEF Taking!Runs, Taking!Loop, Taking!Once, Loop, Once, IdsTurn, FirstIds
<1>2. /\ Len(seq) = m /\ m \in Nat /\ m <= n
      /\ \A i \in 1..m : seq[i] \in S
      /\ \E i \in 1..m : seq[i] = r
  BY SameInOrder
<1>3. \A i \in 1..m : seq[i].word_id \in Int
  BY <1>2 DEF Same
<1> HIDE DEF seq, m
<1>4. \A k \in 0..m : D[k] = {ids \in Seq(Int) : Len(ids) <= k /\ \A j \in 1..k : Has(ids, j)}
  OBVIOUS
<1> HIDE DEF D
<1>5. none \in D[0]
  <2>1. 0 \in 0..m /\ 1..0 = {}
    BY <1>2
  <2>2. none \in Seq(Int) /\ Len(none) <= 0
    OBVIOUS
  <2> HIDE DEF none, Has
  <2> QED BY <1>4, <2>1, <2>2
<1> HIDE DEF none
<1>6. ASSUME NEW k \in 1..m, NEW ids \in D[k - 1]
      PROVE  IdsTurn(n, ids, seq[k]) \in D[k]
  <2> DEFINE i == seq[k].word_id
             more == Append(ids, i)
  <2>1. k - 1 \in 0..m /\ k \in 0..m /\ (\A j \in 1..k : j = k \/ j \in 1..(k - 1)) /\ k - 1 < n
    BY <1>2
  <2>2. ids \in Seq(Int) /\ Len(ids) <= k - 1 /\ (\A j \in 1..(k - 1) : Has(ids, j)) /\ Len(ids) \in Nat
    <3>1. ids \in Seq(Int) /\ Len(ids) <= k - 1 /\ (\A j \in 1..(k - 1) : Has(ids, j))
      BY <1>4, <2>1
    <3> QED BY <3>1, LenProperties
  <2>3. i \in Int
    BY <1>3
  <2>4. IdsTurn(n, ids, seq[k]) = IF i \in ToSet(ids) \/ Len(ids) = n THEN ids ELSE more
    BY DEF IdsTurn
  <2>5. Len(ids) # n
    BY <2>1, <2>2
  <2>6. CASE i \in ToSet(ids)
    <3>1. \A j \in 1..k : Has(ids, j)
      BY <2>1, <2>2, <2>6
    <3>2. Len(ids) <= k
      BY <2>2
    <3> HIDE DEF Has
    <3> QED BY <1>4, <2>1, <2>2, <2>4, <2>6, <3>1, <3>2
  <2>7. CASE i \notin ToSet(ids)
    <3>1. /\ more \in Seq(Int) /\ Len(more) = Len(ids) + 1 /\ more[Len(ids) + 1] = i
          /\ \A j \in 1..Len(ids) : more[j] = ids[j]
      BY <2>2, <2>3, AppendProperties
    <3>2. DOMAIN more = 1..(Len(ids) + 1) /\ DOMAIN ids = 1..Len(ids)
      BY <2>2, <3>1, LenProperties
    <3> HIDE DEF more, i
    <3>3. i \in ToSet(more) /\ ToSet(ids) \subseteq ToSet(more)
      <4>1. ToSet(more) = {more[j] : j \in 1..(Len(ids) + 1)} /\ ToSet(ids) = {ids[j] : j \in 1..Len(ids)}
        BY <3>2 DEF ToSet
      <4>2. Len(ids) + 1 \in 1..(Len(ids) + 1) /\ \A j \in 1..Len(ids) : j \in 1..(Len(ids) + 1)
        BY <2>2
      <4> QED BY <3>1, <4>1, <4>2
    <3>4. \A j \in 1..k : Has(more, j)
      BY <2>1, <2>2, <3>3 DEF i
    <3>5. Len(more) <= k
      BY <2>2, <3>1
    <3> HIDE DEF Has
    <3> QED BY <1>4, <2>1, <2>4, <2>5, <2>7, <3>1, <3>4, <3>5
  <2> QED BY <2>6, <2>7
<1>7. Taking!Runs(n, none, seq) \in D[m]
  <2>1. Len(seq) \in Nat /\ \A i \in 1..Len(seq) : \A v \in D[i - 1] : IdsTurn(n, v, seq[i]) \in D[i]
    BY <1>2, <1>6
  <2>2. Taking!Runs(n, none, seq) \in D[Len(seq)]
    BY <1>5, <2>1, Taking!StagesPassed
  <2> QED BY <1>2, <2>2
<1> DEFINE all == Taking!Runs(n, none, seq)
<1> HIDE DEF all
<1>8. \A j \in 1..m : Has(all, j)
  <2>1. all \in D[m] /\ m \in 0..m
    BY <1>2, <1>7 DEF all
  <2> HIDE DEF Has
  <2> QED BY <1>4, <2>1
<1>9. FirstIds(S, n) = ToSet(all)
  BY <1>1 DEF all
<1> QED BY <1>2, <1>8, <1>9

\* Each word whose id is asked for is given.
LEMMA WordGiven ==
  ASSUME NEW d \in Files, NEW ids, NEW r \in d.words, r.id \in ids
  PROVE  r.word \in ToSet(ByConfidence(d, ids))
<1> DEFINE S == {q \in d.words : q.id \in ids}
           rows == InConfidenceOrder(S)
<1>1. ByConfidence(d, ids) = CHOOSE y \in {WordsOf(x) : x \in {rows}} : TRUE
  BY DEF ByConfidence, Once, InConfidenceOrder
<1>2. /\ d.words \in SUBSET WordRow(Text) /\ IsFiniteSet(d.words)
      /\ \A q, x \in d.words : q.id = x.id => q = x
  BY DEF Files, Db, OneToOne
<1>3. S \in SUBSET d.words /\ r \in S
  OBVIOUS
<1> HIDE DEF S
<1>4. /\ S \in SUBSET WordRow(Text) /\ IsFiniteSet(S)
      /\ \A q \in S : q.id \in Int /\ q.confidence \in Int
      /\ \A q, x \in S : q.id = x.id => q = x
  BY <1>2, <1>3, FS_Subset DEF WordRow
<1>5. \E i \in DOMAIN rows : rows[i] = r
  BY <1>3, <1>4, OrderedByConfidence
<1> HIDE DEF rows
<1>6. {WordsOf(x) : x \in {rows}} = {WordsOf(rows)}
  OBVIOUS
<1>7. r.word \in ToSet(WordsOf(rows))
  BY <1>5 DEF WordsOf, ToSet
<1> QED BY <1>1, <1>6, <1>7

\* A word that is learned with a pattern is found by it, unless too many are spelled the
\* same.
LEMMA LearnedFound ==
  ASSUME NEW d \in Files, NEW w, Stored(d, w), NEW p \in LearnedOf(d, w), p \in Text,
         Cardinality(Homographs(d, p)) <= Limit
  PROVE  w \in ToSet(ByConfidence(d, FirstIds(Homographs(d, p), Limit)))
<1> DEFINE S == Homographs(d, p)
           f == [r \in S |-> r.word_id]
<1>1. /\ GoodDb(d, Text, Text) /\ OneToOne(d) /\ IsFiniteSet(d.words) /\ LearnedForWords(d)
      /\ d.patterns \in SUBSET PatternRow(Text)
  BY FileIs DEF GoodDb, Db
<1>2. \A r \in S : r \in d.patterns /\ r \in PatternRow(Text) /\ r.pattern = p /\ r.learned = 1
  BY <1>1 DEF Homographs
<1>3. \A r \in S : r = [pattern |-> p, word_id |-> r.word_id, learned |-> 1] /\ r.word_id \in Int
  BY <1>2 DEF PatternRow
<1> HIDE DEF S
<1>4. \A r, q \in S : r.word_id = q.word_id => r = q
  BY <1>3
<1>5. \A r \in S : r.word_id \in Ids(d)
  BY <1>1, <1>2 DEF LearnedForWords, Ids
<1>6. IsFiniteSet(Ids(d))
  <2> DEFINE g == [r \in d.words |-> r.id]
  <2>1. g \in Surjection(d.words, Ids(d))
    BY DEF Surjection, Ids
  <2> HIDE DEF g
  <2> QED BY <1>1, <2>1, FS_Surjection
<1>7. f \in Injection(S, Ids(d))
  BY <1>4, <1>5 DEF Injection, IsInjective
<1> HIDE DEF f
<1>8. IsFiniteSet(S)
  BY <1>6, <1>7, FS_Injection
<1>9. Same(p, S)
  BY <1>2, <1>3, <1>4, <1>8 DEF Same
<1>10. PICK r \in d.patterns : r.pattern = p /\ r.word_id = IdOf(d, w) /\ r.learned = 1
  BY DEF LearnedOf
<1>11. r \in S
  BY <1>10 DEF S, Homographs
<1>12. Limit \in Nat /\ Cardinality(S) <= Limit
  BY SuggestionsAssumption DEF S
<1>13. IdOf(d, w) \in FirstIds(S, Limit)
  BY <1>9, <1>10, <1>11, <1>12, SameFound
<1>14. PICK q \in d.words : q.word = w /\ q.id = IdOf(d, w)
  BY <1>1, IdOfType
<1> QED BY <1>13, <1>14, WordGiven DEF S

-----------------------------------------------------------------------------
(* Tokens that are written the same.                                       *)

WrittenAsR(s) == MlUnicode /\ s.type = "vowel" /\ s.pattern = <<"r">>

\* All that resolve_tokens reads of a symbol, but for the pattern of a number.
SameSymbol(s, z) ==
  /\ s.type = z.type /\ s.tag = z.tag
  /\ s.value1 = z.value1 /\ s.value2 = z.value2 /\ s.value3 = z.value3
  /\ WrittenAsR(s) <=> WrittenAsR(z)

SameText(t, u) == SameSymbol(t.sym, u.sym) /\ t.sym.type # "number"

AlikeBefore(p, q) ==
  (p = <<>> /\ q = <<>>) \/ (p # <<>> /\ q # <<>> /\ SameText(p[1], q[1]))

Alike(x, y) ==
  /\ x \in Seq(SchemeToken) /\ y \in Seq(SchemeToken) /\ Len(x) = Len(y)
  /\ \A i \in 1..Len(x) : SameText(x[i], y[i])

\* The renderer of the scheme writes them the same.
LEMMA CustomAlike ==
  ASSUME NEW r \in Renderings, NEW q \in Renderings, r.text = q.text, AlikeBefore(r.previous, q.previous),
         NEW s, NEW z, SameSymbol(s, z), MlUnicode
  PROVE  MlUnicodeRenderer(r, s) = MlUnicodeRenderer(q, z)
<1> DEFINE p == r.previous[1].sym
           o == q.previous[1].sym
<1>1. r.previous # <<>> <=> q.previous # <<>>
  BY DEF AlikeBefore
<1>2. r.previous # <<>> => /\ p.tag = o.tag /\ p.value1 = o.value1 /\ p.value2 = o.value2
                           /\ p.value3 = o.value3
  BY DEF AlikeBefore, SameText, SameSymbol
<1>3. Follows(r, "chill") <=> Follows(q, "chill")
  BY <1>1, <1>2 DEF Follows
<1>4. r.previous # <<>> => ChilluTaken(r) = ChilluTaken(q)
  BY <1>2 DEF ChilluTaken
<1>5. Follows(r, "chill") => r.previous # <<>>
  BY DEF Follows
<1>6. /\ s.type = "vowel" <=> z.type = "vowel"
      /\ s.tag = z.tag /\ s.value2 = z.value2 /\ s.value3 = z.value3
      /\ s.type = "vowel" /\ s.pattern = <<"r">> <=> z.type = "vowel" /\ z.pattern = <<"r">>
  BY DEF SameSymbol, WrittenAsR
<1> HIDE DEF p, o
<1>7. CASE r.previous # <<>> /\ s.type = "vowel" /\ s.pattern = <<"r">>
  <2>1. MlUnicodeRenderer(r, s) = <<r.text \o s.value3>>
    BY <1>7 DEF MlUnicodeRenderer
  <2>2. MlUnicodeRenderer(q, z) = <<q.text \o z.value3>>
    BY <1>1, <1>6, <1>7 DEF MlUnicodeRenderer
  <2> QED BY <1>6, <2>1, <2>2
<1>8. CASE ~(r.previous # <<>> /\ s.type = "vowel" /\ s.pattern = <<"r">>)
  <2>1. CASE r.previous # <<>> /\ s.tag = "render_value2"
    <3>1. MlUnicodeRenderer(r, s) = <<r.text \o s.value2>>
      BY <1>8, <2>1 DEF MlUnicodeRenderer
    <3>2. MlUnicodeRenderer(q, z) = <<q.text \o z.value2>>
      BY <1>1, <1>6, <1>8, <2>1 DEF MlUnicodeRenderer
    <3> QED BY <1>6, <3>1, <3>2
  <2>2. CASE ~(r.previous # <<>> /\ s.tag = "render_value2")
    <3>1. MlUnicodeRenderer(r, s) =
            IF Follows(r, "chill") /\ s.type = "vowel" /\ ChilluTaken(r) # <<>>
            THEN <<ChilluTaken(r)[1] \o p.value3 \o s.value2>> ELSE <<>>
      BY <1>8, <2>2 DEF MlUnicodeRenderer, p
    <3>2. MlUnicodeRenderer(q, z) =
            IF Follows(q, "chill") /\ z.type = "vowel" /\ ChilluTaken(q) # <<>>
            THEN <<ChilluTaken(q)[1] \o o.value3 \o z.value2>> ELSE <<>>
      BY <1>1, <1>6, <1>8, <2>2 DEF MlUnicodeRenderer, o
    <3>3. CASE Follows(r, "chill")
      <4>1. r.previous # <<>> /\ Follows(q, "chill")
        BY <1>3, <1>5, <3>3
      <4>2. ChilluTaken(r) = ChilluTaken(q) /\ p.value3 = o.value3
        BY <1>2, <1>4, <4>1
      <4> QED BY <1>6, <3>1, <3>2, <3>3, <4>1, <4>2
    <3>4. CASE ~Follows(r, "chill")
      BY <1>3, <3>1, <3>2, <3>4
    <3> QED BY <3>3, <3>4
  <2> QED BY <2>1, <2>2
<1> QED BY <1>7, <1>8

\* So does resolve_tokens.
LEMMA PlainAlike ==
  ASSUME NEW r \in Renderings, NEW q \in Renderings, r.text = q.text, AlikeBefore(r.previous, q.previous),
         NEW s, NEW z, SameSymbol(s, z), s.type # "number"
  PROVE  PlainText(r, s) = PlainText(q, z)
<1>1. s.type = z.type /\ s.value1 = z.value1 /\ s.value2 = z.value2
  BY DEF SameSymbol
<1>2. VowelText(r, s) = VowelText(q, z)
  <2>1. r.previous # <<>> /\ r.previous[1].sym.type # "other" <=>
          q.previous # <<>> /\ q.previous[1].sym.type # "other"
    BY DEF AlikeBefore, SameText, SameSymbol
  <2>2. CASE IsSuffix(Virama, r.text)
    BY <1>1, <2>2 DEF VowelText
  <2>3. CASE ~IsSuffix(Virama, r.text)
    <3>1. CASE r.previous # <<>> /\ r.previous[1].sym.type # "other"
      BY <1>1, <2>1, <2>3, <3>1 DEF VowelText
    <3>2. CASE ~(r.previous # <<>> /\ r.previous[1].sym.type # "other")
      BY <1>1, <2>1, <2>3, <3>2 DEF VowelText
    <3> QED BY <3>1, <3>2
  <2> QED BY <2>2, <2>3
<1>3. CASE s.type = "virama"
  BY <1>1, <1>3 DEF PlainText
<1>4. CASE s.type = "vowel"
  BY <1>1, <1>2, <1>4 DEF PlainText
<1>5. CASE s.type \notin {"virama", "vowel"}
  <2>1. PlainText(r, s) = r.text \o s.value1
    BY <1>5 DEF PlainText
  <2>2. PlainText(q, z) = q.text \o z.value1
    BY <1>1, <1>5 DEF PlainText
  <2> QED BY <1>1, <2>1, <2>2
<1> QED BY <1>3, <1>4, <1>5

LEMMA RenderedAlike ==
  ASSUME NEW r \in Renderings, NEW q \in Renderings, r.text = q.text, AlikeBefore(r.previous, q.previous),
         NEW t, NEW u, SameText(t, u)
  PROVE  /\ Render(r, t).text = Render(q, u).text
         /\ AlikeBefore(Render(r, t).previous, Render(q, u).previous)
<1> DEFINE custom == IF MlUnicode THEN MlUnicodeRenderer(r, t.sym) ELSE <<>>
           other == IF MlUnicode THEN MlUnicodeRenderer(q, u.sym) ELSE <<>>
           plain == PlainText(r, t.sym)
           same == PlainText(q, u.sym)
<1>1. /\ r = [text |-> r.text, previous |-> r.previous]
      /\ q = [text |-> q.text, previous |-> q.previous]
  BY DEF Renderings
<1>2. SameSymbol(t.sym, u.sym) /\ t.sym.type # "number" /\ t.sym.type = u.sym.type
  BY DEF SameText, SameSymbol
<1>3. custom = other
  BY <1>2, CustomAlike
<1>4. plain = same
  BY <1>2, PlainAlike
<1>5. Render(r, t) = IF t.sym.type = "non_joiner" THEN [r EXCEPT !.previous = <<>>]
                     ELSE IF custom # <<>> THEN [r EXCEPT !.text = custom[1]]
                     ELSE [text |-> plain, previous |-> <<t>>]
  BY DEF Render
<1>6. Render(q, u) = IF u.sym.type = "non_joiner" THEN [q EXCEPT !.previous = <<>>]
                     ELSE IF other # <<>> THEN [q EXCEPT !.text = other[1]]
                     ELSE [text |-> same, previous |-> <<u>>]
  BY DEF Render
<1> HIDE DEF custom, other, plain, same
<1> DEFINE x == Render(r, t)
           y == Render(q, u)
<1>7. CASE t.sym.type = "non_joiner"
  <2>1. x = [r EXCEPT !.previous = <<>>] /\ y = [q EXCEPT !.previous = <<>>]
    BY <1>2, <1>5, <1>6, <1>7
  <2> HIDE DEF x, y
  <2>2. x.text = r.text /\ x.previous = <<>> /\ y.text = q.text /\ y.previous = <<>>
    BY <1>1, <2>1
  <2>3. x.text = y.text /\ AlikeBefore(x.previous, y.previous)
    BY <2>2 DEF AlikeBefore
  <2> QED BY <2>3 DEF x, y
<1>8. CASE t.sym.type # "non_joiner" /\ custom # <<>>
  <2>1. x = [r EXCEPT !.text = custom[1]] /\ y = [q EXCEPT !.text = custom[1]]
    BY <1>2, <1>3, <1>5, <1>6, <1>8
  <2> HIDE DEF x, y
  <2>2. x.text = y.text /\ x.previous = r.previous /\ y.previous = q.previous
    BY <1>1, <2>1
  <2> QED BY <2>2 DEF x, y
<1>9. CASE t.sym.type # "non_joiner" /\ custom = <<>>
  <2>1. x = [text |-> plain, previous |-> <<t>>] /\ y = [text |-> plain, previous |-> <<u>>]
    BY <1>2, <1>3, <1>4, <1>5, <1>6, <1>9
  <2> HIDE DEF x, y
  <2>2. x.text = y.text /\ x.previous = <<t>> /\ y.previous = <<u>>
    BY <2>1
  <2>3. AlikeBefore(<<t>>, <<u>>)
    BY DEF AlikeBefore
  <2> QED BY <2>2, <2>3 DEF x, y
<1> QED BY <1>7, <1>8, <1>9

\* Lists of such tokens are the same text.
LEMMA AlikeWritten ==
  ASSUME NEW x, NEW y, Alike(x, y)
  PROVE  ResolveTokens(x) = ResolveTokens(y)
<1> DEFINE n == Len(x)
<1>1. /\ n \in Nat /\ Len(y) = n
      /\ \A i \in 1..n : x[i] \in SchemeToken /\ y[i] \in SchemeToken /\ SameText(x[i], y[i])
  BY LenProperties, ElementOfSeq DEF Alike
<1>2. PICK g : /\ Rendered!Runs(0, Blank, y) = g[Len(y)]
               /\ g[0] = Blank
               /\ \A i \in 1..Len(y) : g[i] = RenderTurn(0, g[i - 1], y[i])
  BY <1>1, Rendered!RunsThrough
<1> DEFINE D == [i \in 0..n |-> {r \in Renderings : /\ g[i] \in Renderings /\ r.text = g[i].text
                                                    /\ AlikeBefore(r.previous, g[i].previous)}]
<1> HIDE DEF n
<1>3. \A i \in 0..n : D[i] = {r \in Renderings : /\ g[i] \in Renderings /\ r.text = g[i].text
                                                 /\ AlikeBefore(r.previous, g[i].previous)}
  OBVIOUS
<1> HIDE DEF D
<1>4. Blank \in D[0]
  <2>1. 0 \in 0..n /\ AlikeBefore(Blank.previous, Blank.previous)
    BY <1>1 DEF AlikeBefore, Blank
  <2> QED BY <1>2, <1>3, <2>1, BlankTyped
<1>5. ASSUME NEW i \in 1..n, NEW r \in D[i - 1]
      PROVE  RenderTurn(0, r, x[i]) \in D[i]
  <2>1. i - 1 \in 0..n /\ i \in 0..n
    BY <1>1
  <2>2. /\ r \in Renderings /\ g[i - 1] \in Renderings /\ r.text = g[i - 1].text
        /\ AlikeBefore(r.previous, g[i - 1].previous)
    BY <1>3, <2>1
  <2>3. g[i] = Render(g[i - 1], y[i])
    BY <1>1, <1>2 DEF RenderTurn
  <2>4. Render(r, x[i]) \in Renderings /\ Render(g[i - 1], y[i]) \in Renderings
    BY <1>1, <2>2, RenderTyped
  <2>5. /\ Render(r, x[i]).text = Render(g[i - 1], y[i]).text
        /\ AlikeBefore(Render(r, x[i]).previous, Render(g[i - 1], y[i]).previous)
    BY <1>1, <2>2, RenderedAlike
  <2> QED BY <1>3, <2>1, <2>3, <2>4, <2>5 DEF RenderTurn
<1>6. Rendered!Runs(0, Blank, x) \in D[n]
  BY <1>1, <1>4, <1>5, Rendered!StagesPassed DEF n
<1>7. Rendered!Runs(0, Blank, x).text = g[n].text
  <2>1. n \in 0..n
    BY <1>1
  <2> QED BY <1>3, <1>6, <2>1
<1>8. /\ ResolveTokens(x) = Rendered!Runs(0, Blank, x).text
      /\ ResolveTokens(y) = Rendered!Runs(0, Blank, y).text
  BY DEF Rendered!Runs, Rendered!Loop, Rendered!Once, Loop, Once, RenderTurn, ResolveTokens
<1> QED BY <1>1, <1>2, <1>7, <1>8

-----------------------------------------------------------------------------
(* The tokens of a position.                                               *)

\* Rows in lower case keep all else of their symbols.
LEMMA LowerSame ==
  ASSUME NEW r \in Symbols, NEW q \in Symbols,
         r.sym.type = q.sym.type, r.sym.tag = q.sym.tag, r.sym.value1 = q.sym.value1,
         r.sym.value2 = q.sym.value2, r.sym.value3 = q.sym.value3, VowelR(r) <=> VowelR(q)
  PROVE  SameSymbol([r EXCEPT !.sym.pattern = Fold(@)].sym, [q EXCEPT !.sym.pattern = Fold(@)].sym)
<1>1. ASSUME NEW x \in Symbols
      PROVE  LET s == x.sym
                 z == [x EXCEPT !.sym.pattern = Fold(@)].sym
             IN /\ z.type = s.type /\ z.tag = s.tag /\ z.value1 = s.value1
                /\ z.value2 = s.value2 /\ z.value3 = s.value3
                /\ WrittenAsR(z) <=> VowelR(x)
  <2> DEFINE s == x.sym
             p == Fold(s.pattern)
             y == [x EXCEPT !.sym.pattern = Fold(@)]
             z == [s EXCEPT !.pattern = p]
  <2>1. s \in SchemeSymbol /\ x = [id |-> x.id, sym |-> x.sym, more |-> x.more]
    BY SchemeAssumption
  <2>2. y = [x EXCEPT !.sym = z]
    OBVIOUS
  <2>3. VowelR(x) <=> MlUnicode /\ s.type = "vowel" /\ p = <<"r">>
    BY DEF VowelR
  <2> HIDE DEF p, y
  <2>4. z = [type |-> s.type, match |-> s.match, pattern |-> p, value1 |-> s.value1,
             value2 |-> s.value2, value3 |-> s.value3, tag |-> s.tag,
             priority |-> s.priority, accept |-> s.accept]
    BY <2>1, SymbolFields
  <2> HIDE DEF z, s
  <2>5. y.sym = z
    BY <2>1, <2>2
  <2>6. /\ z.type = s.type /\ z.tag = s.tag /\ z.value1 = s.value1
        /\ z.value2 = s.value2 /\ z.value3 = s.value3 /\ z.pattern = p
    BY <2>4
  <2> QED BY <2>3, <2>5, <2>6 DEF WrittenAsR, s, y
<1> DEFINE a == [r EXCEPT !.sym.pattern = Fold(@)].sym
           b == [q EXCEPT !.sym.pattern = Fold(@)].sym
<1>2. /\ a.type = r.sym.type /\ a.tag = r.sym.tag /\ a.value1 = r.sym.value1
      /\ a.value2 = r.sym.value2 /\ a.value3 = r.sym.value3 /\ (WrittenAsR(a) <=> VowelR(r))
  BY <1>1
<1>3. /\ b.type = q.sym.type /\ b.tag = q.sym.tag /\ b.value1 = q.sym.value1
      /\ b.value2 = q.sym.value2 /\ b.value3 = q.sym.value3 /\ (WrittenAsR(b) <=> VowelR(q))
  BY <1>1
<1> HIDE DEF a, b
<1>4. SameSymbol(a, b)
  BY <1>2, <1>3 DEF SameSymbol
<1> QED BY <1>4 DEF a, b

\* Sets of tokens that differ in their patterns alone, and sequences of them.
KinSets == {T \in SUBSET SchemeToken : \A t, u \in T : SameSymbol(t.sym, u.sym)}

AlikeSets == {T \in SUBSET SchemeToken : \A t, u \in T : SameText(t, u)}

Within(sets) == UNION {Seq(T) : T \in sets}

\* All that is found for a piece by its value is of such a set.
LEMMA MatchesKin ==
  ASSUME Agreeing, NEW text \in Text \ {<<>>}, NEW match
  PROVE  Matches(Symbols, text, "value", match) \in Within(KinSets)
<1> DEFINE T == ByValueInLower(text, match)
           lower(r) == [r EXCEPT !.sym.pattern = Fold(@)]
<1>1. Matches(Symbols, text, "value", match) \in Seq(T) /\ T \in SUBSET SchemeToken
  BY MatchesByValue
<1>2. \A t \in T : \E r \in Symbols : t = lower(r) /\ text \in {r.sym.value1, r.sym.value2}
  BY DEF ByValueInLower, ByValue
<1>3. ASSUME NEW r \in Symbols, NEW q \in Symbols,
             text \in {r.sym.value1, r.sym.value2}, text \in {q.sym.value1, q.sym.value2}
      PROVE  SameSymbol(lower(r).sym, lower(q).sym)
  <2>1. ({r.sym.value1, r.sym.value2} \cap {q.sym.value1, q.sym.value2}) \ {<<>>} # {}
    BY <1>3
  <2>2. /\ r.sym.type = q.sym.type /\ r.sym.tag = q.sym.tag
        /\ r.sym.value1 = q.sym.value1 /\ r.sym.value2 = q.sym.value2 /\ r.sym.value3 = q.sym.value3
        /\ VowelR(r) <=> VowelR(q)
    BY <2>1 DEF Agreeing
  <2> QED BY <2>2, LowerSame
<1> HIDE DEF T, lower
<1>4. \A t, u \in T : SameSymbol(t.sym, u.sym)
  BY <1>2, <1>3
<1>5. T \in KinSets
  BY <1>1, <1>4 DEF KinSets
<1> QED BY <1>1, <1>5 DEF Within

LEMMA OtherKin ==
  ASSUME NEW c \in Char
  PROVE  <<OtherToken(c)>> \in Within(KinSets)
<1> DEFINE t == OtherToken(c)
           T == {t}
<1>1. t \in SchemeToken
  BY OtherIsToken
<1> HIDE DEF t
<1>2. T \in KinSets
  BY <1>1 DEF KinSets, SameSymbol
<1>3. <<t>> \in Seq(T)
  OBVIOUS
<1> HIDE DEF T
<1>4. <<t>> \in Within(KinSets)
  BY <1>2, <1>3 DEF Within
<1> QED BY <1>4 DEF t

\* What is accepted of a position is written the same: no number is learned.
LEMMA AcceptedAlike ==
  ASSUME NEW p, NEW i, p[i] \in Within(KinSets)
  PROVE  Accepted(p, i) \in Within(AlikeSets)
<1>1. PICK T \in KinSets : p[i] \in Seq(T)
  BY DEF Within
<1> DEFINE K == {t \in T : t.sym.type \notin NeverLearned}
<1>2. Accepted(p, i) \in Seq(K)
  BY <1>1, AcceptedOf
<1>3. K \in SUBSET SchemeToken /\ \A t, u \in K : SameText(t, u)
  BY <1>1 DEF KinSets, SameText, NeverLearned
<1> HIDE DEF K
<1>4. K \in AlikeSets
  BY <1>3 DEF AlikeSets
<1> QED BY <1>2, <1>4 DEF Within

\* So is what is left of it.
LEMMA ReducedAlike ==
  ASSUME Agreeing, NEW w \in Text
  PROVE  Reduced(w) \in Seq(Within(AlikeSets))
<1> DEFINE p == Tokenize(w, "value", "all")
           X == Within(AlikeSets)
           K == Within(KinSets)
<1>1. p \in Seq(K)
  <2>1. \A c \in Char : <<OtherToken(c)>> \in K
    BY OtherKin
  <2>2. \A part \in Text \ {<<>>} : Matches(Symbols, part, "value", "all") # <<>> =>
          Matches(Symbols, part, "value", "all") \in K
    BY MatchesKin
  <2> HIDE DEF K
  <2> QED BY <2>1, <2>2, TokenizeInto
<1>2. Len(p) \in Nat /\ \A j \in 1..Len(p) : p[j] \in K
  <2> HIDE DEF p, K
  <2> QED BY <1>1, LenProperties, ElementOfSeq
<1>3. \A s \in X : High(s) \in X /\ Front(s) \in X
  BY HighOf, FrontTyped DEF Within
<1>4. X \subseteq Seq(SchemeToken)
  <2>1. \A T \in AlikeSets : Seq(T) \subseteq Seq(SchemeToken)
    BY SeqMonotonic DEF AlikeSets
  <2> QED BY <2>1 DEF Within
<1> HIDE DEF p
<1>5. ApplyAcceptance(p) \in Seq(X)
  <2>1. \A j \in 1..Len(p) : Accepted(p, j) # <<>> => Accepted(p, j) \in X
    BY <1>2, AcceptedAlike
  <2> HIDE DEF X
  <2> QED BY <1>2, <2>1, ApplyAcceptanceInto
<1> HIDE DEF X, K
<1>6. Seq(X) \subseteq Positions
  BY <1>4, SeqMonotonic DEF Positions
<1>7. RemoveLow(ApplyAcceptance(p)) \in Seq(X)
  BY <1>3, <1>5, RemoveLowInto
<1>8. PopUntilFits(RemoveLow(ApplyAcceptance(p))) \in Seq(X)
  BY <1>3, <1>6, <1>7, PopUntilFitsInto
<1>9. <<>> \in Seq(X)
  OBVIOUS
<1>10. ReduceNoise(p) \in Seq(X)
  BY <1>8, <1>9 DEF ReduceNoise
<1> QED BY <1>10 DEF Reduced, p, X

-----------------------------------------------------------------------------
(* The products of a word are written the same, and so are their prefixes. *)

LEMMA AlikeJoined ==
  ASSUME NEW x, NEW y, Alike(x, y), NEW u, NEW v, Alike(u, v)
  PROVE  Alike(x \o u, y \o v)
<1> DEFINE n == Len(x)
           m == Len(u)
<1>1. /\ x \in Seq(SchemeToken) /\ y \in Seq(SchemeToken) /\ u \in Seq(SchemeToken) /\ v \in Seq(SchemeToken)
      /\ Len(y) = n /\ Len(v) = m /\ n \in Nat /\ m \in Nat
      /\ \A i \in 1..n : SameText(x[i], y[i])
      /\ \A i \in 1..m : SameText(u[i], v[i])
  BY LenProperties DEF Alike
<1>2. /\ x \o u \in Seq(SchemeToken) /\ Len(x \o u) = n + m
      /\ \A i \in 1..(n + m) : (x \o u)[i] = IF i <= n THEN x[i] ELSE u[i - n]
  BY <1>1, ConcatProperties
<1>3. /\ y \o v \in Seq(SchemeToken) /\ Len(y \o v) = n + m
      /\ \A i \in 1..(n + m) : (y \o v)[i] = IF i <= n THEN y[i] ELSE v[i - n]
  <2> DEFINE b == y \o v
  <2>1. /\ b \in Seq(SchemeToken) /\ Len(b) = Len(y) + Len(v)
        /\ \A i \in 1..(Len(y) + Len(v)) : b[i] = IF i <= Len(y) THEN y[i] ELSE v[i - Len(y)]
    BY <1>1, ConcatProperties
  <2> HIDE DEF n, m, b
  <2>2. /\ b \in Seq(SchemeToken) /\ Len(b) = n + m
        /\ \A i \in 1..(n + m) : b[i] = IF i <= n THEN y[i] ELSE v[i - n]
    BY <1>1, <2>1
  <2> QED BY <2>2 DEF b
<1> DEFINE a == x \o u
           b == y \o v
<1> HIDE DEF n, m, a, b
<1>4. ASSUME NEW i \in 1..(n + m) PROVE SameText(a[i], b[i])
  <2>1. CASE i <= n
    <3>1. i \in 1..n
      BY <1>1, <2>1
    <3> QED BY <1>1, <1>2, <1>3, <2>1, <3>1 DEF a, b
  <2>2. CASE ~(i <= n)
    <3>1. i - n \in 1..m
      BY <1>1, <2>2
    <3>2. a[i] = u[i - n] /\ b[i] = v[i - n]
      BY <1>2, <1>3, <2>2 DEF a, b
    <3> QED BY <1>1, <3>1, <3>2
  <2> QED BY <2>1, <2>2
<1> QED BY <1>2, <1>3, <1>4 DEF Alike, a, b

LEMMA AlikeFlattened ==
  ASSUME NEW s \in Seq(Seq(SchemeToken)), NEW z \in Seq(Seq(SchemeToken)), Len(s) = Len(z),
         \A i \in 1..Len(s) : Alike(s[i], z[i])
  PROVE  Alike(FlattenSeq(s), FlattenSeq(z))
<1> DEFINE n == Len(s)
<1>1. n \in Nat /\ Len(z) = n /\ (s = <<>> <=> n = 0) /\ (z = <<>> <=> n = 0)
  BY EmptySeq, LenProperties
<1>2. CASE n = 0
  <2>1. FlattenSeq(s) = <<>> /\ FlattenSeq(z) = <<>>
    BY <1>1, <1>2 DEF FlattenSeq
  <2>2. Len(<<>>) = 0 /\ 1..0 = {} /\ <<>> \in Seq(SchemeToken)
    OBVIOUS
  <2>3. Alike(<<>>, <<>>)
    BY <2>2 DEF Alike
  <2> QED BY <2>1, <2>3
<1>3. CASE n # 0
  <2>1. PICK f : Joins(f, s, n) /\ FlattenSeq(s) = f[n]
    BY <1>1, <1>3, FlattenJoins
  <2>2. PICK g : Joins(g, z, n) /\ FlattenSeq(z) = g[n]
    BY <1>1, <1>3, FlattenJoins
  <2>3. \A i \in 1..n : Alike(s[i], z[i])
    OBVIOUS
  <2> HIDE DEF n
  <2>4. \A i \in 1..n : f[i] = IF i = 1 THEN s[i] ELSE f[i - 1] \o s[i]
    BY <2>1, JoinsAt
  <2>5. \A i \in 1..n : g[i] = IF i = 1 THEN z[i] ELSE g[i - 1] \o z[i]
    BY <2>2, JoinsAt
  <2> DEFINE Bad == {i \in 1..n : ~Alike(f[i], g[i])}
  <2>6. Bad = {}
    <3> SUFFICES ASSUME Bad # {} PROVE FALSE
      OBVIOUS
    <3>1. PICK i \in Bad : \A j \in Bad : ~(j < i)
      <4>1. Bad \subseteq Nat
        OBVIOUS
      <4>2. PICK i \in Bad : \A j \in Bad : <<j, i>> \notin OpToRel(<, Nat)
        BY <4>1, WFMin, NatLessThanWellFounded
      <4> QED BY <4>1, <4>2 DEF OpToRel
    <3>2. i \in 1..n /\ ~Alike(f[i], g[i])
      BY <3>1
    <3>3. CASE i = 1
      BY <2>3, <2>4, <2>5, <3>2, <3>3
    <3>4. CASE i # 1
      <4>1. i - 1 \in 1..n /\ i - 1 < i
        BY <1>1, <3>2, <3>4
      <4>2. Alike(f[i - 1], g[i - 1])
        BY <3>1, <4>1
      <4>3. f[i] = f[i - 1] \o s[i] /\ g[i] = g[i - 1] \o z[i]
        BY <2>4, <2>5, <3>2, <3>4
      <4> QED BY <2>3, <3>2, <4>2, <4>3, AlikeJoined
    <3> QED BY <3>3, <3>4
  <2>7. n \in 1..n
    BY <1>1, <1>3
  <2> QED BY <2>1, <2>2, <2>6, <2>7
<1> QED BY <1>2, <1>3

\* Offsets at which each position that has tokens has one.
Fitting(p) == {o \in Offsets(p) : \A i \in DOMAIN p : p[i] # <<>> => o[i] <= Len(p[i])}

LEMMA NextOffsetsFit ==
  ASSUME NEW p \in Positions, NEW o \in Fitting(p)
  PROVE  NextOffsets(p, o) = <<>> \/ NextOffsets(p, o) \in Fitting(p)
<1> DEFINE movable == {i \in DOMAIN p : o[i] # Len(p[i])}
           m == Max(movable)
           next(i) == IF i < m THEN o[i] ELSE IF i = m THEN o[i] + 1 ELSE 1
           z == [i \in DOMAIN p |-> next(i)]
<1>1. /\ Len(p) \in Nat /\ DOMAIN p = 1..Len(p)
      /\ \A i \in 1..Len(p) : Len(p[i]) \in Nat /\ (p[i] # <<>> => Len(p[i]) >= 1)
  <2>1. Len(p) \in Nat /\ DOMAIN p = 1..Len(p) /\ \A i \in 1..Len(p) : p[i] \in Seq(SchemeToken)
    BY LenProperties, ElementOfSeq DEF Positions
  <2>2. \A i \in 1..Len(p) : Len(p[i]) \in Nat /\ (p[i] # <<>> => Len(p[i]) # 0)
    BY <2>1, LenProperties, EmptySeq
  <2> QED BY <2>1, <2>2
<1>2. o \in Offsets(p) /\ \A i \in DOMAIN p : o[i] \in Nat \ {0} /\ (p[i] # <<>> => o[i] <= Len(p[i]))
  BY DEF Fitting, Offsets
<1>3. CASE movable = {}
  BY <1>3 DEF NextOffsets
<1>4. CASE movable # {}
  <2>1. NextOffsets(p, o) = z
    BY <1>4 DEF NextOffsets
  <2>2. z \in Offsets(p)
    <3> HIDE DEF m
    <3>1. \A i \in DOMAIN p : next(i) \in Nat \ {0}
      BY <1>2
    <3> HIDE DEF next
    <3> QED BY <3>1 DEF Offsets
  <2>3. m \in movable
    <3>1. movable \in SUBSET (Nat \ {0}) /\ \A i \in movable : i <= Len(p)
      BY <1>1
    <3> HIDE DEF movable
    <3>2. \E i \in movable : \A j \in movable : j <= i
      BY <1>1, <1>4, <3>1, LargestElement
    <3>3. \E i \in movable : \A j \in movable : i >= j
      BY <3>1, <3>2
    <3> QED BY <3>3 DEF Max
  <2>4. o[m] # Len(p[m])
    BY <2>3
  <2> HIDE DEF m
  <2>5. ASSUME NEW i \in DOMAIN p, p[i] # <<>>
        PROVE  next(i) <= Len(p[i])
    <3>1. Len(p[i]) \in Nat /\ Len(p[i]) >= 1 /\ o[i] \in Nat /\ o[i] <= Len(p[i])
      BY <1>1, <1>2, <2>5
    <3> QED BY <2>4, <3>1
  <2>6. \A i \in DOMAIN p : z[i] = next(i)
    OBVIOUS
  <2> HIDE DEF z, next
  <2> QED BY <2>1, <2>2, <2>5, <2>6 DEF Fitting
<1> QED BY <1>3, <1>4

\* All that are found are such.
LEMMA OffsetsFoundFit ==
  ASSUME NEW p \in Positions
  PROVE  OffsetsFound(p) \in Seq(Fitting(p))
<1> DEFINE n == MaxPatterns - 1
           s == UpTo(n)
           start == <<Ones(p)>>
           F == Fitting(p)
           D == Seq(F) \ {<<>>}
<1>1. OffsetsFound(p) = Enumerating!Runs(p, start, s)
  BY DEF Enumerating!Runs, Enumerating!Loop, Enumerating!Once, Loop, Once, OffsetTurn, OffsetsFound, ProductLimit
<1>2. Len(s) \in Nat
  <2>1. n \in Nat
    BY NoiseAssumption
  <2> HIDE DEF n
  <2> QED BY <2>1, UpToIs
<1>3. Ones(p) \in F
  <2>1. Len(p) \in Nat /\ DOMAIN p = 1..Len(p) /\ \A i \in 1..Len(p) : p[i] \in Seq(SchemeToken)
    BY LenProperties, ElementOfSeq DEF Positions
  <2>2. \A i \in DOMAIN p : p[i] # <<>> => 1 <= Len(p[i])
    BY <2>1, LenProperties, EmptySeq
  <2>3. Ones(p) \in Offsets(p) /\ \A i \in DOMAIN p : Ones(p)[i] = 1
    BY DEF Ones, Offsets
  <2> QED BY <2>2, <2>3 DEF Fitting
<1> HIDE DEF s, F
<1>4. start \in D
  BY <1>3
<1>5. ASSUME NEW k \in 1..Len(s), NEW found \in D
      PROVE  OffsetTurn(p, found, s[k]) \in D
  <2> DEFINE last == Last(found)
             next == NextOffsets(p, last)
             all == Append(found, next)
  <2>1. found \in Seq(F) /\ found # <<>>
    OBVIOUS
  <2>2. Len(found) \in 1..Len(found)
    BY <2>1, EmptySeq, LenProperties
  <2>3. last \in Fitting(p)
    BY <2>1, <2>2, ElementOfSeq DEF Last, F
  <2> HIDE DEF last
  <2>4. next = <<>> \/ next \in F
    BY <2>3, NextOffsetsFit DEF F
  <2>5. OffsetTurn(p, found, s[k]) = IF next = <<>> THEN found ELSE all
    BY DEF OffsetTurn, last
  <2> HIDE DEF next
  <2>6. CASE next = <<>>
    BY <2>1, <2>5, <2>6
  <2>7. CASE next # <<>>
    <3>1. all \in Seq(F) /\ Len(all) = Len(found) + 1
      BY <2>1, <2>4, <2>7, AppendProperties
    <3> HIDE DEF all
    <3>2. all # <<>>
      BY <2>1, <3>1, EmptySeq, LenProperties
    <3> QED BY <2>5, <2>7, <3>1, <3>2
  <2> QED BY <2>6, <2>7
<1> HIDE DEF start, D
<1>6. Enumerating!Runs(p, start, s) \in D
  BY <1>2, <1>4, <1>5, Enumerating!StaysIn
<1> QED BY <1>1, <1>6 DEF D, F

LEMMA ProductsAlike ==
  ASSUME NEW p \in Seq(Within(AlikeSets)), NEW o \in Fitting(p), NEW u \in Fitting(p)
  PROVE  Alike(ProductAt(p, o), ProductAt(p, u))
<1> DEFINE part(c, i) == IF c[i] <= Len(p[i]) THEN <<p[i][c[i]]>> ELSE <<>>
           s == [i \in DOMAIN p |-> part(o, i)]
           z == [i \in DOMAIN p |-> part(u, i)]
           n == Len(p)
<1>1. n \in Nat /\ DOMAIN p = 1..n /\ \A i \in 1..n : p[i] \in Within(AlikeSets)
  <2> DEFINE X == Within(AlikeSets)
  <2> HIDE DEF X
  <2>1. p \in Seq(X)
    BY DEF X
  <2>2. n \in Nat /\ DOMAIN p = 1..n /\ \A i \in 1..n : p[i] \in X
    BY <2>1, LenProperties, ElementOfSeq
  <2> QED BY <2>2 DEF X
<1>2. /\ \A i \in 1..n : o[i] \in Nat \ {0} /\ (p[i] # <<>> => o[i] <= Len(p[i]))
      /\ \A i \in 1..n : u[i] \in Nat \ {0} /\ (p[i] # <<>> => u[i] <= Len(p[i]))
  BY <1>1 DEF Fitting, Offsets
<1>3. ProductAt(p, o) = FlattenSeq(s) /\ ProductAt(p, u) = FlattenSeq(z)
  BY DEF ProductAt
<1>4. ASSUME NEW i \in 1..n PROVE Alike(part(o, i), part(u, i))
  <2>1. PICK T \in AlikeSets : p[i] \in Seq(T)
    BY <1>1 DEF Within
  <2>2. T \subseteq SchemeToken /\ \A t, q \in T : SameText(t, q)
    BY DEF AlikeSets
  <2>3. CASE p[i] = <<>>
    <3>1. Len(p[i]) = 0
      BY <2>3
    <3>2. part(o, i) = <<>> /\ part(u, i) = <<>>
      BY <1>2, <3>1
    <3>3. Len(<<>>) = 0 /\ 1..0 = {} /\ <<>> \in Seq(SchemeToken)
      OBVIOUS
    <3>4. Alike(<<>>, <<>>)
      BY <3>3 DEF Alike
    <3> QED BY <3>2, <3>4
  <2>4. CASE p[i] # <<>>
    <3> DEFINE a == p[i][o[i]]
               b == p[i][u[i]]
               x == <<a>>
               y == <<b>>
    <3>1. o[i] \in 1..Len(p[i]) /\ u[i] \in 1..Len(p[i])
      BY <1>2, <2>1, <2>4, LenProperties
    <3>2. a \in T /\ b \in T
      BY <2>1, <3>1, ElementOfSeq
    <3>3. part(o, i) = x /\ part(u, i) = y
      BY <1>2, <2>4
    <3> HIDE DEF a, b
    <3>4. /\ x \in Seq(SchemeToken) /\ y \in Seq(SchemeToken) /\ Len(x) = 1 /\ Len(y) = 1
          /\ x[1] = a /\ y[1] = b
      BY <2>2, <3>2
    <3> HIDE DEF x, y
    <3>5. \A j \in 1..Len(x) : SameText(x[j], y[j])
      BY <2>2, <3>2, <3>4
    <3>6. Alike(x, y)
      BY <3>4, <3>5 DEF Alike
    <3> HIDE DEF part
    <3> QED BY <3>3, <3>6
  <2> QED BY <2>3, <2>4
<1> HIDE DEF part, n
<1>5. /\ s = [i \in 1..n |-> s[i]] /\ z = [i \in 1..n |-> z[i]]
      /\ \A i \in 1..n : Alike(s[i], z[i])
  BY <1>1, <1>4
<1> HIDE DEF s, z
<1>6. \A i \in 1..n : s[i] \in Seq(SchemeToken) /\ z[i] \in Seq(SchemeToken)
  BY <1>5 DEF Alike
<1>7. /\ s \in Seq(Seq(SchemeToken)) /\ Len(s) = n
      /\ z \in Seq(Seq(SchemeToken)) /\ Len(z) = n
  BY <1>1, <1>5, <1>6, ListOf
<1> QED BY <1>3, <1>5, <1>7, AlikeFlattened

\* Each product of a word is written as its first.
LEMMA WordAlike ==
  ASSUME Agreeing, NEW w \in Text, NEW i \in 1..Len(Products(Reduced(w)))
  PROVE  Alike(Products(Reduced(w))[i], Products(Reduced(w))[1])
<1> DEFINE p == Reduced(w)
           offsets == OffsetsFound(p)
           n == Len(offsets)
           q == [k \in DOMAIN offsets |-> ProductAt(p, offsets[k])]
<1>1. p \in Positions /\ p \in Seq(Within(AlikeSets))
  BY ReducedTyped, ReducedAlike
<1> HIDE DEF p
<1>2. offsets \in Seq(Fitting(p)) /\ Products(p) = q
  BY <1>1, OffsetsFoundFit DEF Products, OffsetsFound, Ones
<1>3. n \in Nat /\ DOMAIN offsets = 1..n /\ \A k \in 1..n : offsets[k] \in Fitting(p)
  BY <1>2, LenProperties, ElementOfSeq
<1> HIDE DEF n, offsets
<1>4. q = [k \in 1..n |-> q[k]] /\ \A k \in 1..n : q[k] = ProductAt(p, offsets[k])
  BY <1>3
<1> HIDE DEF q
<1>5. Len(q) = n
  <2>1. \A k \in 1..n : q[k] \in {q[j] : j \in 1..n}
    OBVIOUS
  <2> QED BY <1>3, <1>4, <2>1, ListOf
<1>6. i \in 1..n /\ 1 \in 1..n
  BY <1>2, <1>3, <1>5 DEF p
<1>7. Alike(q[i], q[1])
  BY <1>1, <1>3, <1>4, <1>6, ProductsAlike
<1> QED BY <1>2, <1>7 DEF p

\* The prefixes of such products are as many, and written the same.
LEMMA PrefixesAlike ==
  ASSUME NEW x, NEW y, Alike(x, y)
  PROVE  /\ Len(PrefixesOf(x)) = Len(PrefixesOf(y)) /\ Len(PrefixesOf(x)) \in Nat
         /\ \A j \in 1..Len(PrefixesOf(x)) :
              ResolveTokens(PrefixesOf(x)[j]) = ResolveTokens(PrefixesOf(y)[j])
<1> DEFINE k == Len(x)
           m == Max({0, k - 2})
           f == PrefixesOf(x)
           g == PrefixesOf(y)
<1>1. /\ x \in Seq(SchemeToken) /\ y \in Seq(SchemeToken) /\ Len(y) = k /\ k \in Nat
      /\ \A i \in 1..k : x[i] \in SchemeToken /\ y[i] \in SchemeToken /\ SameText(x[i], y[i])
  BY LenProperties, ElementOfSeq DEF Alike
<1> HIDE DEF k
<1>2. m \in {0, k - 2} /\ \A z \in {0, k - 2} : m >= z
  <2>1. \E z \in {0, k - 2} : \A v \in {0, k - 2} : z >= v
    BY <1>1
  <2> QED BY <2>1 DEF Max
<1>3. m \in Nat
  BY <1>1, <1>2
<1>4. f = [n \in 1..m |-> SubSeq(x, 1, n + 1)] /\ g = [n \in 1..m |-> SubSeq(y, 1, n + 1)]
  BY <1>1 DEF PrefixesOf, k
<1> HIDE DEF m, f, g
<1>5. ASSUME NEW n \in 1..m
      PROVE  Alike(f[n], g[n])
  <2> DEFINE l == n + 1
             a == SubSeq(x, 1, l)
             b == SubSeq(y, 1, l)
  <2>1. l \in Int /\ l <= k /\ 1 <= l /\ l - 1 + 1 = l
    BY <1>1, <1>2, <1>3
  <2>2. f[n] = a /\ g[n] = b
    BY <1>4
  <2> HIDE DEF l
  <2>3. \A i \in 1..l : i \in 1..k
    BY <1>1, <2>1
  <2>4. a \in Seq(SchemeToken) /\ Len(a) = l /\ \A i \in 1..l : a[i] = x[i]
    <3>1. \A i \in 1..l : x[i] \in SchemeToken
      BY <1>1, <2>3
    <3>2. \A i \in 1..(l - 1 + 1) : a[i] = x[1 + i - 1]
      BY <2>1, <3>1, SubSeqProperties
    <3> QED BY <2>1, <3>1, <3>2, SubSeqProperties
  <2>5. b \in Seq(SchemeToken) /\ Len(b) = l /\ \A i \in 1..l : b[i] = y[i]
    <3>1. \A i \in 1..l : y[i] \in SchemeToken
      BY <1>1, <2>3
    <3>2. \A i \in 1..(l - 1 + 1) : b[i] = y[1 + i - 1]
      BY <2>1, <3>1, SubSeqProperties
    <3> QED BY <2>1, <3>1, <3>2, SubSeqProperties
  <2> HIDE DEF a, b
  <2>6. Alike(a, b)
    BY <1>1, <2>3, <2>4, <2>5 DEF Alike
  <2> QED BY <2>2, <2>6
<1>6. Len(f) = m /\ Len(g) = m
  <2>1. f = [n \in 1..m |-> f[n]] /\ g = [n \in 1..m |-> g[n]]
    BY <1>4
  <2>2. \A n \in 1..m : f[n] \in Seq(SchemeToken) /\ g[n] \in Seq(SchemeToken)
    BY <1>5 DEF Alike
  <2> QED BY <1>3, <2>1, <2>2, ListOf
<1> QED BY <1>3, <1>5, <1>6, AlikeWritten DEF f, g

-----------------------------------------------------------------------------
(* The words of the patterns.                                              *)

Owned(d) == \A r \in d.patterns : r.word_id \in Ids(d)

\* A file with new words, and patterns of words that it has.
LEMMA OwnedKept ==
  ASSUME NEW d, NEW e, Owned(d), Grown(d, e),
         \A r \in e.patterns : r.word_id \in Ids(d) \/ \E q \in d.patterns : q.word_id = r.word_id
  PROVE  Owned(e)
<1>1. Ids(d) \subseteq Ids(e)
  BY DEF Ids, Grown
<1> QED BY <1>1 DEF Owned

LEMMA WordOwned ==
  ASSUME NEW d \in Files, Owned(d), NEW w \in Text, NEW c \in Int
  PROVE  Owned(Learned(d, w, c))
<1> DEFINE e == Learned(d, w, c)
           bumped == {IF r.word = w THEN [r EXCEPT !.confidence = @ + 1] ELSE r : r \in d.words}
           more == d.words \cup {[id |-> NextId(d), word |-> w, confidence |-> c]}
<1>1. d = [words |-> d.words, patterns |-> d.patterns]
  BY DEF Files, Db
<1>2. e.patterns = d.patterns
  <2>1. e = d \/ e = [d EXCEPT !.words = bumped] \/ e = [d EXCEPT !.words = more]
    BY DEF Learned, BumpConfidence, InsertWord
  <2> HIDE DEF e, bumped, more
  <2> QED BY <1>1, <2>1
<1>3. Grown(d, e)
  BY WordLearned DEF After
<1> HIDE DEF e
<1>4. Owned(e)
  BY <1>2, <1>3, OwnedKept
<1> QED BY <1>4 DEF e

\* A pattern of a word that is stored.
LEMMA AttachOwned ==
  ASSUME NEW d \in Files, Owned(d), NEW tokens \in Seq(SchemeToken), NEW w, Stored(d, w),
         NEW isPrefix \in BOOLEAN
  PROVE  Owned(Attach(d, tokens, w, isPrefix))
<1> DEFINE p == PatternOf(tokens)
           i == IdOf(d, w)
           e == InsertPattern(d, p, i)
           f == MarkLearned(e, p, i)
           new == [pattern |-> p, word_id |-> i, learned |-> 0]
           more == d.patterns \cup {new}
           mark(r) == IF r.pattern = p /\ r.word_id = i THEN [r EXCEPT !.learned = 1] ELSE r
           marked == {mark(r) : r \in e.patterns}
<1>1. GoodDb(d, Text, Text) /\ p \in Text /\ i \in Ids(d) /\ i \in Int
  <2>1. GoodDb(d, Text, Text) /\ p \in Text
    BY PatternOfTyped, FileIs
  <2> HIDE DEF p, i
  <2> QED BY <2>1, IdOfType DEF Ids, i
<1>2. Attach(d, tokens, w, isPrefix) = IF isPrefix THEN e ELSE f
  BY DEF Attach, PersistPattern
<1>3. GoodDb(e, Text, Text) /\ e.words = d.words
  BY <1>1, InsertPatternGood
<1>4. GoodDb(f, Text, Text) /\ f.words = e.words
  BY <1>3, MarkLearnedGood
<1>5. \A r \in e.patterns : r \in d.patterns \/ r.word_id = i
  <2>1. e = d \/ e = [d EXCEPT !.patterns = more]
    BY DEF InsertPattern
  <2>2. \A r \in more : r \in d.patterns \/ r.word_id = i
    OBVIOUS
  <2> HIDE DEF e, more
  <2>3. e = d \/ e.patterns = more
    BY <1>1, <2>1 DEF GoodDb, Db
  <2> QED BY <2>2, <2>3
<1>6. \A r \in f.patterns : \E q \in e.patterns : q.word_id = r.word_id
  <2>1. f = [e EXCEPT !.patterns = marked]
    BY Zenon DEF MarkLearned
  <2>2. \A r \in marked : \E q \in e.patterns : q.word_id = r.word_id
    <3>1. \A q \in e.patterns : mark(q).word_id = q.word_id
      BY <1>3 DEF GoodDb, Db, PatternRow
    <3> HIDE DEF mark
    <3> QED BY <3>1
  <2> HIDE DEF f, marked, e
  <2> QED BY <1>3, <2>1, <2>2 DEF GoodDb, Db
<1> HIDE DEF e, f, i
<1>7. Ids(e) = Ids(d) /\ Ids(f) = Ids(d)
  BY <1>3, <1>4 DEF Ids
<1>8. Owned(e)
  BY <1>1, <1>5, <1>7 DEF Owned
<1>9. Owned(f)
  BY <1>6, <1>7, <1>8 DEF Owned
<1> QED BY <1>2, <1>8, <1>9

\* The words of the prefixes are there once they were learned with a product.
LEMMA PrefixesOwned ==
  ASSUME NEW d \in Files, Owned(d), NEW product \in Seq(SchemeToken), NEW first \in BOOLEAN,
         ~first => \A j \in 1..Len(PrefixesOf(product)) : Stored(d, ResolveTokens(PrefixesOf(product)[j]))
  PROVE  LET e == LearnPrefixes(d, product, first) IN
         /\ Owned(e)
         /\ \A j \in 1..Len(PrefixesOf(product)) : Stored(e, ResolveTokens(PrefixesOf(product)[j]))
<1> DEFINE s == PrefixesOf(product)
           n == Len(s)
           W(j) == ResolveTokens(s[j])
           D == [k \in 0..n |-> {e \in After(d) : /\ Owned(e)
                                                  /\ \A j \in 1..n : j <= k \/ ~first => Stored(e, W(j))}]
<1>1. LearnPrefixes(d, product, first) = LearningPrefixes!Runs(first, d, s)
  BY DEF LearningPrefixes!Runs, LearningPrefixes!Loop, LearningPrefixes!Once, Loop, Once, PrefixTurn,
         LearnPrefixes
<1>2. n \in Nat /\ \A j \in 1..n : s[j] \in Seq(SchemeToken)
  BY PrefixesTyped, LenProperties, ElementOfSeq
<1>3. \A j \in 1..n : W(j) \in Text
  BY <1>2, ResolveTokensTyped
<1>4. ~first => \A j \in 1..n : Stored(d, W(j))
  OBVIOUS
<1> HIDE DEF n
<1>5. \A k \in 0..n : D[k] = {e \in After(d) : /\ Owned(e)
                                               /\ \A j \in 1..n : j <= k \/ ~first => Stored(e, W(j))}
  OBVIOUS
<1> HIDE DEF D, s
<1>6. d \in D[0]
  <2>1. 0 \in 0..n /\ \A j \in 1..n : ~(j <= 0)
    BY <1>2
  <2>2. \A j \in 1..n : j <= 0 \/ ~first => Stored(d, W(j))
    BY <1>4, <2>1
  <2> HIDE DEF W
  <2> QED BY <1>5, <2>1, <2>2, AfterItself
<1>7. ASSUME NEW k \in 1..n, NEW e \in D[k - 1]
      PROVE  PrefixTurn(first, e, s[k]) \in D[k]
  <2> DEFINE w == W(k)
             l == IF first THEN Learned(e, w, 1) ELSE e
             a == Attach(l, s[k], w, TRUE)
  <2>1. k - 1 \in 0..n /\ k \in 0..n /\ \A j \in 1..n : j <= k => j = k \/ j <= k - 1
    BY <1>2
  <2>2. /\ e \in After(d) /\ Owned(e) /\ e \in Files
        /\ \A j \in 1..n : j <= k - 1 \/ ~first => Stored(e, W(j))
    BY <1>5, <2>1 DEF After
  <2>3. w \in Text /\ s[k] \in Seq(SchemeToken)
    BY <1>2, <1>3
  <2>4. PrefixTurn(first, e, s[k]) = a
    BY DEF PrefixTurn
  <2>5. ~first => Stored(e, w)
    BY <2>2
  <2> HIDE DEF w
  <2>6. l \in After(e) /\ Owned(l) /\ Stored(l, w)
    BY <2>2, <2>3, <2>5, WordLearned, WordOwned, AfterItself
  <2> HIDE DEF l
  <2>7. l \in Files
    BY <2>6 DEF After
  <2>8. a \in After(l) /\ Owned(a)
    BY <2>3, <2>6, <2>7, PatternAttached, AttachOwned
  <2> HIDE DEF a
  <2>9. a \in After(e) /\ a \in After(d) /\ a \in Files
    BY <2>2, <2>6, <2>8, AfterAfter DEF After
  <2>10. Stored(a, w)
    BY <2>6, <2>7, <2>8, StaysStored DEF After
  <2>11. ASSUME NEW j \in 1..n, j <= k \/ ~first
         PROVE  Stored(a, W(j))
    <3>1. CASE j = k
      BY <2>10, <3>1 DEF w
    <3>2. CASE j # k
      <4>1. Stored(e, W(j))
        BY <2>1, <2>2, <2>11, <3>2
      <4> QED BY <2>2, <2>9, <4>1, StaysStored DEF After
    <3> QED BY <3>1, <3>2
  <2> HIDE DEF W
  <2> QED BY <1>5, <2>1, <2>4, <2>8, <2>9, <2>11
<1>8. LearningPrefixes!Runs(first, d, s) \in D[n]
  <2> HIDE DEF W
  <2> QED BY <1>2, <1>6, <1>7, LearningPrefixes!StagesPassed DEF n
<1>9. n \in 0..n /\ \A j \in 1..n : j <= n
  BY <1>2
<1> DEFINE e == LearnPrefixes(d, product, first)
<1> HIDE DEF e
<1>10. Owned(e) /\ \A j \in 1..n : Stored(e, W(j))
  <2> HIDE DEF W
  <2> QED BY <1>1, <1>5, <1>8, <1>9 DEF e
<1> QED BY <1>10 DEF e, n, s

\* The other products have the prefixes of the first: nothing is left without a word.
LEMMA LearnedOwned ==
  ASSUME Agreeing, NEW d \in Files, Owned(d), NEW w \in Text, NEW c \in Int
  PROVE  Owned(LearnInto(d, w, c))
<1> DEFINE products == Products(Reduced(w))
           n == Len(products)
           of == <<products, w>>
           s == UpTo(n)
           start == Learned(d, w, c)
           m == Len(PrefixesOf(products[1]))
           W(j) == ResolveTokens(PrefixesOf(products[1])[j])
           D == [k \in 0..n |-> {e \in After(d) : /\ Owned(e) /\ Stored(e, w)
                                                  /\ k > 0 => \A j \in 1..m : Stored(e, W(j))}]
<1>1. LearnInto(d, w, c) = LearningProducts!Runs(of, start, s)
  BY LearnedByProducts
<1>2. /\ n \in Nat \ {0} /\ Len(s) = n /\ \A k \in 1..n : s[k] = k
      /\ \A k \in 1..n : products[k] \in Seq(SchemeToken) /\ PatternOf(products[k]) \in PatternsToLearn(w)
  BY ProductsOf
<1>3. ASSUME NEW k \in 1..n
      PROVE  /\ Len(PrefixesOf(products[k])) = m
             /\ \A j \in 1..m : ResolveTokens(PrefixesOf(products[k])[j]) = W(j)
  <2>1. Alike(products[k], products[1])
    BY WordAlike
  <2> HIDE DEF products
  <2> QED BY <2>1, PrefixesAlike
<1>4. start \in After(d) /\ Owned(start) /\ Stored(start, w)
  BY WordLearned, WordOwned
<1> HIDE DEF products, n, s, start, m, W
<1>5. \A k \in 0..n : D[k] = {e \in After(d) : /\ Owned(e) /\ Stored(e, w)
                                               /\ k > 0 => \A j \in 1..m : Stored(e, W(j))}
  OBVIOUS
<1> HIDE DEF D
<1>6. start \in D[0]
  <2>1. 0 \in 0..n /\ ~(0 > 0)
    BY <1>2
  <2> QED BY <1>4, <1>5, <2>1
<1>7. ASSUME NEW k \in 1..n, NEW e \in D[k - 1]
      PROVE  ProductTurn(of, e, s[k]) \in D[k]
  <2> DEFINE x == products[k]
             first == (k = 1)
             a == Attach(e, x, w, FALSE)
             l == LearnPrefixes(a, x, first)
  <2>1. k - 1 \in 0..n /\ k \in 0..n /\ k > 0 /\ (k # 1 => k - 1 > 0)
    BY <1>2
  <2>2. /\ e \in After(d) /\ Owned(e) /\ Stored(e, w) /\ e \in Files
        /\ k # 1 => \A j \in 1..m : Stored(e, W(j))
    BY <1>5, <2>1 DEF After
  <2>3. ProductTurn(of, e, s[k]) = l
    <3>1. s[k] = k /\ of[1] = products /\ of[2] = w
      BY <1>2
    <3> HIDE DEF of
    <3> QED BY <3>1 DEF ProductTurn
  <2>4. x \in Seq(SchemeToken) /\ PatternOf(x) \in PatternsToLearn(w) /\ first \in BOOLEAN
    BY <1>2
  <2>5. Len(PrefixesOf(x)) = m /\ \A j \in 1..m : ResolveTokens(PrefixesOf(x)[j]) = W(j)
    BY <1>3
  <2>6. ~first => \A j \in 1..m : Stored(e, W(j))
    BY <2>2
  <2> HIDE DEF x, first
  <2>7. a \in After(e) /\ Owned(a)
    BY <2>2, <2>4, PatternAttached, AttachOwned
  <2> HIDE DEF a
  <2>8. a \in Files
    BY <2>7 DEF After
  <2>9. ~first => \A j \in 1..m : Stored(a, W(j))
    BY <2>2, <2>6, <2>7, <2>8, StaysStored DEF After
  <2>10. l \in After(a)
    BY <2>4, <2>8, PrefixesLearned
  <2>11. Owned(l) /\ \A j \in 1..m : Stored(l, W(j))
    BY <2>4, <2>5, <2>7, <2>8, <2>9, PrefixesOwned
  <2> HIDE DEF l
  <2>12. l \in After(e) /\ l \in After(d)
    BY <2>2, <2>7, <2>10, AfterAfter
  <2>13. Stored(l, w)
    BY <2>2, <2>12, StaysStored DEF After
  <2> QED BY <1>5, <2>1, <2>3, <2>11, <2>12, <2>13
<1>8. LearningProducts!Runs(of, start, s) \in D[n]
  <2>1. Len(s) \in Nat /\ \A i \in 1..Len(s) : \A v \in D[i - 1] : ProductTurn(of, v, s[i]) \in D[i]
    BY <1>2, <1>7
  <2>2. LearningProducts!Runs(of, start, s) \in D[Len(s)]
    <3> HIDE DEF of
    <3> QED BY <1>6, <2>1, LearningProducts!StagesPassed
  <2> QED BY <1>2, <2>2
<1>9. n \in 0..n
  BY <1>2
<1> QED BY <1>1, <1>5, <1>8, <1>9

\* A word is deleted with its patterns.
LEMMA DeletedOwned ==
  ASSUME NEW d, Owned(d), NEW i
  PROVE  Owned(DeleteRows(d, i))
<1> DEFINE e == DeleteRows(d, i)
<1>1. /\ \A r \in e.patterns : r \in d.patterns /\ r.word_id # i
      /\ \A q \in d.words : q.id # i => q \in e.words
  BY DEF DeleteRows
<1> HIDE DEF e
<1>2. Owned(e)
  BY <1>1 DEF Owned, Ids
<1> QED BY <1>2 DEF e
===============================================================================
