------------------------------- MODULE Stemmer -------------------------------
(***************************************************************************)
(* stem() (learn.c) and what it asks of the tables stemrules and           *)
(* stem_exceptions (symbol-table.c).  From the end of a word, letter by    *)
(* letter, the suffix grows until a rule has it as its old ending: the     *)
(* word goes on with the new ending in its place, and is a stem.           *)
(*                                                                         *)
(* Both tables are sequences of rows, in the order they were inserted.     *)
(***************************************************************************)
EXTENDS Scheme

Rule == [old : Text, new : Text]
Exception == [stem : Text, exception : Text]

HasRule(rules, suffix) == \E i \in DOMAIN rules : rules[i].old = suffix

\* select new_ending from stemrules where old_ending = ?1; the first row
NewEnding(rules, suffix) ==
  rules[Min({i \in DOMAIN rules : rules[i].old = suffix})].new

\* select type from symbols where value1 = ?1; the first row.
IsConsonant(c) ==
  LET rows == {r \in Symbols : r.sym.value1 = <<c>>} IN
  rows # {} /\ (CHOOSE r \in rows : \A q \in rows : r.id <= q.id).sym.type = "consonant"

\* vst_get_last_syllable: from the last consonant to the end; <<>> when there is none,
\* which is an error to its caller.
LastSyllable(text) ==
  LET consonants == {i \in DOMAIN text : IsConsonant(text[i])} IN
  IF consonants = {} THEN <<>> ELSE SubSeq(text, Max(consonants), Len(text))

\* Any exception to the rule holds the stem back.
FaultyExcepted(exceptions, word, suffix) ==
  \E i \in DOMAIN exceptions : exceptions[i].stem = suffix

\* vst_check_exception: the first row of the rule decides; an error in the syllable,
\* like no row, is no exception.
Excepted(exceptions, word, suffix) ==
  LET rows == {i \in DOMAIN exceptions : exceptions[i].stem = suffix} IN
  rows # {} /\ LastSyllable(word) # <<>> /\ exceptions[Min(rows)].exception = LastSyllable(word)

-----------------------------------------------------------------------------
\* Where the loop of stem() stands: the letters left, the letters taken from their
\* end since the last stem, and the stems.
StartStemming(word) == [word |-> word, suffix |-> <<>>, stems |-> <<>>]

Taken(s) ==
  [word |-> Front(s.word), suffix |-> <<Last(s.word)>> \o s.suffix, stems |-> s.stems]

Stemmed(s, new) ==
  [word |-> s.word \o new, suffix |-> <<>>, stems |-> Append(s.stems, s.word \o new)]

\* One turn of the loop.
StemTurn(rules, exceptions, s) ==
  LET t == Taken(s) IN
  IF HasRule(rules, t.suffix) /\ ~Excepted(exceptions, t.word, t.suffix)
  THEN Stemmed(t, NewEnding(rules, t.suffix)) ELSE t

\* A turn in which reading the types of the letters fails: the letters read so far
\* are not put back, and the rest of the word gets the new ending.
StemTurnFails(rules, s, left) ==
  LET t == Taken(s) IN Stemmed([t EXCEPT !.word = left], NewEnding(rules, t.suffix))

-----------------------------------------------------------------------------
(* What stemming is for, without the loop: a stem of a word has the new    *)
(* ending of a rule in place of the shortest ending that a rule applies    *)
(* to, and the stems of a word are its stem and the stems of that.  A rule *)
(* applies unless its first exception is the syllable before the ending.   *)

Applies(rules, exceptions, word, n) ==
  LET ending == SubSeq(word, Len(word) - n + 1, Len(word))
      syllable == LastSyllable(SubSeq(word, 1, Len(word) - n))
  IN /\ \E i \in DOMAIN rules : rules[i].old = ending
     /\ ~\E i \in DOMAIN exceptions :
           /\ exceptions[i] = [stem |-> ending, exception |-> syllable]
           /\ \A j \in 1..(i - 1) : exceptions[j].stem # ending

StemOf(rules, exceptions, word) ==
  LET n == Min({k \in 1..Len(word) : Applies(rules, exceptions, word, k)})
      ending == SubSeq(word, Len(word) - n + 1, Len(word))
  IN SubSeq(word, 1, Len(word) - n) \o NewEnding(rules, ending)

HasStem(rules, exceptions, word) == \E k \in 1..Len(word) : Applies(rules, exceptions, word, k)

AreStems(rules, exceptions, word, stems) ==
  LET before(i) == IF i = 1 THEN word ELSE stems[i - 1] IN
  /\ \A i \in DOMAIN stems :
       /\ HasStem(rules, exceptions, before(i))
       /\ stems[i] = StemOf(rules, exceptions, before(i))
  /\ ~HasStem(rules, exceptions, before(Len(stems) + 1))
=============================================================================
