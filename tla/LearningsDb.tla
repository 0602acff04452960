----------------------------- MODULE LearningsDb -----------------------------
(***************************************************************************)
(* The contents of a learnings file (words-table.c) and what each SQL      *)
(* statement of the library does to it.  A file is a record of two tables, *)
(* each a set of rows:                                                     *)
(*                                                                         *)
(*   words             [id, word, confidence]     word is unique           *)
(*   patterns_content  [pattern, word_id, learned]  (pattern, word_id) is  *)
(*                                                  the primary key        *)
(*                                                                         *)
(* Nothing ties patterns_content.word_id to words.id: the schema declares  *)
(* no foreign key, and words.id is reused once its row is gone.  Words and *)
(* patterns are opaque values, already in the normal form the statements'  *)
(* trim() and lower() give them; the column learned_on is left out.        *)
(***************************************************************************)
EXTENDS Integers, FiniteSets

\* What vwt_get_word_id and vwt_try_insert_new_word report for "no row".
NoId == -1

EmptyDb == [words |-> {}, patterns |-> {}]

WordRow(Word) == [id : Nat \ {0}, word : Word, confidence : Int]

\* word_id is any integer: -1 is stored like every other value.
PatternRow(Pattern) == [pattern : Pattern, word_id : Int, learned : {0, 1}]

Db(Word, Pattern) ==
  [words : SUBSET WordRow(Word), patterns : SUBSET PatternRow(Pattern)]

Ids(d) == {r.id : r \in d.words}

RowsOf(d, w) == {r \in d.words : r.word = w}

Stored(d, w) == RowsOf(d, w) # {}

\* select id from words where word = ?1 limit 1
IdOf(d, w) == IF Stored(d, w) THEN (CHOOSE r \in RowsOf(d, w) : TRUE).id ELSE NoId

\* The id SQLite gives to a row inserted without one: an INTEGER PRIMARY KEY
\* that is not AUTOINCREMENT is one more than the largest id now in the table.
NextId(d) ==
  IF d.words = {} THEN 1
  ELSE 1 + (CHOOSE m \in Ids(d) : \A i \in Ids(d) : i <= m)

\* Faulty forms, named Faulty..., stand before the definition they replace when TLC
\* is asked whether a property would notice the bug.  Here: the id that was looked up
\* and not found is stored.
FaultyInsertWord(d, w, c) ==
  IF Stored(d, w) THEN d
  ELSE [d EXCEPT !.words = @ \cup {[id |-> IdOf(d, w), word |-> w, confidence |-> c]}]

\* insert or ignore into words (word, confidence, ...)
InsertWord(d, w, c) ==
  IF Stored(d, w) THEN d
  ELSE [d EXCEPT !.words = @ \cup {[id |-> NextId(d), word |-> w, confidence |-> c]}]

\* update words set confidence = confidence + 1 where word = ?1
BumpConfidence(d, w) ==
  [d EXCEPT !.words =
     {IF r.word = w THEN [r EXCEPT !.confidence = @ + 1] ELSE r : r \in @}]

\* insert or ignore into patterns_content (pattern, word_id): learned is 0
InsertPattern(d, p, i) ==
  IF \E r \in d.patterns : r.pattern = p /\ r.word_id = i THEN d
  ELSE [d EXCEPT !.patterns = @ \cup {[pattern |-> p, word_id |-> i, learned |-> 0]}]

\* update patterns_content set learned = 1 where pattern = ?1 and word_id = ?2
MarkLearned(d, p, i) ==
  [d EXCEPT !.patterns =
     {IF r.pattern = p /\ r.word_id = i THEN [r EXCEPT !.learned = 1] ELSE r : r \in @}]

\* vwt_persist_pattern: both statements, the second only for a whole word.
PersistPattern(d, p, i, isPrefix) ==
  IF isPrefix THEN InsertPattern(d, p, i)
  ELSE MarkLearned(InsertPattern(d, p, i), p, i)

\* The patterns of the deleted word stay behind.
FaultyDeleteRows(d, i) == [d EXCEPT !.words = {r \in @ : r.id # i}]

\* delete from patterns_content where word_id = ?1; delete from words where id = ?1
DeleteRows(d, i) ==
  [words    |-> {r \in d.words : r.id # i},
   patterns |-> {r \in d.patterns : r.word_id # i}]

\* The patterns attached to a stored word, and those of them learned as a whole.
PatternsOf(d, w) ==
  {r.pattern : r \in {q \in d.patterns : Stored(d, w) /\ q.word_id = IdOf(d, w)}}

LearnedOf(d, w) ==
  {r.pattern : r \in {q \in d.patterns :
                        Stored(d, w) /\ q.word_id = IdOf(d, w) /\ q.learned = 1}}
=============================================================================
