----------------------------- MODULE Suggestions -----------------------------
(***************************************************************************)
(* What transliteration reads of a learnings file (words-table.c): the     *)
(* words of a pattern, words whose patterns go on behind it, and the rows  *)
(* of tokens made of a word that matches the beginning of the input and    *)
(* the symbols of the rest.                                                *)
(*                                                                         *)
(* patterns_content is in the order of its primary key, patterns compared  *)
(* letter by letter; a limit takes the first rows of that order.           *)
(***************************************************************************)
EXTENDS WordLearning

CONSTANTS
  Rank,   \* Rank[c]: the place of the letter c in the collating order
  Limit,  \* the limit of the statements that offer words: 5
  MatchLimit   \* the limit of get_matches: 3

ASSUME SuggestionsAssumption ==
  /\ "z" \in Char /\ Rank \in [Char -> Nat]
  /\ Limit \in Nat \ {0} /\ MatchLimit \in Nat \ {0}

MinimumLength == 3   \* MINIMUM_CHARACTER_LENGTH_FOR_SUGGESTION

Before(p, q) ==
  \/ IsStrictPrefix(p, q)
  \/ \E i \in 1..Min({Len(p), Len(q)}) :
       SubSeq(p, 1, i - 1) = SubSeq(q, 1, i - 1) /\ Rank[p[i]] < Rank[q[i]]

InKeyOrder(rows) ==
  Ordered(rows, LAMBDA r, q : \/ Before(r.pattern, q.pattern)
                              \/ r.pattern = q.pattern /\ r.word_id < q.word_id)

\* Only patterns that are a letter longer.
FaultyGoesOn(p, x) == IsStrictPrefix(x, p) /\ Len(p) = Len(x) + 1

\* pattern > x and pattern <= x || 'z'
GoesOn(p, x) == Before(x, p) /\ ~Before(x \o <<"z">>, p)

\* The first n word_ids of the rows, each once.
FirstIds(rows, n) ==
  ToSet(Loop(LAMBDA ids, r : IF r.word_id \in ToSet(ids) \/ Len(ids) = n THEN ids
                             ELSE Append(ids, r.word_id),
             <<>>, InKeyOrder(rows)))

WordsOf(rows) == [i \in DOMAIN rows |-> rows[i].word]

\* select word ... where rowid in (ids) order by confidence desc
ByConfidence(d, ids) ==
  Once(WordsOf, Ordered({r \in d.words : r.id \in ids},
                        LAMBDA r, q : \/ r.confidence > q.confidence
                                      \/ r.confidence = q.confidence /\ r.id < q.id))

\* The input is compared as it is typed.
FaultyBestMatches(d, input) ==
  IF Len(input) < MinimumLength THEN <<>>
  ELSE ByConfidence(d, FirstIds({r \in d.patterns : r.pattern = input /\ r.learned = 1}, Limit))

\* vwt_get_best_match
BestMatches(d, input) ==
  IF Len(input) < MinimumLength THEN <<>>
  ELSE ByConfidence(d, FirstIds({r \in d.patterns : r.pattern = Fold(input) /\ r.learned = 1}, Limit))

\* What vwt_get_suggestions finds; the limit comes before the order.
Suggested(d, input) ==
  IF Len(input) < MinimumLength THEN <<>>
  ELSE ByConfidence(d, FirstIds({r \in d.patterns : GoesOn(r.pattern, Fold(input)) /\ r.learned = 1}, Limit))

\* get_matches: by any pattern, a prefix's too, in the order of the rows.
MatchesOf(d, lookup) ==
  LET ids == FirstIds({r \in d.patterns : r.pattern = lookup}, MatchLimit)
  IN Once(WordsOf, Ordered({r \in d.words : r.id \in ids}, LAMBDA r, q : r.id < q.id))

\* can_find_possible_matches
PossibleMatches(d, lookup) == \E r \in d.patterns : GoesOn(r.pattern, lookup)

\* A word that is there already is offered again.
FaultyAddNew(words, word) == Append(words, word)

AddNew(words, word) == IF word \in ToSet(words) THEN words ELSE Append(words, word)

\* The rows of tokens vwt_tokenize_pattern returns: a row for each match, with the
\* symbols of the rest of the input at its end; none without a match.
Rows(matches, rest) ==
  [i \in DOMAIN matches |->
     FirstTokens(Tokenize(matches[i], "value", "exact"))
       \o FirstTokens(Tokenize(rest, "pattern", "exact"))]
=============================================================================
