--------------------------- MODULE NoiseReduction ----------------------------
(***************************************************************************)
(* reduce_noise_in_tokens and can_learn_from_tokens (learn.c): which of    *)
(* the tokens a word may be written with are kept before it is learned.    *)
(* The tokens of a word are a sequence of positions, each the sequence of  *)
(* its tokens, those of higher priority first.                             *)
(***************************************************************************)
EXTENDS Loops, SequencesExt

CONSTANTS
  MaxPatterns,  \* MAXIMUM_PATTERNS_TO_LEARN
  IntBits       \* the width of an int

ASSUME NoiseAssumption ==
  MaxPatterns \in Nat \ {0} /\ IntBits \in Nat \ {0} /\ MaxPatterns < 2^(IntBits - 1)

Low == -1   \* VARNAM_TOKEN_PRIORITY_LOW

\* A signed int of IntBits bits.
Wrapped(n) == ((n + 2^(IntBits - 1)) % 2^IntBits) - 2^(IntBits - 1)

\* get_total_possible_patterns
TotalPatterns(p) == Loop(LAMBDA n, item : Wrapped(n * Len(item)), 1, p)

TooMany(p) == TotalPatterns(p) > MaxPatterns

-----------------------------------------------------------------------------
NeverLearned == {"virama", "visarga", "anusvara", "non_joiner", "number"}

\* A word of one position starts with it.
Place(p, i) == IF i = 1 THEN "starts" ELSE IF i = Len(p) THEN "ends" ELSE "between"

Acceptable(p, i, t) ==
  /\ t.sym.type \notin NeverLearned
  /\ Len(p[i]) = 1 \/ t.sym.accept \in {"all", Place(p, i)}

\* What is kept of the tokens of a position.
Accepted(p, i) ==
  Loop(LAMBDA kept, t : IF Acceptable(p, i, t) THEN Append(kept, t) ELSE kept, <<>>, p[i])

\* apply_acceptance_condition: positions that lose all their tokens are removed.
ApplyAcceptance(p) ==
  Loop(LAMBDA kept, i : Once(LAMBDA item : IF item = <<>> THEN kept ELSE Append(kept, item), Accepted(p, i)),
       <<>>, UpTo(Len(p)))

\* Tokens of low priority are kept.
FaultyWithoutLow(p, i) == p

\* A position of several tokens that are all low is left without any.
WithoutLow(p, i) ==
  IF Len(p[i]) = 1 THEN p
  ELSE [p EXCEPT ![i] = Loop(LAMBDA kept, t : IF t.sym.priority > Low THEN Append(kept, t) ELSE kept,
                             <<>>, p[i])]

\* remove_low_priority_tokens, from the first position on, until the patterns fit.
RemoveLow(p) ==
  Loop(LAMBDA q, i : IF TooMany(q) THEN WithoutLow(q, i) ELSE q, p, UpTo(Len(p)))

\* get_next_array: the position to take the last token from, 0 for none.  Priorities
\* that only fall from position to position pass for equal ones.
NextArray(p) ==
  LET several == {i \in DOMAIN p : Len(p[i]) # 1}
      priority(i) == Last(p[i]).sym.priority
      lowest(i) == Min({priority(j) : j \in {k \in several : k <= i}})
      largest == CHOOSE i \in DOMAIN p : \A j \in DOMAIN p :
                   Len(p[i]) > Len(p[j]) \/ (Len(p[i]) = Len(p[j]) /\ i <= j)
  IN IF \A i \in several : priority(i) = lowest(i)
     THEN IF Len(p[largest]) = 1 THEN 0 ELSE largest
     ELSE Min({i \in several : \A j \in several : priority(i) <= priority(j)})

\* The first token of a position is dropped, which is the preferred one.
FaultyPopped(p, i) == [p EXCEPT ![i] = Tail(@)]

Popped(p, i) == [p EXCEPT ![i] = Front(@)]

TokensIn(p) == Loop(LAMBDA n, item : n + Len(item), 0, p)

\* The loop that takes tokens away one by one; it ends with the tokens.
PopUntilFits(p) ==
  Loop(LAMBDA q, n : IF TooMany(q) /\ NextArray(q) # 0 THEN Popped(q, NextArray(q)) ELSE q,
       p, UpTo(TokensIn(p)))

\* Once the patterns fit, each of the steps leaves the tokens alone.
ReduceNoise(p) ==
  IF p = <<>> THEN p ELSE PopUntilFits(RemoveLow(ApplyAcceptance(p)))

-----------------------------------------------------------------------------
\* The tokens as can_learn_from_tokens reads them, up to the first unknown one.
Read(p) ==
  LET all == FlattenSeq(p)
      unknown == {i \in DOMAIN all : all[i].sym.type = "other"}
  IN IF unknown = {} THEN all ELSE SubSeq(all, 1, Min(unknown))

\* Only a repetition that reaches the end counts.
Repeats(tokens) ==
  /\ Len(tokens) >= 4
  /\ \A i \in (Len(tokens) - 3)..Len(tokens) : tokens[i].id = Last(tokens).id

Sensible(tokens) ==
  /\ \E i \in DOMAIN tokens : tokens[i].sym.type # "vowel"
  /\ \A i \in DOMAIN tokens : tokens[i].sym.type # "other"
  /\ ~Repeats(tokens)

CanLearn(p) == Len(p) >= 2 /\ Once(Sensible, Read(p))
=============================================================================
