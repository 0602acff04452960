---------------------------- MODULE WordLearning -----------------------------
(***************************************************************************)
(* What learning one word does to a learnings file, from the tokens of the *)
(* word to the rows: the tokens are reduced, their products enumerated,    *)
(* and each product's pattern and prefixes stored.  Learnings takes the    *)
(* products as its constant Plan and looks at the statements one by one;   *)
(* here they are computed and stored at once, as the transaction around    *)
(* them makes it appear.                                                   *)
(*                                                                         *)
(* Words are as sanitize_word leaves them.                                 *)
(***************************************************************************)
EXTENDS NoiseReduction, Rendering, LearningsDb

Reduced(word) == ReduceNoise(Tokenize(word, "value", "all"))

CanLearnWord(word) == word # <<>> /\ Once(CanLearn, Reduced(word))

\* The offsets of the next product: the last position that is not at its last token
\* goes on, those behind it start over.  <<>> after the last product.
NextOffsets(p, o) ==
  LET movable == {i \in DOMAIN p : o[i] # Len(p[i])} IN
  IF movable = {} THEN <<>>
  ELSE [i \in DOMAIN p |-> IF i < Max(movable) THEN o[i]
                           ELSE IF i = Max(movable) THEN o[i] + 1 ELSE 1]

\* A position without a token at its offset, as one that was emptied, gives none.
ProductAt(p, o) ==
  FlattenSeq([i \in DOMAIN p |-> IF o[i] <= Len(p[i]) THEN <<p[i][o[i]]>> ELSE <<>>])

\* The products are enumerated to the end.
FaultyProductLimit(p) == TokensIn(p) * MaxPatterns

\* How many products are learned at most.
ProductLimit(p) == MaxPatterns

\* The products of a word, in the order learn_all_possibilities finds them.
Products(p) ==
  LET offsets == Loop(LAMBDA found, n : IF NextOffsets(p, Last(found)) = <<>> THEN found
                                        ELSE Append(found, NextOffsets(p, Last(found))),
                      <<[i \in DOMAIN p |-> 1]>>, UpTo(ProductLimit(p) - 1))
  IN [n \in DOMAIN offsets |-> ProductAt(p, offsets[n])]

\* lower() of the pattern is stored.
PatternOf(tokens) ==
  Fold(FlattenSeq([i \in DOMAIN tokens |->
         IF tokens[i].sym.type \in {"joiner", "non_joiner"} THEN <<>> ELSE tokens[i].sym.pattern]))

\* learn_word
Learned(d, w, c) == IF Stored(d, w) THEN BumpConfidence(d, w) ELSE InsertWord(d, w, c)

\* learn_pattern
Attach(d, tokens, w, isPrefix) == PersistPattern(d, PatternOf(tokens), IdOf(d, w), isPrefix)

\* The prefixes of a product that are learned: several tokens, but not all.
PrefixesOf(product) == [n \in 1..Max({0, Len(product) - 2}) |-> SubSeq(product, 1, n + 1)]

\* The words of the prefixes are left out: their patterns are attached to no word.
FaultyLearnPrefixes(d, product, first) ==
  Loop(LAMBDA e, x : Attach(e, x, ResolveTokens(x), TRUE), d, PrefixesOf(product))

\* learn_prefixes: the words of the prefixes are learned with the first product only.
LearnPrefixes(d, product, first) ==
  Loop(LAMBDA e, x : Attach(IF first THEN Learned(e, ResolveTokens(x), 1) ELSE e,
                            x, ResolveTokens(x), TRUE),
       d, PrefixesOf(product))

\* vwt_persist_possibilities
LearnInto(d, w, c) ==
  LET learn(products) ==
        Loop(LAMBDA e, n : LearnPrefixes(Attach(e, products[n], w, FALSE), products[n], n = 1),
             Learned(d, w, c), UpTo(Len(products)))
  IN Once(learn, Once(Products, Reduced(w)))
=============================================================================
