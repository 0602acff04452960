----------------------------- MODULE MCTokenizer -----------------------------
(***************************************************************************)
(* Small symbol tables and texts for TLC.  Patterns: ka and its dead       *)
(* consonant k, a, and kaha or the possibility kah, which both make longer *)
(* symbols possible.  Values: X, of two patterns that differ in case, and  *)
(* XV, which it begins.                                                    *)
(***************************************************************************)
EXTENDS Tokenizer

MCChar == {"k", "h", "a", "n", "N", "K", "H", "A", "X", "V", "zwnj", "zwj"}

MCLower ==
  [c \in MCChar |-> CASE c = "N" -> "n" [] c = "K" -> "k" [] c = "H" -> "h" [] c = "A" -> "a" [] OTHER -> c]

Sym(type, pattern, value1, priority) ==
  [type |-> type, match |-> "exact", pattern |-> pattern, value1 |-> value1,
   value2 |-> <<>>, priority |-> priority]

Ka == Sym("consonant", <<"k", "a">>, <<"K">>, 0)
DeadKa == Sym("dead_consonant", <<"k">>, <<"K", "V">>, 0)
A == Sym("vowel", <<"a">>, <<"A">>, 0)
Kaha == Sym("consonant", <<"k", "a", "h", "a">>, <<"H">>, 0)
PossiblyKah == [Sym("other", <<"k", "a", "h">>, <<"H">>, 0) EXCEPT !.match = "possibility"]
SmallN == Sym("consonant", <<"n">>, <<"X">>, 0)
CapitalN == Sym("consonant", <<"N">>, <<"X">>, 1)
DeadN == [Sym("dead_consonant", <<"h">>, <<"X", "V">>, 0) EXCEPT !.match = "possibility"]
Aha == [Sym("other", <<"a", "h", "a">>, <<"A", "A">>, 0) EXCEPT !.value2 = <<"V", "X">>]

MCTables ==
  {<<Ka, DeadKa, A, SmallN, PossiblyKah>>, <<A, Kaha>>, <<SmallN, CapitalN, DeadN, Aha>>}

MCNewSymbols == {Kaha, DeadKa}

PatternTexts == {<<>>, <<"k", "a">>, <<"a", "k">>, <<"a", "n">>, <<"k", "a", "h", "a">>}

ValueTexts == {<<"X", "V", "X">>, <<"V", "X">>}

MCTexts == PatternTexts \cup ValueTexts

MCWays == {<<"pattern", "exact">>, <<"value", "exact">>, <<"value", "all">>}
ByPattern == {<<"pattern", "exact">>}
=============================================================================
