------------------------------- MODULE Scheme --------------------------------
(***************************************************************************)
(* A compiled scheme as the rest of the library uses it: a table of        *)
(* symbols that no longer changes, and the cutting of a text into the      *)
(* longest tokens of it.  That vst_tokenize returns this cut, whatever its *)
(* caches hold, is what Tokenizer is about: its property                   *)
(* LongestUntilChanged, for a table with its flags, whose values of one    *)
(* column do not begin values of the other.                                *)
(***************************************************************************)
EXTENDS SymbolQueries

CONSTANT Symbols  \* the table symbols, with all its columns

SymbolKinds ==
  Types \cup {"consonant_vowel", "number", "symbol", "anusvara", "visarga", "period"}

Tags == {"none", "chill", "render_value2"}

SchemeSymbol ==
  [type : SymbolKinds, match : {"exact", "possibility"}, pattern : Text, value1 : Text,
   value2 : Text, value3 : Text, tag : Tags, priority : Int,
   accept : {"all", "starts", "between", "ends"}]

ASSUME SchemeAssumption ==
  /\ Symbols \subseteq [id : Nat \ {0}, sym : SchemeSymbol, more : SUBSET Flags]
  /\ IsFiniteSet(Symbols)
  /\ \A r, q \in Symbols : r.id = q.id => r = q
  /\ Viramas(Symbols) # {}
  /\ ColumnsApart(Symbols)

Virama == FirstVirama(Symbols)

\* The token that stands for a character of the text which begins no symbol.
OtherToken(c) ==
  [id |-> -99,
   sym |-> [type |-> "other", match |-> "exact", pattern |-> <<c>>, value1 |-> <<c>>,
            value2 |-> <<>>, value3 |-> <<>>, tag |-> "none", priority |-> 0, accept |-> "all"]]

TokensAt(text, i, n, using, match) == Matches(Symbols, SubSeq(text, i, i + n - 1), using, match)

\* How long the longest symbol is at a place of the text, 0 for none.
LongestAt(text, i, using, match) ==
  CHOOSE n \in 0..(Len(text) - i + 1) :
    /\ n > 0 => TokensAt(text, i, n, using, match) # <<>>
    /\ \A m \in (n + 1)..(Len(text) - i + 1) : TokensAt(text, i, m, using, match) = <<>>

\* vst_tokenize: for each place where the scan stops, the tokens of the longest piece.
Tokenize(text, using, match) ==
  LET cutFrom[i \in 1..(Len(text) + 1)] ==
        LET cut(n) == IF n = 0 THEN <<<<OtherToken(text[i])>>>> \o cutFrom[i + 1]
                      ELSE <<TokensAt(text, i, n, using, match)>> \o cutFrom[i + n]
        IN IF i > Len(text) THEN <<>> ELSE Once(cut, LongestAt(text, i, using, match))
  IN cutFrom[1]

\* get_first_elements
FirstTokens(positions) == [i \in DOMAIN positions |-> Head(positions[i])]
=============================================================================
