------------------------------ MODULE MCSymbols ------------------------------
(***************************************************************************)
(* Small scheme files for TLC: a virama, two consonants, whose patterns    *)
(* ka and kaha give the dead consonants k and kah, and tokens that have    *)
(* the pattern of one of those.                                            *)
(***************************************************************************)
EXTENDS SymbolTable

CONSTANTS h1, h2, rule

MCChar == {"k", "h", "a", "~", "K", "H", "V", "X", "zwnj", "zwj"}

Sym(type, pattern, value1, value2) ==
  [type |-> type, match |-> "exact", pattern |-> pattern, value1 |-> value1,
   value2 |-> value2, priority |-> 0]

Virama == Sym("virama", <<"~">>, <<"V">>, <<>>)

Ka == Sym("consonant", <<"k", "a">>, <<"K">>, NoText)

Kaha == Sym("consonant", <<"k", "a", "h", "a">>, <<"K", "H">>, <<"K">>)

\* ends in the virama already, so that it is a dead consonant itself
Kah == Sym("consonant", <<"k", "a", "h">>, <<"H", "V">>, <<>>)

K == Sym("other", <<"k">>, <<"X">>, <<"K">>)

PossiblyK == [K EXCEPT !.match = "possibility"]

\* Two handles.  Only h1 creates tokens that are not buffered, and none that h2
\* creates: without a transaction already_persisted does not hold what it read.
MCCreates ==
  {<<h1, Virama, FALSE>>, <<h1, Virama, TRUE>>, <<h1, Ka, FALSE>>, <<h1, Ka, TRUE>>,
   <<h1, K, TRUE>>, <<h2, Kaha, TRUE>>}

\* One handle.
OneCreates ==
  {<<h1, s, b>> : s \in {Virama, Ka, Kaha}, b \in BOOLEAN} \cup
  {<<h1, Kah, TRUE>>, <<h1, K, TRUE>>, <<h1, PossiblyK, TRUE>>}

MCRowCalls == {<<h1, rule>>}

Derive == [dead |-> TRUE, ignore |-> TRUE]
Strict == [dead |-> TRUE, ignore |-> FALSE]

MCConfigs == {<<h1, Strict>>, <<h2, Derive>>}
StrictConfigs == {<<h1, Strict>>}

\* The clients above keep out of each other's way where nothing else keeps them.
ASSUME MCClients == ApartUnlessBuffered /\ OneUnbuffered
=============================================================================
