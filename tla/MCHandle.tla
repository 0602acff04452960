------------------------------- MODULE MCHandle ------------------------------
(***************************************************************************)
(* A small scheme in the manner of Malayalam for TLC.  KA and MA have a    *)
(* possibility beside their pattern, of low and of normal priority, SYM    *)
(* has two patterns of low priority; i is the vowel II, whose sign is SI;  *)
(* n is a chillu that must not run into ka, since nka is a symbol.  zha,   *)
(* whose pattern begins with z, is in a scheme of its own.                 *)
(***************************************************************************)
EXTENDS Handle

\* In collating order.
Letters == <<"A", "_", "a", "b", "c", "e", "h", "i", "k", "m", "n", "y", "z", "~",
             "zwnj", "zwj", "VIR", "KA", "MA", "II", "SI", "CHN", "CHL", "NA", "NKA", "SYM", "ZHA">>

MCChar == ToSet(Letters)
MCRank == [c \in MCChar |-> CHOOSE i \in DOMAIN Letters : Letters[i] = c]
MCLower == [c \in MCChar |-> IF c = "A" THEN "a" ELSE c]

Sym(id, type, pattern, value1) ==
  [id |-> id, more |-> {},
   sym |-> [type |-> type, match |-> "exact", pattern |-> pattern, value1 |-> value1, value2 |-> <<>>,
            value3 |-> <<>>, tag |-> "none", priority |-> 0, accept |-> "all"]]

Possibly(r, priority, accept) ==
  [r EXCEPT !.sym.match = "possibility", !.sym.priority = priority, !.sym.accept = accept]

MCSymbols ==
  {Sym(1, "virama", <<"~">>, <<"VIR">>),
   Sym(2, "consonant", <<"k", "a">>, <<"KA">>),
   Sym(3, "dead_consonant", <<"k">>, <<"KA", "VIR">>),
   Possibly(Sym(4, "consonant", <<"c", "a">>, <<"KA">>), -1, "ends"),
   [Sym(5, "consonant", <<"m", "a">>, <<"MA">>) EXCEPT !.sym.priority = 1],
   Possibly(Sym(6, "consonant", <<"b", "a">>, <<"MA">>), 0, "all"),
   [Sym(7, "vowel", <<"i">>, <<"II">>) EXCEPT !.sym.value2 = <<"SI">>],
   [Sym(8, "consonant", <<"n">>, <<"CHN">>) EXCEPT
      !.sym.tag = "chill", !.sym.value2 = <<"CHL">>, !.sym.value3 = <<"NA">>],
   Sym(9, "consonant", <<"n", "k", "a">>, <<"NKA">>),
   Sym(10, "non_joiner", <<"_">>, <<"zwnj">>),
   [Sym(11, "symbol", <<"e">>, <<"SYM">>) EXCEPT !.sym.priority = -1],
   [Sym(12, "symbol", <<"y">>, <<"SYM">>) EXCEPT !.sym.priority = -1]}

ZSymbols == MCSymbols \cup {Sym(13, "consonant", <<"z", "h", "a">>, <<"ZHA">>)}

MCInputs == {<<"k", "a", "m", "a">>, <<"k", "A", "m", "a">>, <<"m", "a", "k", "a", "i">>, <<"k", "i">>}
ZInputs == {<<"m", "a", "z", "h", "a", "k", "a">>}

MCValues == {<<"KA", "SI">>, <<"CHN", "KA">>}

MCLearnCalls == {<<"MA", "SI", "MA">>, <<"MA", "KA">>, <<"MA", "MA", "MA">>, <<"SYM", "KA">>}
ZLearnCalls == {<<"MA", "ZHA">>}

MCLearnedElsewhere == {<<"KA", "MA">>}

MCRules == {[old |-> <<"MA">>, new |-> <<"KA">>], [old |-> <<"SI", "KA">>, new |-> <<>>]}
MCExceptions == {[stem |-> <<"MA">>, exception |-> <<"MA", "SI">>]}
=============================================================================
