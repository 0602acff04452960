----------------------------- MODULE MCLearnings -----------------------------
(***************************************************************************)
(* Small learnings files for TLC.                                          *)
(*                                                                         *)
(* long is a word of three tokens that can be typed in two ways and whose  *)
(* first two tokens make the word pre; its stem is pre too.  longDot is    *)
(* long with a full stop behind it, dots a text of special characters      *)
(* only: sanitize_word() makes long and the empty text of them.            *)
(***************************************************************************)
EXTENDS Learnings, TLC

CONSTANTS h1, h2, long, pre, longDot, dots, empty, l1, l2, p1, p2, tr

MCWord == {long, pre, longDot, dots, empty}

MCPattern == {l1, l2, p1, p2, tr}

MCPlan ==
  [w \in MCWord |->
     CASE w = long ->
            <<[pattern |-> l1, prefixes |-> <<[word |-> pre, pattern |-> p1]>>],
              [pattern |-> l2, prefixes |-> <<[word |-> pre, pattern |-> p2]>>]>>
       [] w = pre -> <<[pattern |-> p1, prefixes |-> <<>>]>>
       [] OTHER -> <<>>]

MCSanitized ==
  [w \in MCWord |-> CASE w = longDot -> long [] w = dots -> empty [] OTHER -> w]

MCStems == [w \in MCWord |-> IF w \in {long, longDot} THEN <<pre>> ELSE <<>>]

\* Their tokens are all of the scheme.
MCImportable == {long, pre}

NoFiles == {}
NoCalls == {}

TrainPre == {<<tr, pre>>}
TrainDotted == {<<tr, pre>>, <<tr, longDot>>}

TwoLines == {<<[word |-> long, confidence |-> 4], [word |-> dots, confidence |-> 2]>>}

Exported ==
  {<<[word |-> pre, confidence |-> 2,
      patterns |-> <<[pattern |-> p1, learned |-> 1], [pattern |-> p2, learned |-> 0]>>]>>,
   <<[word |-> dots, confidence |-> 1, patterns |-> <<>>],
     [word |-> long, confidence |-> 1, patterns |-> <<[pattern |-> l1, learned |-> 1]>>]>>}

\* What a handle without stem rules exports when it has learned long.
LongThenPre ==
  {<<[word |-> long, confidence |-> 1,
      patterns |-> <<[pattern |-> l1, learned |-> 1], [pattern |-> l2, learned |-> 1]>>],
     [word |-> pre, confidence |-> 1,
      patterns |-> <<[pattern |-> p1, learned |-> 0], [pattern |-> p2, learned |-> 0]>>]>>}

WithInvalid ==
  {<<[word |-> long, confidence |-> 1, patterns |-> <<[pattern |-> l1, learned |-> 1]>>],
     [word |-> dots, confidence |-> 1, patterns |-> <<[pattern |-> p1, learned |-> 1]>>]>>}
=============================================================================
