------------------------------ MODULE WordStore ------------------------------
(***************************************************************************)
(* What a learnings file promises the people who type with it, without     *)
(* ids, rows or transactions: a set of known words, each with a confidence *)
(* and the patterns that lead to it.  Learning only ever adds: words stay, *)
(* confidence does not fall, patterns stay and are not unlearned, and a    *)
(* word only gets patterns of its own.  Forgetting removes one word with   *)
(* everything attached to it and touches no other.                         *)
(***************************************************************************)
EXTENDS Integers

CONSTANTS
  Word,
  OwnPatterns,  \* OwnPatterns[w]: the patterns that may lead to w
  Absent

VARIABLE store  \* store[w]: Absent, or w's confidence and patterns

Unknown(w) == store[w] = Absent

Init == store = [w \in Word |-> Absent]

GrowsFrom(old, new) ==
  /\ new.confidence >= old.confidence
  /\ old.patterns \subseteq new.patterns
  /\ old.learned \subseteq new.learned

Grow ==
  \A w \in Word :
    /\ store'[w] # Absent => store'[w].learned \subseteq store'[w].patterns
    /\ store'[w] # Absent => store'[w].patterns \subseteq OwnPatterns[w]
    /\ ~Unknown(w) => store'[w] # Absent /\ GrowsFrom(store[w], store'[w])

Forget(w) ==
  /\ ~Unknown(w)
  /\ store' = [store EXCEPT ![w] = Absent]

Spec == Init /\ [][Grow \/ \E w \in Word : Forget(w)]_store
=============================================================================
