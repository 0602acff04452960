-------------------------------- MODULE Loops --------------------------------
(***************************************************************************)
(* Going through a sequence and putting a set in order.  These are         *)
(* FoldLeft and SetToSortSeq of SequencesExt, in a form in which TLC       *)
(* computes each value once: it computes what an operator is applied to    *)
(* wherever the operator refers to it, when it checks an action or whether *)
(* one is enabled, and SetToSortSeq looks through all sequences.           *)
(***************************************************************************)
EXTENDS Integers, Sequences, FiniteSets

\* Of(e)
Once(Of(_), e) == CHOOSE y \in {Of(x) : x \in {e}} : TRUE

\* The value after a turn for each element of seq, from start.
Loop(Turn(_, _), start, seq) ==
  LET through(s) ==
        LET after[n \in 0..Len(s)] ==
              IF n = 0 THEN start ELSE Once(LAMBDA value : Turn(value, s[n]), after[n - 1])
        IN after[Len(s)]
  IN Once(through, seq)

\* 1, ..., n
UpTo(n) == [i \in 1..n |-> i]

\* The elements of a set, no two of which are equal in the order.
Ordered(S, Precedes(_, _)) ==
  LET place(s) ==
        [i \in 1..Cardinality(s) |-> CHOOSE r \in s : Cardinality({q \in s : Precedes(q, r)}) = i - 1]
  IN Once(place, S)
=============================================================================
