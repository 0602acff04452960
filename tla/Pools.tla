-------------------------------- MODULE Pools --------------------------------
(***************************************************************************)
(* vpool (varray.c): the objects of one kind that a handle has made, given *)
(* out again from the first one on after a reset, and out of order after   *)
(* one was returned.  Objects are numbered in the order they were made; a  *)
(* pool is a record of                                                     *)
(*                                                                         *)
(*   made   how many there are          (length of array)                  *)
(*   next   how many are given out      (next_slot)                        *)
(*   free   those that were returned    (free_pool), the last one on top   *)
(***************************************************************************)
EXTENDS Integers, Sequences

Pool == [made : Nat, next : Nat, free : Seq(Nat \ {0})]

EmptyPool == [made |-> 0, next |-> 0, free |-> <<>>]

\* The object vpool_get gives; a new one is made when there is none.
Slot(p) == IF p.free # <<>> THEN p.free[Len(p.free)] ELSE p.next + 1

\* An object that is there already is given out again and again.
FaultyTake(p) ==
  IF p.free # <<>> THEN [p EXCEPT !.free = SubSeq(p.free, 1, Len(p.free) - 1)]
  ELSE IF p.next < p.made THEN p ELSE [p EXCEPT !.next = p.next + 1, !.made = p.made + 1]

\* vpool_get, and vpool_add when the object had to be made.
Take(p) ==
  IF p.free # <<>> THEN [p EXCEPT !.free = SubSeq(p.free, 1, Len(p.free) - 1)]
  ELSE [p EXCEPT !.next = p.next + 1, !.made = IF p.next < p.made THEN p.made ELSE p.made + 1]

\* vpool_return: that the object is in use is up to the caller.
GiveBack(p, slot) == [p EXCEPT !.free = Append(p.free, slot)]

\* vpool_reset
Reset(p) == [made |-> p.made, next |-> 0, free |-> <<>>]

InUse(p) == {s \in 1..p.next : \A i \in 1..Len(p.free) : p.free[i] # s}

\* No object is out twice, and none that was never made.
Sound(p) ==
  /\ p.next <= p.made
  /\ \A i \in 1..Len(p.free) : p.free[i] \in 1..p.next
  /\ \A i, j \in 1..Len(p.free) : p.free[i] = p.free[j] => i = j
=============================================================================
