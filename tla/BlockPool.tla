----------------------------- MODULE BlockPool -----------------------------
(***************************************************************************)
(* What FastGen asks of its block sets: the free blocks and those of each  *)
(* lane are sets of integers, listed in increasing order; the smallest     *)
(* free blocks are given out first.  IntervalSet implements it.            *)
(***************************************************************************)
EXTENDS Integers, FiniteSets, SequencesExt

CONSTANTS Lanes, NBlocks

VARIABLES
  free,  \* the free blocks, a strictly increasing sequence
  held   \* the blocks of each lane, likewise

pvars == <<free, held>>

Sorted(S) == [k \in 1..Cardinality(S) |-> CHOOSE x \in S : Cardinality({y \in S : y < x}) = k - 1]
None == [l \in Lanes |-> <<>>]

Init == free = Sorted(0..(NBlocks - 1)) /\ held = None

(* one block for a lane that grows *)
Pop(l) ==
  /\ free # <<>>
  /\ free' = Tail(free)
  /\ held' = [held EXCEPT ![l] = Sorted(ToSet(@) \cup {Head(free)})]

(* n blocks, or all there are, for a new lane *)
TakeMany(l, n) ==
  LET m == Min({n, Len(free)}) IN
  /\ held[l] = <<>>
  /\ free' = SubSeq(free, m + 1, Len(free))
  /\ held' = [held EXCEPT ![l] = SubSeq(free, 1, m)]

Release(l) ==
  /\ free' = Sorted(ToSet(free) \cup ToSet(held[l]))
  /\ held' = [held EXCEPT ![l] = <<>>]

Next ==
  /\ pvars' # pvars
  /\ \E l \in Lanes : Pop(l) \/ Release(l) \/ \E n \in 1..NBlocks : TakeMany(l, n)

Spec == Init /\ [][Next]_pvars
=============================================================================
