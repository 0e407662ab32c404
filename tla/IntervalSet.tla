---------------------------- MODULE IntervalSet ----------------------------
(***************************************************************************)
(* The radix tree of cwm/fastgen/utils/iset.py, as FastGen uses it for the *)
(* free blocks and for the blocks of each lane.                            *)
(*                                                                         *)
(* An integer of Width bits (32 in the code) is the set of the positions   *)
(* of its ones, so that & | ~ are \cap, \cup and set difference; a mask is *)
(* the set of the positions that are still to be decided.  A node is       *)
(*   Mem: all the integers under it, or none;                              *)
(*   Chk: those whose bits in mask are bits, then chld;                    *)
(*   Bit: a branch on one bit.                                             *)
(***************************************************************************)
EXTENDS Integers, FiniteSets, FiniteSetsExt, Sequences

CONSTANTS
  Lanes,    \* the lanes that hold blocks
  NBlocks,  \* the number of blocks
  Width     \* the bits of an element (_L)

All == 0..(Width - 1)
ASSUME SetAssumption == NBlocks \in 1..(2^Width)

VARIABLES
  free,   \* FastGen.free_blocks
  held    \* per lane, Lane.blockset

setvars == <<free, held>>

Bits(n) == {i \in All : (n \div 2^i) % 2 = 1}
Val(S) == MapThenSumSet(LAMBDA i : 2^i, S)

-----------------------------------------------------------------------------
(* Nodes *)

Mem(b) == [k |-> "Mem", mem |-> b]
Empty == Mem(FALSE)

(* Chk._mk and Bit._mk; "c0 is c1" holds of the cached Mem nodes only *)
MkChk(mask, bits, c) ==
  IF mask = {} \/ c = Empty THEN c
  ELSE IF c.k = "Chk"
  THEN [k |-> "Chk", mask |-> mask \cup c.mask,
        bits |-> (bits \cap mask) \cup c.bits, chld |-> c.chld]
  ELSE [k |-> "Chk", mask |-> mask, bits |-> bits \cap mask, chld |-> c]

MkBit(bit, c0, c1) ==
  IF c0 = c1 /\ c0.k = "Mem" THEN c0
  ELSE IF c0 = Empty THEN MkChk({bit}, {bit}, c1)
  ELSE IF c1 = Empty THEN MkChk({bit}, {}, c0)
  ELSE [k |-> "Bit", bit |-> bit, c0 |-> c0, c1 |-> c1]

Singleton(n) == MkChk(All, Bits(n), Mem(TRUE))

RECURSIVE Size(_, _)
Size(s, mask) ==
  CASE s.k = "Mem" -> IF s.mem THEN 2^Cardinality(mask) ELSE 0
    [] s.k = "Chk" -> Size(s.chld, mask \ s.mask)
    [] s.k = "Bit" -> Size(s.c0, mask \ {s.bit}) + Size(s.c1, mask \ {s.bit})

(* _tolist *)
RECURSIVE Listed(_, _, _)
Listed(s, prefix, mask) ==
  CASE s.k = "Mem" ->
         IF s.mem THEN [j \in 1..(2^Cardinality(mask)) |-> Val(prefix) + j - 1] ELSE <<>>
    [] s.k = "Chk" -> Listed(s.chld, prefix \cup s.bits, mask \ s.mask)
    [] s.k = "Bit" -> Listed(s.c0, prefix, mask \ {s.bit})
                      \o Listed(s.c1, prefix \cup {s.bit}, mask \ {s.bit})

ToList(s) == Listed(s, {}, All)

-----------------------------------------------------------------------------
(***************************************************************************)
(* _union.  Masks that remain under a node are its lowest bits, so the     *)
(* larger number has the same first bit and more bits below.               *)
(***************************************************************************)
Swapped(s, o) ==
  \/ s.k = "Bit" /\ o.k = "Mem"
  \/ s.k = "Chk" /\ o.k # "Chk"
  \/ s.k = "Chk" /\ o.k = "Chk" /\ Val(o.mask) < Val(s.mask)

(* the positions of mask0: those above the highest one of diff *)
Above(mask, diff) == {i \in mask : \A d \in diff : i > d}

RECURSIVE Union(_, _)
UnionChk(s, o) ==
  LET mask0  == Above(s.mask, (s.bits \ o.bits) \cup ((o.bits \cap s.mask) \ s.bits))
      omask1 == o.mask \ mask0
      smask1 == s.mask \ mask0
      high   == {Max(s.mask)}
      c0     == MkChk(omask1 \ high, o.bits, o.chld)
      c1     == MkChk(smask1 \ high, s.bits, s.chld)
  IN IF mask0 = {}
     THEN IF high \subseteq s.bits THEN MkBit(Max(s.mask), c0, c1)
                                   ELSE MkBit(Max(s.mask), c1, c0)
     ELSE MkChk(mask0, s.bits, Union(MkChk(omask1, o.bits, o.chld),
                                     MkChk(smask1, s.bits, s.chld)))
UnionBitLow(s, o) ==
  IF o.k = "Bit" THEN MkBit(s.bit, Union(o.c0, s.c0), Union(o.c1, s.c1))
  ELSE MkBit(s.bit, Union(s.c0, MkChk(o.mask \ {s.bit}, o.bits, o.chld)), s.c1)
UnionBit(s, o) ==
  IF o.k = "Bit" THEN MkBit(s.bit, Union(o.c0, s.c0), Union(o.c1, s.c1))
  ELSE LET under == MkChk(o.mask \ {s.bit}, o.bits, o.chld)
       IN IF s.bit \in o.bits THEN MkBit(s.bit, s.c0, Union(s.c1, under))
                              ELSE MkBit(s.bit, Union(s.c0, under), s.c1)
Union(s, o) ==
  CASE s.k = "Mem" -> IF s.mem THEN s ELSE o
    [] Swapped(s, o) -> Union(o, s)
    [] s.k = "Chk" /\ ~Swapped(s, o) -> UnionChk(s, o)
    [] s.k = "Bit" /\ ~Swapped(s, o) -> UnionBit(s, o)

Add(s, n) == Union(s, Singleton(n))

-----------------------------------------------------------------------------
(* interval(a, b, mask): [a, b) by its largest aligned power of two *)

Log(n) == CHOOSE i \in 0..Width : 2^i <= n /\ n < 2^(i + 1)
Aligned(a, p) == ((a + 2^p - 1) \div 2^p) * 2^p
Fit(a, b) == LET p == Log(b - a) IN IF Aligned(a, p) + 2^p <= b THEN p ELSE p - 1

RECURSIVE Interval(_, _, _)
Interval(a, b, mask) ==
  IF b <= a THEN Empty
  ELSE LET p  == Fit(a, b)
           aa == Aligned(a, p)
       IN Union(Union(Interval(a, aa, mask), MkChk(mask \ (0..(p - 1)), Bits(aa), Mem(TRUE))),
                Interval(aa + 2^p, b, mask))

(* _take: the count smallest elements, and the others *)
RECURSIVE Take(_, _, _)
TakeMem(s, count, mask) ==
  IF ~s.mem THEN <<Empty, Empty>>
  ELSE IF count >= 2^Cardinality(mask) THEN <<s, Empty>>
  ELSE <<Interval(0, count, mask), Interval(count, 2^Cardinality(mask), mask)>>
TakeBit(s, count, mask) ==
  LET low  == Take(s.c0, count, mask \ {s.bit})
      rest == count - Size(low[1], mask \ {s.bit})
      high == Take(s.c1, rest, mask \ {s.bit})
  IN IF rest > 0
     THEN <<MkBit(s.bit, low[1], high[1]), MkChk({s.bit}, {s.bit}, high[2])>>
     ELSE <<MkChk({s.bit}, {}, low[1]), MkBit(s.bit, low[2], s.c1)>>
Take(s, count, mask) ==
  CASE s.k = "Mem" -> TakeMem(s, count, mask)
    [] s.k # "Mem" /\ count >= Size(s, mask) -> <<s, Empty>>
    [] s.k = "Chk" /\ count < Size(s, mask) ->
         LET t == Take(s.chld, count, mask \ s.mask)
         IN <<MkChk(s.mask, s.bits, t[1]), MkChk(s.mask, s.bits, t[2])>>
    [] s.k = "Bit" /\ count < Size(s, mask) -> TakeBit(s, count, mask)

-----------------------------------------------------------------------------
(* FastGen's calls: popleft and add, take and set_blocks, |= and clear. *)

PopBlock(l) ==
  /\ Size(free, All) > 0
  /\ LET t == Take(free, 1, All) IN
     /\ free' = t[2]
     /\ held' = [held EXCEPT ![l] = Add(@, Val(t[1].bits))]

SetBlocks(l) ==
  \E ask \in 1..Size(free, All) :
    /\ Size(held[l], All) = 0
    /\ LET t == Take(free, ask, All) IN
       free' = t[2] /\ held' = [held EXCEPT ![l] = t[1]]

Free(l) ==
  /\ free' = Union(free, held[l])
  /\ held' = [held EXCEPT ![l] = Empty]

SetsInit == free = Interval(0, NBlocks, All) /\ held = [l \in Lanes |-> Empty]
SetsNext == \E l \in Lanes : PopBlock(l) \/ SetBlocks(l) \/ Free(l)
SetsSpec == SetsInit /\ [][SetsNext]_setvars

-----------------------------------------------------------------------------
(***************************************************************************)
(* The trees behave as the sets of blocks FastGen takes them for: no block *)
(* is lost or duplicated by a merge or a split at any shape of the tree,   *)
(* take() and popleft() give the smallest blocks and tolist() sorts them.  *)
(***************************************************************************)
Pool == INSTANCE BlockPool
          WITH free <- ToList(free), held <- [l \in Lanes |-> ToList(held[l])]
BehavesAsSets == Pool!Spec
=============================================================================
