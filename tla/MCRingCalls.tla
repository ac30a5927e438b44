---------------------------- MODULE MCRingCalls ----------------------------
(* Every pair of calls: first one that fits into the slots of the cross    *)
(* buffers, for this ring or for all of them, then one that uses the slots *)
(* again.  Rank 0 is the root of the first, which is no restriction in a   *)
(* ring.                                                                   *)
EXTENDS RingCalls

CONSTANTS FirstSizes, SecondSize   \* bound: the chunks of the calls

Rooted(c) == c.coll \in {"broadcast", "reduce"}
CallsOf(sizes) ==
  {c \in [coll : Colls, root : Cards, size : sizes] : Rooted(c) \/ c.root = 0}
MCPrograms ==
  {<<c, d>> : c \in {e \in CallsOf(FirstSizes) : e.root = 0}, d \in CallsOf({SecondSize})}
=============================================================================
