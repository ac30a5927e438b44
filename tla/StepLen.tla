------------------------------ MODULE StepLen ------------------------------
(***************************************************************************)
(* How long the slices of an AllReduce are.  A chunk has one slice for     *)
(* each card and is worked on in one half of the cross buffers, so all its *)
(* slices together have to fit half of MAX_SIZE.                           *)
(***************************************************************************)
EXTENDS Integers, FiniteSetsExt

KB == 1024
MB == 1024 * KB
MAX_SIZE == 64 * MB
ALIGNED_BYTE == 4
INT_MAX == 2147483647

\* A size that is passed on as an int keeps its low 32 bits.
ToInt(size) ==
  IF size <= INT_MAX THEN size
  ELSE LET low == size % (4 * KB * MB) IN
       IF low <= INT_MAX THEN low ELSE low - (4 * KB * MB)

Aligned(n) == (n \div ALIGNED_BYTE) * ALIGNED_BYTE

\* Lengths the data of a rank is rounded up to.
Rungs == {128 * KB, 256 * KB, 512 * KB, 640 * KB, 768 * KB, MB, 1536 * KB, 2 * MB}
NicRungs == Rungs \cup {4 * MB, 6 * MB}
AtLeast(rungs, n) == {x \in rungs : n <= x}

\* The step inside a node.
tcclGetStepLen(size, nranks) ==
  LET data_size == ToInt(size)
      slice_len == Aligned((MAX_SIZE \div 2) \div nranks)
      fitting == AtLeast(Rungs, data_size \div nranks)
  IN IF nranks <= 32 /\ data_size < 128 * MB /\ fitting # {}
     THEN Min(fitting)
     ELSE slice_len

\* The step of the ring of all cards.
Bug_MaxSlice(nranks, rank_num) == 8 * MB
MaxSlice(nranks, rank_num) ==
  Min({8 * MB, Aligned(((MAX_SIZE \div 2) \div nranks) * rank_num)})
tcclNicStepLen(size, nranks, rank_num) ==
  LET maxSlice == MaxSlice(nranks, rank_num)
      dataSizePerRank == ToInt(size) \div nranks
      fitting == AtLeast(NicRungs, dataSizePerRank)
  IN IF dataSizePerRank >= maxSlice \/ fitting = {}
     THEN maxSlice
     ELSE Min(fitting)
=============================================================================
