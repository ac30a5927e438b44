CONSTANTS
  rank_num = 3
  MaxCount = 5
SPECIFICATION FairSpec
INVARIANTS
  TypeOK
  BarrierSafety
  NoOvershoot
  KernelOwnsBuffers
PROPERTIES
  CalledPhasesComplete
  ImplementsBarrier
