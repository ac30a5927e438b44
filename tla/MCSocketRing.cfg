CONSTANTS
  nranks = 4
  Capacity = 2
  NumCalls = 3
SPECIFICATION FairSpec
INVARIANTS
  BarrierSafety
  GatherComplete
PROPERTIES
  CallsReturn
