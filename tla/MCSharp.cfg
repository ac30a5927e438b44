CONSTANTS
  node_num = 2
  rank_num = 2
  g_threshold = 2
  Overlap = FALSE
  NumComms = 2
  NumReductions = 2
SPECIFICATION FairSpec
INVARIANTS
  SameReduction
  ReducedEverywhere
PROPERTIES
  AllComplete
