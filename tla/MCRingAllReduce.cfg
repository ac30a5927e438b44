CONSTANTS
  allCardNum = 2
  card_num = 2
  rank_num = 2
  NumOps = 2
  MaxChunks = 5
SPECIFICATION FairSpec
INVARIANTS
  ResultCorrect
  NoOverwrite
  KernelsTakeTurns
PROPERTIES
  CallsComplete
