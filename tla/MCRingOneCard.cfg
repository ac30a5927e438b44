CONSTANTS
  allCardNum = 2
  card_num = 1
  rank_num = 1
  NumOps = 2
  MaxChunks = 2
SPECIFICATION FairSpec
INVARIANTS
  NoOverwrite
