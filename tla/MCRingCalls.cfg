CONSTANTS
  allCardNum = 3
  card_num = 3
  nChunks = 2
  rank_num = 2
  rank_id = 1
  FirstSizes = {3, 5}
  SecondSize = 7
  Programs <- MCPrograms
SPECIFICATION FairSpec
INVARIANTS
  ResultCorrect
  AckNotOvertaken
PROPERTIES
  CallsComplete
