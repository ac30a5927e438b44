CONSTANTS
  DEV_NUM = 2
  dev_cnt = 16
  Placements <- MCPlacements
  Devlists <- MCDevlists
  Defaults <- MCDefaults
  Sharp = {TRUE, FALSE}
  DataSizes <- MCDataSizes
SPECIFICATION FairSpec
INVARIANTS
  RingsFit
  LinksFit
  ChunkFitsHalf
PROPERTIES
  SetUpCompletes
CHECK_DEADLOCK FALSE
