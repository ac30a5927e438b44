CONSTANTS
  DEV_NUM = 2
  dev_cnt = 2
  Host <- MCHost
  Comm <- MCComm
  Programs <- MCPrograms
SPECIFICATION FairSpec
INVARIANTS
  PairsMatch
  KeysFit
  FlagAfterData
  OnePoster
PROPERTIES
  AllConnected
CHECK_DEADLOCK FALSE
