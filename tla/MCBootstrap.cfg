CONSTANTS
  nranks = 4
  Programs <- MCPrograms
SPECIFICATION FairSpec
PROPERTIES
  RingsForm
CHECK_DEADLOCK FALSE
