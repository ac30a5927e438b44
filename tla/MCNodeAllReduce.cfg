CONSTANTS
  MaxCards = 4
  MaxRanks = 2
  DEV_NUM = 4
  Programs <- MCPrograms
SPECIFICATION Spec
INVARIANTS
  ResultCorrect
  NotOvertaken
  NobodyStuck
