CONSTANTS
  nranks = 4
  card <- MCcard
  phyNextRank <- MCphyNextRank
  Programs <- MCPrograms
  NumMsgs = 3
SPECIFICATION FairSpec
INVARIANTS
  Delivered
  NoOvershoot
  Rendezvous
PROPERTIES
  AllComplete
