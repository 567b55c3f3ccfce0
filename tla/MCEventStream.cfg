SPECIFICATION FairSpec
CONSTANTS
  MaxSeq = 4
  Mine <- MCMine
  Page = 2
  OrderedCommits = TRUE
CHECK_DEADLOCK FALSE
INVARIANTS InOrder NoSkippedEvent
PROPERTIES StreamCatchesUp
