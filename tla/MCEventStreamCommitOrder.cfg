SPECIFICATION Spec
CONSTANTS
  MaxSeq = 3
  Mine <- MCMine
  Page = 2
  OrderedCommits = FALSE
CHECK_DEADLOCK FALSE
INVARIANTS NoSkippedEvent
