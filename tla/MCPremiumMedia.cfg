SPECIFICATION FairSpec
CONSTANTS
  Workers = {w1, w2}
  Handlers = {k1}
  Submitter = submitter
  Mortal = {w1}
  NoWorker = NoWorker
  MaxAttempts = 2
  Reordered = FALSE
  MaxCallbacks = 1
  Faulty = {submitter, w2}
  MaxFaults = 1
CHECK_DEADLOCK FALSE
INVARIANTS HoldsOutlastCalls SettledIsCharged AuditedOnce AcceptedIsWhole
PROPERTIES EndedIsFinal EveryCallResolves
CONSTRAINT ThreeAtOnce
