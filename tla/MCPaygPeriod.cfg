SPECIFICATION FairSpec
CONSTANTS
  PeriodCount = 1
  Usage <- MCUsage
  Cent = 4
  Credits = {3, 4}
  Workers = {w1, w2}
  None = None
  Deliveries = {d1}
  MaxFailures = 1
INVARIANTS MovedOnIsBilled BilledOnceInFull PaidHasEvidence ProcessedIsApplied
PROPERTIES EveryPeriodEnds
CHECK_DEADLOCK FALSE
