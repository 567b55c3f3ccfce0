SPECIFICATION Spec
CONSTANTS
  big = big
  small = small
  Topups = {big}
  Amount <- MCAmount
  PaymentStatuses = {"SUCCEEDED", "FAILED"}
  Reversals = {"refund", "dispute"}
  ReversalOf <- MCReversalOf
  ReversalAmount <- MCReversalAmount
  MaxStamp = 3
  Requests = {q1, q2}
  HoldAmounts = {1, 2}
  Costs = {1, 3}
  Usages = {u1}
  Adjustments = {gift}
  AdjustAmounts = {1}
  MaxMoney = 8
CHECK_DEADLOCK FALSE
INVARIANTS Conservation HoldsMatch FundedMatchesTopups ReversalsAreApplied
PROPERTIES RefundIsTerminal FundsWakeWork
