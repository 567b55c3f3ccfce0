SPECIFICATION FairCallSpec
CONSTANTS
  c1 = c1
  c2 = c2
  q1 = q1
  q2 = q2
  Callers = {c1, c2, c3}
  KeyOf <- MCKeyOf
  Topups = {t1}
  Amount <- MCAmount
  PaymentStatuses = {"SUCCEEDED", "REFUNDED"}
  Reversals = {}
  ReversalOf <- MCNone
  ReversalAmount <- MCNone
  MaxStamp = 1
  Requests = {q1, q2}
  HoldAmounts = {2}
  Costs = {1, 3}
  Usages = {u1}
  Adjustments = {}
  AdjustAmounts = {3}
  MaxMoney = 8
CHECK_DEADLOCK FALSE
INVARIANTS WorkIsDoneOnce WorkStaysHeld AnswersArePaid
PROPERTY MeteredUseIsDebited
