SPECIFICATION Spec
CONSTANTS
  t1 = t1
  a1 = a1
  k1 = k1
  k2 = k2
  k3 = k3
  c1 = c1
  c2 = c2
  Topups = {t1}
  Net <- MCNet
  PaymentStatuses = {"SUCCEEDED"}
  Authorizations = {a1}
  Authorized <- MCAuthorized
  Keys = {k1, k2, k3}
  AuthOf <- MCAuthOf
  Amount <- MCAmount
  MaxMoney = 3
  Callers = {c1, c2}
  Workers = {w1}
  Relaunch <- MCRelaunch
  NoKey = NoKey
  MaxCost = 2
  MaxCalls = 2
  MaxPauses = 1
SYMMETRY Callers2
CONSTRAINTS FundedFirst OneDisturbance
CHECK_DEADLOCK FALSE
INVARIANTS NeverOvercharged LaunchedOnce HeldWhileOpen
PROPERTY FinalizedIsFinal
