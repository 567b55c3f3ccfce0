SPECIFICATION AdSpec
CONSTANTS
  t1 = t1
  t2 = t2
  a1 = a1
  a2 = a2
  k1 = k1
  k2 = k2
  Topups = {t1, t2}
  Net <- MCNet
  PaymentStatuses = {"SUCCEEDED", "FAILED", "REFUNDED"}
  Authorizations = {a1, a2}
  Authorized <- MCAuthorized
  Keys = {k1, k2}
  AuthOf <- MCAuthOf
  Amount <- MCAmount
  MaxMoney = 8
INVARIANTS WithinAuthorization BooksAgree DepositsAreWhole
CHECK_DEADLOCK FALSE
