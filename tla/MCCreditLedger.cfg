SPECIFICATION FairSpec
CONSTANTS
  Tasks = {t1, t2}
  Payments = {p1, p2}
  t1 = t1
  t2 = t2
  p1 = p1
  p2 = p2
  None = None
  Costs = {1, 3}
  Deposit = 3
  Amount = 2
  Threshold = 2
  Limit = 3
  HasCard = TRUE
  MaxOps = 4
  MaxDeliveries = 2
  MaxFailures = 1
INVARIANTS SpendOvershootIsBounded
PROPERTIES PaymentsAreCredited
CHECK_DEADLOCK FALSE
