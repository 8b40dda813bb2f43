SPECIFICATION Spec
CONSTANTS
  Tasks = {t1}
  Payments = {p1}
  t1 = t1
  p1 = p1
  None = None
  Costs = {1, 3}
  Deposit = 3
  Amount = 2
  Threshold = 2
  Limit = 3
  HasCard = TRUE
  MaxOps = 1
  MaxDeliveries = 1
  MaxFailures = 0
INVARIANT CreditedOnce
CHECK_DEADLOCK FALSE
