SPECIFICATION BillingSpec
CONSTANTS
  None = None
  Users = {u1}
  Offers = {f1}
  Subscribing = {f1}
  Period = 1
  MaxOrders = 2
  MaxPayments = 2
  MaxRefunds = 1
  MaxEvents = 3
  MaxTime = 1
INVARIANTS
  PlanWhilePaid
CHECK_DEADLOCK FALSE
