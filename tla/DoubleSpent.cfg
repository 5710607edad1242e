CONSTANTS
  Ids = {"small", "large"}
  Amount <- MCAmount
  Funds = 3
  Admins = {ann, ben}
  Workers = {"w1"}
  MaxInterrupted = 0
SPECIFICATION Spec
INVARIANTS NeverDoubleSpent
CHECK_DEADLOCK FALSE
