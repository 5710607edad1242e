CONSTANTS
  Ids = {"small", "large"}
  Amount <- MCAmount
  Funds = 3
  Admins = {ann, ben}
  Workers = {"w1"}
  MaxInterrupted = 1
SYMMETRY AdminsAlike
SPECIFICATION Spec
INVARIANTS MoneyFollowsBank PendingBacksOpen StatusTellsMoney NoneStranded
\* Once every withdrawal is resolved there may be nothing left to do.
CHECK_DEADLOCK FALSE
