CONSTANTS
  Users = {"ada", "bola"}
  Tabs = {1}
  ClientKeys = {"k1", "k2"}
  Admins = {"admin"}
  Workers = {"w1"}
  Matches = {"m1", "m2"}
  Escrow = "escrow"
  Platform = "platform"
  Opening <- MCOpening
  Fee = 10
  MaxEntries = 0
  CommissionBps = 1500
  Template <- MCWinnerTemplate
  Rank <- MCRank
  Prompt = TRUE
  Faults = FALSE
SPECIFICATION FairSpec
PROPERTIES ScoredWhenComplete EventuallyResolved
\* A resolved contest may have nothing left to do.
CHECK_DEADLOCK FALSE
