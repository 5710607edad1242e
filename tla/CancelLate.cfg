CONSTANTS
  Users = {"ada", "bola"}
  Tabs = {1}
  ClientKeys = {"k1", "k2"}
  Admins = {"admin"}
  Workers = {"w1"}
  Matches = {"m1"}
  Escrow = "escrow"
  Platform = "platform"
  Opening <- MCOpening
  Fee = 10
  MaxEntries = 0
  CommissionBps = 1500
  Template <- MCTemplate
  Rank <- MCRank
  Prompt = FALSE
  Faults = FALSE
SPECIFICATION Spec
INVARIANTS CancelEmptiesEscrow
\* A resolved contest may have nothing left to do.
CHECK_DEADLOCK FALSE
