CONSTANTS
  Users = {"ada", "bola"}
  Tabs = {1, 2}
  ClientKeys = {k1, k2}
  Admins = {"admin", "second"}
  Workers = {"w1", "w2"}
  Matches = {"m1"}
  Escrow = "escrow"
  Platform = "platform"
  Opening <- MCOpening
  Fee = 10
  MaxEntries = 0
  CommissionBps = 1500
  Template <- MCTemplate
  Rank <- MCRank
  Prompt = TRUE
  Faults = TRUE
SYMMETRY KeysAlike
SPECIFICATION Spec
INVARIANTS TypeOK EscrowBacksEntries WalletExact RefundXorPrize SettledOwesNothing
\* A resolved contest may have nothing left to do.
CHECK_DEADLOCK FALSE
