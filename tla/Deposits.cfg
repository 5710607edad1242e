CONSTANTS
  Intents = {"full", "part"}
  Given <- MCGiven
  Clients = {"client"}
  Hooks = {"hook", "again"}
  Faults = TRUE
SPECIFICATION FairSpec
INVARIANTS WalletHoldsPayments SucceededIsCredited
PROPERTIES PaidIsCredited
\* Once every deposit is settled there may be nothing left to do.
CHECK_DEADLOCK FALSE
