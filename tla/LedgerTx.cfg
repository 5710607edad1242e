CONSTANTS
  Accounts = {"wallet", "escrow", "clearing"}
  Guarded = {"wallet", "escrow"}
  Requests = {"feeA", "feeB", "refund", "webhook", "verify"}
  Keys = {"feeA", "feeB", "refund", "deposit"}
  MaxCalls <- MCMaxCalls
  Opening <- MCOpening
  KeyOf <- MCKeyOf
  Order <- MCOrder
  Amount <- MCAmount
SPECIFICATION FairSpec
INVARIANTS TypeOK NonNegative
PROPERTIES ImplementsLedger OneJournalPerAnswer EveryCallEnds
\* All calls may have been made and answered.
CHECK_DEADLOCK FALSE
