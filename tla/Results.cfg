CONSTANTS
  Fixtures = {"f1", "f2"}
  Goals = {"0-0", "1-0"}
  NilNil = "0-0"
  Actual <- MCActual
  Told = {"f1"}
  Manual = {"f2"}
  Entries = {"slip"}
  Pick <- MCPick
  Pollers = {"poller"}
  Admins = {"admin"}
  Workers = {w1, w2}
  MaxSyncs = 1
SYMMETRY WorkerSymmetry
SPECIFICATION Spec
INVARIANTS TotalsAddUp Converged
PROPERTIES ScoredIsStable
\* A SCORED contest has nothing left to do.
CHECK_DEADLOCK FALSE
