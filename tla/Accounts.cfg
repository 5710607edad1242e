CONSTANTS
  Tabs = {left, right}
  Browsers = {"home"}
  BrowserOf <- MCBrowserOf
  Admins = {"admin"}
  MaxAttempts = 1
  MaxSessions = 2
  MaxCodes = 2
  MaxSuspensions = 2
SYMMETRY TabSymmetry
SPECIFICATION Spec
INVARIANTS RevocationHolds AttemptsBounded
PROPERTY LiftedKnowingly
\* Sessions, codes and admins' calls are bounded, so the model runs out.
CHECK_DEADLOCK FALSE
