CONSTANTS
  MaxFee = 13
  MaxEntrants = 7
  Commissions = {0, 1500, 3333, 10000}
  MaxGoals = 6
  SlotDistribution <- MCSlots
  Typed <- MCTyped
  Difficulties <- MCDifficulties
  RuleSets <- MCRuleSets
  EntryIds <- MCEntryIds
  Draw <- MCDraw
  Editors = {ann, ben}
  Keys = {win, margin}
  Values = {1, 2}
  Seeded <- MCSeeded
  MaxSets = 3
  MaxActivations = 1
  MaxStops = 1
SYMMETRY Symmetry
SPECIFICATION Spec
INVARIANTS PoolFullyDistributed OneSelectionWins SubmittedAsShown OnlyFullSlipsAccepted FeedsAgree StarsFollowSignals OneActive AuditTrail
PROPERTY UntouchedUnlessStale
\* Every contest fills up at MaxEntrants, and most rows have no step.
CHECK_DEADLOCK FALSE
