CONSTANTS
  Contests <- MCContests
  Watched = "early"
  Result <- MCResult
  Requests = {1, 2}
  MaxFails = 1
SPECIFICATION ReadSpec
INVARIANTS CacheFresh StatsConverge
PROPERTY BoardCatchesUp
