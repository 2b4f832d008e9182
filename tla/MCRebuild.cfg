SPECIFICATION Spec
CONSTANTS
  Workers = {w1}
  Threads = 2
  Posts = {p1, p2}
  Polls = {}
  Shells = {c1}
  Accounts = {a1, a2}
  Gold = {"transactions", "analysis", "metrics"}
  Nobody = Nobody
  MaxSave = 3
  MaxRuns = 2
  MaxKills = 1
INVARIANTS OneRebuildPerWorker ReportsMatch
PROPERTIES SuccessIsFresh
CHECK_DEADLOCK FALSE
SYMMETRY Interchangeable
