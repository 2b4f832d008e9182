SPECIFICATION PageFairSpec
CONSTANTS
  Workers = {w1, w2}
  Threads = 2
  Posts = {p1}
  Polls = {g1, g2}
  Shells = {c1}
  Accounts = {a1}
  Gold = {}
  Nobody = Nobody
  MaxSave = 2
  MaxRuns = 1
  MaxKills = 1
  Tabs = {t1}
PROPERTIES ResultIsShown WatchedBarClears LockComesFree
CHECK_DEADLOCK FALSE
