SPECIFICATION FairSpec
CONSTANTS
  Keys = {k1}
  Watchers = {w1, w2}
  Requests = {r1, r2}
  NoKey = NoKey
  NoData = NoData
  MaxVersion = 2
INVARIANTS WatchedIsFetched
PROPERTIES NoHookFallsBehind NeverGoesBack WatchedSettles
CHECK_DEADLOCK FALSE
