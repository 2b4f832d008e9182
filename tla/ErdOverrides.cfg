SPECIFICATION FairSpec
CONSTANTS
  w1 = w1
  w2 = w2
  t1 = t1
  t2 = t2
  Workers = {w1, w2}
  Threads = {t1, t2}
  Home <- OneThreadPerWorker
  Tables = {a, b, c}
  Catalogs = {{a, b, c}, {a, b}}
  Ids = {1, 2}
  MaxWrites = 2
  MaxRebuilds = 1
INVARIANTS ReadYourWrites OnePairOneRow
PROPERTIES OthersKeepTheirPair GraphsCatchUp
CHECK_DEADLOCK FALSE
