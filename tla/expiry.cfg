SPECIFICATION FairSpec
CONSTANTS
  ann = ann
  bob = bob
  t1 = t1
  t2 = t2
  q1 = q1
  q2 = q2
  k1 = k1
  None = None
  Members = {ann, bob}
  Trades = {t1}
  Chores = {1, 2}
  DueDay <- DueSoon
  FirstHolder <- OddAreAnns
  MaxTime = 2
  Requests = {q1}
  Schedulers = {k1}
  MaxFaults = 1
PROPERTIES TradesResolve
