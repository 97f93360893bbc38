SPECIFICATION FairSpec
CONSTANTS
  w1 = w1
  r1 = r1
  r2 = r2
  l1 = l1
  c1 = c1
  c2 = c2
  c3 = c3
  c4 = c4
  s1 = s1
  s2 = s2
  None = None
  Members = {1}
  Rewards = {w1}
  Redemptions = {r1}
  Links = {}
  Chores = {c1}
  Sessions = {s1, s2}
  Costs = {1}
  Quantities = {None}
  ClaimWindow = 1
  MaxTime = 1
  Points <- FourEach
  LinkReward <- OneLink
  OpeningBalance <- TwoPointsEach
INVARIANTS TypeOK BalanceNeverNegative
PROPERTIES TransactionsEnd
