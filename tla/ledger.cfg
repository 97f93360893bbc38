SPECIFICATION Scenes
CONSTANTS
  w1 = w1
  r1 = r1
  r2 = r2
  l1 = l1
  c1 = c1
  c2 = c2
  c3 = c3
  c4 = c4
  s1 = s1
  s2 = s2
  None = None
  Members = {1, 2}
  Rewards = {w1}
  Redemptions = {r1, r2}
  Links = {l1}
  Chores = {c1, c2, c3, c4}
  Sessions = {s1, s2}
  Costs = {1, 2}
  Quantities = {1, None}
  ClaimWindow = 1
  MaxTime = 2
  Points <- TwoEach
  LinkReward <- OneLink
  OpeningBalance <- OnePointEach
SYMMETRY Symmetry
INVARIANTS RefundMatchesDebit LinkRedeemsOnce NoWaitCycle
PROPERTIES RedeemsAtCurrentTerms LapsedClaimsAreSettled ImplementsHousehold
