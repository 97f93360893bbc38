SPECIFICATION FairSpec
CONSTANTS
  ann = ann
  n1 = n1
  n2 = n2
  p1 = p1
  p2 = p2
  s1 = s1
  s2 = s2
  None = None
  Members = {ann}
  Owners = {ann}
  Notes = {n1}
  Phones = {p1}
  Servers = {s1, s2}
  Windows <- JustNight
  HoursPerDay = 3
  MaxTime = 1
  BatchSize = 2
  Attempts <- TwoEach
  MaxCrashes = 0
  ConnectionsFail = FALSE
PROPERTIES DueIsSettled
