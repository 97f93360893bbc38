SPECIFICATION Spec
CONSTANTS
  ann = ann
  n1 = n1
  n2 = n2
  p1 = p1
  p2 = p2
  s1 = s1
  s2 = s2
  None = None
  Members = {ann}
  Owners = {}
  Notes = {n1}
  Phones = {p1}
  Servers = {s1, s2}
  Windows <- NightOrNoon
  HoursPerDay = 3
  MaxTime = 2
  BatchSize = 1
  Attempts <- ThreeEach
  MaxCrashes = 1
  ConnectionsFail = TRUE
SYMMETRY Symmetry
INVARIANTS TypeOK OneSendPerRow NothingSilentlyLost NoTextAfterOptOut DeferredToWindowEnd
PROPERTIES BouncesSpareOtherChoices
