SPECIFICATION Scenes
CONSTANTS
  a = a
  p = p
  u1 = u1
  u2 = u2
  None = None
  Gone = Gone
  Keys = {a, p}
  Class <- MCClass
  Rows = {1, 2, 3}
  Seeded = {1, 2}
  Uploaders = {u1, u2}
  Grace = 1
  Retention = 1
  MaxTime = 2
INVARIANTS RowsKeepTheirBytes PreviewIsFaithful
