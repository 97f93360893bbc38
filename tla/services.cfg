SPECIFICATION Spec
CONSTANTS
  None = None
  \* Two requests, two enrolments, three batches of one recovery code.
  Requests = {"r1", "r2"}
  Secrets = {1, 2}
  Batches = {1, 2, 3}
  PerBatch = 1
  Steps = {1, 2}
  \* Two browsers redeem two codes.
  Tabs = {"t1", "t2"}
  KioskCodes = {1, 2}
  TTL = 1
  KioskTime = 2
  \* Two members and two schedulers, on a chore that is closed once.
  Members = {"m1", "m2"}
  Instances = {1, 2}
  Schedulers = {"s1", "s2"}
  ClaimWindow = 2
  WarnAhead = 1
  ChoreTime = 3
  MaxFaults = 1
  \* Two uploads for a chore that asks for photos of both kinds.
  Cameras = {"u1", "u2"}
  Policy = "before_after"
  FreshFor = 1
  Retention = 0
  ProofTime = 1
  \* Two events, three changes, one sync scheduler, as the server runs.
  Events = {"e1", "e2"}
  Syncers = {"y1"}
  MaxChanges = 3
  \* Three intervals, three sets of weekdays, windows of thirty days.
  FirstDay <- MCFirstDay
  DayLen = 2
  Intervals = {1, 2, 3}
  Weekdays = {{0}, {1, 3}, {6}}
  Anchors = {0, 6, 8}
  Start = 12
  Span = 30
  \* One restock and one meal line, two passes at a time; two cooks.
  Restocks = {"flour"}
  Meals = {"rice"}
  Runs = {"s1", "s2"}
  Entries = {1, 2, 3}
  Cooks = {"u1", "u2"}
  Stock = 1
  MaxStock = 2
INVARIANTS
  TypesOK
  AcceptedOnce ShownCodesStand DevicesFollowEnrolment
  OneDeviceStands
  OneOpenStanding WarnedOncePerWindow
  ProofsInOrder
  WalkIsComplete
  CacheCoversCursor
  OneOpenEntry PantryAddsUp
\* A scene ends when its bounds are used up: codes, changes, entries, the window.
CHECK_DEADLOCK FALSE
