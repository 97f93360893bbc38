SPECIFICATION FairSpec
CONSTANTS
  m1 = m1  m2 = m2  rota = rota  broken = broken  s1 = s1  s2 = s2
  None = None
  Tasks <- MCTasks
  Corrupt = {broken}
  Policy <- MCPolicy
  Pool <- MCPool
  FirstDay <- MCFirstDay
  Offset <- MCOffset
  Every <- MCEvery
  Lead <- MCLead
  Schedulers = {s1, s2}
  DayLen = 2
  Ahead = 4
  MaxTime = 2
  MaxFaults = 1
INVARIANTS RotationStable StampedIsTold ToldOnce

PROPERTY PastDueIsSettled
