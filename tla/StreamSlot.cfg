CONSTANTS
  s1 = s1
  g1 = g1
  d1 = d1
  t1 = t1
  t2 = t2
  Empty = Empty
  Free = Free
  NoRun = NoRun
  NoTask = NoTask
  NoCancel = NoCancel
  MaxClosed = 1
  Sessions = {s1}
  Runs = {g1}
  Disks = {d1}
  Tasks = {t1, t2}
  TaskOf <- MCTaskOf
SPECIFICATION FairSpec
INVARIANTS ClosedIsTornDown NoLostResource
PROPERTIES TeardownSparesNewer ClosedEnds
CHECK_DEADLOCK FALSE
