SPECIFICATION FairSpec
CONSTANTS
  c1 = c1
  None = None
  Containers = {c1}
  Interactive = {c1}
  Calls = {a1, a2}
  Launchers = {l1}
  Waiters = {w1}
  MaxTasks = 1
  MaxChs = 1
  MaxCrashes = 0
INVARIANTS NoDoubleClose StartedIsFound
PROPERTIES WaitEnds
CHECK_DEADLOCK FALSE
