SPECIFICATION Spec
CONSTANTS
  c1 = c1
  None = None
  Containers = {c1}
  Interactive = {c1}
  Calls = {a1}
  Launchers = {l1}
  Waiters = {}
  MaxTasks = 2
  MaxChs = 2
  MaxCrashes = 1
INVARIANTS TypeOK NoDoubleClose StartedIsFound RemovedStaysHidden OneLiveTask
CHECK_DEADLOCK FALSE
