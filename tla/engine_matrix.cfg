SPECIFICATION Spec
CONSTANTS
  a = a
  b = b
  c = c
  Nobody = Nobody
  NoJob = NoJob
  NumRuns = 1
  Jobs <- JobsABC
  Defs <- ShapeDefs
  Threads = {t1, t2}
  Names = {"g", "m", "n"}
  RunnerResults = {"Succeeded", "Failed"}
  MaxWorkflows = 0
  MaxReports = 1
  MaxTimeouts = 1
  MaxCancels = 1
  MaxDeletes = 1
SYMMETRY ThreadSymmetry
INVARIANTS TypeOK NeedsFinished QueuedJobHasOwner DispatchedAtMostOnce MaxParallelBound
PROPERTIES FinishedStaysFinished
CHECK_DEADLOCK FALSE
