SPECIFICATION Spec
CONSTANTS
  a = a
  b = b
  c = c
  Nobody = Nobody
  NoJob = NoJob
  NumRuns = 2
  Jobs <- JobsAB
  Defs <- GroupDefs
  Threads = {t1, t2}
  Names = {"g", "m", "n"}
  RunnerResults = {"Failed", "empty"}
  MaxWorkflows = 1
  MaxReports = 2
  MaxTimeouts = 1
  MaxCancels = 1
  MaxDeletes = 0
SYMMETRY ThreadSymmetry
INVARIANTS CompletedRunIsClosed ResultMatchesJobs WaitingRunIsUntouched
CHECK_DEADLOCK FALSE
