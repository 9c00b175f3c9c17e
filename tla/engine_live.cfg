SPECIFICATION FairSpec
CONSTANTS
  a = a
  b = b
  c = c
  Nobody = Nobody
  NoJob = NoJob
  NumRuns = 2
  Jobs <- JobsAB
  Defs <- LiveDefs
  Threads = {t1, t2}
  Names = {"g", "m", "n"}
  RunnerResults = {"Succeeded", "Failed"}
  MaxWorkflows = 0
  MaxReports = 1
  MaxTimeouts = 0
  MaxCancels = 0
  MaxDeletes = 0
PROPERTIES RunReachesEnd
CHECK_DEADLOCK FALSE
