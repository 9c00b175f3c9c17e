SPECIFICATION FairSpec
CONSTANTS
  j1 = j1
  j2 = j2
  r1 = r1
  None = None
  Jobs = {j1, j2}
  Runs = {r1}
  RunOf <- OneRun
  MaxTroubles = 1
INVARIANTS TypeOK OneRunnerPerJob
PROPERTIES SweepSparesTheLiving QueuedJobIsServed LeftoversAreSwept
