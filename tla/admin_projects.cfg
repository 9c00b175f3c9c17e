SPECIFICATION FairSpec
CONSTANTS
  be = be
  sim = sim
  None = None
  Declared <- TwoDeclared
  Kind <- TwoKinds
  SimOf <- TwoSims
  Static = {}
  Requests = {q1, q2}
  MaxRuns = 2
  MaxGen = 2
INVARIANTS TypeOK NoPanic LiveIsTracked SimOutlivesBackends StartIsAllOrNothing
PROPERTIES RequestsReturn
CHECK_DEADLOCK FALSE
