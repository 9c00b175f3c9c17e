SPECIFICATION Spec
CONSTANTS
  m1 = m1
  m2 = m2
  d1 = d1
  NumSessions = 2
  WorkflowMsgs = {m1, m2}
  DirectMsgs = {d1}
  Pollers = {p1, p2}
  ChanCap = 1
  MaxGone = 1
SYMMETRY BrokerSymmetry
INVARIANTS TypeOK OnePlace FairShare
PROPERTIES IsMailbox
CHECK_DEADLOCK FALSE
