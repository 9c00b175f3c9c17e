SPECIFICATION FairSpec
CONSTANTS
  x1 = x1
  x2 = x2
  Ids = {c1}
  Conns = {k1}
  Announcing = {k1}
  Waiters = {}
  Execs = {x1, x2}
  Collectors = {x2}
  Keys = {"derived"}
  KeyOf <- SharedKey
  NoConn = NoConn
  NoExec = NoExec
  NoId = NoId
  NoMsg = NoMsg
  NoKey = NoKey
  ChanCap = 1
  MaxOut = 2
  MaxDrops = 1
INVARIANTS TypeOK RouteIsLive OnlyDisplacedSurvive
PROPERTIES ExecEndsWithConn
CHECK_DEADLOCK FALSE
