SPECIFICATION Spec
CONSTANTS
  x1 = x1
  x2 = x2
  Ids = {c1}
  Conns = {k1, k2}
  Announcing = {k1}
  Waiters = {}
  Execs = {}
  Collectors = {}
  Keys = {"derived"}
  KeyOf <- SharedKey
  NoConn = NoConn
  NoExec = NoExec
  NoId = NoId
  NoMsg = NoMsg
  NoKey = NoKey
  ChanCap = 1
  MaxOut = 2
  MaxDrops = 1
PROPERTIES NewDialWins
CHECK_DEADLOCK FALSE
