SPECIFICATION FairSpec
CONSTANTS
  x1 = x1
  x2 = x2
  Ids = {c1}
  Conns = {k1, k2}
  Announcing = {k1, k2}
  Waiters = {w1, w2}
  Execs = {}
  Collectors = {}
  Keys = {"derived"}
  KeyOf <- SharedKey
  NoConn = NoConn
  NoExec = NoExec
  NoId = NoId
  NoMsg = NoMsg
  NoKey = NoKey
  ChanCap = 1
  MaxOut = 0
  MaxDrops = 1
INVARIANTS NoStrandedWaiter
PROPERTIES ExpiryOutlivesSession DeadSessionIsDropped
CHECK_DEADLOCK FALSE
