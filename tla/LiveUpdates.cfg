SPECIFICATION Spec
CONSTANTS
  MaxLife = 2
  Conns = {k1, k2, k3}
  Views = {v1, v2}
  NoConn = NoConn
  Closed = Closed
  NoView = NoView
  FirstView = v1
  MaxPending = 1
  MaxRetries = 2
  MaxOutages = 1
  MaxChanges = 1
INVARIANTS ClosedMeansRetry
PROPERTIES ClosedLifeIsQuiet Reconnects Covered
CHECK_DEADLOCK FALSE
