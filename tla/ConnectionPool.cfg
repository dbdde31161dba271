SPECIFICATION Spec
CONSTANTS
  Threads = {t1, t2, t3, t4}
  Conns = {c1, c2, c3}
  NoConn = NoConn
INVARIANTS
  Partition
  NoLostWakeup
  NobodyWaits
PROPERTIES
  RotatesConnections
