SPECIFICATION Spec
CONSTANTS
  t1 = t1
  t2 = t2
  t3 = t3
  Threads <- MCThreads
  NoConn = NoConn
  PoolSize = 2
  Connections <- MCConnections
INVARIANTS
  TypeOK
  SlotsAddUp
  OnePlace
  NeverWedged
PROPERTIES
  EveryCallReturns
  KeepsPromise
