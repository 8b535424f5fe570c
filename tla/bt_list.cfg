SPECIFICATION Spec
CONSTANTS
  w1 = w1
  w2 = w2
  d1 = d1
  d2 = d2
  Workers = {w1, w2}
  Devices = {d1, d2}
  Nodes <- MCNodes
  MaxShow = 1
  MaxFailures = 0
  Events <- AllEvents
  NoDevice = NoDevice
  Garbled = Garbled
SYMMETRY Symmetry
CONSTRAINT ListTrusted
INVARIANTS
  TypeOK LockDebt DisplayIsSnapshot WalkIsLive NoDoubleFree ListComplete ListOwned
  NoDeadlock ButtonsNameSlots
PROPERTIES
  CleanWaitsForAccept MutexesHeal BoardSpec
CHECK_DEADLOCK FALSE
