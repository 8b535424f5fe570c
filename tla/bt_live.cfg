SPECIFICATION FairSpec
CONSTANTS
  w1 = w1
  w2 = w2
  d1 = d1
  d2 = d2
  Workers = {w1, w2}
  Devices = {}
  Nodes <- MCNodes
  MaxShow = 1
  MaxFailures = 1
  Events <- OpenClose
  NoDevice = NoDevice
  Garbled = Garbled
CONSTRAINT Undamaged
INVARIANT DiscoveryOwned
PROPERTIES
  QuietAfterClose
CHECK_DEADLOCK FALSE
