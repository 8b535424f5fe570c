SPECIFICATION Spec
CONSTANTS
  w1 = w1
  w2 = w2
  d1 = d1
  d2 = d2
  Workers = {w1, w2}
  Devices = {d1}
  Nodes <- MCNodes
  MaxShow = 1
  MaxFailures = 0
  Events <- OpenOnly
  NoDevice = NoDevice
  Garbled = Garbled
INVARIANT OneScanner
CHECK_DEADLOCK FALSE
