SPECIFICATION Spec
CONSTANTS
  w1 = w1
  w2 = w2
  d1 = d1
  d2 = d2
  Workers = {w1, w2}
  Devices = {d1, d2}
  Nodes <- MCNodes
  MaxShow = 1
  MaxFailures = 0
  Events <- OpenConnect
  NoDevice = NoDevice
  Garbled = Garbled
CONSTRAINT ListTrusted
INVARIANT ConnectsToPressedDevice
CHECK_DEADLOCK FALSE
