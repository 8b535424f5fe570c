SPECIFICATION Spec
CONSTANTS
  w1 = w1
  w2 = w2
  w3 = w3
  Workers = {w1, w2, w3}
  NumBuffers = 1
  FileLimit = 0
  MaxFaults = 1
  NoWorker = NoWorker
SYMMETRY Symmetry
INVARIANTS
  TypeOK MutexAccounted DescriptorsClosed MappingsAccounted SessionGoesOn
PROPERTY SessionSpec
CHECK_DEADLOCK FALSE
