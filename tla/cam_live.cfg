SPECIFICATION FairSpec
CONSTANTS
  w1 = w1
  w2 = w2
  w3 = w3
  Workers = {w1, w2}
  NumBuffers = 2
  FileLimit = 0
  MaxFaults = 1
  NoWorker = NoWorker
INVARIANT BuffersAccounted
PROPERTIES SessionLive StartServed
CHECK_DEADLOCK FALSE
