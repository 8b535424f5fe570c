SPECIFICATION PictureSpec
CONSTANTS
  w1 = w1
  w2 = w2
  w3 = w3
  Workers = {w1}
  NumBuffers = 1
  FileLimit = 0
  MaxFaults = 0
  NoWorker = NoWorker
PROPERTY LvglCallsSerialised
CHECK_DEADLOCK FALSE
