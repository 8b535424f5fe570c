SPECIFICATION VoiceSpec
CONSTANTS
  w1 = w1
  forward = forward
  stop = stop
  Workers = {w1}
  Drives = {forward}
  Stop = stop
  MaxGiven = 0
  MaxFailures = 0
  MaxSpoken = 2
INVARIANT HandlersGetParameters
CHECK_DEADLOCK FALSE
