SPECIFICATION FairSpec
CONSTANTS
  w1 = w1
  w2 = w2
  forward = forward
  stop = stop
  Workers = {w1, w2}
  Drives = {forward}
  Stop = stop
  MaxGiven = 4
  MaxFailures = 1
INVARIANTS
  TypeOK SendDebt HeldHasOwner CommandsAccounted StopsUnlessOvertaken
PROPERTIES
  LinkSpec CommandsSettled
CHECK_DEADLOCK FALSE
