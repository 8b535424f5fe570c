SPECIFICATION PanelSpec
CONSTANTS
  w1 = w1
  w2 = w2
  forward = forward
  stop = stop
  Workers = {w1, w2}
  Drives = {forward}
  Stop = stop
  MaxGiven = 2
  MaxFailures = 0
SYMMETRY Symmetry
INVARIANTS
  PanelTypeOK ScreensAgree StopsUnlessOvertaken
PROPERTY CarSpec
CHECK_DEADLOCK FALSE
