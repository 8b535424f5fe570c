SPECIFICATION Spec
CONSTANTS
  lvgl = lvgl
  camera = camera
  Callers = {lvgl, camera}
  Lap = 24
  Milli = 2
  Wide = 24
  Period = 2
  MaxSets = 1
SYMMETRY Symmetry
INVARIANT TypeOK
PROPERTIES
  NeverLate EarlyWhenDisturbed
