SPECIFICATION Spec
CONSTANTS
  d1 = d1
  d2 = d2
  e1 = e1
  e2 = e2
  NoDevice = NoDevice
  Devices = {d1, d2}
  Entities = {e1}
  Editors <- AnyEditor
  Identity <- Different
  Slots = {1, 2}
  MaxEdits = 2
  MaxBreaks = 0
  MaxFaults = 0
PROPERTIES CloudNeverGoesBack
CHECK_DEADLOCK FALSE
