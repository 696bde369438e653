SPECIFICATION FairSpec
CONSTANTS
  d1 = d1
  d2 = d2
  e1 = e1
  e2 = e2
  NoDevice = NoDevice
  Devices = {d1, d2}
  Entities = {e1}
  Editors <- AnyEditor
  Identity <- Different
  Slots = {1}
  MaxEdits = 2
  MaxBreaks = 0
  MaxFaults = 0
PROPERTIES EventuallyConverged
CHECK_DEADLOCK FALSE
