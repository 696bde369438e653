SPECIFICATION FairSpec
CONSTANTS
  d1 = d1
  d2 = d2
  e1 = e1
  e2 = e2
  NoDevice = NoDevice
  Devices = {d1, d2}
  Entities = {e1, e2}
  Editors <- Mixed
  Identity <- Same
  Slots = {1}
  MaxEdits = 2
  MaxBreaks = 1
  MaxFaults = 1
INVARIANT NothingUnsentIsForgotten
PROPERTIES SyncKeepsItsPromise EnvelopesNeverGoBack SingleEditorConverges
CHECK_DEADLOCK FALSE
