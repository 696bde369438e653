SPECIFICATION Spec
CONSTANTS
  Tasks = {t1}
  Reminders = {r1, r2}
  Cycles = {c1}
  None = null
  Times <- InTime
  MaxAttempts = 2
  Lease = 1
  MaxTime = 2
  MaxRows = 3
  MaxFaults = 2
  MaxCrashes = 1
INVARIANTS TypeOK OneActivePerTask ActiveWasConfirmed
PROPERTIES FinalUnlessSetAnew
SYMMETRY Symmetry
CHECK_DEADLOCK FALSE
