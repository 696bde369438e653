SPECIFICATION Spec
CONSTANTS
  Tasks = {t1}
  Reminders = {r1, r2}
  Cycles = {c1, c2}
  None = null
  Times <- InTime
  MaxAttempts = 2
  Lease = 1
  MaxTime = 2
  MaxRows = 1
  MaxFaults = 1
  MaxCrashes = 1
INVARIANTS GivenUpIsFailed
CHECK_DEADLOCK FALSE
