SPECIFICATION FairSpec
CONSTANTS
  Tasks = {t1}
  Reminders = {r1}
  Cycles = {c1, c2}
  None = null
  Times <- AtOnce
  MaxAttempts = 2
  Lease = 1
  MaxTime = 1
  MaxRows = 1
  MaxFaults = 1
  MaxCrashes = 1
PROPERTIES RemindersKeepTheirPromise LeaseIsRespected EveryReminderIsTried
CHECK_DEADLOCK FALSE
