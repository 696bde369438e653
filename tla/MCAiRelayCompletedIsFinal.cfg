SPECIFICATION Spec
CONSTANTS
  Jobs = {j1}
  NoJob = NoJob
  Lease = 1
  Ttl = 2
  MaxAttempts = 2
  MaxTime = 3
  MaxRuns = 2
  MaxFaults = 2
  MaxCalls = 3
PROPERTY CompletedIsFinal
CHECK_DEADLOCK FALSE
