SPECIFICATION FairSpec
CONSTANTS
  Jobs = {j1}
  NoJob = NoJob
  Lease = 1
  Ttl = 3
  MaxAttempts = 2
  MaxTime = 4
  MaxRuns = 2
  MaxFaults = 1
  MaxCalls = 2
INVARIANTS TypeOK OneAnswer AnswersWereExecuted OncePerRun FailedHasVerdict
PROPERTIES RelayKeepsItsPromise EveryRequestSettles EveryPlanEnds
CHECK_DEADLOCK FALSE
