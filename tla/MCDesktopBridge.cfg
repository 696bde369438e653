SPECIFICATION FairSpec
CONSTANTS
  MaxRequests = 3
  MaxHosts = 2
  Parallel = 1
  MaxFaults = 1
INVARIANTS TypeOK OneHost PendingIsAtTheChild
PROPERTIES ImplementsService EveryInvokeSettles
CHECK_DEADLOCK FALSE
