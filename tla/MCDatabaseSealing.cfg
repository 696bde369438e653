SPECIFICATION FairSpec
CONSTANTS
  MaxCommits = 3
  MaxFaults = 3
INVARIANTS TypeOK NothingLost NoPlaintextLeft NeverManual KeyOutlivesProcess
PROPERTIES StoreIsDurable EventuallyOpen
CHECK_DEADLOCK FALSE
