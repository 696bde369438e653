SPECIFICATION Spec
CONSTANTS
  Flows = {f1, f2}
  Actions = {a1, a2}
  Memos = {a1, a2}
  MaxTurns = 2
  MaxCommits = 2
  MaxOutside = 2
SYMMETRY Symmetry
INVARIANTS TypeOK NothingUntraced CommittedCanBeUndone LiveEntitiesBelongToTheirTurn
PROPERTIES CaptureKeepsItsPromise SessionRemembers
CHECK_DEADLOCK FALSE
