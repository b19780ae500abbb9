SPECIFICATION Spec
CONSTANTS
  p1 = p1
  Replay <- MCReplay
  MaxRows = 2
  MaxRuns = 2
INVARIANT
  HandoffNotStolen
CHECK_DEADLOCK FALSE
