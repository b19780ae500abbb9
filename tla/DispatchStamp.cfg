SPECIFICATION Spec
CONSTANTS
  p1 = p1
  Replay <- MCReplay
  MaxRows = 2
  MaxRuns = 2
INVARIANT
  StampPrecedesRun
CHECK_DEADLOCK FALSE
