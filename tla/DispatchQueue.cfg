SPECIFICATION Spec
CONSTANTS
  p1 = p1
  Replay <- MCReplay
  MaxRows = 2
  MaxRuns = 2
INVARIANTS
  SingleOwner
PROPERTIES
  WorkIsKept
  NotDispatchedAgain
  WithdrawnForGood
CHECK_DEADLOCK FALSE
