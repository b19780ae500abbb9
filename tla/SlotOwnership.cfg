SPECIFICATION Spec
CONSTANTS
  r1 = r1
  r2 = r2
  None = None
  Run = {r1, r2}
  MaxReleases = 1
  MaxCrashes = 1
  MaxReplays = 1
SYMMETRY Symmetry
INVARIANTS
  WorkingHolds
  CommandsAreFenced
  LostForGood
CHECK_DEADLOCK FALSE
