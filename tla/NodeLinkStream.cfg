SPECIFICATION FairSpec
CONSTANTS
  stdout = stdout
  stderr = stderr
  Pipe = {stdout, stderr}
  Tty = stdout
  Calls <- AllCalls
  Envelope = 1
  ResetBytes = 1
  Limit = 4
  MaxFrames = 3
  MaxStalls = 2
  Faults <- Faulty
INVARIANTS
  AckedIsApplied
  CreditCovers
  NothingExpires
  NothingTruncated
  ReleasedForGood
PROPERTIES
  KeepsOrder
  OutputFlows
  CallReturns
