SPECIFICATION Spec
CONSTANTS
  k1 = k1
  k2 = k2
  e1 = e1
  e2 = e2
  l1 = l1
  l2 = l2
  r1 = r1
  None = None
  Key <- MCKey
  Envelope <- MCEnvelope
  Resource = {r1}
  Lease = {l1}
  KeyOf <- MCKeyOf
  ResourceOf <- MCResourceOf
  LeaseOf <- OneLease
  ReadOnly = {}
  BoundKey <- MCKey
  Capacity = 2
  MaxReplies = 1
  Attempt <- MCKey
  MaxWire = 1
  Faults = {"abort", "crash", "disconnect"}
SYMMETRY MCSymmetry
INVARIANTS
  UnsentNeverRan
  UncertainIsReferenced
  AttemptsAreSerial
PROPERTIES
  KeepsPromise
