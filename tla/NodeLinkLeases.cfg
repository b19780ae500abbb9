SPECIFICATION Spec
CONSTANTS
  k1 = k1
  k2 = k2
  e1 = e1
  e2 = e2
  l1 = l1
  l2 = l2
  r1 = r1
  None = None
  Key <- MCKey
  Envelope <- MCEnvelope
  Resource = {r1}
  Lease = {l1, l2}
  KeyOf <- MCKeyOf
  ResourceOf <- MCResourceOf
  LeaseOf <- TwoLeases
  ReadOnly = {}
  BoundKey <- MCKey
  Capacity = 2
  MaxReplies = 1
  Attempt = {}
  MaxWire = 1
  Faults = {}
SYMMETRY LeaseSymmetry
INVARIANTS
  ExclusiveDirectLease
CHECK_DEADLOCK FALSE
