SPECIFICATION Spec
CONSTANTS
  k1 = k1
  e1 = e1
  e2 = e2
  l1 = l1
  l2 = l2
  r1 = r1
  None = None
  Key = {k1}
  Envelope <- MCEnvelope
  Resource = {r1}
  Lease = {l1, l2}
  KeyOf <- MCKeyOf
  ResourceOf <- MCResourceOf
  LeaseOf <- MCLeaseOf
  ReadOnly = {}
  BoundKey = {k1}
  Capacity = 1
  MaxReplies = 1
INVARIANTS
  OutcomeIsDurable
