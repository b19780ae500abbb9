SPECIFICATION PartSpec
CONSTANTS
  m1 = m1
  r1 = r1
  r2 = r2
  s1 = s1
  w1 = w1
  w2 = w2
  a1 = a1
  b1 = b1
  Nobody = Nobody
  Run = {r1, r2}
  Machine = {m1}
  Action = {a1, b1}
  Workflow = {w1, w2}
  RunOf <- MCRunOf
  MachineOf <- MCMachineOf
  Source <- MCSource
  Stuck = {a1}
INVARIANTS
  RunsAreSerial
  MachinesAreExclusive
  NothingLeft
PROPERTIES
  AllReturn
  OthersReturn
  SlotFencesEnd
  SlotOrphansEnd
