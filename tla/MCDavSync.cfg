\* One item of each kind of collection, two commands at once, a failure or a restart.
SPECIFICATION Spec
CONSTANTS
  i1 = i1
  c1 = c1
  c2 = c2
  None = None
  Item = {i1}
  Command = {c1, c2}
  Kinds <- AllKinds
  MaxClock = 3
  MaxFails = 1
SYMMETRY CommandSymmetry
CHECK_DEADLOCK FALSE
INVARIANTS TypeOK NoMissedChange NoBlindWrite
