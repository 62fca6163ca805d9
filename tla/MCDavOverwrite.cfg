\* An event that another client changes while it is edited here.
SPECIFICATION Spec
CONSTANTS
  i1 = i1
  c1 = c1
  c2 = c2
  None = None
  Item = {i1}
  Command = {c1, c2}
  Kinds <- EventKind
  MaxClock = 3
  MaxFails = 1
SYMMETRY CommandSymmetry
CHECK_DEADLOCK FALSE
INVARIANT SavesAreGated
