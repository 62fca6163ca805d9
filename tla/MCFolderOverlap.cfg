\* Two polls of the folder, such as a folder switch during the background check:
\* the faster one sets its bookmark over a row that the slower one has dropped.
SPECIFICATION Spec
CONSTANTS
  p1 = p1
  p2 = p2
  Poller = {p1, p2}
  Checker = {p1}
  User = {}
  MaxUid = 3
  MaxValidity = 1
  MaxOps = 1
  Limit = 2
  Hazards = {}
INVARIANTS NoGapAtRest
