\* A mail in up to three windows, two saves at once; a failure, a crash or another
\* client anywhere.
SPECIFICATION Spec
CONSTANTS
  w1 = w1
  w2 = w2
  w3 = w3
  s1 = s1
  s2 = s2
  s3 = s3
  None = None
  Window = {w1, w2, w3}
  Saver = {s1, s2}
  MaxText = 3
  MaxUid = 3
  MaxFails = 1
  Hazards = {"fail", "cache", "crash", "others"}
SYMMETRY CallSymmetry
CHECK_DEADLOCK FALSE
INVARIANTS TypeOK DraftSafe DraftsPruned SentLeavesNoDraft DraftShown
