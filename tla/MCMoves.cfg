\* Three commands, two letters, a folder and the trash; a failure, a crash or
\* another client anywhere.
SPECIFICATION Spec
CONSTANTS
  inbox = inbox
  trash = trash
  m1 = m1
  m2 = m2
  u1 = u1
  u2 = u2
  None = None
  Folder = {inbox, trash}
  Trash = trash
  Archive = trash
  Letter = {m1, m2}
  User = {u1, u2}
  MaxUid = 2
  MaxOps = 3
  MaxFails = 1
  Hazards = {"fail", "crash", "others", "twice", "plain"}
SYMMETRY CommandSymmetry
CHECK_DEADLOCK FALSE
INVARIANTS TypeOK NothingLost CopiesBounded
