\* Failing uploads, changing targets, a file that cannot be read or written, and a
\* restart.
SPECIFICATION LiveSpec
CONSTANTS
  Nc = {n1, n2}
  None = None
  MaxChanges = 3
  MaxCrashes = 1
  MaxFaults = 2
  Hazards = {"fails", "lost_reply"}
INVARIANTS TypeOK NothingForgotten
PROPERTIES BackupKeepsSettings PendingIsFlushed BackedUpInTheEnd
CHECK_DEADLOCK FALSE
