\* The background loop keeps polling: the cache comes to agree with a folder that
\* is left alone and not empty, whatever crashed, was cleared, renumbered or failed
\* to be stored before.
SPECIFICATION LiveSpec
CONSTANTS
  p1 = p1
  u1 = u1
  Poller = {p1}
  Checker = {p1}
  User = {u1}
  MaxUid = 2
  MaxValidity = 2
  MaxOps = 2
  Limit = 2
  Hazards = {"crash", "db_error", "rotate", "clear"}
PROPERTIES BookmarkMonotone ConvergesUnlessEmpty
