\* One poll at a time beside the user, other clients, failing round-trips and
\* crashes.  A full fetch asks for the newest message only, so it leaves some out.
SPECIFICATION Spec
CONSTANTS
  p1 = p1
  u1 = u1
  Poller = {p1}
  Checker = {p1}
  User = {u1}
  MaxUid = 3
  MaxValidity = 1
  MaxOps = 3
  Limit = 1
  Hazards = {"poll_fails", "op_fails", "crash"}
INVARIANTS TypeOK NoGap NotifiedOnce HiddenUntilExpunged TombstoneOwned
PROPERTIES DropsGhostsOnly
