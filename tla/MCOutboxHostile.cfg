\* Attempts outlive the claim, the user forces retries, replies are lost.
SPECIFICATION Spec
CONSTANTS
  Account = {a1}
  JmapAccount = {}
  Keychain = {}
  Kinds = {"pgp"}
  Passes = {"good"}
  Worker = {w1}
  Sweeper = sweeper
  MaxRows = 2
  MaxCrashes = 0
  TTL = 0
  MaxSend = 1
  MaxEnvelopes = 1
  Hazards = {"lost_reply", "force_retry", "remove_account"}
INVARIANTS OneVersionQueued NoMailLost
PROPERTIES GoneForGood
