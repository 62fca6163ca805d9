\* Failing and half-answered attempts, a crash, an upgrade or a failing statement
\* anywhere; mail of two envelopes.
SPECIFICATION LiveSpec
CONSTANTS
  Account = {a1}
  JmapAccount = {}
  Keychain = {a1}
  Kinds = {"pgp"}
  Passes = {"none"}
  Worker = {w1}
  Sweeper = sweeper
  MaxRows = 1
  MaxCrashes = 2
  TTL = 1
  MaxSend = 2
  MaxEnvelopes = 2
  Hazards = {"reject", "lost_reply", "crash", "upgrade", "db_error"}
INVARIANTS SentIsDelivered
PROPERTIES QueueDrains
