\* An attempt may outlast the claim it took; the user forces retries; replies are lost,
\* attempts fail half-way, the process dies and statements fail; a mail of two envelopes.
SPECIFICATION Spec
CONSTANTS
  Account = {a1}
  JmapAccount = {}
  Keychain = {a1}
  Kinds = {"pgp"}
  Passes = {"none"}
  Worker = {w1, w2}
  Sweeper = sweeper
  MaxRows = 1
  MaxCrashes = 1
  TTL = 1
  MaxSend = 2
  MaxEnvelopes = 2
  Hazards = {"reject", "lost_reply", "crash", "db_error", "force_retry",
             "remove_account"}
SYMMETRY WorkerSymmetry
INVARIANTS TypeOK ClaimExclusive AtMostOnce
PROPERTIES QueueSpec
