----------------------------- MODULE MCDavSync -----------------------------
(* Small instances of DavSync for TLC. *)
EXTENDS DavSync, TLC

CONSTANTS i1, c1, c2

CommandSymmetry == Permutations(Command)

AllKinds == {"event", "contact", "task", "note"}
EventKind == {"event"}
=============================================================================
