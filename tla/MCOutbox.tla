------------------------------- MODULE MCOutbox -------------------------------
(* Small instances of Outbox for TLC. *)
EXTENDS Outbox, TLC

\* Spawned drains are interchangeable.
WorkerSymmetry == Permutations(Worker)
=============================================================================
