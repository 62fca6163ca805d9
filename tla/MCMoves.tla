------------------------------- MODULE MCMoves -------------------------------
(* Small instances of Moves for TLC. *)
EXTENDS Moves, TLC

CONSTANTS inbox, trash, m1, m2, u1, u2

CommandSymmetry == Permutations({m1, m2}) \cup Permutations({u1, u2})
=============================================================================
