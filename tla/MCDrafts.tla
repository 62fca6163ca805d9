------------------------------ MODULE MCDrafts ------------------------------
(* Small instances of Drafts for TLC. *)
EXTENDS Drafts, TLC

CONSTANTS w1, w2, w3, s1, s2, s3

CallSymmetry == Permutations(Window) \cup Permutations(Saver)
=============================================================================
