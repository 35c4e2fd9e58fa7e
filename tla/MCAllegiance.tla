---------------------------- MODULE MCAllegiance ----------------------------
(* Small instances of Allegiance for TLC. *)
EXTENDS Allegiance, TLC

Symmetry == Permutations(Thread)
=============================================================================
