----------------------------- MODULE MCEviction -----------------------------
(* Small instances of Eviction for TLC. *)
EXTENDS Eviction, TLC

Symmetry == Permutations(Pid \ {Self}) \cup Permutations(Image)
=============================================================================
