------------------------------- MODULE MCRole -------------------------------
(* Small instances of Role for TLC. *)
EXTENDS Role, TLC

\* Every call may fail; every call but the clean-up may fail.
AllCalls == Syscall
AllButCleanUp == Syscall \ {"unlink", "read"}

\* A foreign process is not one of its fellows, so it stays out of the symmetry.
Symmetry == Permutations(Process \ Foreign) \cup Permutations(Onlooker) \cup Permutations(Run)
=============================================================================
