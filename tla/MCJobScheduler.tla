--------------------------- MODULE MCJobScheduler ---------------------------
(* Small instances of JobScheduler for TLC. *)
EXTENDS JobScheduler, TLC

Symmetry == Permutations(Jobs) \cup Permutations(Callers)
=============================================================================
