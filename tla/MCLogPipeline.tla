--------------------------- MODULE MCLogPipeline ----------------------------
(* Small instances of LogPipeline for TLC. *)
EXTENDS LogPipeline, TLC

Symmetry == Permutations(Emitters) \cup Permutations(Closers)
=============================================================================
