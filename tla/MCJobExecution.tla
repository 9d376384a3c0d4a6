--------------------------- MODULE MCJobExecution ---------------------------
(* A small instance of JobExecution for TLC; no symmetry, for liveness. *)
EXTENDS JobExecution
=============================================================================
