--------------------------- MODULE MCLocalStream ----------------------------
(* Small instances of LocalStream for TLC. *)
EXTENDS LocalStream
=============================================================================
