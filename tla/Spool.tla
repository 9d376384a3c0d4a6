-------------------------------- MODULE Spool -------------------------------
(***************************************************************************)
(* What an in-process channel of this program promises, the buffer of the  *)
(* log pipeline and each direction of a local gRPC stream alike: it takes  *)
(* items while it is open, hands them on in the order it took them, and is *)
(* over only when it is no longer open and all it took was handed on.      *)
(***************************************************************************)
EXTENDS Naturals, Sequences

CONSTANT Item

VARIABLES
    in,    \* items taken so far
    out,   \* items handed on so far, a prefix of in
    open,  \* it takes items
    over   \* it will do nothing more

vars == <<in, out, open, over>>

Init == in = <<>> /\ out = <<>> /\ open = TRUE /\ over = FALSE

Take ==
    /\ open
    /\ \E x \in Item : in' = Append(in, x)
    /\ UNCHANGED <<out, open, over>>

HandOn ==
    /\ Len(out) < Len(in)
    /\ out' = Append(out, in[Len(out) + 1])
    /\ UNCHANGED <<in, open, over>>

Shut ==
    /\ open
    /\ open' = FALSE
    /\ UNCHANGED <<in, out, over>>

Finish ==
    /\ ~open /\ out = in
    /\ over' = TRUE
    /\ UNCHANGED <<in, out, open>>

Next == Take \/ HandOn \/ Shut \/ Finish

Spec == Init /\ [][Next]_vars
=============================================================================
