--------------------------- MODULE MCLogDelivery ----------------------------
(* A small instance of LogDelivery for TLC: 2 bits for the sequence number and 6
   for the key, messages at the limits of both. *)
EXTENDS LogDelivery, TLC

At(ts, seq) == [ts |-> ts, seq |-> seq]

\* The last id that fits, the first sequence number and the first time that do
\* not, the first time, no id, and an event of a kind persist does not know.
MCMessages ==
    { [kind |-> "api", id |-> At(15, 3)],
      [kind |-> "api", id |-> At(15, 4)],
      [kind |-> "api", id |-> At(1, 0)],
      [kind |-> "policy_evaluation", id |-> At(16, 0)],
      [kind |-> "policy_evaluation", id |-> NoID],
      [kind |-> "trace", id |-> At(2, 1)] }

\* An FNV sum: 0, which persist reserves, for a time out of range.
MCHash(id) == IF id = NoID \/ id.ts > 15 THEN 0 ELSE 40 + id.seq

ConsumerSymmetry == Permutations(Consumers)
=============================================================================
