--------------------- MODULE MCTransactionStateMachine ---------------------
(* A payout, a collection and two calls: enough for a receipt to be claimed  *)
(* by a row of either direction, and for two calls to meet on one row.       *)
EXTENDS TransactionLocking, TLC

CONSTANTS p1, c1, r1, r2, q1, q2

MCSubscribed == {p1, c1}
RowSymmetry == Permutations({r1, r2}) \cup Permutations({q1, q2})

=============================================================================
