------------------------ MODULE MCBalanceReservation ------------------------
(* Three requests of one tenant, two of them with one key and one without a   *)
(* key, and one request of another tenant with the same key; the balance      *)
(* never covers all of them.                                                  *)
EXTENDS BalanceReservation

CONSTANTS t1, t2, q1, q2, q3, q4, k1

MCTenantOf == [q \in Requests |-> IF q = q4 THEN t2 ELSE t1]
MCKeyOf == [q \in Requests |-> IF q = q3 THEN NoKey ELSE k1]
MCAmountOf == [q \in Requests |-> IF q = q3 THEN 1 ELSE 2]

=============================================================================
