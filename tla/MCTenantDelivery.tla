-------------------------- MODULE MCTenantDelivery --------------------------
(* Two tenants with a notification each, and batches of one: a notification   *)
(* has to wait behind that of another tenant.  w2 is for a second process.    *)
EXTENDS TenantDelivery

CONSTANTS t1, t2, d1, d2, w1, w2

MCTenantOf == [d \in Deliveries |-> IF d = d1 THEN t1 ELSE t2]

=============================================================================
