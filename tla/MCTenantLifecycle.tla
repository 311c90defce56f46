------------------------- MODULE MCTenantLifecycle -------------------------
(* Two tenants, one of which the user may onboard twice, that want the same   *)
(* two numbers; two requests at a time; nothing tells the members of a set    *)
(* of tenants, rows, numbers or requests apart.                              *)
EXTENDS TenantLifecycle, TLC

CONSTANTS t1, t2, u1, r1, r2, k1, k2, n1, n2

LifecycleSymmetry ==
  Permutations(Tenants) \cup Permutations(Requests)
  \cup Permutations(Rows) \cup Permutations(Numbers)

=============================================================================
