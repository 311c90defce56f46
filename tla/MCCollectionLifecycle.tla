------------------------ MODULE MCCollectionLifecycle ------------------------
(* One or two pushes, on a paybill or on a till, and one C2B payment.         *)
EXTENDS CollectionLifecycle

CONSTANTS s1, s2, c1, w1, w2, r1, r2, r3

MCReceiptOf ==
  [t \in Collections |-> IF t = s1 THEN r1 ELSE IF t = s2 THEN r2 ELSE r3]

=============================================================================
