------------------------- MODULE MCPayoutLifecycle -------------------------
(* The runs differ in the number of payouts and pollers and in the faults;    *)
(* the odd payout's result carries a receipt and its tenant has a webhook.    *)
EXTENDS PayoutLifecycle

CONSTANTS p1, p2, w1, w2, r1, r2

MCReceiptOf == [t \in Payouts |-> IF t = p1 THEN r1 ELSE r2]
MCReported == {p1} \cap Payouts

=============================================================================
