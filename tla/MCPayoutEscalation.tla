------------------------- MODULE MCPayoutEscalation -------------------------
(* Two payouts that may be stuck and be asked about twice; one run of the     *)
(* detector, or two that overlap.                                             *)
EXTENDS PayoutEscalation

CONSTANTS p1, p2, d1, d2

=============================================================================
