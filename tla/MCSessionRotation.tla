------------------------- MODULE MCSessionRotation -------------------------
(* One browser, two requests at a time, three tokens and one reset link: a   *)
(* session that rotates twice, or one that rotates while the user logs in    *)
(* again, and a reset that both requests may consume.                        *)
EXTENDS SessionRotation, TLC

CONSTANTS b1, q1, q2, l1

SessionSymmetry == Permutations({q1, q2})

=============================================================================
