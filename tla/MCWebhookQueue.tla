--------------------------- MODULE MCWebhookQueue ---------------------------
(* Three callbacks and batches of two: an event can fail all its attempts in  *)
(* one batch after another while a third waits behind them.                   *)
EXTENDS WebhookQueue, TLC

CONSTANTS e1, e2, e3, w1

=============================================================================
