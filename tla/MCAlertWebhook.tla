--------------------------- MODULE MCAlertWebhook ---------------------------
(* Instances of AlertWebhook for TLC. *)
EXTENDS AlertWebhook
=============================================================================
