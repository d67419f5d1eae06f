---------------------------- MODULE MCWebhookRetry ----------------------------
(* WebhookRetry for TLC. *)
EXTENDS WebhookRetry

\* The second wait is the longer one.
TwoWaits == <<1, 2>>
=============================================================================
