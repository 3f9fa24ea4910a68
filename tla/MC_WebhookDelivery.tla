--------------------------- MODULE MC_WebhookDelivery ---------------------------
(***************************************************************************)
(* The instance of WebhookDelivery the code has.                           *)
(***************************************************************************)
EXTENDS WebhookDelivery

\* notify_webhook.go 52.
CodeDelays == << 1, 2, 4 >>
=============================================================================
