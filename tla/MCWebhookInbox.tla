--------------------------- MODULE MCWebhookInbox ---------------------------
(***************************************************************************)
(* Small instances of WebhookInbox for TLC.                                *)
(***************************************************************************)
EXTENDS WebhookInbox

\* Stripe: every event has an id of its own.
EventKeys == [n \in Notices |-> n]

\* Mercado Pago: the key is the payment, whatever happened to it.
PaymentKeys == [n \in Notices |-> "payment"]
=============================================================================
