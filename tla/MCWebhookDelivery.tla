------------------------- MODULE MCWebhookDelivery -------------------------
(***************************************************************************)
(* Small instances of WebhookDelivery for TLC.                             *)
(***************************************************************************)
EXTENDS WebhookDelivery, TLC

CONSTANTS h1, h2, m1, w1, w2

\* One tick separates "due now" from "due later".
MCDelays == << 1, 1 >>

\* Webhooks are interchangeable.  Sound for the run that checks safety only.
MCSymmetry == Permutations(Webhooks)

=============================================================================
