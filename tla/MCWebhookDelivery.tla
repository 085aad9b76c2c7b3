------------------------- MODULE MCWebhookDelivery -------------------------
(* Instances of WebhookDelivery for TLC. *)
EXTENDS WebhookDelivery, TLC

\* 5, 15, 45, 120, 300 seconds, scaled down with the rest of the clock.
TwoDelays == <<1, 2>>

Symmetry == Permutations(Workers)
=============================================================================
