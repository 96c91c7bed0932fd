------------------------- MODULE MCWebhookDelivery -------------------------
(* Instances of WebhookDelivery for TLC.  Events and endpoints that are not *)
(* distinguished by a constant can be exchanged for one another.            *)
EXTENDS WebhookDelivery, TLC

Symmetry == Permutations(Endpoints \ Undecryptable) \cup Permutations(Events)
                \cup Permutations(Runners)

\* No delivery is posted for ever, and every row holds a value of its type.
PostingEnds == TypeOK /\ PostsBounded
=============================================================================
