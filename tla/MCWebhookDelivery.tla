-------------------------- MODULE MCWebhookDelivery --------------------------
(* Small instances of WebhookDelivery for TLC.                             *)
EXTENDS WebhookDelivery, TLC

\* Subscriptions to events of the project only.
BusinessOnly == [s \in Subscriptions |-> {"business"}]

\* Ids are random and dispatchers and requests alike (safety runs only).
IdSymmetry ==
    Permutations(Events) \cup Permutations(Workers) \cup Permutations(Admins)

\* "*" subscriptions.
Everything == [s \in Subscriptions |-> EventTypes]
=============================================================================
