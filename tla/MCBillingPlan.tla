------------------------------ MODULE MCBillingPlan ------------------------------
(* Small instances of BillingPlan for TLC. *)
EXTENDS BillingPlan

\* All intents are cycles of one subscription.
OneSubscription == [i \in Intents |-> CHOOSE s \in Subscriptions : TRUE]

\* A daily subscription: cycle i is due on day i.
Daily == [i \in Intents |-> i]
=============================================================================
