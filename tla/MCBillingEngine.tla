----------------------------- MODULE MCBillingEngine -----------------------------
(* Small instances of BillingEngine for TLC. *)
EXTENDS BillingEngine, TLC

\* All intents are cycles of one subscription.
OneSubscription == [i \in Intents |-> CHOOSE s \in Subscriptions : TRUE]

RequestSymmetry ==
    Permutations(Workers) \cup Permutations(Admins) \cup Permutations(Operators)
=============================================================================
