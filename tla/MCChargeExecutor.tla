---------------------------- MODULE MCChargeExecutor ----------------------------
(* Small instances of ChargeExecutor for TLC. *)
EXTENDS ChargeExecutor, TLC

\* All intents are cycles of one subscription.
OneSubscription == [i \in Intents |-> CHOOSE s \in Subscriptions : TRUE]

WorkerSymmetry == Permutations(Workers)
=============================================================================
