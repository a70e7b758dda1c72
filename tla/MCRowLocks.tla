------------------------------- MODULE MCRowLocks -------------------------------
(* Three transactions at once on two intents of one subscription. *)
EXTENDS RowLocks, TLC

CONSTANTS s1, t1, t2, t3

OneSubscription == [i \in Intents |-> s1]

TransactionSymmetry == Permutations({t1, t2, t3})
=============================================================================
