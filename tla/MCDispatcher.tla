------------------------------ MODULE MCDispatcher ------------------------------
(* The dispatcher and one cycle of each subscription. *)
EXTENDS Dispatcher

CONSTANTS s1, s2, w1, w2

OwnSubscription == [i \in Intents |-> IF i = 1 THEN s1 ELSE s2]
=============================================================================
