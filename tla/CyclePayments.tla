------------------------------ MODULE CyclePayments ------------------------------
(***************************************************************************)
(* What the engine promises about the money of each billing intent, without *)
(* attempts, sweeps, requests or subscriptions: the intent is pending until *)
(* it is paid or dropped; the money moves once, and only while the intent   *)
(* is pending; it is recorded as paid exactly when it was, and dropped or   *)
(* reopened only when it was not. One step may concern several intents,     *)
(* because a cancellation drops all that wait.                              *)
(***************************************************************************)
EXTENDS Naturals

CONSTANT Intents

VARIABLES
    charges,   \* how often the customer was charged for each intent
    record     \* what the engine holds of it

paymentVars == <<charges, record>>

Records == {"pending", "paid", "dropped"}

PaymentsInit ==
    /\ charges = [i \in Intents |-> 0]
    /\ record = [i \in Intents |-> "pending"]

Keeps(i) == charges'[i] = charges[i] /\ record'[i] = record[i]

Pay(i) ==
    /\ record[i] = "pending" /\ record'[i] = "pending"
    /\ charges[i] = 0 /\ charges'[i] = 1

RecordPaid(i) ==
    /\ record[i] = "pending" /\ record'[i] = "paid"
    /\ charges[i] = 1 /\ charges'[i] = 1

Drop(i) ==
    /\ record[i] = "pending" /\ record'[i] = "dropped"
    /\ charges[i] = 0 /\ charges'[i] = 0

Reopen(i) ==
    /\ record[i] = "dropped" /\ record'[i] = "pending"
    /\ charges[i] = 0 /\ charges'[i] = 0

PaymentsNext ==
    /\ charges' \in [Intents -> 0 .. 1]
    /\ record' \in [Intents -> Records]
    /\ \A i \in Intents : Keeps(i) \/ Pay(i) \/ RecordPaid(i) \/ Drop(i) \/ Reopen(i)

PaymentsSpec == PaymentsInit /\ [][PaymentsNext]_paymentVars
=============================================================================
