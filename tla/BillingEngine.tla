------------------------------ MODULE BillingEngine ------------------------------
(***************************************************************************)
(* The engine: the executions and the two sweeps of ChargeExecutor, the     *)
(* reprocess requests with their manual attempts, the requests that create  *)
(* the intent of a cycle, and the lifecycle requests, all at work on the    *)
(* same rows. The scheduler is reduced to what it may do to them; it is in  *)
(* BillingSystem.                                                           *)
(***************************************************************************)
EXTENDS Reprocess, BillingCycles, SubscriptionLifecycle

engineVars == <<reprocessVars, creating, request>>

EngineTypeOK == TypeOK /\ ReprocessTypeOK /\ CyclesTypeOK /\ LifecycleTypeOK

EngineInit == Init /\ ReprocessInit /\ CyclesInit /\ LifecycleInit

\* Whatever is not the scheduler.
ServiceNext ==
    \/ ExecutorNext /\ UNCHANGED <<reprocess, creating, request>>
    \/ ReprocessNext /\ UNCHANGED <<creating, request>>
    \/ CyclesNext /\ UNCHANGED <<provider, execVars, reprocess, request>>
    \/ LifecycleNext /\ UNCHANGED <<provider, execVars, reprocess, creating>>

EngineNext ==
    \/ ServiceNext
    \/ SweptCycle /\ UNCHANGED <<provider, execVars, reprocess, request>>

EngineSpec == EngineInit /\ [][EngineNext]_engineVars

-----------------------------------------------------------------------------
(* Correctness *)

RecordOf(status) ==
    CASE status = "SUCCEEDED" -> "paid"
      [] status \in {"FAILED_FINAL", "OMITTED"} -> "dropped"
      [] OTHER -> "pending"

Effective(i) == {n \in Rows : provider[i][n] = "CHARGED"}

Payments == INSTANCE CyclePayments WITH
    charges <- [i \in Intents |-> Cardinality(Effective(i))],
    record <- [i \in Intents |-> RecordOf(intent[i].status)]

\* INV-01, RF-15, RF-17: with all its attempts, sweeps, requests and crashes the
\* engine implements CyclePayments. The money of an intent moves at most once and
\* never after it was settled or omitted, a success is recorded only when it has
\* moved, and an intent is given up or reopened only when it has not.
PaysOnce == Payments!PaymentsSpec

\* The rows, as far as the status of the intents goes.
StatusOnly(rows) == [i \in Intents |-> [NoIntentRow EXCEPT !.status = rows[i].status]]

Moves == INSTANCE IntentMoves WITH
    intent <- StatusOnly(intent),
    attempt <- [i \in Intents |-> [n \in Rows |-> NoAttemptRow]]

\* To those who create, omit and cancel, all the attempts, sweeps, reprocess requests
\* and crashes look like IntentMoves, which is what BillingPlan assumes of them: an
\* omitted or paid intent is never taken up again, a failed one only when no other
\* cycle of its subscription is live (RF-14), and what fails an intent for good
\* cancels its subscription in the same step (RF-22).
AttemptsOnlyMove == Moves!MovesSpec

\* RF-28: a cancelled subscription is told about once more only by a
\* cancellation request that read it before it was cancelled. The settlement of
\* a reopened intent that fails again, two FAILED_FINAL settlements in a row and
\* every other step leave the outbox of a cancelled subscription alone.
ToldAgainOnlyByLateRequests ==
    [][\A s \in Subscriptions :
          subscription[s] = "CANCELLED" /\ outbox'[s] # outbox[s] =>
              \E a \in Admins :
                  /\ request[a].op = "cancel" /\ request[a].sub = s
                  /\ request[a].pc = "apply" /\ request'[a].pc = "idle"
                  /\ request[a].status # "CANCELLED"]_engineVars
=============================================================================
