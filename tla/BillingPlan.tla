------------------------------- MODULE BillingPlan -------------------------------
(***************************************************************************)
(* Who decides that a cycle is billed: sweeps of the scheduler, requests    *)
(* that charge a cycle, and lifecycle requests that omit cycles, on the     *)
(* same rows. The executor and reprocess are reduced to what they may do to *)
(* the status of an intent.                                                 *)
(***************************************************************************)
EXTENDS Scheduler, IntentMoves

planVars == <<schedulerVars, movesVars>>

PlanTypeOK == StoreTypeOK /\ SchedulerTypeOK

PlanInit == SchedulerInit /\ MovesInit

PlanNext ==
    \/ SchedulerNext /\ UNCHANGED <<creating, request>>
    \/ MovesNext /\ UNCHANGED schedulerVars

PlanSpec == PlanInit /\ [][PlanNext]_planVars

-----------------------------------------------------------------------------
\* The subscription is CANCELLED, and nobody works from an earlier reading of it.
Quiet(s) ==
    /\ subscription[s] = "CANCELLED"
    /\ \A i \in creating : SubOf[i] # s
    /\ \A x \in Sweepers :
        s \notin sweep[x].todo /\ \A i \in sweep[x].left : SubOf[i] # s

\* INV-08 as far as the code keeps it: once those who read the subscription
\* before its cancellation have ended, it never gets a live cycle again.
QuietOnceCancelled ==
    [][\A s \in Subscriptions :
          Quiet(s) =>
              /\ Quiet(s)'
              /\ \A i \in Intents :
                    SubOf[i] = s /\ intent[i].status = "ABSENT" =>
                        intent'[i].status = "ABSENT"]_planVars
=============================================================================
