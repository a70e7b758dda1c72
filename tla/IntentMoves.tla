------------------------------- MODULE IntentMoves -------------------------------
(***************************************************************************)
(* The requests that create, cancel, pause and resume, next to attempts     *)
(* that are reduced to what they may do to the status of an intent:         *)
(* startAttempt and startManualAttempt open one, settleAttempt and the      *)
(* two sweeps close it. BillingEngine, which has the attempts, implements   *)
(* this module; BillingPlan adds the scheduler to it.                       *)
(***************************************************************************)
EXTENDS BillingCycles, SubscriptionLifecycle

movesVars == <<storeVars, creating, request>>

MovesInit == StoreInit /\ CyclesInit /\ LifecycleInit

\* The status an attempt gives the intent; FAILED_FINAL is a step of its own.
AttemptMoves(i) ==
    /\ \/ /\ intent[i].status \in {"SCHEDULED", "RETRY_PENDING"}
          /\ intent' = [intent EXCEPT ![i].status = "IN_FLIGHT"]
       \/ /\ intent[i].status \in {"IN_FLIGHT", "UNKNOWN"}
          /\ \E new \in {"SUCCEEDED", "UNKNOWN", "RETRY_PENDING"} :
                intent' = [intent EXCEPT ![i].status = new]
    /\ UNCHANGED <<subscription, attempt, outbox>>

\* The verification sweep gives up an intent whose subscription it read not ACTIVE.
GivesUp(i) ==
    /\ intent[i].status = "UNKNOWN"
    /\ intent' = [intent EXCEPT ![i].status = "OMITTED"]
    /\ UNCHANGED <<subscription, attempt, outbox>>

\* startManualAttempt
Reopens(i) ==
    /\ intent[i].status \in {"UNKNOWN", "FAILED_FINAL"}
    /\ LiveUnique(i)
    /\ intent' = [intent EXCEPT ![i].status = "IN_FLIGHT"]
    /\ UNCHANGED <<subscription, attempt, outbox>>

\* A settlement that cancels the subscription.
FailsFinally(i) ==
    /\ intent[i].status = "IN_FLIGHT"
    /\ CancelWith([intent EXCEPT ![i].status = "FAILED_FINAL"], SubOf[i])
    /\ UNCHANGED attempt

MovesNext ==
    \/ CyclesNext /\ UNCHANGED request
    \/ LifecycleNext /\ UNCHANGED creating
    \/ /\ \E i \in Intents : AttemptMoves(i) \/ GivesUp(i) \/ Reopens(i) \/ FailsFinally(i)
       /\ UNCHANGED <<creating, request>>

\* With the scheduler, which BillingPlan has in detail, reduced as well.
MovesSpec ==
    MovesInit /\ [][MovesNext \/ (SweptCycle /\ UNCHANGED request)]_movesVars
=============================================================================
