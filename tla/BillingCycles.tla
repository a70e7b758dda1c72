----------------------------- MODULE BillingCycles -----------------------------
(***************************************************************************)
(* BillingCycleChargeService.charge up to the execution it starts: the     *)
(* request finds the subscription in one query and inserts the intent of the*)
(* cycle in a later transaction, which only looks at the status found before.*)
(***************************************************************************)
EXTENDS BillingStore

VARIABLE creating  \* intents some request is about to insert

CyclesTypeOK == creating \subseteq Intents

CyclesInit == creating = {}

\* findSubscription. A subscription that is not ACTIVE inserts nothing, and a
\* cycle that has its intent already has no use for another.
FindSubscription(i) ==
    /\ i \notin creating
    /\ intent[i].status = "ABSENT"
    /\ subscription[SubOf[i]] = "ACTIVE"
    /\ creating' = creating \cup {i}
    /\ UNCHANGED storeVars

\* getOrCreateIntent inserts.
CreateIntent(i) ==
    /\ i \in creating
    /\ ScheduleIntent(i)
    /\ creating' = creating \ {i}

\* Another intent of the subscription is live, so the insertion is rejected, or
\* the request dies before it.
CreationAbandoned(i) ==
    /\ i \in creating
    /\ creating' = creating \ {i}
    /\ UNCHANGED storeVars

CyclesNext ==
    \E i \in Intents : FindSubscription(i) \/ CreateIntent(i) \/ CreationAbandoned(i)

-----------------------------------------------------------------------------
(* The scheduler, reduced to what it may do to these rows                      *)

\* INSERT_OMITTED
OmitCycle(i) ==
    /\ intent[i].status = "ABSENT"
    /\ intent' = [intent EXCEPT ![i].status = "OMITTED"]
    /\ UNCHANGED <<subscription, attempt, outbox>>

\* A sweep inserts a cycle, at any time; Scheduler says when it does.
SweptCycle ==
    /\ \E i \in Intents : ScheduleIntent(i) \/ OmitCycle(i)
    /\ UNCHANGED creating
=============================================================================
