------------------------- MODULE SubscriptionLifecycle -------------------------
(***************************************************************************)
(* SubscriptionLifecycleService: cancel, pause and resume. A request loads  *)
(* the subscription and its live intents in two queries, decides, and then  *)
(* applies its decision in one transaction that looks neither at the        *)
(* status of the subscription nor for intents it did not load.              *)
(***************************************************************************)
EXTENDS BillingStore

CONSTANT Admins    \* concurrent lifecycle requests

ASSUME LifecycleAssumption == Subscriptions # {}

VARIABLE request   \* where each request is and what it loaded

LifecycleOps == {"cancel", "pause", "resume"}

\* status is the status that was loaded, omit the intents that will be omitted.
LifecycleState ==
    [pc : {"idle", "loaded", "apply"}, op : LifecycleOps, sub : Subscriptions,
     status : SubscriptionStates, omit : SUBSET Intents]

NoLifecycle ==
    [pc |-> "idle", op |-> "cancel", sub |-> CHOOSE s \in Subscriptions : TRUE,
     status |-> "ACTIVE", omit |-> {}]

LifecycleTypeOK == request \in [Admins -> LifecycleState]

LifecycleInit == request = [a \in Admins |-> NoLifecycle]

\* A repeated cancel or pause returns what there is; the others that do not
\* proceed are conflicts.
Proceeds(op, status) ==
    CASE op = "cancel" -> status # "CANCELLED"
      [] op = "pause"  -> status = "ACTIVE"
      [] op = "resume" -> status = "PAUSED"

\* LOAD_SUBSCRIPTION
LoadSubscription(a, op, s) ==
    /\ request[a].pc = "idle"
    /\ request' = [request EXCEPT ![a] =
                      [NoLifecycle EXCEPT !.pc = "loaded", !.op = op, !.sub = s,
                                        !.status = subscription[s]]]
    /\ UNCHANGED storeVars

\* LOAD_LIVE_INTENTS, and the filter on what it returned.
IntentsToOmit(s) ==
    {i \in Intents : SubOf[i] = s /\ intent[i].status \in OmittableStates}

LoadLiveIntents(a) ==
    LET r == request[a]
    IN  /\ r.pc = "loaded"
        /\ request' = [request EXCEPT ![a] =
               IF ~Proceeds(r.op, r.status) THEN NoLifecycle
               ELSE [r EXCEPT !.pc = "apply",
                              !.omit = IF r.op = "resume" THEN {} ELSE IntentsToOmit(r.sub)]]
        /\ UNCHANGED storeVars

\* A mutant: without the status condition of the UPDATE.
OmitAll(ids) ==
    [i \in Intents |-> IF i \in ids THEN [intent[i] EXCEPT !.status = "OMITTED"] ELSE intent[i]]

\* OMIT_INTENTS
OmitIntents(ids) ==
    [i \in Intents |->
        IF i \in ids /\ intent[i].status \in OmittableStates
        THEN [intent[i] EXCEPT !.status = "OMITTED"]
        ELSE intent[i]]

ApplyCancellation(a) ==
    LET s == request[a].sub
    IN  /\ request[a].pc = "apply" /\ request[a].op = "cancel"
        /\ subscription' = [subscription EXCEPT ![s] = "CANCELLED"]
        /\ intent' = OmitIntents(request[a].omit)
        /\ outbox' = [outbox EXCEPT ![s] = @ + 1]
        /\ request' = [request EXCEPT ![a] = NoLifecycle]
        /\ UNCHANGED attempt

\* A mutant: the trigger that keeps CANCELLED is gone.
AnyUpdate(s) == TRUE

\* The trigger subscriptions_guard_update lets the status of s change.
SubscriptionUpdatable(s) == subscription[s] # "CANCELLED"

ApplyPause(a) ==
    LET s == request[a].sub
    IN  /\ request[a].pc = "apply" /\ request[a].op = "pause"
        /\ SubscriptionUpdatable(s)
        /\ subscription' = [subscription EXCEPT ![s] = "PAUSED"]
        /\ intent' = OmitIntents(request[a].omit)
        /\ request' = [request EXCEPT ![a] = NoLifecycle]
        /\ UNCHANGED <<attempt, outbox>>

ApplyResume(a) ==
    LET s == request[a].sub
    IN  /\ request[a].pc = "apply" /\ request[a].op = "resume"
        /\ SubscriptionUpdatable(s)
        /\ subscription' = [subscription EXCEPT ![s] = "ACTIVE"]
        /\ request' = [request EXCEPT ![a] = NoLifecycle]
        /\ UNCHANGED <<intent, attempt, outbox>>

\* The trigger rejects the update, the database does, or the process dies: the
\* transaction rolls back.
RequestAbandoned(a) ==
    /\ request[a].pc = "apply"
    /\ request' = [request EXCEPT ![a] = NoLifecycle]
    /\ UNCHANGED storeVars

LifecycleNext ==
    \E a \in Admins :
        \/ \E op \in LifecycleOps, s \in Subscriptions : LoadSubscription(a, op, s)
        \/ LoadLiveIntents(a)
        \/ ApplyCancellation(a)
        \/ ApplyPause(a)
        \/ ApplyResume(a)
        \/ RequestAbandoned(a)

-----------------------------------------------------------------------------
\* ALLOWED_SUBSCRIPTION_TRANSITIONS
AllowedSubscriptionTransitions ==
    {<<"ACTIVE", "PAUSED">>, <<"ACTIVE", "CANCELLED">>,
     <<"PAUSED", "ACTIVE">>, <<"PAUSED", "CANCELLED">>}

\* No interleaving of lifecycle requests, and no settlement that cancels, takes
\* a subscription out of CANCELLED or through a step the table does not list,
\* although each request decides from a status it read earlier.
SubscriptionTransitionsAllowed ==
    [][\A s \in Subscriptions :
          subscription'[s] # subscription[s] =>
              <<subscription[s], subscription'[s]>> \in AllowedSubscriptionTransitions]_storeVars

\* RF-28: a subscription is CANCELLED exactly when the outbox tells so, whoever
\* cancelled it.
EveryCancellationIsTold ==
    \A s \in Subscriptions : (subscription[s] = "CANCELLED") <=> (outbox[s] > 0)
=============================================================================
