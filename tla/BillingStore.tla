------------------------------ MODULE BillingStore ------------------------------
(***************************************************************************)
(* The PostgreSQL rows that decide whether money moves: subscriptions,      *)
(* billing_intents, payment_attempts and the notifications outbox, with the *)
(* constraints of src/database/migrations that reject a transaction.        *)
(* The components that EXTEND this module change the rows; every action of  *)
(* theirs that does is one committed transaction, because each of those     *)
(* transactions holds the row lock of the intent (or of the subscription)   *)
(* it touches from its first statement to its COMMIT.                       *)
(*                                                                          *)
(* Time is abstracted to what the guards of the code compare: `due' is      *)
(* next_attempt_at <= now, `verifyDue' is next_verify_at <= now, `since'    *)
(* is the age of unknown_since against the 24 h window, `overdue' is        *)
(* deadline_at < now.                                                       *)
(***************************************************************************)
EXTENDS Integers, FiniteSets

CONSTANTS
    Subscriptions,  \* subscription ids
    Intents,        \* billing intents, numbered in the order of their ids
    SubOf,          \* the subscription of each intent (one intent per cycle)
    MaxAttempts,    \* MAX_ATTEMPTS = 5 in the code
    MaxManual       \* bound: manual attempts per intent (unbounded in the code)

ASSUME StoreAssumption ==
    /\ Intents \subseteq Nat
    /\ SubOf \in [Intents -> Subscriptions]
    /\ MaxAttempts \in Nat \ {0}
    /\ MaxManual \in Nat

VARIABLES
    subscription,   \* subscriptions.status
    intent,         \* billing_intents
    attempt,        \* payment_attempts, row n of an intent is its n-th insert
    outbox          \* number of CancellationEvents of each subscription

storeVars == <<subscription, intent, attempt, outbox>>

-----------------------------------------------------------------------------
Rows == 1 .. (MaxAttempts + MaxManual)

SubscriptionStates == {"ACTIVE", "PAUSED", "CANCELLED"}

\* "ABSENT": the row has not been inserted yet.
IntentStates ==
    {"ABSENT", "SCHEDULED", "IN_FLIGHT", "RETRY_PENDING", "SUCCEEDED",
     "FAILED_FINAL", "UNKNOWN", "OMITTED"}

AttemptStates == {"ABSENT", "IN_FLIGHT", "SUCCEEDED", "FAILED", "UNKNOWN"}

\* The states of the partial index billing_intents_live_unique.
LiveStates == {"SCHEDULED", "IN_FLIGHT", "RETRY_PENDING", "UNKNOWN"}

\* The states in which settled_at is not null (settled_at_consistent).
SettledStates == {"SUCCEEDED", "FAILED_FINAL", "OMITTED"}

\* The states a cancellation or a pause turns into OMITTED.
OmittableStates == {"SCHEDULED", "RETRY_PENDING"}

IntentRow ==
    [status : IntentStates, due : BOOLEAN, since : {"NULL", "RECENT", "OLD"},
     verifyCount : Nat, verifyDue : BOOLEAN, needsReview : BOOLEAN]

\* auto is auto_seq, 0 for the NULL of a MANUAL attempt.
AttemptRow ==
    [status : AttemptStates, auto : 0 .. MaxAttempts, overdue : BOOLEAN]

StoreTypeOK ==
    /\ subscription \in [Subscriptions -> SubscriptionStates]
    /\ intent \in [Intents -> IntentRow]
    /\ attempt \in [Intents -> [Rows -> AttemptRow]]
    /\ outbox \in [Subscriptions -> Nat]

NoIntentRow ==
    [status |-> "ABSENT", due |-> TRUE, since |-> "NULL",
     verifyCount |-> 0, verifyDue |-> TRUE, needsReview |-> FALSE]

NoAttemptRow == [status |-> "ABSENT", auto |-> 0, overdue |-> FALSE]

StoreInit ==
    /\ subscription = [s \in Subscriptions |-> "ACTIVE"]
    /\ intent = [i \in Intents |-> NoIntentRow]
    /\ attempt = [i \in Intents |-> [n \in Rows |-> NoAttemptRow]]
    /\ outbox = [s \in Subscriptions |-> 0]

-----------------------------------------------------------------------------
Present(i, n) == attempt[i][n].status # "ABSENT"

\* Row n is the one the next INSERT into payment_attempts creates.
IsNextRow(i, n) == ~Present(i, n) /\ \A m \in 1 .. (n - 1) : Present(i, m)

\* Unique index billing_intents_live_unique, for a row of i that becomes live.
LiveUnique(i) ==
    \A j \in Intents \ {i} : SubOf[j] = SubOf[i] => intent[j].status \notin LiveStates

\* Unique index payment_attempts_in_flight_unique.
NoInFlightAttempt(i) == \A n \in Rows : attempt[i][n].status # "IN_FLIGHT"

\* Unique constraint on (billing_intent_id, auto_seq); NULLs do not collide.
AutoSeqUnique(i, seq) == \A n \in Rows : attempt[i][n].auto # seq

\* Unique index payment_attempts_succeeded_unique.
NoOtherSucceededAttempt(i, n) ==
    \A m \in Rows \ {n} : attempt[i][m].status # "SUCCEEDED"

\* An UPDATE of status that leaves omitted_reason as it is and can only fill
\* settled_at: the trigger that keeps SUCCEEDED, omitted_reason_required and
\* settled_at_consistent.
StatusUpdateAllowed(old, new) ==
    /\ old # "SUCCEEDED"
    /\ old # "OMITTED"
    /\ old \in SettledStates => new \in SettledStates

\* SCHEDULED and RETRY_PENDING intents of s become OMITTED.
Omitted(rows, s) ==
    [j \in Intents |->
        IF SubOf[j] = s /\ rows[j].status \in OmittableStates
        THEN [rows[j] EXCEPT !.status = "OMITTED"]
        ELSE rows[j]]

\* A mutant: the event does not depend on the subscription having been cancelled.
CancelAgain(rows, s) ==
    /\ intent' = Omitted(rows, s)
    /\ subscription' = [subscription EXCEPT ![s] = "CANCELLED"]
    /\ outbox' = [outbox EXCEPT ![s] = @ + 1]

\* CANCEL_SUBSCRIPTION, OMIT_SUBSCRIPTION_INTENTS and APPEND_CANCELLATION_EVENT
\* in the transaction that has just written `rows'; nothing but the rows when
\* the subscription is already CANCELLED.
CancelWith(rows, s) ==
    IF subscription[s] = "CANCELLED"
    THEN intent' = rows /\ UNCHANGED <<subscription, outbox>>
    ELSE /\ intent' = Omitted(rows, s)
         /\ subscription' = [subscription EXCEPT ![s] = "CANCELLED"]
         /\ outbox' = [outbox EXCEPT ![s] = @ + 1]

\* INSERT of a SCHEDULED intent. The caller found the subscription ACTIVE in an
\* earlier query; the statement itself looks at no subscription status.
ScheduleIntent(i) ==
    /\ intent[i].status = "ABSENT"
    /\ LiveUnique(i)
    /\ intent' = [intent EXCEPT ![i].status = "SCHEDULED"]
    /\ UNCHANGED <<subscription, attempt, outbox>>
=============================================================================
