----------------------------- MODULE ChargeExecutor -----------------------------
(***************************************************************************)
(* The automatic charge of a billing intent: executions of                  *)
(* ChargeExecutorService.execute (HTTP requests and queue jobs, several at  *)
(* once), the recovery sweep that declares an expired execution UNKNOWN and *)
(* the verification sweep that resolves UNKNOWN intents.                    *)
(*                                                                          *)
(* An execution awaits between its four calls (startAttempt, charge,        *)
(* verify, settleAttempt), so each is an action of its own and everything   *)
(* it remembers in between is in `worker'. The verification sweep reads all *)
(* its candidates in one query and then works through that list, so the     *)
(* list is in `seen'.                                                       *)
(***************************************************************************)
EXTENDS PaymentProvider

CONSTANTS
    Workers,               \* concurrent executions
    ManualReviewThreshold, \* DEFAULT_MANUAL_REVIEW_THRESHOLD = 10 in the code
    StallBeyondDeadline,   \* may an execution outlive its attempt's deadline?
    ExecutionsMayDie       \* may an execution end before it settles?

ASSUME ExecutorAssumption ==
    /\ ManualReviewThreshold \in Nat \ {0}
    /\ StallBeyondDeadline \in BOOLEAN
    /\ ExecutionsMayDie \in BOOLEAN

VARIABLES
    worker,     \* where each execution is and what it remembers
    seen,       \* candidates the running verification sweep still has to do
    verdict     \* what verify answered for the first of them, "NONE" before

execVars == <<worker, seen, verdict>>
vars == <<storeVars, provider, execVars>>

-----------------------------------------------------------------------------
Settlements == {"SUCCEEDED", "RETRY_PENDING", "FAILED_FINAL", "UNKNOWN"}

\* row is the attempt the execution started, seq its auto_seq (0: none).
WorkerState ==
    [pc : {"idle", "charge", "verify", "settle"},
     intent : Intents \cup {-1}, row : Rows \cup {0}, seq : 0 .. MaxAttempts,
     outcome : ChargeOutcomes \cup {"NONE"}, settlement : Settlements \cup {"NONE"}]

Idle ==
    [pc |-> "idle", intent |-> -1, row |-> 0, seq |-> 0,
     outcome |-> "NONE", settlement |-> "NONE"]

\* A row of FIND_UNKNOWN; row = 0 for an intent that is not on the list.
Candidate ==
    [row : Rows \cup {0}, sub : SubscriptionStates, count : Nat,
     since : {"NULL", "RECENT", "OLD"}]

NoCandidate == [row |-> 0, sub |-> "ACTIVE", count |-> 0, since |-> "NULL"]

NoCandidates == [i \in Intents |-> NoCandidate]

TypeOK ==
    /\ StoreTypeOK
    /\ ProviderTypeOK
    /\ worker \in [Workers -> WorkerState]
    /\ \A w \in Workers :
           /\ worker[w].pc # "idle" => worker[w].intent \in Intents /\ worker[w].row \in Rows
           /\ worker[w].pc = "settle" => worker[w].settlement \in Settlements
    /\ seen \in [Intents -> Candidate]
    /\ verdict \in Verdicts \cup {"NONE"}

Init ==
    /\ StoreInit
    /\ ProviderInit
    /\ worker = [w \in Workers |-> Idle]
    /\ seen = NoCandidates
    /\ verdict = "NONE"

-----------------------------------------------------------------------------
(* ChargeExecutorService.execute *)

\* A mutant: COALESCE(MAX(auto_seq), 1) + 1, one more than there are attempts.
FollowsTheFirst(i, seq) ==
    /\ seq = 2 \/ \E n \in Rows : attempt[i][n].auto = seq - 1
    /\ \A n \in Rows : attempt[i][n].auto < seq /\ seq > 1

\* MAX(auto_seq) + 1
IsNextAutoSeq(i, seq) ==
    /\ seq = 1 \/ \E n \in Rows : attempt[i][n].auto = seq - 1
    /\ \A n \in Rows : attempt[i][n].auto < seq

\* A mutant: an intent that was omitted is charged all the same.
ChargesOmitted(i) ==
    \/ intent[i].status \in {"SCHEDULED", "OMITTED"}
    \/ intent[i].status = "RETRY_PENDING" /\ intent[i].due

\* LOCK_INTENT found a SCHEDULED intent or a retry that is due.
Chargeable(i) ==
    \/ intent[i].status = "SCHEDULED"
    \/ intent[i].status = "RETRY_PENDING" /\ intent[i].due

\* A mutant: off by one.
OneAttemptTooMany(seq) == seq - 1 <= MaxAttempts

AttemptsRemain(seq) == seq <= MaxAttempts

\* startAttempt. The other outcomes (ALREADY_IN_FLIGHT, NOT_SCHEDULED, a retry
\* that is not due, ATTEMPTS_EXHAUSTED) and a unique violation roll back and
\* change nothing. The status of the subscription is read and not looked at.
StartAttempt(w, i, n, seq) ==
    /\ worker[w].pc = "idle"
    /\ Chargeable(i)
    /\ IsNextAutoSeq(i, seq)
    /\ AttemptsRemain(seq)
    /\ IsNextRow(i, n)
    /\ NoInFlightAttempt(i)
    /\ AutoSeqUnique(i, seq)
    /\ attempt' = [attempt EXCEPT ![i][n] =
                      [status |-> "IN_FLIGHT", auto |-> seq, overdue |-> FALSE]]
    /\ intent' = [intent EXCEPT ![i].status = "IN_FLIGHT"]
    /\ worker' = [worker EXCEPT ![w] =
                     [Idle EXCEPT !.pc = "charge", !.intent = i, !.row = n, !.seq = seq]]
    /\ UNCHANGED <<subscription, outbox, provider, seen, verdict>>

Charge(w, o) ==
    /\ worker[w].pc = "charge"
    /\ ChargeCall(worker[w].intent, worker[w].row, o)
    /\ worker' = [worker EXCEPT ![w].pc = "verify", ![w].outcome = o]
    /\ UNCHANGED <<storeVars, seen, verdict>>

\* errorTypeForOutcome(outcome) is not null
DeclaresFailure(o) == o \in {"DECLINED", "TIMEOUT", "PROVIDER_ERROR"}

\* decideRetry: DECLINED is the only non-retryable error a charge reports.
DecideRetry(o, seq) ==
    IF seq >= MaxAttempts \/ o = "DECLINED" THEN "FAILED_FINAL" ELSE "RETRY_PENDING"

\* A mutant: the charge's own failure is believed when verify cannot tell.
BelievesTheCharge(v, o, seq) ==
    CASE v = "SUCCEEDED" -> "SUCCEEDED"
      [] v # "SUCCEEDED" /\ DeclaresFailure(o) -> DecideRetry(o, seq)
      [] OTHER -> "UNKNOWN"

\* A mutant: without a declared failure, no verification is a success.
NoFailureIsSuccess(v, o, seq) ==
    CASE v = "SUCCEEDED" \/ (v = "UNKNOWN" /\ ~DeclaresFailure(o)) -> "SUCCEEDED"
      [] v = "FAILED" /\ DeclaresFailure(o) -> DecideRetry(o, seq)
      [] OTHER -> "UNKNOWN"

\* What execute() makes of the verification v of an attempt charged with o.
SettlementFor(v, o, seq) ==
    CASE v = "SUCCEEDED" -> "SUCCEEDED"
      [] v = "FAILED" /\ DeclaresFailure(o) -> DecideRetry(o, seq)
      [] OTHER -> "UNKNOWN"

\* The attempt of the execution is a MANUAL one, of the Reprocess module.
IsManual(w) == worker[w].seq = 0

Verify(w, v) ==
    /\ worker[w].pc = "verify"
    /\ ~IsManual(w)
    /\ VerifyCall(worker[w].intent, worker[w].row, v)
    /\ worker' = [worker EXCEPT
                     ![w].pc = "settle",
                     ![w].settlement = SettlementFor(v, worker[w].outcome, worker[w].seq)]
    /\ UNCHANGED <<storeVars, seen, verdict>>

AttemptTarget(s) ==
    CASE s = "SUCCEEDED" -> "SUCCEEDED"
      [] s = "UNKNOWN" -> "UNKNOWN"
      [] OTHER -> "FAILED"

\* A mutant: an attempt in doubt is left open.
FinishUnlessUnknown(i, n, s) ==
    attempt' = IF attempt[i][n].status = "IN_FLIGHT" /\ s # "UNKNOWN"
               THEN [attempt EXCEPT ![i][n].status = AttemptTarget(s)]
               ELSE attempt

\* FINISH_ATTEMPT: no row matches once the recovery sweep has closed the
\* attempt, and the code does not look at the number of rows it updated.
FinishAttempt(i, n, s) ==
    attempt' = IF attempt[i][n].status = "IN_FLIGHT"
               THEN [attempt EXCEPT ![i][n].status = AttemptTarget(s)]
               ELSE attempt

\* A mutant: unknown_since is not among the columns.
SettledWithoutSince(i, s) ==
    [intent[i] EXCEPT !.status = s, !.due = IF s = "RETRY_PENDING" THEN FALSE ELSE @]

\* SETTLE_INTENT, whatever the status of the intent has become meanwhile.
SettledRow(i, s) ==
    [intent[i] EXCEPT
        !.status = s,
        !.due = IF s = "RETRY_PENDING" THEN FALSE ELSE @,
        !.since = IF s = "UNKNOWN" /\ @ = "NULL" THEN "RECENT" ELSE @]

\* The statements of settleAttempt meet no constraint that rejects them.
SettlementAllowed(i, n, s) ==
    /\ StatusUpdateAllowed(intent[i].status, s)
    /\ s = "SUCCEEDED" => NoOtherSucceededAttempt(i, n)

SettleAttempt(w) ==
    LET i == worker[w].intent
        n == worker[w].row
        s == worker[w].settlement
        rows == [intent EXCEPT ![i] = SettledRow(i, s)]
    IN  /\ worker[w].pc = "settle"
        /\ SettlementAllowed(i, n, s)
        /\ FinishAttempt(i, n, s)
        /\ IF s = "FAILED_FINAL"
           THEN CancelWith(rows, SubOf[i])
           ELSE intent' = rows /\ UNCHANGED <<subscription, outbox>>
        /\ worker' = [worker EXCEPT ![w] = Idle]
        /\ UNCHANGED <<provider, seen, verdict>>

\* The intent is SUCCEEDED already, or a constraint rejects the settlement:
\* the transaction rolls back and the execution is over.
SettlementRolledBack(w) ==
    /\ worker[w].pc = "settle"
    /\ ~SettlementAllowed(worker[w].intent, worker[w].row, worker[w].settlement)
    /\ worker' = [worker EXCEPT ![w] = Idle]
    /\ UNCHANGED <<storeVars, provider, seen, verdict>>

\* settleAttempt as a whole.
Settlement(w) ==
    /\ worker[w].pc = "settle"
    /\ SettleAttempt(w) \/ SettlementRolledBack(w)

\* The process dies, or a call to the gateway or the database rejects: nothing
\* more happens in this execution.
ExecutionDies(w) ==
    /\ ExecutionsMayDie
    /\ worker[w].pc # "idle"
    /\ worker' = [worker EXCEPT ![w] = Idle]
    /\ UNCHANGED <<storeVars, provider, seen, verdict>>

-----------------------------------------------------------------------------
(* The recovery sweep *)

\* deadline_at passes. Unless executions may stall, this only happens to an
\* attempt whose execution is gone.
DeadlinePasses(i, n) ==
    /\ attempt[i][n].status = "IN_FLIGHT"
    /\ ~attempt[i][n].overdue
    /\ \/ StallBeyondDeadline
       \/ \A w \in Workers : ~(worker[w].intent = i /\ worker[w].row = n)
    /\ attempt' = [attempt EXCEPT ![i][n].overdue = TRUE]
    /\ UNCHANGED <<subscription, intent, outbox, provider, execVars>>

\* Two mutants: the deadline is not looked at, or compared the wrong way.
InFlightAtAll(i, n) == attempt[i][n].status = "IN_FLIGHT"
NotYetExpired(i, n) == attempt[i][n].status = "IN_FLIGHT" /\ ~attempt[i][n].overdue

\* The condition of FIND_EXPIRED on the attempt.
Expired(i, n) == attempt[i][n].status = "IN_FLIGHT" /\ attempt[i][n].overdue

\* recoverOne. Its transaction checks both statuses again under their locks and
\* a deadline never moves, so what FIND_EXPIRED read earlier adds no condition.
\* unknown_since is not among the columns it writes.
RecoverExpired(i, n) ==
    /\ Expired(i, n)
    /\ intent[i].status = "IN_FLIGHT"
    /\ attempt' = [attempt EXCEPT ![i][n].status = "UNKNOWN"]
    /\ intent' = [intent EXCEPT ![i].status = "UNKNOWN"]
    /\ UNCHANGED <<subscription, outbox, provider, execVars>>

-----------------------------------------------------------------------------
(* The verification sweep *)

Todo == {i \in Intents : seen[i].row # 0}

\* The candidate being processed; the query returned them ordered by id.
IsCurrent(i) == i \in Todo /\ \A j \in Todo : i <= j

\* A mutant: ascending order instead of descending.
IsOldestUnknown(i, n) ==
    /\ attempt[i][n].status = "UNKNOWN"
    /\ \A m \in Rows : m < n => attempt[i][m].status # "UNKNOWN"

\* The attempt FIND_UNKNOWN joins: the UNKNOWN one that started last.
IsLatestUnknown(i, n) ==
    /\ attempt[i][n].status = "UNKNOWN"
    /\ \A m \in Rows : m > n => attempt[i][m].status # "UNKNOWN"

IsUnknownCandidate(i) ==
    /\ intent[i].status = "UNKNOWN"
    /\ ~intent[i].needsReview
    /\ intent[i].verifyDue
    /\ \E n \in Rows : IsLatestUnknown(i, n)

CandidateOf(i) ==
    [row   |-> CHOOSE n \in Rows : IsLatestUnknown(i, n),
     sub   |-> subscription[SubOf[i]],
     count |-> intent[i].verifyCount,
     since |-> intent[i].since]

FindUnknown ==
    /\ Todo = {}
    /\ seen' = [i \in Intents |->
                  IF IsUnknownCandidate(i) THEN CandidateOf(i) ELSE NoCandidate]
    /\ seen' # seen
    /\ UNCHANGED <<storeVars, provider, worker, verdict>>

\* The sweep goes on to its next candidate with these rows.
NextCandidate(i, rows) ==
    /\ intent' = rows
    /\ seen' = [seen EXCEPT ![i] = NoCandidate]
    /\ verdict' = "NONE"
    /\ UNCHANGED <<subscription, attempt, outbox, provider, worker>>

\* An UPDATE ... WHERE id = i AND status = 'UNKNOWN'
UpdateUnknown(i, row) ==
    IF intent[i].status = "UNKNOWN" THEN [intent EXCEPT ![i] = row] ELSE intent

\* The catch of verifyUnknown: the rest of the list is dropped.
AbandonSweep ==
    /\ seen' = NoCandidates
    /\ verdict' = "NONE"
    /\ UNCHANGED <<storeVars, provider, worker>>

\* candidate.unknownSince.getTime() on a null throws.
SweepThrows(i) == IsCurrent(i) /\ seen[i].since = "NULL" /\ AbandonSweep

\* gateway.verify rejects, or the process dies.
SweepAborts(i) ==
    /\ IsCurrent(i)
    /\ seen[i].since = "RECENT" \/ ExecutionsMayDie
    /\ AbandonSweep

\* A mutant: both conditions for the review are asked for.
EscalatesLate(i) ==
    /\ IsCurrent(i)
    /\ seen[i].since = "OLD"
    /\ seen[i].count + 1 >= ManualReviewThreshold
    /\ NextCandidate(i, UpdateUnknown(i,
           [intent[i] EXCEPT !.needsReview = TRUE, !.verifyDue = TRUE]))

\* 24 h have gone by since unknown_since.
SweepEscalates(i) ==
    /\ IsCurrent(i)
    /\ seen[i].since = "OLD"
    /\ NextCandidate(i, UpdateUnknown(i,
           [intent[i] EXCEPT !.needsReview = TRUE, !.verifyDue = TRUE]))

SweepVerifies(i, v) ==
    /\ IsCurrent(i)
    /\ seen[i].since = "RECENT"
    /\ verdict = "NONE"
    /\ VerifyCall(i, seen[i].row, v)
    /\ verdict' = v
    /\ UNCHANGED <<storeVars, worker, seen>>

\* markVerificationUnknown
SweepKeepsUnknown(i) ==
    LET review == seen[i].count + 1 >= ManualReviewThreshold
    IN  /\ IsCurrent(i)
        /\ verdict = "UNKNOWN"
        /\ NextCandidate(i,
               IF intent[i].needsReview THEN intent
               ELSE UpdateUnknown(i, [intent[i] EXCEPT !.verifyCount = @ + 1,
                                                       !.verifyDue = review,
                                                       !.needsReview = review]))

\* settleVerification. attemptNo, the retry index of the back-off, is not
\* compared with MAX_ATTEMPTS; the attempt itself stays UNKNOWN.
SweepSettles(i) ==
    LET row == CASE verdict = "SUCCEEDED" -> [intent[i] EXCEPT !.status = "SUCCEEDED"]
                 [] verdict = "FAILED" /\ seen[i].sub = "ACTIVE" ->
                       [intent[i] EXCEPT !.status = "RETRY_PENDING", !.due = FALSE]
                 [] OTHER -> [intent[i] EXCEPT !.status = "OMITTED"]
    IN  /\ IsCurrent(i)
        /\ verdict \in {"SUCCEEDED", "FAILED"}
        /\ NextCandidate(i, UpdateUnknown(i, row))

-----------------------------------------------------------------------------
(* Time *)

SetIntent(i, row) ==
    /\ intent' = [intent EXCEPT ![i] = row]
    /\ UNCHANGED <<subscription, attempt, outbox, provider, execVars>>

BackoffElapses(i) ==
    /\ intent[i].status = "RETRY_PENDING" /\ ~intent[i].due
    /\ SetIntent(i, [intent[i] EXCEPT !.due = TRUE])

CadenceElapses(i) ==
    /\ ~intent[i].verifyDue
    /\ SetIntent(i, [intent[i] EXCEPT !.verifyDue = TRUE])

UnknownWindowElapses(i) ==
    /\ intent[i].since = "RECENT"
    /\ SetIntent(i, [intent[i] EXCEPT !.since = "OLD"])

-----------------------------------------------------------------------------
ExecutionStep(w) ==
    \/ \E o \in ChargeOutcomes : Charge(w, o)
    \/ \E v \in Verdicts : Verify(w, v)
    \/ Settlement(w)

SweepStep(i) ==
    \/ SweepThrows(i)
    \/ SweepEscalates(i)
    \/ \E v \in Verdicts : SweepVerifies(i, v)
    \/ SweepKeepsUnknown(i)
    \/ SweepSettles(i)

TimeStep(i) ==
    \/ BackoffElapses(i)
    \/ CadenceElapses(i)
    \/ UnknownWindowElapses(i)
    \/ \E n \in Rows : DeadlinePasses(i, n)

ExecutorNext ==
    \/ \E w \in Workers : \/ \E i \in Intents, n \in Rows, seq \in 1 .. (MaxAttempts + 1) :
                                 StartAttempt(w, i, n, seq)
                          \/ ExecutionStep(w)
                          \/ ExecutionDies(w)
    \/ \E i \in Intents, n \in Rows : RecoverExpired(i, n) \/
                                      (ProviderResolves(i, n) /\ UNCHANGED <<storeVars, execVars>>)
    \/ FindUnknown
    \/ \E i \in Intents : SweepStep(i) \/ SweepAborts(i) \/ TimeStep(i)

Next ==
    \/ ExecutorNext
    \/ \E i \in Intents : ScheduleIntent(i) /\ UNCHANGED <<provider, execVars>>

Spec == Init /\ [][Next]_vars

\* Time passes, the two timers fire and an execution that has not died goes on.
\* Nothing makes anybody start an attempt, resolve an operation or die.
Fairness ==
    /\ \A w \in Workers : WF_vars(ExecutionStep(w))
    /\ \A i \in Intents : /\ WF_vars(TimeStep(i))
                          /\ WF_vars(SweepStep(i))
                          /\ WF_vars(\E n \in Rows : RecoverExpired(i, n))
    /\ WF_vars(FindUnknown)

FairSpec == Spec /\ Fairness

-----------------------------------------------------------------------------
(* Correctness *)

\* An operation that was accepted, or may yet turn out to be.
MayCharge(i, n) == Present(i, n) /\ provider[i][n] # "REJECTED"

IsLast(i, n) == Present(i, n) /\ \A m \in Rows : m > n => ~Present(i, m)

\* No billing intent is charged twice (INV-01): whatever the interleaving of
\* executions, crashes, recoveries and verifications, at most one of the
\* provider operations of an intent ends CHARGED.
AtMostOneEffectiveCharge ==
    \A i \in Intents : \A m, n \in Rows :
        provider[i][m] = "CHARGED" /\ provider[i][n] = "CHARGED" => m = n

\* An intent is reopened for a charge, or closed as not charged, only when the
\* provider has definitively rejected every operation sent so far (RF-17):
\* RETRY_PENDING, FAILED_FINAL and OMITTED are never written over an operation
\* that was or may still be accepted.
ReopenedOnlyAfterRejection ==
    \A i \in Intents :
        intent[i].status \notin {"IN_FLIGHT", "UNKNOWN", "SUCCEEDED"} =>
            \A n \in Rows : ~MayCharge(i, n)

\* A SUCCEEDED intent rests on an operation the provider confirmed (RF-15).
SucceededIsConfirmed ==
    \A i \in Intents :
        intent[i].status = "SUCCEEDED" => \E n \in Rows : provider[i][n] = "CHARGED"

\* Write-ahead (spec 6.1): the provider never holds an operation that is not a
\* row of payment_attempts, whatever died in between.
OperationsAreRecorded ==
    \A i \in Intents : \A n \in Rows :
        provider[i][n] # "NONE" => Present(i, n)

\* The two tables agree on what runs: an intent is IN_FLIGHT exactly when one of
\* its attempts is, and then it is its last one (INV-03). An attempt left IN_FLIGHT
\* under any other intent status would be invisible to the recovery sweep.
InFlightAgrees ==
    \A i \in Intents :
        /\ (intent[i].status = "IN_FLIGHT") <=>
               (\E n \in Rows : attempt[i][n].status = "IN_FLIGHT")
        /\ \A n \in Rows : attempt[i][n].status = "IN_FLIGHT" => IsLast(i, n)

\* An execution that is about to call the provider or to settle still owns the
\* attempt it started, alone; so a settlement never lands on an intent that
\* another execution or a sweep has moved on, and INV-07 holds: no adapter call
\* is made for an intent that is SUCCEEDED.
ExecutionOwnsAttempt ==
    \A w \in Workers : worker[w].pc # "idle" =>
        /\ intent[worker[w].intent].status = "IN_FLIGHT"
        /\ attempt[worker[w].intent][worker[w].row].status = "IN_FLIGHT"
        /\ \A v \in Workers \ {w} : worker[v].pc # "idle" =>
               worker[v].intent # worker[w].intent

\* FAILED_FINAL cancels the subscription in the same transaction and tells the
\* outbox once (RF-22): a subscription with a FAILED_FINAL intent is CANCELLED,
\* and it has one CancellationEvent exactly when it is CANCELLED.
CancellationIsToldOnce ==
    /\ \A i \in Intents :
           intent[i].status = "FAILED_FINAL" => subscription[SubOf[i]] = "CANCELLED"
    /\ \A s \in Subscriptions :
           outbox[s] = IF subscription[s] = "CANCELLED" THEN 1 ELSE 0

\* ALLOWED_BILLING_INTENT_TRANSITIONS without the two reprocess takes, and the
\* insertions.
AllowedTransitions ==
    {<<"ABSENT", "SCHEDULED">>, <<"ABSENT", "OMITTED">>,
     <<"SCHEDULED", "IN_FLIGHT">>, <<"SCHEDULED", "OMITTED">>,
     <<"IN_FLIGHT", "SUCCEEDED">>, <<"IN_FLIGHT", "FAILED_FINAL">>,
     <<"IN_FLIGHT", "UNKNOWN">>, <<"IN_FLIGHT", "RETRY_PENDING">>,
     <<"RETRY_PENDING", "IN_FLIGHT">>, <<"RETRY_PENDING", "OMITTED">>,
     <<"UNKNOWN", "SUCCEEDED">>, <<"UNKNOWN", "RETRY_PENDING">>, <<"UNKNOWN", "OMITTED">>}

\* An intent does not stay IN_FLIGHT: its execution settles it or the recovery
\* sweep declares it UNKNOWN (RF-16). An attempt may: an execution that outlives its
\* deadline takes the intent out of IN_FLIGHT under a later attempt, and if that one
\* dies the recovery sweep does not see it.
InFlightEnds ==
    \A i \in Intents : intent[i].status = "IN_FLIGHT" ~> intent[i].status # "IN_FLIGHT"

\* An UNKNOWN intent is resolved or handed to a person (RF-17), even when every
\* verification fails to answer or the sweep is cut short.
UnknownIsResolvedOrEscalated ==
    \A i \in Intents :
        intent[i].status = "UNKNOWN" ~>
            (intent[i].status # "UNKNOWN" \/ intent[i].needsReview)

-----------------------------------------------------------------------------
(* The inductive invariant behind AtMostOneEffectiveCharge, when executions do *)
(* not stall                                                                   *)

\* Attempts are numbered without gaps.
RowsInOrder ==
    \A i \in Intents : \A n \in Rows :
        Present(i, n) => \A m \in 1 .. (n - 1) : Present(i, m)

\* Only the last operation of an intent can still be, or have been, accepted.
OpenIsLast ==
    \A i \in Intents : \A n \in Rows : MayCharge(i, n) => IsLast(i, n)

\* An UNKNOWN intent is in doubt about its last attempt and no other.
UnknownIsLast ==
    \A i \in Intents : intent[i].status = "UNKNOWN" =>
        \E n \in Rows : attempt[i][n].status = "UNKNOWN" /\ IsLast(i, n)

\* What verification v says of operation n of intent i is still so.
VerdictHolds(i, n, v) ==
    /\ v = "SUCCEEDED" => provider[i][n] = "CHARGED"
    /\ v = "FAILED" => provider[i][n] = "REJECTED"

\* An execution whose deadline has not passed decided from a verdict that holds.
ExecutionKnowsOutcome ==
    \A w \in Workers :
        LET i == worker[w].intent
            n == worker[w].row
            s == worker[w].settlement
        IN  /\ worker[w].pc # "idle" => ~attempt[i][n].overdue
            /\ worker[w].pc = "settle" =>
                   /\ s = "SUCCEEDED" => provider[i][n] = "CHARGED"
                   /\ s \in {"RETRY_PENDING", "FAILED_FINAL"} => provider[i][n] = "REJECTED"

\* The list of the verification sweep is never stale: its intents are still
\* UNKNOWN (or have been closed as SUCCEEDED, which its updates leave alone),
\* about the attempt on the list, and the verdict is about the first.
SweepIsCurrent ==
    /\ \A i \in Todo :
           /\ intent[i].status \in {"UNKNOWN", "SUCCEEDED"}
           /\ IsLast(i, seen[i].row)
           /\ IsCurrent(i) => VerdictHolds(i, seen[i].row, verdict)
    /\ verdict # "NONE" => Todo # {}

ChargeInvariant ==
    /\ OperationsAreRecorded
    /\ RowsInOrder
    /\ OpenIsLast
    /\ ReopenedOnlyAfterRejection
    /\ InFlightAgrees
    /\ UnknownIsLast
    /\ ExecutionOwnsAttempt
    /\ ExecutionKnowsOutcome
    /\ SweepIsCurrent
=============================================================================
