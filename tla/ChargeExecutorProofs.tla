-------------------------- MODULE ChargeExecutorProofs --------------------------
(***************************************************************************)
(* Theorems about ChargeExecutor, for every set of intents, subscriptions   *)
(* and executions, every MAX_ATTEMPTS, and any crashes, lost answers and    *)
(* interleavings of executions with the two sweeps: its types, what is      *)
(* final, and that an intent is charged at most once.                       *)
(***************************************************************************)
EXTENDS ChargeExecutor, TLAPS

-----------------------------------------------------------------------------
(* Types of the derived rows *)

LEMMA RowsAreNat == Rows \subseteq Nat \ {0}
  BY DEF Rows

\* The rows a cancellation leaves are intent rows.
LEMMA OmittedType ==
  ASSUME NEW rows \in [Intents -> IntentRow], NEW s
  PROVE  Omitted(rows, s) \in [Intents -> IntentRow]
  BY DEF Omitted, IntentRow, IntentStates

\* A cancellation keeps the types of the three tables it writes.
LEMMA CancelWithType ==
  ASSUME StoreTypeOK, NEW rows \in [Intents -> IntentRow], NEW s \in Subscriptions,
         CancelWith(rows, s)
  PROVE  /\ intent' \in [Intents -> IntentRow]
         /\ subscription' \in [Subscriptions -> SubscriptionStates]
         /\ outbox' \in [Subscriptions -> Nat]
<1>1. outbox[s] + 1 \in Nat
  BY DEF StoreTypeOK
<1> QED
  BY <1>1, OmittedType DEF CancelWith, StoreTypeOK, SubscriptionStates

\* A settlement writes an intent row.
LEMMA SettledRowType ==
  ASSUME StoreTypeOK, NEW i \in Intents, NEW s \in Settlements
  PROVE  SettledRow(i, s) \in IntentRow
  BY DEF SettledRow, StoreTypeOK, IntentRow, IntentStates, Settlements

\* The assignments the actions make to the columns of an intent row ...
LEMMA IntentStatus ==
  ASSUME NEW r \in IntentRow, NEW s \in IntentStates
  PROVE  [r EXCEPT !.status = s] \in IntentRow
  BY DEF IntentRow

LEMMA IntentDue ==
  ASSUME NEW r \in IntentRow, NEW b \in BOOLEAN
  PROVE  [r EXCEPT !.due = b] \in IntentRow
  BY DEF IntentRow

LEMMA IntentStatusDue ==
  ASSUME NEW r \in IntentRow, NEW s \in IntentStates, NEW b \in BOOLEAN
  PROVE  [r EXCEPT !.status = s, !.due = b] \in IntentRow
  BY DEF IntentRow

LEMMA IntentSince ==
  ASSUME NEW r \in IntentRow
  PROVE  [r EXCEPT !.since = "OLD"] \in IntentRow
  BY DEF IntentRow

LEMMA IntentVerifyDue ==
  ASSUME NEW r \in IntentRow, NEW b \in BOOLEAN
  PROVE  [r EXCEPT !.verifyDue = b] \in IntentRow
  BY DEF IntentRow

LEMMA IntentReview ==
  ASSUME NEW r \in IntentRow, NEW b \in BOOLEAN, NEW c \in BOOLEAN
  PROVE  [r EXCEPT !.needsReview = b, !.verifyDue = c] \in IntentRow
  BY DEF IntentRow

LEMMA IntentVerified ==
  ASSUME NEW r \in IntentRow, NEW b \in BOOLEAN
  PROVE  [r EXCEPT !.verifyCount = @ + 1, !.verifyDue = b, !.needsReview = b] \in IntentRow
<1>1. r.verifyCount + 1 \in Nat
  BY DEF IntentRow
<1>2. ASSUME NEW k \in Nat
      PROVE  [r EXCEPT !.verifyCount = k, !.verifyDue = b, !.needsReview = b] \in IntentRow
  BY <1>2 DEF IntentRow
<1> QED
  BY <1>1, <1>2

\* ... of an attempt row, and of what an execution remembers.
LEMMA AttemptStatus ==
  ASSUME NEW r \in AttemptRow, NEW s \in AttemptStates
  PROVE  [r EXCEPT !.status = s] \in AttemptRow
  BY DEF AttemptRow

LEMMA AttemptOverdue ==
  ASSUME NEW r \in AttemptRow, NEW b \in BOOLEAN
  PROVE  [r EXCEPT !.overdue = b] \in AttemptRow
  BY DEF AttemptRow

LEMMA VerifyCallType ==
  ASSUME ProviderTypeOK, NEW i \in Intents, NEW n \in Rows, NEW v, VerifyCall(i, n, v)
  PROVE  ProviderTypeOK'
<1>1. CASE UNCHANGED provider
  BY <1>1 DEF ProviderTypeOK
<1>2. CASE provider' = [provider EXCEPT ![i][n] = "REJECTED"]
  BY <1>2 DEF ProviderTypeOK, ProviderStates
<1> QED
  BY <1>1, <1>2 DEF VerifyCall

LEMMA IdleType == Idle \in WorkerState
  BY StoreAssumption DEF Idle, WorkerState

LEMMA NoCandidateType == NoCandidate \in Candidate
  BY DEF NoCandidate, Candidate, SubscriptionStates

\* The elements of the tables are rows.
LEMMA TypeFacts ==
  ASSUME TypeOK
  PROVE  /\ \A i \in Intents : intent[i] \in IntentRow
         /\ \A i \in Intents : \A n \in Rows : attempt[i][n] \in AttemptRow
         /\ \A w \in Workers : worker[w] \in WorkerState
         /\ \A i \in Intents : seen[i] \in Candidate
  BY DEF TypeOK, StoreTypeOK

-----------------------------------------------------------------------------
LEMMA InitTypeOK == Init => TypeOK
  BY StoreAssumption
     DEF Init, TypeOK, StoreInit, StoreTypeOK, ProviderInit, ProviderTypeOK,
         SubscriptionStates, IntentRow, IntentStates, AttemptRow, AttemptStates,
         NoIntentRow, NoAttemptRow, WorkerState, Idle, Candidate, NoCandidate,
         NoCandidates, ProviderStates

\* An execution that learns the verdict v and decides on s, an automatic or a
\* manual one.
LEMMA AnswerType ==
  ASSUME TypeOK, NEW w \in Workers, NEW v, NEW s \in Settlements, worker[w].pc = "verify",
         VerifyCall(worker[w].intent, worker[w].row, v),
         worker' = [worker EXCEPT ![w].pc = "settle", ![w].settlement = s],
         UNCHANGED <<storeVars, seen, verdict>>
  PROVE  TypeOK'
<1>1. worker[w] \in WorkerState /\ worker[w].intent \in Intents /\ worker[w].row \in Rows
  BY DEF TypeOK
<1>2. ProviderTypeOK'
  BY <1>1, VerifyCallType DEF TypeOK
<1>3. [worker[w] EXCEPT !.pc = "settle", !.settlement = s] \in WorkerState
  BY <1>1 DEF WorkerState
<1>4. worker' = [worker EXCEPT ![w] = [worker[w] EXCEPT !.pc = "settle", !.settlement = s]]
  BY DEF TypeOK
<1>5. worker' \in [Workers -> WorkerState]
  BY <1>3, <1>4 DEF TypeOK
<1>6. \A u \in Workers :
        /\ worker'[u].pc # "idle" => worker'[u].intent \in Intents /\ worker'[u].row \in Rows
        /\ worker'[u].pc = "settle" => worker'[u].settlement \in Settlements
  <2>1. /\ worker'[w].intent = worker[w].intent /\ worker'[w].row = worker[w].row
        /\ worker'[w].settlement = s
    BY <1>1, <1>4 DEF TypeOK, WorkerState
  <2>2. \A u \in Workers \ {w} : worker'[u] = worker[u]
    BY <1>4 DEF TypeOK
  <2> QED
    BY <1>1, <2>1, <2>2 DEF TypeOK
<1> QED
  BY <1>2, <1>5, <1>6 DEF TypeOK, StoreTypeOK, storeVars

LEMMA StepTypeOK == TypeOK /\ [Next]_vars => TypeOK'
<1> SUFFICES ASSUME TypeOK, [Next]_vars PROVE TypeOK'
  OBVIOUS
<1>0. /\ \A i \in Intents : intent[i] \in IntentRow
      /\ \A i \in Intents : \A n \in Rows : attempt[i][n] \in AttemptRow
      /\ \A w \in Workers : worker[w] \in WorkerState
  BY TypeFacts
<1>1. ASSUME NEW w \in Workers, NEW i \in Intents, NEW n \in Rows,
             NEW seq \in 1 .. (MaxAttempts + 1), StartAttempt(w, i, n, seq)
      PROVE  TypeOK'
  <2> DEFINE started == [Idle EXCEPT !.pc = "charge", !.intent = i, !.row = n, !.seq = seq]
  <2>1. seq \in 0 .. MaxAttempts
    BY <1>1 DEF StartAttempt, AttemptsRemain
  <2>2. [status |-> "IN_FLIGHT", auto |-> seq, overdue |-> FALSE] \in AttemptRow
    BY <2>1 DEF AttemptRow, AttemptStates
  <2>3. [intent[i] EXCEPT !.status = "IN_FLIGHT"] \in IntentRow
    BY <1>0, <1>1, IntentStatus DEF IntentStates
  <2>4. StoreTypeOK'
    BY <1>1, <2>2, <2>3 DEF StartAttempt, TypeOK, StoreTypeOK
  <2>5. started \in WorkerState
    BY <1>1, <2>1 DEF Idle, WorkerState
  <2>6. worker' = [worker EXCEPT ![w] = started]
    BY <1>1 DEF StartAttempt, AttemptsRemain
  <2>7. worker' \in [Workers -> WorkerState]
    BY <2>5, <2>6 DEF TypeOK
  <2>8. /\ started.pc = "charge"
        /\ started.intent \in Intents /\ started.row \in Rows
    BY <1>1 DEF Idle
  <2>9. \A v \in Workers :
          /\ worker'[v].pc # "idle" => worker'[v].intent \in Intents /\ worker'[v].row \in Rows
          /\ worker'[v].pc = "settle" => worker'[v].settlement \in Settlements
    BY <2>6, <2>8 DEF TypeOK
  <2> QED
    BY <1>1, <2>4, <2>7, <2>9 DEF StartAttempt, TypeOK, ProviderTypeOK
<1>2. ASSUME NEW w \in Workers, NEW o \in ChargeOutcomes, Charge(w, o)
      PROVE  TypeOK'
  <2>1. provider' \in [Intents -> [Rows -> ProviderStates]]
    BY <1>2 DEF Charge, ChargeCall, Recorded, TypeOK, ProviderTypeOK, ProviderStates
  <2>2. [worker[w] EXCEPT !.pc = "verify", !.outcome = o] \in WorkerState
    BY <1>0, <1>2 DEF WorkerState
  <2> QED
    BY <1>2, <2>1, <2>2 DEF Charge, TypeOK, ProviderTypeOK, StoreTypeOK, storeVars
<1>3. ASSUME NEW w \in Workers, NEW v \in Verdicts, Verify(w, v)
      PROVE  TypeOK'
  <2>1. SettlementFor(v, worker[w].outcome, worker[w].seq) \in Settlements
    BY DEF SettlementFor, DecideRetry, Settlements
  <2> QED
    BY <1>3, <2>1, AnswerType DEF Verify
<1>4. ASSUME NEW w \in Workers, SettleAttempt(w)
      PROVE  TypeOK'
  <2> DEFINE i == worker[w].intent
             n == worker[w].row
             s == worker[w].settlement
             rows == [intent EXCEPT ![i] = SettledRow(i, s)]
  <2>1. i \in Intents /\ n \in Rows /\ s \in Settlements
    BY <1>4 DEF SettleAttempt, TypeOK
  <2>2. rows \in [Intents -> IntentRow]
    BY <2>1, SettledRowType DEF TypeOK, StoreTypeOK
  <2>3. /\ intent' \in [Intents -> IntentRow]
        /\ subscription' \in [Subscriptions -> SubscriptionStates]
        /\ outbox' \in [Subscriptions -> Nat]
    <3>1. CASE s = "FAILED_FINAL"
      <4>1. CancelWith(rows, SubOf[i])
        BY <1>4, <3>1 DEF SettleAttempt
      <4>2. SubOf[i] \in Subscriptions
        BY <2>1, StoreAssumption
      <4> QED
        BY <2>2, <4>1, <4>2, CancelWithType DEF TypeOK
    <3>2. CASE s # "FAILED_FINAL"
      BY <1>4, <2>2, <3>2 DEF SettleAttempt, TypeOK, StoreTypeOK
    <3> QED
      BY <3>1, <3>2
  <2>4. attempt' \in [Intents -> [Rows -> AttemptRow]]
    <3>1. [attempt[i][n] EXCEPT !.status = AttemptTarget(s)] \in AttemptRow
      BY <1>0, <2>1, AttemptStatus DEF AttemptTarget, AttemptStates
    <3>2. FinishAttempt(i, n, s)
      BY <1>4 DEF SettleAttempt
    <3> QED
      BY <2>1, <3>1, <3>2 DEF FinishAttempt, TypeOK, StoreTypeOK
  <2> QED
    BY <1>4, <2>3, <2>4, IdleType DEF SettleAttempt, TypeOK, StoreTypeOK, ProviderTypeOK, Idle
<1>5. ASSUME NEW w \in Workers, SettlementRolledBack(w) \/ ExecutionDies(w)
      PROVE  TypeOK'
  BY <1>5, IdleType, StoreAssumption
     DEF SettlementRolledBack, ExecutionDies, storeVars, TypeOK, StoreTypeOK,
     ProviderTypeOK, Idle
<1>6. ASSUME NEW i \in Intents, NEW n \in Rows, DeadlinePasses(i, n) \/ RecoverExpired(i, n)
      PROVE  TypeOK'
  <2>1. /\ [attempt[i][n] EXCEPT !.overdue = TRUE] \in AttemptRow
        /\ [attempt[i][n] EXCEPT !.status = "UNKNOWN"] \in AttemptRow
        /\ [intent[i] EXCEPT !.status = "UNKNOWN"] \in IntentRow
    BY <1>0, <1>6, AttemptOverdue, AttemptStatus, IntentStatus DEF AttemptStates, IntentStates
  <2>2. StoreTypeOK'
    <3>1. CASE DeadlinePasses(i, n)
      BY <1>6, <2>1, <3>1 DEF DeadlinePasses, TypeOK, StoreTypeOK
    <3>2. CASE RecoverExpired(i, n)
      BY <1>6, <2>1, <3>2 DEF RecoverExpired, TypeOK, StoreTypeOK
    <3> QED
      BY <1>6, <3>1, <3>2
  <2> QED
    BY <1>6, <2>2 DEF DeadlinePasses, RecoverExpired, execVars, TypeOK, ProviderTypeOK
<1>7. ASSUME NEW i \in Intents, NEW n \in Rows, ProviderResolves(i, n),
             UNCHANGED <<storeVars, execVars>>
      PROVE  TypeOK'
  BY <1>7 DEF ProviderResolves, storeVars, execVars, TypeOK, StoreTypeOK, ProviderTypeOK,
     ProviderStates
<1>8. ASSUME FindUnknown
      PROVE  TypeOK'
  <2>1. ASSUME NEW i \in Intents, IsUnknownCandidate(i)
        PROVE  CandidateOf(i) \in Candidate
    <3>1. (CHOOSE n \in Rows : IsLatestUnknown(i, n)) \in Rows
      BY <2>1 DEF IsUnknownCandidate
    <3>2. subscription[SubOf[i]] \in SubscriptionStates
      BY <2>1, StoreAssumption DEF TypeOK, StoreTypeOK
    <3>3. intent[i].verifyCount \in Nat /\ intent[i].since \in {"NULL", "RECENT", "OLD"}
      BY <1>0, <2>1 DEF IntentRow
    <3> QED
      BY <3>1, <3>2, <3>3 DEF CandidateOf, Candidate
  <2> QED
    BY <1>8, <2>1, NoCandidateType DEF FindUnknown, storeVars, TypeOK, StoreTypeOK, ProviderTypeOK
<1>9. ASSUME NEW i \in Intents, SweepThrows(i) \/ SweepAborts(i)
      PROVE  TypeOK'
  BY <1>9, NoCandidateType DEF SweepThrows, SweepAborts, AbandonSweep, NoCandidates,
     storeVars, TypeOK, StoreTypeOK, ProviderTypeOK
<1>10. ASSUME NEW i \in Intents, NEW v \in Verdicts, SweepVerifies(i, v)
       PROVE  TypeOK'
  <2>1. ProviderTypeOK'
    BY <1>10, VerifyCallType, TypeFacts DEF SweepVerifies, IsCurrent, Todo, Candidate, TypeOK
  <2> QED
    BY <1>10, <2>1 DEF SweepVerifies, storeVars, TypeOK, StoreTypeOK
<1>11. ASSUME NEW i \in Intents, NEW row \in IntentRow,
              NextCandidate(i, UpdateUnknown(i, row)) \/ NextCandidate(i, intent)
       PROVE  TypeOK'
  BY <1>11, NoCandidateType DEF NextCandidate, UpdateUnknown, TypeOK, StoreTypeOK, ProviderTypeOK
<1>12. ASSUME NEW i \in Intents, SweepEscalates(i) \/ SweepKeepsUnknown(i) \/ SweepSettles(i)
       PROVE  TypeOK'
  <2>0. intent[i] \in IntentRow
    BY <1>0, <1>12
  <2>1. CASE SweepEscalates(i)
    <3>1. [intent[i] EXCEPT !.needsReview = TRUE, !.verifyDue = TRUE] \in IntentRow
      BY <2>0, IntentReview
    <3> QED
      BY <1>11, <1>12, <2>1, <3>1 DEF SweepEscalates
  <2>2. CASE SweepKeepsUnknown(i)
    <3> DEFINE review == seen[i].count + 1 >= ManualReviewThreshold
               row == [intent[i] EXCEPT !.verifyCount = @ + 1, !.verifyDue = review,
                                        !.needsReview = review]
    <3>1. row \in IntentRow
      <4>1. review \in BOOLEAN
        OBVIOUS
      <4> HIDE DEF review
      <4> QED
        BY <2>0, <4>1, IntentVerified
    <3>2. NextCandidate(i, intent) \/ NextCandidate(i, UpdateUnknown(i, row))
      BY <2>2 DEF SweepKeepsUnknown
    <3> HIDE DEF row
    <3> QED
      BY <1>11, <1>12, <3>1, <3>2
  <2>3. CASE SweepSettles(i)
    <3>1. /\ [intent[i] EXCEPT !.status = "SUCCEEDED"] \in IntentRow
          /\ [intent[i] EXCEPT !.status = "RETRY_PENDING", !.due = FALSE] \in IntentRow
          /\ [intent[i] EXCEPT !.status = "OMITTED"] \in IntentRow
      BY <2>0, IntentStatus, IntentStatusDue DEF IntentStates
    <3> QED
      BY <1>11, <1>12, <2>3, <3>1 DEF SweepSettles
  <2> QED
    BY <1>12, <2>1, <2>2, <2>3
<1>13. ASSUME NEW i \in Intents, NEW row \in IntentRow, SetIntent(i, row)
       PROVE  TypeOK'
  BY <1>13 DEF SetIntent, TypeOK, StoreTypeOK, ProviderTypeOK, execVars
<1>14. ASSUME NEW i \in Intents,
              BackoffElapses(i) \/ CadenceElapses(i) \/ UnknownWindowElapses(i)
       PROVE  TypeOK'
  <2>1. /\ [intent[i] EXCEPT !.due = TRUE] \in IntentRow
        /\ [intent[i] EXCEPT !.verifyDue = TRUE] \in IntentRow
        /\ [intent[i] EXCEPT !.since = "OLD"] \in IntentRow
    BY <1>0, <1>14, IntentDue, IntentVerifyDue, IntentSince
  <2> QED
    BY <1>14, <1>13, <2>1 DEF BackoffElapses, CadenceElapses, UnknownWindowElapses
<1>15. ASSUME NEW i \in Intents, ScheduleIntent(i), UNCHANGED <<provider, execVars>>
       PROVE  TypeOK'
  <2>1. [intent[i] EXCEPT !.status = "SCHEDULED"] \in IntentRow
    BY <1>0, <1>15, IntentStatus DEF IntentStates
  <2> QED
    BY <1>15, <2>1 DEF ScheduleIntent, TypeOK, StoreTypeOK, ProviderTypeOK, execVars
<1>16. ASSUME UNCHANGED vars
       PROVE  TypeOK'
  BY <1>16 DEF vars, storeVars, execVars, TypeOK, StoreTypeOK, ProviderTypeOK
<1> QED
  BY <1>1, <1>2, <1>3, <1>4, <1>5, <1>6, <1>7, <1>8, <1>9, <1>10, <1>12, <1>14, <1>15, <1>16
     DEF Next, ExecutorNext, ExecutionStep, Settlement, SweepStep, TimeStep

\* Every variable keeps its type, whether or not executions stall or die.
THEOREM TypeCorrect == Spec => []TypeOK
<1>1. Init => TypeOK
  BY InitTypeOK
<1>2. TypeOK /\ [Next]_vars => TypeOK'
  BY StepTypeOK
<1> QED
  BY <1>1, <1>2, PTL DEF Spec

-----------------------------------------------------------------------------
(* Final statuses, whether or not executions stall *)

\* Who makes an intent SUCCEEDED or FAILED_FINAL: a settlement, or the sweep.
LEMMA FinalStatusWrites ==
  ASSUME TypeOK, Next, NEW i \in Intents
  PROVE  \/ intent'[i].status = intent[i].status
         \/ intent'[i].status \notin {"SUCCEEDED", "FAILED_FINAL"}
         \/ \E w \in Workers : /\ SettleAttempt(w) /\ worker[w].intent = i
                               /\ intent'[i].status = worker[w].settlement
         \/ SweepSettles(i) /\ verdict = "SUCCEEDED" /\ intent'[i].status = "SUCCEEDED"
<1> DEFINE Goal == \/ intent'[i].status = intent[i].status
                   \/ intent'[i].status \notin {"SUCCEEDED", "FAILED_FINAL"}
                   \/ \E w \in Workers : /\ SettleAttempt(w) /\ worker[w].intent = i
                                         /\ intent'[i].status = worker[w].settlement
                   \/ /\ SweepSettles(i) /\ verdict = "SUCCEEDED"
                      /\ intent'[i].status = "SUCCEEDED"
<1>0. intent \in [Intents -> IntentRow] /\ \A j \in Intents : intent[j] \in IntentRow
  BY DEF TypeOK, StoreTypeOK
<1>1. ASSUME NEW w \in Workers, NEW j \in Intents, NEW n \in Rows, NEW seq, StartAttempt(w, j, n, seq)
      PROVE  Goal
  BY <1>0, <1>1 DEF StartAttempt, IntentRow
<1>2. ASSUME NEW w \in Workers, SettleAttempt(w)
      PROVE  Goal
  <2> DEFINE k == worker[w].intent
             s == worker[w].settlement
             rows == [intent EXCEPT ![k] = SettledRow(k, s)]
  <2>1. k \in Intents /\ s \in Settlements /\ rows[k].status = s
    BY <1>0, <1>2 DEF SettleAttempt, TypeOK, SettledRow, IntentRow
  <2>2. \A j \in Intents \ {k} : rows[j] = intent[j]
    BY <1>0
  <2>3. \/ intent' = rows
        \/ intent' = Omitted(rows, SubOf[k])
    BY <1>2 DEF SettleAttempt, CancelWith
  <2>4. \/ intent'[i] = rows[i]
        \/ intent'[i] = [rows[i] EXCEPT !.status = "OMITTED"]
    BY <2>3 DEF Omitted
  <2>5. rows[i] \in IntentRow
    BY <1>0, <2>1, <2>2, SettledRowType DEF TypeOK
  <2> HIDE DEF rows
  <2>6. intent'[i].status \in {rows[i].status, "OMITTED"}
    BY <2>4, <2>5 DEF IntentRow
  <2> QED
    BY <1>2, <2>1, <2>2, <2>6
<1>3. ASSUME NEW j \in Intents, SweepEscalates(j) \/ SweepKeepsUnknown(j)
      PROVE  Goal
  <2>1. ASSUME NEW row, row.status = intent[j].status,
               intent' = UpdateUnknown(j, row) \/ intent' = intent
        PROVE  Goal
    BY <1>0, <2>1 DEF UpdateUnknown
  <2>2. CASE SweepEscalates(j)
    BY <1>0, <2>1, <2>2 DEF SweepEscalates, NextCandidate, IntentRow
  <2>3. CASE SweepKeepsUnknown(j)
    <3> DEFINE review == seen[j].count + 1 >= ManualReviewThreshold
               row == [intent[j] EXCEPT !.verifyCount = @ + 1, !.verifyDue = review,
                                        !.needsReview = review]
    <3>1. row.status = intent[j].status
      BY <1>0 DEF IntentRow
    <3>2. intent' = UpdateUnknown(j, row) \/ intent' = intent
      BY <2>3 DEF SweepKeepsUnknown, NextCandidate
    <3> HIDE DEF row
    <3> QED
      BY <2>1, <3>1, <3>2
  <2> QED
    BY <1>3, <2>2, <2>3
<1>4. ASSUME NEW j \in Intents, SweepSettles(j)
      PROVE  Goal
  <2>1. CASE verdict = "SUCCEEDED"
    BY <1>0, <1>4, <2>1 DEF SweepSettles, NextCandidate, UpdateUnknown, IntentRow
  <2>2. CASE verdict = "FAILED"
    BY <1>0, <1>4, <2>2 DEF SweepSettles, NextCandidate, UpdateUnknown, IntentRow
  <2> QED
    BY <1>4, <2>1, <2>2 DEF SweepSettles
<1>5. ASSUME NEW j \in Intents, SweepThrows(j) \/ SweepAborts(j) \/ \E v \in Verdicts : SweepVerifies(j, v)
      PROVE  intent' = intent
  BY <1>5 DEF SweepThrows, SweepAborts, AbandonSweep, SweepVerifies, storeVars
<1>6. ASSUME NEW j \in Intents, TimeStep(j)
      PROVE  Goal
  BY <1>0, <1>6 DEF TimeStep, BackoffElapses, CadenceElapses, UnknownWindowElapses, SetIntent,
     DeadlinePasses, IntentRow
<1>7. ASSUME NEW w \in Workers, ExecutionStep(w) \/ ExecutionDies(w), ~SettleAttempt(w)
      PROVE  intent' = intent
  BY <1>7 DEF ExecutionStep, Settlement, Charge, Verify, SettlementRolledBack, ExecutionDies,
     storeVars
<1>8. ASSUME NEW j \in Intents, NEW n \in Rows,
             RecoverExpired(j, n) \/ (ProviderResolves(j, n) /\ UNCHANGED <<storeVars, execVars>>)
      PROVE  Goal
  BY <1>0, <1>8 DEF RecoverExpired, storeVars, IntentRow
<1>9. ASSUME FindUnknown
      PROVE  intent' = intent
  BY <1>9 DEF FindUnknown, storeVars
<1>10. ASSUME NEW j \in Intents, ScheduleIntent(j)
       PROVE  Goal
  BY <1>0, <1>10 DEF ScheduleIntent, IntentRow
<1> HIDE DEF Goal
<1>11. intent' = intent => Goal
  BY DEF Goal
<1>12. Goal
  BY <1>1, <1>2, <1>3, <1>4, <1>5, <1>6, <1>7, <1>8, <1>9, <1>10, <1>11
     DEF Next, ExecutorNext, SweepStep
<1> QED
  BY <1>12 DEF Goal

\* A settlement cancels and tells, or leaves both alone; nobody else touches them.
LEMMA CancellationWrites ==
  ASSUME TypeOK, Next
  PROVE  \/ UNCHANGED <<subscription, outbox>>
         \/ \E s \in Subscriptions :
               /\ subscription[s] # "CANCELLED"
               /\ subscription' = [subscription EXCEPT ![s] = "CANCELLED"]
               /\ outbox' = [outbox EXCEPT ![s] = @ + 1]
<1> DEFINE Tells(s) == /\ subscription[s] # "CANCELLED"
                       /\ subscription' = [subscription EXCEPT ![s] = "CANCELLED"]
                       /\ outbox' = [outbox EXCEPT ![s] = @ + 1]
<1>1. ASSUME NEW w \in Workers, SettleAttempt(w)
      PROVE  \/ UNCHANGED <<subscription, outbox>>
             \/ \E s \in Subscriptions : Tells(s)
  <2>1. SubOf[worker[w].intent] \in Subscriptions
    BY <1>1, StoreAssumption DEF SettleAttempt, TypeOK
  <2> QED
    BY <1>1, <2>1 DEF SettleAttempt, CancelWith
<1>2. ASSUME NEW w \in Workers, ExecutionStep(w) \/ ExecutionDies(w), ~SettleAttempt(w)
      PROVE  UNCHANGED <<subscription, outbox>>
  BY <1>2 DEF ExecutionStep, Settlement, Charge, Verify, SettlementRolledBack, ExecutionDies,
     storeVars
<1>3. ASSUME NEW i \in Intents, SweepStep(i) \/ SweepAborts(i) \/ TimeStep(i)
      PROVE  UNCHANGED <<subscription, outbox>>
  <2>1. CASE SweepStep(i) \/ SweepAborts(i)
    BY <2>1 DEF SweepStep, SweepThrows, SweepAborts, AbandonSweep, SweepEscalates,
       SweepVerifies, SweepKeepsUnknown, SweepSettles, NextCandidate, storeVars
  <2>2. CASE TimeStep(i)
    BY <2>2 DEF TimeStep, BackoffElapses, CadenceElapses, UnknownWindowElapses, SetIntent,
       DeadlinePasses
  <2> QED
    BY <1>3, <2>1, <2>2
<1>4. ASSUME NEW i \in Intents, NEW n \in Rows,
             RecoverExpired(i, n) \/ (ProviderResolves(i, n) /\ UNCHANGED <<storeVars, execVars>>)
      PROVE  UNCHANGED <<subscription, outbox>>
  BY <1>4 DEF RecoverExpired, storeVars
<1>5. ASSUME NEW w \in Workers, NEW i \in Intents, NEW n \in Rows, NEW seq, StartAttempt(w, i, n, seq)
      PROVE  UNCHANGED <<subscription, outbox>>
  BY <1>5 DEF StartAttempt
<1>6. ASSUME FindUnknown \/ \E i \in Intents : ScheduleIntent(i)
      PROVE  UNCHANGED <<subscription, outbox>>
  BY <1>6 DEF FindUnknown, ScheduleIntent, storeVars
<1> HIDE DEF Tells
<1>7. \/ UNCHANGED <<subscription, outbox>>
      \/ \E s \in Subscriptions : Tells(s)
  BY <1>1, <1>2, <1>3, <1>4, <1>5, <1>6 DEF Next, ExecutorNext
<1> QED
  BY <1>7 DEF Tells

\* RF-22: a subscription with a FAILED_FINAL intent is cancelled and has one event,
\* although an execution that stalled may overwrite what the sweeps made of its intent.
THEOREM ToldOnce == Spec => []CancellationIsToldOnce
<1>1. Init => CancellationIsToldOnce
  BY DEF Init, StoreInit, NoIntentRow, CancellationIsToldOnce
<1>2. ASSUME TypeOK, CancellationIsToldOnce, Next
      PROVE  CancellationIsToldOnce'
  <2>0. /\ subscription \in [Subscriptions -> SubscriptionStates]
        /\ outbox \in [Subscriptions -> Nat]
    BY <1>2 DEF TypeOK, StoreTypeOK
  <2>1. \A s \in Subscriptions :
            /\ subscription[s] = "CANCELLED" => subscription'[s] = "CANCELLED"
            /\ outbox'[s] = IF subscription'[s] = "CANCELLED" THEN 1 ELSE 0
    BY <1>2, <2>0, CancellationWrites DEF CancellationIsToldOnce
  <2>2. ASSUME NEW i \in Intents, intent'[i].status = "FAILED_FINAL"
        PROVE  subscription'[SubOf[i]] = "CANCELLED"
    <3>1. SubOf[i] \in Subscriptions
      BY StoreAssumption
    <3>2. CASE intent[i].status = "FAILED_FINAL"
      BY <1>2, <2>1, <3>1, <3>2 DEF CancellationIsToldOnce
    <3>3. ASSUME NEW w \in Workers, SettleAttempt(w), worker[w].intent = i,
                 worker[w].settlement = "FAILED_FINAL"
          PROVE  subscription'[SubOf[i]] = "CANCELLED"
      BY <2>0, <3>1, <3>3 DEF SettleAttempt, CancelWith
    <3> QED
      BY <1>2, <2>2, <3>2, <3>3, FinalStatusWrites
  <2> QED
    BY <2>1, <2>2 DEF CancellationIsToldOnce
<1>3. TypeOK /\ CancellationIsToldOnce /\ [Next]_vars => CancellationIsToldOnce'
  <2>1. UNCHANGED vars /\ CancellationIsToldOnce => CancellationIsToldOnce'
    BY DEF vars, storeVars, CancellationIsToldOnce
  <2> QED
    BY <1>2, <2>1
<1> QED
  BY <1>1, <1>3, TypeCorrect, PTL DEF Spec

\* Who is about to write SUCCEEDED was told so of the operation it writes it for.
ConfirmedInvariant ==
    /\ SucceededIsConfirmed
    /\ \A w \in Workers : worker[w].pc = "settle" /\ worker[w].settlement = "SUCCEEDED" =>
           provider[worker[w].intent][worker[w].row] = "CHARGED"
    /\ verdict = "SUCCEEDED" =>
           \E i \in Intents : IsCurrent(i) /\ provider[i][seen[i].row] = "CHARGED"

\* The provider does not go back on an operation it has charged.
LEMMA ChargedStays ==
  ASSUME TypeOK, Next, NEW i \in Intents, NEW n \in Rows, provider[i][n] = "CHARGED"
  PROVE  provider'[i][n] = "CHARGED"
<1>0. provider \in [Intents -> [Rows -> ProviderStates]]
  BY DEF TypeOK, ProviderTypeOK
<1>1. ASSUME NEW j \in Intents, NEW m \in Rows, NEW p, provider[j][m] # "CHARGED" \/ p = "CHARGED",
             provider' = [provider EXCEPT ![j][m] = p]
      PROVE  provider'[i][n] = "CHARGED"
  BY <1>0, <1>1
<1>2. ASSUME NEW j \in Intents, NEW m \in Rows, NEW v, VerifyCall(j, m, v)
      PROVE  provider'[i][n] = "CHARGED"
  BY <1>1, <1>2 DEF VerifyCall
<1>3. ASSUME NEW w \in Workers, ExecutionStep(w) \/ ExecutionDies(w)
      PROVE  provider'[i][n] = "CHARGED"
  <2>1. ASSUME NEW o \in ChargeOutcomes, Charge(w, o)
        PROVE  provider'[i][n] = "CHARGED"
    <3>1. worker[w].intent \in Intents /\ worker[w].row \in Rows
      BY <2>1 DEF Charge, TypeOK
    <3>2. Recorded(o) # "NONE"
      BY DEF Recorded
    <3> QED
      BY <1>1, <2>1, <3>1, <3>2 DEF Charge, ChargeCall
  <2>2. ASSUME NEW v \in Verdicts, Verify(w, v)
        PROVE  provider'[i][n] = "CHARGED"
    <3>1. worker[w].intent \in Intents /\ worker[w].row \in Rows
      BY <2>2 DEF Verify, TypeOK
    <3> QED
      BY <1>2, <2>2, <3>1 DEF Verify
  <2>3. CASE Settlement(w) \/ ExecutionDies(w)
    BY <2>3 DEF Settlement, SettleAttempt, SettlementRolledBack, ExecutionDies
  <2> QED
    BY <1>3, <2>1, <2>2, <2>3 DEF ExecutionStep
<1>4. ASSUME NEW j \in Intents, SweepStep(j) \/ SweepAborts(j) \/ TimeStep(j)
      PROVE  provider'[i][n] = "CHARGED"
  <2>1. ASSUME NEW v \in Verdicts, SweepVerifies(j, v)
        PROVE  provider'[i][n] = "CHARGED"
    <3>1. seen[j].row \in Rows
      BY <2>1 DEF SweepVerifies, IsCurrent, Todo, TypeOK, Candidate
    <3> QED
      BY <1>2, <2>1, <3>1 DEF SweepVerifies
  <2>2. CASE \/ SweepThrows(j) \/ SweepAborts(j) \/ SweepEscalates(j)
             \/ SweepKeepsUnknown(j) \/ SweepSettles(j)
    BY <2>2 DEF SweepThrows, SweepAborts, AbandonSweep, SweepEscalates, SweepKeepsUnknown,
       SweepSettles, NextCandidate
  <2>3. CASE TimeStep(j)
    BY <2>3 DEF TimeStep, BackoffElapses, CadenceElapses, UnknownWindowElapses, SetIntent,
       DeadlinePasses
  <2> QED
    BY <1>4, <2>1, <2>2, <2>3 DEF SweepStep
<1>5. ASSUME NEW j \in Intents, NEW m \in Rows, RecoverExpired(j, m) \/ ProviderResolves(j, m)
      PROVE  provider'[i][n] = "CHARGED"
  BY <1>1, <1>5 DEF RecoverExpired, ProviderResolves
<1>6. ASSUME FindUnknown \/ UNCHANGED provider
      PROVE  provider'[i][n] = "CHARGED"
  BY <1>6 DEF FindUnknown
<1>7. ASSUME NEW w \in Workers, NEW j \in Intents, NEW m \in Rows, NEW seq, StartAttempt(w, j, m, seq)
      PROVE  provider'[i][n] = "CHARGED"
  BY <1>7 DEF StartAttempt
<1> QED
  BY <1>3, <1>4, <1>5, <1>6, <1>7 DEF Next, ExecutorNext

\* A settlement that has just been decided on rests on the answer of verify().
LEMMA WorkersConfirm ==
  ASSUME TypeOK, ConfirmedInvariant, Next, NEW w \in Workers,
         worker'[w].pc = "settle", worker'[w].settlement = "SUCCEEDED"
  PROVE  provider'[worker'[w].intent][worker'[w].row] = "CHARGED"
<1>0. /\ worker \in [Workers -> WorkerState]
      /\ \A u \in Workers : worker[u].pc # "idle" => worker[u].intent \in Intents /\ worker[u].row \in Rows
  BY DEF TypeOK
<1>1. CASE worker'[w] = worker[w]
  BY <1>0, <1>1, ChargedStays DEF ConfirmedInvariant
<1>2. ASSUME NEW u \in Workers, NEW v \in Verdicts, Verify(u, v), u = w
      PROVE  provider'[worker'[w].intent][worker'[w].row] = "CHARGED"
  <2>1. worker'[w] = [worker[w] EXCEPT !.pc = "settle",
                        !.settlement = SettlementFor(v, worker[w].outcome, worker[w].seq)]
    BY <1>0, <1>2 DEF Verify
  <2>2. /\ worker'[w].intent = worker[w].intent /\ worker'[w].row = worker[w].row
        /\ worker'[w].settlement = SettlementFor(v, worker[w].outcome, worker[w].seq)
    BY <1>0, <2>1 DEF WorkerState
  <2>3. v = "SUCCEEDED"
    BY <2>2 DEF SettlementFor, DecideRetry
  <2> QED
    BY <1>2, <2>2, <2>3 DEF Verify, VerifyCall
<1>3. ASSUME NEW u \in Workers, ExecutionStep(u) \/ ExecutionDies(u)
      PROVE  \/ worker'[w] = worker[w]
             \/ worker'[w].pc # "settle"
             \/ \E v \in Verdicts : Verify(u, v) /\ u = w
  <2>1. ASSUME NEW o \in ChargeOutcomes, Charge(u, o)
        PROVE  worker'[w] = worker[w] \/ worker'[w].pc # "settle"
    BY <1>0, <2>1 DEF Charge, WorkerState
  <2>2. ASSUME NEW v \in Verdicts, Verify(u, v)
        PROVE  worker'[w] = worker[w] \/ u = w
    BY <1>0, <2>2 DEF Verify
  <2>3. CASE Settlement(u) \/ ExecutionDies(u)
    BY <1>0, <2>3 DEF Settlement, SettleAttempt, SettlementRolledBack, ExecutionDies, Idle
  <2> QED
    BY <1>3, <2>1, <2>2, <2>3 DEF ExecutionStep
<1>4. ASSUME NEW u \in Workers, NEW j \in Intents, NEW m \in Rows, NEW seq, StartAttempt(u, j, m, seq)
      PROVE  worker'[w] = worker[w] \/ worker'[w].pc # "settle"
  BY <1>0, <1>4 DEF StartAttempt, Idle
<1>5. ASSUME NEW j \in Intents, SweepStep(j) \/ SweepAborts(j) \/ TimeStep(j)
      PROVE  worker' = worker
  <2>1. CASE SweepStep(j) \/ SweepAborts(j)
    BY <2>1 DEF SweepStep, SweepThrows, SweepAborts, AbandonSweep, SweepEscalates,
       SweepVerifies, SweepKeepsUnknown, SweepSettles, NextCandidate
  <2>2. CASE TimeStep(j)
    BY <2>2 DEF TimeStep, BackoffElapses, CadenceElapses, UnknownWindowElapses, SetIntent,
       DeadlinePasses, execVars
  <2> QED
    BY <1>5, <2>1, <2>2
<1>6. ASSUME \/ FindUnknown \/ UNCHANGED execVars
             \/ \E j \in Intents, m \in Rows : RecoverExpired(j, m)
      PROVE  worker' = worker
  BY <1>6 DEF FindUnknown, RecoverExpired, execVars
<1> QED
  BY <1>1, <1>2, <1>3, <1>4, <1>5, <1>6 DEF Next, ExecutorNext

\* The sweep's answer is about the candidate it is at until it has used it.
LEMMA SweepConfirms ==
  ASSUME TypeOK, ConfirmedInvariant, Next, verdict' = "SUCCEEDED"
  PROVE  \E i \in Intents : IsCurrent(i)' /\ provider'[i][seen'[i].row] = "CHARGED"
<1>1. CASE seen' = seen /\ verdict' = verdict
  <2>1. PICK i \in Intents : IsCurrent(i) /\ provider[i][seen[i].row] = "CHARGED"
    BY <1>1 DEF ConfirmedInvariant
  <2>2. seen[i].row \in Rows
    BY <2>1 DEF IsCurrent, Todo, TypeOK, Candidate
  <2>3. IsCurrent(i)'
    BY <1>1, <2>1 DEF IsCurrent, Todo
  <2> QED
    BY <1>1, <2>1, <2>2, <2>3, ChargedStays
<1>2. ASSUME NEW i \in Intents, NEW v \in Verdicts, SweepVerifies(i, v)
      PROVE  IsCurrent(i)' /\ provider'[i][seen'[i].row] = "CHARGED"
  BY <1>2 DEF SweepVerifies, VerifyCall, IsCurrent, Todo
<1>3. ASSUME NEW i \in Intents, SweepAborts(i) \/ SweepStep(i)
      PROVE  \E v \in Verdicts : SweepVerifies(i, v)
  BY <1>3 DEF SweepStep, SweepThrows, SweepAborts, AbandonSweep, SweepEscalates,
     SweepKeepsUnknown, SweepSettles, NextCandidate
<1>4. ASSUME FindUnknown
      PROVE  FALSE
  BY <1>4 DEF FindUnknown, ConfirmedInvariant, IsCurrent
<1>5. ASSUME NEW w \in Workers, ExecutionStep(w) \/ ExecutionDies(w)
      PROVE  seen' = seen /\ verdict' = verdict
  BY <1>5 DEF ExecutionStep, Settlement, Charge, Verify, SettleAttempt, SettlementRolledBack,
     ExecutionDies
<1>6. ASSUME NEW w \in Workers, NEW j \in Intents, NEW m \in Rows, NEW seq, StartAttempt(w, j, m, seq)
      PROVE  seen' = seen /\ verdict' = verdict
  BY <1>6 DEF StartAttempt
<1>7. ASSUME \/ UNCHANGED execVars \/ \E j \in Intents : TimeStep(j)
             \/ \E j \in Intents, m \in Rows : RecoverExpired(j, m)
      PROVE  seen' = seen /\ verdict' = verdict
  BY <1>7 DEF TimeStep, BackoffElapses, CadenceElapses, UnknownWindowElapses, SetIntent,
     DeadlinePasses, RecoverExpired, execVars
<1> QED
  BY <1>1, <1>2, <1>3, <1>4, <1>5, <1>6, <1>7 DEF Next, ExecutorNext

\* RF-15: no intent is called paid unless the provider accepted an operation of it,
\* although late settlements may overwrite what the sweeps wrote.
THEOREM SuccessNeedsConfirmation == Spec => []SucceededIsConfirmed
<1>1. Init => ConfirmedInvariant
  BY DEF Init, StoreInit, NoIntentRow, Idle, ConfirmedInvariant, SucceededIsConfirmed
<1>2. ASSUME TypeOK, ConfirmedInvariant, Next
      PROVE  ConfirmedInvariant'
  <2>1. ASSUME NEW i \in Intents, intent'[i].status = "SUCCEEDED"
        PROVE  \E n \in Rows : provider'[i][n] = "CHARGED"
    <3>1. SUFFICES \E n \in Rows : provider[i][n] = "CHARGED"
      BY <1>2, ChargedStays
    <3>2. CASE intent[i].status = "SUCCEEDED"
      BY <1>2, <3>2 DEF ConfirmedInvariant, SucceededIsConfirmed
    <3>3. ASSUME NEW w \in Workers, SettleAttempt(w), worker[w].intent = i,
                 worker[w].settlement = "SUCCEEDED"
          PROVE  \E n \in Rows : provider[i][n] = "CHARGED"
      BY <1>2, <3>3 DEF ConfirmedInvariant, SettleAttempt, TypeOK
    <3>4. ASSUME SweepSettles(i), verdict = "SUCCEEDED"
          PROVE  \E n \in Rows : provider[i][n] = "CHARGED"
      <4>1. PICK j \in Intents : IsCurrent(j) /\ provider[j][seen[j].row] = "CHARGED"
        BY <1>2, <3>4 DEF ConfirmedInvariant
      <4>2. IsCurrent(i)
        BY <3>4 DEF SweepSettles
      <4>3. i \in Nat /\ j \in Nat /\ i <= j /\ j <= i
        BY <4>1, <4>2, StoreAssumption DEF IsCurrent, Todo
      <4>4. i = j
        BY <4>3
      <4> QED
        BY <1>2, <4>1, <4>4 DEF IsCurrent, Todo, TypeOK, Candidate
    <3> QED
      BY <1>2, <2>1, <3>2, <3>3, <3>4, FinalStatusWrites
  <2> QED
    BY <1>2, <2>1, WorkersConfirm, SweepConfirms DEF ConfirmedInvariant, SucceededIsConfirmed
<1>3. TypeOK /\ ConfirmedInvariant /\ [Next]_vars => ConfirmedInvariant'
  <2>1. UNCHANGED vars /\ ConfirmedInvariant => ConfirmedInvariant'
    BY DEF vars, storeVars, execVars, ConfirmedInvariant, SucceededIsConfirmed, IsCurrent, Todo
  <2> QED
    BY <1>2, <2>1
<1>4. ConfirmedInvariant => SucceededIsConfirmed
  BY DEF ConfirmedInvariant
<1> QED
  BY <1>1, <1>3, <1>4, TypeCorrect, PTL DEF Spec

-----------------------------------------------------------------------------
(***************************************************************************)
(* A billing intent is charged at most once when executions do not outlive  *)
(* the deadlines of their attempts.                                         *)
(*                                                                          *)
(* The argument: an intent is reopened for a charge only when the provider  *)
(* has rejected every operation so far, so only its last operation can be   *)
(* in doubt (OpenIsLast). That needs that whoever reopens it decided from a *)
(* verdict about that last operation: an execution does, because it still   *)
(* owns the attempt (ExecutionOwnsAttempt), and the verification sweep      *)
(* does, because nobody else reopens an UNKNOWN intent (SweepIsCurrent).    *)
(***************************************************************************)

LEMMA InitInvariant == Init => ChargeInvariant
  BY DEF Init, StoreInit, ProviderInit, ChargeInvariant, OperationsAreRecorded, RowsInOrder,
     OpenIsLast, ReopenedOnlyAfterRejection, InFlightAgrees, UnknownIsLast,
     ExecutionOwnsAttempt, ExecutionKnowsOutcome, SweepIsCurrent, MayCharge, Present,
     NoIntentRow, NoAttemptRow, Idle, Todo, NoCandidates, NoCandidate

\* An intent has one last attempt.
LEMMA LastIsUnique ==
  ASSUME NEW i \in Intents, NEW m \in Rows, NEW n \in Rows, IsLast(i, m), Present(i, n), n >= m
  PROVE  m = n
  BY RowsAreNat DEF IsLast

\* Nothing that the invariant looks at in the tables and the executions changes.
LEMMA FrameInvariant ==
  ASSUME ChargeInvariant, UNCHANGED <<attempt, provider, worker>>,
         \A j \in Intents : intent'[j].status = intent[j].status,
         \A v \in Workers : worker[v].pc # "idle" => worker[v].intent \in Intents,
         SweepIsCurrent'
  PROVE  ChargeInvariant'
<1>1. OperationsAreRecorded' /\ RowsInOrder' /\ OpenIsLast'
  BY DEF ChargeInvariant, OperationsAreRecorded, RowsInOrder, OpenIsLast, MayCharge, IsLast, Present
<1>2. ReopenedOnlyAfterRejection' /\ InFlightAgrees' /\ UnknownIsLast'
  BY DEF ChargeInvariant, ReopenedOnlyAfterRejection, InFlightAgrees, UnknownIsLast, MayCharge,
     IsLast, Present
<1>3. ExecutionOwnsAttempt' /\ ExecutionKnowsOutcome'
  BY DEF ChargeInvariant, ExecutionOwnsAttempt, ExecutionKnowsOutcome
<1> QED
  BY <1>1, <1>2, <1>3 DEF ChargeInvariant

\* A new attempt is the only operation of its intent that is not rejected.
LEMMA NewAttemptInvariant ==
  ASSUME TypeOK, ChargeInvariant, NEW w \in Workers, NEW i \in Intents, NEW n \in Rows,
         StoreTypeOK',
         IsNextRow(i, n), NoInFlightAttempt(i), i \notin Todo,
         \A m \in Rows : ~MayCharge(i, m),
         attempt'[i][n].status = "IN_FLIGHT", ~attempt'[i][n].overdue,
         \A m \in Rows \ {n} : attempt'[i][m] = attempt[i][m],
         \A j \in Intents \ {i} : attempt'[j] = attempt[j],
         intent'[i].status = "IN_FLIGHT",
         \A j \in Intents \ {i} : intent'[j] = intent[j],
         worker'[w].pc = "charge", worker'[w].intent = i, worker'[w].row = n,
         \A v \in Workers \ {w} : worker'[v] = worker[v],
         UNCHANGED <<provider, seen, verdict>>
  PROVE  ChargeInvariant'
<1>1. /\ attempt' \in [Intents -> [Rows -> AttemptRow]]
      /\ attempt'[i][n].status = "IN_FLIGHT" /\ ~attempt'[i][n].overdue
      /\ \A m \in Rows \ {n} : attempt'[i][m] = attempt[i][m]
      /\ \A j \in Intents \ {i} : attempt'[j] = attempt[j]
  BY DEF StoreTypeOK
<1>2. /\ intent'[i].status = "IN_FLIGHT"
      /\ \A j \in Intents \ {i} : intent'[j] = intent[j]
  OBVIOUS
<1>3. /\ worker'[w].pc = "charge" /\ worker'[w].intent = i /\ worker'[w].row = n
      /\ \A v \in Workers \ {w} : worker'[v] = worker[v]
  OBVIOUS
<1>4. provider' = provider /\ seen' = seen /\ verdict' = verdict
  OBVIOUS
<1>5. ~Present(i, n) /\ intent[i].status # "IN_FLIGHT"
  BY DEF IsNextRow, NoInFlightAttempt, ChargeInvariant, InFlightAgrees
<1>6. \A m \in Rows : /\ m < n => Present(i, m)
                      /\ m > n => ~Present(i, m)
  BY <1>5, RowsAreNat DEF IsNextRow, ChargeInvariant, RowsInOrder, Rows
<1>7. \A m \in Rows : ~MayCharge(i, m)
  OBVIOUS
<1>8. \A m \in Rows : attempt[i][m].status # "IN_FLIGHT"
  BY DEF NoInFlightAttempt
<1>9. OperationsAreRecorded'
  BY <1>1, <1>4 DEF ChargeInvariant, OperationsAreRecorded, Present
<1>10. RowsInOrder'
  <2> SUFFICES ASSUME NEW j \in Intents, NEW k \in Rows, Present(j, k)', NEW m \in 1 .. (k - 1)
               PROVE  Present(j, m)'
    BY DEF RowsInOrder
  <2>1. m \in Rows /\ m < k
    <3>1. k \in Nat /\ m \in 1 .. (k - 1) /\ k <= MaxAttempts + MaxManual
      BY DEF Rows
    <3> QED
      BY <3>1, StoreAssumption DEF Rows
  <2>2. CASE j = i
    <3>1. k \in Nat /\ n \in Nat
      BY RowsAreNat
    <3>2. k > n => attempt'[i][k] = attempt[i][k]
      BY <1>1, <3>1
    <3>3. k <= n
      BY <1>6, <2>2, <3>1, <3>2 DEF Present
    <3>4. m < n
      BY <2>1, <3>1, <3>3, RowsAreNat
    <3> QED
      BY <1>1, <1>6, <2>1, <2>2, <3>4 DEF Present
  <2>3. CASE j # i
    BY <1>1, <2>3 DEF ChargeInvariant, RowsInOrder, Present
  <2> QED
    BY <2>2, <2>3
<1>11. OpenIsLast'
  BY <1>1, <1>4, <1>6, <1>7 DEF ChargeInvariant, OpenIsLast, MayCharge, IsLast, Present
<1>12. ReopenedOnlyAfterRejection'
  BY <1>1, <1>2, <1>4 DEF ChargeInvariant, ReopenedOnlyAfterRejection, MayCharge, Present
<1>13. InFlightAgrees'
  BY <1>1, <1>2, <1>6, <1>8 DEF ChargeInvariant, InFlightAgrees, IsLast, Present
<1>14. UnknownIsLast'
  BY <1>1, <1>2 DEF ChargeInvariant, UnknownIsLast, IsLast, Present
<1>15. \A v \in Workers \ {w} : worker[v].pc # "idle" =>
          worker[v].intent \in Intents \ {i} /\ worker[v].row \in Rows
  BY <1>5 DEF ChargeInvariant, ExecutionOwnsAttempt, TypeOK
<1>16. ExecutionOwnsAttempt'
  BY <1>1, <1>2, <1>3, <1>15 DEF ChargeInvariant, ExecutionOwnsAttempt
<1>17. ExecutionKnowsOutcome'
  BY <1>1, <1>3, <1>4, <1>15 DEF ChargeInvariant, ExecutionKnowsOutcome
<1>18. SweepIsCurrent'
  BY <1>1, <1>2, <1>4, <1>5
     DEF ChargeInvariant, SweepIsCurrent, Todo, IsCurrent, VerdictHolds, IsLast, Present
<1> QED
  BY <1>9, <1>10, <1>11, <1>12, <1>13, <1>14, <1>16, <1>17, <1>18 DEF ChargeInvariant

LEMMA StartAttemptInvariant ==
  ASSUME TypeOK, ChargeInvariant, NEW w \in Workers, NEW i \in Intents, NEW n \in Rows,
         NEW seq \in 1 .. (MaxAttempts + 1), StartAttempt(w, i, n, seq)
  PROVE  ChargeInvariant'
<1>1. StoreTypeOK'
  BY StepTypeOK DEF Next, ExecutorNext, TypeOK
<1>2. /\ attempt'[i][n].status = "IN_FLIGHT" /\ ~attempt'[i][n].overdue
      /\ \A m \in Rows \ {n} : attempt'[i][m] = attempt[i][m]
      /\ \A j \in Intents \ {i} : attempt'[j] = attempt[j]
  BY DEF StartAttempt, TypeOK, StoreTypeOK
<1>3. /\ intent'[i].status = "IN_FLIGHT"
      /\ \A j \in Intents \ {i} : intent'[j] = intent[j]
  BY DEF StartAttempt, TypeOK, StoreTypeOK, IntentRow
<1>4. /\ worker'[w].pc = "charge" /\ worker'[w].intent = i /\ worker'[w].row = n
      /\ \A v \in Workers \ {w} : worker'[v] = worker[v]
  BY DEF StartAttempt, TypeOK, Idle
<1>5. UNCHANGED <<provider, seen, verdict>> /\ IsNextRow(i, n) /\ NoInFlightAttempt(i)
  BY DEF StartAttempt
<1>6. intent[i].status \in {"SCHEDULED", "RETRY_PENDING"}
  BY DEF StartAttempt, Chargeable
<1>7. i \notin Todo /\ \A m \in Rows : ~MayCharge(i, m)
  BY <1>6 DEF ChargeInvariant, SweepIsCurrent, ReopenedOnlyAfterRejection
<1> QED
  BY <1>1, <1>2, <1>3, <1>4, <1>5, <1>7, NewAttemptInvariant

\* What the provider settled stays settled, and it hears only of operations
\* that are recorded.
ProviderAdvances ==
  /\ \A j \in Intents : \A m \in Rows :
        /\ provider[j][m] \in {"CHARGED", "REJECTED"} => provider'[j][m] = provider[j][m]
        /\ ~Present(j, m) => provider'[j][m] = provider[j][m]
  /\ UNCHANGED <<intent, attempt>>

\* When the provider advances, what the tables rest on still holds.
LEMMA ProviderAdvancesInvariant ==
  ASSUME ChargeInvariant, ProviderAdvances
  PROVE  /\ OperationsAreRecorded' /\ RowsInOrder' /\ OpenIsLast'
         /\ ReopenedOnlyAfterRejection' /\ InFlightAgrees' /\ UnknownIsLast'
<1>1. \A j \in Intents : \A m \in Rows : MayCharge(j, m)' => MayCharge(j, m)
  BY DEF ProviderAdvances, MayCharge, Present
<1>2. OperationsAreRecorded' /\ RowsInOrder' /\ UnknownIsLast'
  BY DEF ProviderAdvances, ChargeInvariant, OperationsAreRecorded, RowsInOrder, UnknownIsLast,
     IsLast, Present
<1>3. OpenIsLast' /\ ReopenedOnlyAfterRejection' /\ InFlightAgrees'
  BY <1>1 DEF ProviderAdvances, ChargeInvariant, OpenIsLast, ReopenedOnlyAfterRejection,
     InFlightAgrees, IsLast, Present
<1> QED
  BY <1>2, <1>3

\* ... and so do the verdicts that were given before.
LEMMA ProviderAdvancesSweep ==
  ASSUME TypeOK, ChargeInvariant, ProviderAdvances, UNCHANGED <<seen, verdict>>
  PROVE  SweepIsCurrent'
  BY TypeFacts DEF ProviderAdvances, ChargeInvariant, SweepIsCurrent, Todo, IsCurrent,
     VerdictHolds, IsLast, Present, Candidate

LEMMA ProviderAdvancesExecutions ==
  ASSUME TypeOK, ChargeInvariant, ProviderAdvances, UNCHANGED worker
  PROVE  ExecutionOwnsAttempt' /\ ExecutionKnowsOutcome'
  BY DEF ProviderAdvances, ChargeInvariant, ExecutionOwnsAttempt, ExecutionKnowsOutcome, TypeOK

\* charge, verify and the provider itself advance it.
LEMMA ChargeAdvances ==
  ASSUME TypeOK, NEW i \in Intents, NEW n \in Rows, NEW o, Present(i, n), ChargeCall(i, n, o),
         UNCHANGED <<intent, attempt>>
  PROVE  ProviderAdvances
  BY DEF ChargeCall, Recorded, ProviderAdvances, TypeOK, ProviderTypeOK

LEMMA VerifyAdvances ==
  ASSUME TypeOK, NEW i \in Intents, NEW n \in Rows, NEW v, Present(i, n), VerifyCall(i, n, v),
         UNCHANGED <<intent, attempt>>
  PROVE  /\ ProviderAdvances
         /\ v = "SUCCEEDED" => provider'[i][n] = "CHARGED"
         /\ v = "FAILED" => provider'[i][n] = "REJECTED"
  BY DEF VerifyCall, ProviderAdvances, TypeOK, ProviderTypeOK

LEMMA ResolveAdvances ==
  ASSUME TypeOK, OperationsAreRecorded, NEW i \in Intents, NEW n \in Rows,
         ProviderResolves(i, n), UNCHANGED <<intent, attempt>>
  PROVE  ProviderAdvances
  BY DEF ProviderResolves, OperationsAreRecorded, ProviderAdvances, TypeOK, ProviderTypeOK

LEMMA ChargeStepInvariant ==
  ASSUME TypeOK, ChargeInvariant, NEW w \in Workers, NEW o \in ChargeOutcomes, Charge(w, o)
  PROVE  ChargeInvariant'
<1> DEFINE i == worker[w].intent
           n == worker[w].row
<1>1. i \in Intents /\ n \in Rows /\ worker[w].pc = "charge"
  BY DEF Charge, TypeOK
<1>2. /\ intent' = intent /\ attempt' = attempt /\ seen' = seen /\ verdict' = verdict
      /\ worker'[w].pc = "verify" /\ worker'[w].intent = i /\ worker'[w].row = n
      /\ \A v \in Workers \ {w} : worker'[v] = worker[v]
  BY <1>1 DEF Charge, storeVars, TypeOK, WorkerState
<1>3. Present(i, n)
  BY <1>1 DEF ChargeInvariant, ExecutionOwnsAttempt, Present
<1>4. ProviderAdvances
  BY <1>1, <1>2, <1>3, ChargeAdvances DEF Charge
<1>5. ExecutionOwnsAttempt'
  BY <1>1, <1>2 DEF ChargeInvariant, ExecutionOwnsAttempt
<1>6. ExecutionKnowsOutcome'
  BY <1>1, <1>2, <1>4 DEF ChargeInvariant, ExecutionKnowsOutcome, ProviderAdvances, TypeOK
<1> QED
  BY <1>2, <1>4, <1>5, <1>6, ProviderAdvancesInvariant, ProviderAdvancesSweep DEF ChargeInvariant

\* An execution that learns the verdict v decides on an s that v bears out.
LEMMA AnswerInvariant ==
  ASSUME TypeOK, ChargeInvariant, NEW w \in Workers, NEW v, NEW s \in Settlements,
         worker[w].pc = "verify",
         VerifyCall(worker[w].intent, worker[w].row, v),
         worker' = [worker EXCEPT ![w].pc = "settle", ![w].settlement = s],
         UNCHANGED <<storeVars, seen, verdict>>,
         s = "SUCCEEDED" => v = "SUCCEEDED",
         s \in {"RETRY_PENDING", "FAILED_FINAL"} => v = "FAILED"
  PROVE  ChargeInvariant'
<1> DEFINE i == worker[w].intent
           n == worker[w].row
<1>1. i \in Intents /\ n \in Rows
  BY DEF TypeOK
<1>2. /\ intent' = intent /\ attempt' = attempt /\ seen' = seen /\ verdict' = verdict
      /\ worker'[w].pc = "settle" /\ worker'[w].intent = i /\ worker'[w].row = n
      /\ worker'[w].settlement = s
      /\ \A u \in Workers \ {w} : worker'[u] = worker[u]
  BY <1>1 DEF storeVars, TypeOK, WorkerState
<1>3. Present(i, n)
  BY <1>1 DEF ChargeInvariant, ExecutionOwnsAttempt, Present
<1>4. /\ ProviderAdvances
      /\ v = "SUCCEEDED" => provider'[i][n] = "CHARGED"
      /\ v = "FAILED" => provider'[i][n] = "REJECTED"
  BY <1>1, <1>2, <1>3, VerifyAdvances
<1>5. ExecutionOwnsAttempt'
  <2>1. \A u \in Workers : /\ worker'[u].pc # "idle" <=> worker[u].pc # "idle"
                           /\ worker'[u].intent = worker[u].intent
                           /\ worker'[u].row = worker[u].row
    BY <1>2
  <2>2. ExecutionOwnsAttempt /\ intent' = intent /\ attempt' = attempt
    BY <1>2 DEF ChargeInvariant
  <2> QED
    BY ONLY <2>1, <2>2 DEF ExecutionOwnsAttempt
<1>6. /\ s = "SUCCEEDED" => provider'[i][n] = "CHARGED"
      /\ s \in {"RETRY_PENDING", "FAILED_FINAL"} => provider'[i][n] = "REJECTED"
  BY <1>4
<1>7. ExecutionKnowsOutcome'
  BY <1>1, <1>2, <1>4, <1>6 DEF ChargeInvariant, ExecutionKnowsOutcome, ProviderAdvances, TypeOK
<1> QED
  BY <1>2, <1>4, <1>5, <1>7, ProviderAdvancesInvariant, ProviderAdvancesSweep DEF ChargeInvariant

LEMMA VerifyStepInvariant ==
  ASSUME TypeOK, ChargeInvariant, NEW w \in Workers, NEW v \in Verdicts, Verify(w, v)
  PROVE  ChargeInvariant'
<1> DEFINE s == SettlementFor(v, worker[w].outcome, worker[w].seq)
<1>1. /\ s \in Settlements
      /\ s = "SUCCEEDED" => v = "SUCCEEDED"
      /\ s \in {"RETRY_PENDING", "FAILED_FINAL"} => v = "FAILED"
  <2>1. DecideRetry(worker[w].outcome, worker[w].seq) \in {"RETRY_PENDING", "FAILED_FINAL"}
    BY DEF DecideRetry
  <2> QED
    BY <2>1 DEF SettlementFor, Settlements
<1>2. /\ worker[w].pc = "verify"
      /\ VerifyCall(worker[w].intent, worker[w].row, v)
      /\ worker' = [worker EXCEPT ![w].pc = "settle", ![w].settlement = s]
      /\ UNCHANGED <<storeVars, seen, verdict>>
  BY DEF Verify
<1> HIDE DEF s
<1> QED
  BY <1>1, <1>2, AnswerInvariant

\* The running attempt of an intent ends, by a settlement or by the recovery
\* sweep; the executions that go on are those of other intents.
LEMMA EndAttemptInvariant ==
  ASSUME TypeOK, ChargeInvariant, NEW i \in Intents, NEW n \in Rows,
         attempt[i][n].status = "IN_FLIGHT",
         attempt'[i][n].status \in {"SUCCEEDED", "FAILED", "UNKNOWN"},
         \A m \in Rows \ {n} : attempt'[i][m] = attempt[i][m],
         \A j \in Intents \ {i} : attempt'[j] = attempt[j],
         intent'[i].status \in Settlements,
         intent'[i].status = "UNKNOWN" => attempt'[i][n].status = "UNKNOWN",
         intent'[i].status \in {"RETRY_PENDING", "FAILED_FINAL"} => provider[i][n] = "REJECTED",
         \A j \in Intents \ {i} :
            \/ intent'[j].status = intent[j].status
            \/ intent[j].status \in OmittableStates /\ intent'[j].status = "OMITTED",
         UNCHANGED <<provider, seen, verdict>>,
         \A v \in Workers : worker'[v].pc # "idle" =>
            worker'[v] = worker[v] /\ worker[v].intent # i
  PROVE  ChargeInvariant'
<1>1. \A j \in Intents : \A m \in Rows : /\ Present(j, m)' <=> Present(j, m)
                                         /\ MayCharge(j, m)' <=> MayCharge(j, m)
                                         /\ IsLast(j, m)' <=> IsLast(j, m)
  <2>1. \A j \in Intents : \A m \in Rows : Present(j, m)' <=> Present(j, m)
    BY DEF Present
  <2> QED
    BY <2>1 DEF MayCharge, IsLast
<1>2. IsLast(i, n) /\ \A m \in Rows \ {n} : attempt[i][m].status # "IN_FLIGHT" /\ ~IsLast(i, m)
  <2>1. \A m \in Rows : attempt[i][m].status = "IN_FLIGHT" => IsLast(i, m)
    BY DEF ChargeInvariant, InFlightAgrees
  <2>2. \A m \in Rows : IsLast(i, m) => m = n
    BY <2>1, RowsAreNat DEF IsLast
  <2> QED
    BY <2>1, <2>2
<1>3. OperationsAreRecorded' /\ OpenIsLast'
  BY <1>1 DEF ChargeInvariant, OperationsAreRecorded, OpenIsLast
<1>4. RowsInOrder'
  <2>1. \A k \in Rows : 1 .. (k - 1) \subseteq Rows
    BY StoreAssumption DEF Rows
  <2> QED
    BY <1>1, <2>1 DEF ChargeInvariant, RowsInOrder
<1>5. ReopenedOnlyAfterRejection'
  <2> SUFFICES ASSUME NEW j \in Intents, NEW m \in Rows, MayCharge(j, m),
                      intent'[j].status \notin {"IN_FLIGHT", "UNKNOWN", "SUCCEEDED"}
               PROVE  FALSE
    BY <1>1 DEF ReopenedOnlyAfterRejection
  <2>1. CASE j = i
    <3>1. m = n
      BY <1>2, <2>1 DEF ChargeInvariant, OpenIsLast
    <3> QED
      BY <2>1, <3>1 DEF MayCharge, Settlements
  <2>2. CASE j # i
    BY <2>2 DEF ChargeInvariant, ReopenedOnlyAfterRejection, OmittableStates
  <2> QED
    BY <2>1, <2>2
<1>6. InFlightAgrees'
  <2> SUFFICES ASSUME NEW j \in Intents
               PROVE  /\ (intent'[j].status = "IN_FLIGHT") <=>
                             (\E m \in Rows : attempt'[j][m].status = "IN_FLIGHT")
                      /\ \A m \in Rows : attempt'[j][m].status = "IN_FLIGHT" => IsLast(j, m)
    BY <1>1 DEF InFlightAgrees
  <2>1. CASE j = i
    BY <1>2, <2>1 DEF Settlements
  <2>2. CASE j # i
    BY <2>2 DEF ChargeInvariant, InFlightAgrees, OmittableStates
  <2> QED
    BY <2>1, <2>2
<1>7. UnknownIsLast'
  <2> SUFFICES ASSUME NEW j \in Intents, intent'[j].status = "UNKNOWN"
               PROVE  \E m \in Rows : attempt'[j][m].status = "UNKNOWN" /\ IsLast(j, m)
    BY <1>1 DEF UnknownIsLast
  <2>1. CASE j = i
    BY <1>2, <2>1
  <2>2. CASE j # i
    BY <2>2 DEF ChargeInvariant, UnknownIsLast
  <2> QED
    BY <2>1, <2>2
<1>8. \A v \in Workers : worker'[v].pc # "idle" =>
          worker[v].intent \in Intents \ {i} /\ worker[v].row \in Rows
  BY DEF TypeOK
<1>9. ExecutionOwnsAttempt'
  BY <1>8 DEF ChargeInvariant, ExecutionOwnsAttempt, OmittableStates
<1>10. ExecutionKnowsOutcome'
  BY <1>8 DEF ChargeInvariant, ExecutionKnowsOutcome
<1>11. intent[i].status = "IN_FLIGHT"
  BY DEF ChargeInvariant, InFlightAgrees
<1>12. SweepIsCurrent'
  <2>1. Todo' = Todo /\ \A j \in Todo : j \in Intents /\ j # i /\ seen[j].row \in Rows
    BY <1>11, TypeFacts DEF ChargeInvariant, SweepIsCurrent, Todo, Candidate
  <2>2. \A j \in Todo : /\ intent'[j].status \in {"UNKNOWN", "SUCCEEDED"}
                        /\ IsLast(j, seen[j].row)'
    BY <1>1, <2>1 DEF ChargeInvariant, SweepIsCurrent, OmittableStates
  <2>3. \A j \in Todo : /\ IsCurrent(j)' <=> IsCurrent(j)
                        /\ VerdictHolds(j, seen[j].row, verdict)' <=>
                             VerdictHolds(j, seen[j].row, verdict)
    BY <2>1 DEF IsCurrent, VerdictHolds
  <2> QED
    BY <2>1, <2>2, <2>3 DEF ChargeInvariant, SweepIsCurrent
<1> QED
  BY <1>3, <1>4, <1>5, <1>6, <1>7, <1>9, <1>10, <1>12 DEF ChargeInvariant

LEMMA SettleStepInvariant ==
  ASSUME TypeOK, ChargeInvariant, NEW w \in Workers, SettleAttempt(w)
  PROVE  ChargeInvariant'
<1>1. PICK i \in Intents, n \in Rows, s \in Settlements :
         i = worker[w].intent /\ n = worker[w].row /\ s = worker[w].settlement
  BY DEF SettleAttempt, TypeOK
<1>2. worker[w].pc = "settle"
  BY DEF SettleAttempt
<1>3. attempt[i][n].status = "IN_FLIGHT"
  BY <1>1, <1>2 DEF ChargeInvariant, ExecutionOwnsAttempt
<1>4. s \in {"RETRY_PENDING", "FAILED_FINAL"} => provider[i][n] = "REJECTED"
  BY <1>1, <1>2 DEF ChargeInvariant, ExecutionKnowsOutcome
<1>5. /\ attempt'[i][n].status = AttemptTarget(s)
      /\ \A m \in Rows \ {n} : attempt'[i][m] = attempt[i][m]
      /\ \A j \in Intents \ {i} : attempt'[j] = attempt[j]
  <2>1. FinishAttempt(i, n, s)
    BY <1>1 DEF SettleAttempt
  <2>2. attempt' = [attempt EXCEPT ![i][n].status = AttemptTarget(s)]
    BY <1>3, <2>1 DEF FinishAttempt
  <2> QED
    BY <2>2 DEF TypeOK, StoreTypeOK, AttemptRow
<1>6. /\ AttemptTarget(s) \in {"SUCCEEDED", "FAILED", "UNKNOWN"}
      /\ s = "UNKNOWN" => AttemptTarget(s) = "UNKNOWN"
  BY DEF AttemptTarget
<1>7. /\ intent'[i].status = s
      /\ \A j \in Intents \ {i} :
            \/ intent'[j].status = intent[j].status
            \/ intent[j].status \in OmittableStates /\ intent'[j].status = "OMITTED"
  <2> DEFINE rows == [intent EXCEPT ![i] = SettledRow(i, s)]
  <2>1. rows[i].status = s /\ \A j \in Intents \ {i} : rows[j] = intent[j]
    BY DEF SettledRow, TypeOK, StoreTypeOK, IntentRow
  <2>2. rows \in [Intents -> IntentRow]
    BY SettledRowType DEF TypeOK, StoreTypeOK
  <2>3. intent' = rows \/ (s = "FAILED_FINAL" /\ intent' = Omitted(rows, SubOf[i]))
    BY <1>1 DEF SettleAttempt, CancelWith
  <2> HIDE DEF rows
  <2>4. CASE intent' = rows
    BY <2>1, <2>4
  <2>5. CASE s = "FAILED_FINAL" /\ intent' = Omitted(rows, SubOf[i])
    <3>1. \A j \in Intents : \/ intent'[j] = rows[j]
                            \/ /\ rows[j].status \in OmittableStates
                               /\ intent'[j] = [rows[j] EXCEPT !.status = "OMITTED"]
      BY <2>5 DEF Omitted
    <3>2. \A j \in Intents : [rows[j] EXCEPT !.status = "OMITTED"].status = "OMITTED"
      BY <2>2 DEF IntentRow
    <3>3. \A j \in Intents : \/ intent'[j].status = rows[j].status
                            \/ /\ rows[j].status \in OmittableStates
                               /\ intent'[j].status = "OMITTED"
      BY <3>1, <3>2
    <3> QED
      BY <2>1, <2>5, <3>3 DEF OmittableStates
  <2> QED
    BY <2>3, <2>4, <2>5
<1>8. \A v \in Workers : worker'[v].pc # "idle" => worker'[v] = worker[v] /\ worker[v].intent # i
  <2>1. worker' = [worker EXCEPT ![w] = Idle]
    BY DEF SettleAttempt
  <2>2. worker'[w].pc = "idle" /\ \A v \in Workers \ {w} : worker'[v] = worker[v]
    BY <2>1 DEF TypeOK, Idle
  <2> QED
    BY <1>1, <1>2, <2>2 DEF ChargeInvariant, ExecutionOwnsAttempt
<1>9. UNCHANGED <<provider, seen, verdict>>
  BY DEF SettleAttempt
<1> QED
  BY <1>3, <1>4, <1>5, <1>6, <1>7, <1>8, <1>9, EndAttemptInvariant

LEMMA RecoverStepInvariant ==
  ASSUME TypeOK, ChargeInvariant, NEW i \in Intents, NEW n \in Rows, RecoverExpired(i, n)
  PROVE  ChargeInvariant'
<1>1. attempt[i][n].status = "IN_FLIGHT" /\ attempt[i][n].overdue
  BY DEF RecoverExpired, Expired
<1>2. /\ attempt'[i][n].status = "UNKNOWN"
      /\ \A m \in Rows \ {n} : attempt'[i][m] = attempt[i][m]
      /\ \A j \in Intents \ {i} : attempt'[j] = attempt[j]
  BY DEF RecoverExpired, TypeOK, StoreTypeOK, AttemptRow
<1>3. /\ intent'[i].status = "UNKNOWN"
      /\ \A j \in Intents \ {i} : intent'[j] = intent[j]
  BY DEF RecoverExpired, TypeOK, StoreTypeOK, IntentRow
<1>4. UNCHANGED <<provider, worker, seen, verdict>>
  BY DEF RecoverExpired, execVars
<1>5. ASSUME NEW v \in Workers, worker[v].pc # "idle", worker[v].intent = i
      PROVE  FALSE
  <2>1. worker[v].row \in Rows
    BY <1>5 DEF TypeOK
  <2>2. attempt[i][worker[v].row].status = "IN_FLIGHT" /\ ~attempt[i][worker[v].row].overdue
    BY <1>5 DEF ChargeInvariant, ExecutionOwnsAttempt, ExecutionKnowsOutcome
  <2>3. IsLast(i, n) /\ IsLast(i, worker[v].row)
    BY <1>1, <2>1, <2>2 DEF ChargeInvariant, InFlightAgrees
  <2>4. n = worker[v].row
    BY <2>1, <2>3, RowsAreNat DEF IsLast
  <2> QED
    BY <1>1, <2>2, <2>4
<1>6. "UNKNOWN" \in Settlements
  BY DEF Settlements
<1> QED
  BY <1>1, <1>2, <1>3, <1>4, <1>5, <1>6, EndAttemptInvariant

\* Only the deadline of an attempt nobody executes passes.
LEMMA DeadlineStepInvariant ==
  ASSUME StallBeyondDeadline = FALSE, TypeOK, ChargeInvariant,
         NEW i \in Intents, NEW n \in Rows, DeadlinePasses(i, n)
  PROVE  ChargeInvariant'
<1>1. /\ UNCHANGED <<intent, provider, worker, seen, verdict>>
      /\ \A j \in Intents : \A m \in Rows :
            /\ attempt'[j][m].status = attempt[j][m].status
            /\ ~(j = i /\ m = n) => attempt'[j][m] = attempt[j][m]
  BY DEF DeadlinePasses, execVars, TypeOK, StoreTypeOK, AttemptRow
<1>2. \A v \in Workers : ~(worker[v].intent = i /\ worker[v].row = n)
  BY DEF DeadlinePasses
<1>3. OperationsAreRecorded' /\ OpenIsLast' /\ ReopenedOnlyAfterRejection'
  BY <1>1 DEF ChargeInvariant, OperationsAreRecorded, OpenIsLast, ReopenedOnlyAfterRejection,
     MayCharge, IsLast, Present
<1>4. RowsInOrder'
  <2>1. \A k \in Rows : 1 .. (k - 1) \subseteq Rows
    BY StoreAssumption DEF Rows
  <2> QED
    BY <1>1, <2>1 DEF ChargeInvariant, RowsInOrder, Present
<1>5. InFlightAgrees' /\ UnknownIsLast'
  BY <1>1 DEF ChargeInvariant, InFlightAgrees, UnknownIsLast, IsLast, Present
<1>6. \A v \in Workers : worker[v].pc # "idle" => worker[v].intent \in Intents /\ worker[v].row \in Rows
  BY DEF TypeOK
<1>7. ExecutionOwnsAttempt' /\ ExecutionKnowsOutcome'
  BY <1>1, <1>2, <1>6 DEF ChargeInvariant, ExecutionOwnsAttempt, ExecutionKnowsOutcome
<1>8. SweepIsCurrent'
  <2>1. \A j \in Todo : j \in Intents /\ seen[j].row \in Rows
    BY TypeFacts DEF Todo, Candidate
  <2> QED
    BY <1>1, <2>1 DEF ChargeInvariant, SweepIsCurrent, Todo, IsCurrent, VerdictHolds, IsLast, Present
<1> QED
  BY <1>3, <1>4, <1>5, <1>7, <1>8 DEF ChargeInvariant

\* An execution that is over owned nothing anybody else relies on.
LEMMA IdleStepInvariant ==
  ASSUME TypeOK, ChargeInvariant, NEW w \in Workers, SettlementRolledBack(w) \/ ExecutionDies(w)
  PROVE  ChargeInvariant'
<1>1. UNCHANGED <<intent, attempt, provider, seen, verdict>>
  BY DEF SettlementRolledBack, ExecutionDies, storeVars
<1>2. ProviderAdvances
  BY <1>1 DEF ProviderAdvances
<1>3. worker'[w].pc = "idle" /\ \A v \in Workers \ {w} : worker'[v] = worker[v]
  BY DEF SettlementRolledBack, ExecutionDies, TypeOK, Idle
<1>4. ExecutionOwnsAttempt' /\ ExecutionKnowsOutcome'
  BY <1>1, <1>3 DEF ChargeInvariant, ExecutionOwnsAttempt, ExecutionKnowsOutcome
<1> QED
  BY <1>1, <1>2, <1>4, ProviderAdvancesInvariant, ProviderAdvancesSweep DEF ChargeInvariant

LEMMA ResolveStepInvariant ==
  ASSUME TypeOK, ChargeInvariant, NEW i \in Intents, NEW n \in Rows, ProviderResolves(i, n),
         UNCHANGED <<storeVars, execVars>>
  PROVE  ChargeInvariant'
<1>1. UNCHANGED <<intent, attempt, worker, seen, verdict>>
  BY DEF storeVars, execVars
<1>2. ProviderAdvances
  BY <1>1, ResolveAdvances DEF ChargeInvariant
<1> QED
  BY <1>1, <1>2, ProviderAdvancesInvariant, ProviderAdvancesSweep, ProviderAdvancesExecutions
     DEF ChargeInvariant

\* The list is right when it is read.
LEMMA FindUnknownInvariant ==
  ASSUME TypeOK, ChargeInvariant, FindUnknown
  PROVE  ChargeInvariant'
<1>1. UNCHANGED <<intent, attempt, provider, worker, verdict>>
  BY DEF FindUnknown, storeVars
<1>2. verdict = "NONE"
  BY DEF FindUnknown, ChargeInvariant, SweepIsCurrent
<1>3. ASSUME NEW i \in Todo'
      PROVE  i \in Intents /\ intent[i].status = "UNKNOWN" /\ IsLast(i, seen'[i].row)
  <2>1. i \in Intents /\ IsUnknownCandidate(i) /\ seen'[i] = CandidateOf(i)
    BY <1>3 DEF FindUnknown, Todo, NoCandidate
  <2>2. seen'[i].row \in Rows /\ IsLatestUnknown(i, seen'[i].row)
    BY <2>1 DEF CandidateOf, IsUnknownCandidate
  <2>3. PICK n \in Rows : attempt[i][n].status = "UNKNOWN" /\ IsLast(i, n)
    BY <2>1 DEF ChargeInvariant, UnknownIsLast, IsUnknownCandidate
  <2>4. ASSUME NEW r \in Rows, IsLatestUnknown(i, r)
        PROVE  r = n
    <3>1. Present(i, r) /\ ~(n > r)
      BY <2>3, <2>4 DEF IsLatestUnknown, Present
    <3> QED
      BY <2>1, <2>3, <3>1, RowsAreNat, LastIsUnique
  <2> QED
    BY <2>1, <2>2, <2>3, <2>4 DEF IsUnknownCandidate
<1>4. SweepIsCurrent'
  BY <1>1, <1>2, <1>3 DEF SweepIsCurrent, VerdictHolds, IsLast, Present
<1> QED
  BY <1>1, <1>4, FrameInvariant DEF TypeOK

LEMMA AbandonSweepInvariant ==
  ASSUME TypeOK, ChargeInvariant, AbandonSweep
  PROVE  ChargeInvariant'
<1>1. UNCHANGED <<intent, attempt, provider, worker>>
  BY DEF AbandonSweep, storeVars
<1>2. SweepIsCurrent'
  BY DEF AbandonSweep, SweepIsCurrent, Todo, NoCandidates, NoCandidate
<1> QED
  BY <1>1, <1>2, FrameInvariant DEF TypeOK

LEMMA SweepVerifiesInvariant ==
  ASSUME TypeOK, ChargeInvariant, NEW i \in Intents, NEW v \in Verdicts, SweepVerifies(i, v)
  PROVE  ChargeInvariant'
<1>1. UNCHANGED <<intent, attempt, worker, seen>> /\ verdict' = v
  BY DEF SweepVerifies, storeVars
<1>2. i \in Todo /\ \A j \in Todo : i <= j
  BY DEF SweepVerifies, IsCurrent
<1>3. seen[i].row \in Rows /\ Present(i, seen[i].row)
  BY <1>2, TypeFacts DEF ChargeInvariant, SweepIsCurrent, Todo, Candidate, IsLast
<1>4. /\ ProviderAdvances
      /\ v = "SUCCEEDED" => provider'[i][seen[i].row] = "CHARGED"
      /\ v = "FAILED" => provider'[i][seen[i].row] = "REJECTED"
  BY <1>1, <1>3, VerifyAdvances DEF SweepVerifies
<1>5. SweepIsCurrent'
  <2>1. \A j \in Todo : j \in Intents /\ (IsCurrent(j)' => j = i)
    BY <1>1, <1>2, StoreAssumption DEF IsCurrent, Todo
  <2>2. \A j \in Todo : /\ intent'[j].status \in {"UNKNOWN", "SUCCEEDED"}
                        /\ IsLast(j, seen[j].row)'
    BY <1>1, <2>1 DEF ChargeInvariant, SweepIsCurrent, IsLast, Present
  <2>3. Todo' = Todo
    BY <1>1 DEF Todo
  <2> QED
    BY <1>1, <1>2, <1>4, <2>1, <2>2, <2>3 DEF SweepIsCurrent, VerdictHolds
<1> QED
  BY <1>1, <1>4, <1>5, ProviderAdvancesInvariant, ProviderAdvancesExecutions DEF ChargeInvariant

\* The sweep moves on from candidate i, with an intent whose status it leaves or
\* that the verdict about its last operation resolves.
LEMMA NextCandidateInvariant ==
  ASSUME TypeOK, ChargeInvariant, NEW i \in Todo, NEW rows, NextCandidate(i, rows),
         \A j \in Intents \ {i} : rows[j] = intent[j],
         \/ rows[i].status = intent[i].status
         \/ rows[i].status = "SUCCEEDED"
         \/ /\ rows[i].status \in {"RETRY_PENDING", "OMITTED"}
            /\ provider[i][seen[i].row] = "REJECTED"
  PROVE  ChargeInvariant'
<1>1. /\ intent' = rows /\ UNCHANGED <<attempt, provider, worker>> /\ verdict' = "NONE"
      /\ seen' = [seen EXCEPT ![i] = NoCandidate]
  BY DEF NextCandidate
<1>2. /\ i \in Intents /\ intent[i].status \in {"UNKNOWN", "SUCCEEDED"}
      /\ IsLast(i, seen[i].row) /\ seen[i].row \in Rows
  BY TypeFacts DEF ChargeInvariant, SweepIsCurrent, Todo, Candidate
<1>3. \A j \in Intents \ {i} : intent'[j] = intent[j]
  BY <1>1
<1>4. \A m \in Rows : attempt[i][m].status # "IN_FLIGHT"
  BY <1>2 DEF ChargeInvariant, InFlightAgrees
<1>5. OperationsAreRecorded' /\ RowsInOrder' /\ OpenIsLast'
  BY <1>1 DEF ChargeInvariant, OperationsAreRecorded, RowsInOrder, OpenIsLast, MayCharge, IsLast,
     Present
<1>6. ReopenedOnlyAfterRejection'
  <2> SUFFICES ASSUME NEW j \in Intents, NEW m \in Rows, MayCharge(j, m),
                      intent'[j].status \notin {"IN_FLIGHT", "UNKNOWN", "SUCCEEDED"}
               PROVE  FALSE
    BY <1>1 DEF ReopenedOnlyAfterRejection, MayCharge, Present
  <2>1. CASE j = i
    <3>1. IsLast(i, m)
      BY <2>1 DEF ChargeInvariant, OpenIsLast
    <3>2. ASSUME NEW r \in Rows, IsLast(i, r)
          PROVE  m = r
      <4>1. Present(i, m) /\ Present(i, r)
        BY <3>1, <3>2 DEF IsLast
      <4> QED
        BY <1>2, <3>1, <3>2, <4>1, RowsAreNat, LastIsUnique
    <3> QED
      BY <1>1, <1>2, <2>1, <3>2 DEF MayCharge
  <2>2. CASE j # i
    BY <1>3, <2>2 DEF ChargeInvariant, ReopenedOnlyAfterRejection
  <2> QED
    BY <2>1, <2>2
<1>7. InFlightAgrees'
  BY <1>1, <1>3, <1>4 DEF ChargeInvariant, InFlightAgrees, IsLast, Present
<1>8. UnknownIsLast'
  BY <1>1, <1>2, <1>3 DEF ChargeInvariant, UnknownIsLast, IsLast, Present
<1>9. \A v \in Workers : worker[v].pc # "idle" => worker[v].intent \in Intents \ {i}
  BY <1>2 DEF ChargeInvariant, ExecutionOwnsAttempt, TypeOK
<1>10. ExecutionOwnsAttempt' /\ ExecutionKnowsOutcome'
  BY <1>1, <1>3, <1>9 DEF ChargeInvariant, ExecutionOwnsAttempt, ExecutionKnowsOutcome
<1>11. SweepIsCurrent'
  <2>1. \A j \in Todo' : j \in Todo /\ j \in Intents \ {i} /\ seen'[j] = seen[j]
    BY <1>1 DEF Todo, NoCandidate, TypeOK
  <2> QED
    BY <1>1, <1>3, <2>1 DEF ChargeInvariant, SweepIsCurrent, VerdictHolds, IsLast, Present
<1> QED
  BY <1>5, <1>6, <1>7, <1>8, <1>10, <1>11 DEF ChargeInvariant

LEMMA SweepStepInvariant ==
  ASSUME TypeOK, ChargeInvariant, NEW i \in Intents,
         SweepEscalates(i) \/ SweepKeepsUnknown(i) \/ SweepSettles(i)
  PROVE  ChargeInvariant'
<1>1. IsCurrent(i) /\ i \in Todo
  BY DEF SweepEscalates, SweepKeepsUnknown, SweepSettles, IsCurrent
<1>2. /\ intent[i].status \in {"UNKNOWN", "SUCCEEDED"} /\ intent[i] \in IntentRow
      /\ VerdictHolds(i, seen[i].row, verdict)
  BY <1>1, TypeFacts DEF ChargeInvariant, SweepIsCurrent
<1>3. ASSUME NEW row \in IntentRow, NextCandidate(i, UpdateUnknown(i, row)),
             \/ row.status = intent[i].status
             \/ row.status = "SUCCEEDED"
             \/ /\ row.status \in {"RETRY_PENDING", "OMITTED"}
                /\ provider[i][seen[i].row] = "REJECTED"
      PROVE  ChargeInvariant'
  <2> DEFINE rows == [intent EXCEPT ![i] = row]
  <2>1. NextCandidate(i, rows) \/ NextCandidate(i, intent)
    BY <1>3 DEF UpdateUnknown
  <2>2. rows[i] = row /\ \A j \in Intents \ {i} : rows[j] = intent[j]
    BY DEF TypeOK, StoreTypeOK
  <2> HIDE DEF rows
  <2> QED
    BY <1>1, <1>3, <2>1, <2>2, NextCandidateInvariant
<1>4. CASE SweepEscalates(i)
  <2> DEFINE row == [intent[i] EXCEPT !.needsReview = TRUE, !.verifyDue = TRUE]
  <2>1. row \in IntentRow
    BY <1>2, IntentReview
  <2>2. row.status = intent[i].status
    BY <1>2 DEF IntentRow
  <2>3. NextCandidate(i, UpdateUnknown(i, row))
    BY <1>4 DEF SweepEscalates
  <2> HIDE DEF row
  <2> QED
    BY <1>3, <2>1, <2>2, <2>3
<1>5. CASE SweepKeepsUnknown(i)
  <2> DEFINE review == seen[i].count + 1 >= ManualReviewThreshold
             row == [intent[i] EXCEPT !.verifyCount = @ + 1, !.verifyDue = review,
                                      !.needsReview = review]
  <2>1. row \in IntentRow
    <3>1. review \in BOOLEAN
      OBVIOUS
    <3> HIDE DEF review
    <3> QED
      BY <1>2, <3>1, IntentVerified
  <2>2. row.status = intent[i].status
    BY <1>2 DEF IntentRow
  <2>3. NextCandidate(i, intent) \/ NextCandidate(i, UpdateUnknown(i, row))
    BY <1>5 DEF SweepKeepsUnknown
  <2> HIDE DEF row
  <2>4. CASE NextCandidate(i, intent)
    BY <1>1, <1>2, <2>4, NextCandidateInvariant
  <2> QED
    BY <1>3, <2>1, <2>2, <2>3, <2>4
<1>6. CASE SweepSettles(i)
  <2>1. /\ [intent[i] EXCEPT !.status = "SUCCEEDED"] \in IntentRow
        /\ [intent[i] EXCEPT !.status = "RETRY_PENDING", !.due = FALSE] \in IntentRow
        /\ [intent[i] EXCEPT !.status = "OMITTED"] \in IntentRow
    BY <1>2, IntentStatus, IntentStatusDue DEF IntentStates
  <2>2. /\ [intent[i] EXCEPT !.status = "SUCCEEDED"].status = "SUCCEEDED"
        /\ [intent[i] EXCEPT !.status = "RETRY_PENDING", !.due = FALSE].status = "RETRY_PENDING"
        /\ [intent[i] EXCEPT !.status = "OMITTED"].status = "OMITTED"
    BY <1>2 DEF IntentRow
  <2>3. CASE verdict = "SUCCEEDED"
    <3>1. NextCandidate(i, UpdateUnknown(i, [intent[i] EXCEPT !.status = "SUCCEEDED"]))
      BY <1>6, <2>3 DEF SweepSettles
    <3> QED
      BY <1>3, <2>1, <2>2, <3>1
  <2>4. CASE verdict = "FAILED"
    <3>1. provider[i][seen[i].row] = "REJECTED"
      BY <1>2, <2>4 DEF VerdictHolds
    <3>2. \/ NextCandidate(i, UpdateUnknown(i,
                [intent[i] EXCEPT !.status = "RETRY_PENDING", !.due = FALSE]))
          \/ NextCandidate(i, UpdateUnknown(i, [intent[i] EXCEPT !.status = "OMITTED"]))
      BY <1>6, <2>4 DEF SweepSettles
    <3> QED
      BY <1>3, <2>1, <2>2, <3>1, <3>2
  <2> QED
    BY <1>6, <2>3, <2>4 DEF SweepSettles
<1> QED
  BY <1>4, <1>5, <1>6

\* The passing of time only changes columns the invariant does not look at.
LEMMA TimeStepInvariant ==
  ASSUME TypeOK, ChargeInvariant, NEW i \in Intents,
         BackoffElapses(i) \/ CadenceElapses(i) \/ UnknownWindowElapses(i)
  PROVE  ChargeInvariant'
<1>1. UNCHANGED <<attempt, provider, worker, seen, verdict>>
  BY DEF BackoffElapses, CadenceElapses, UnknownWindowElapses, SetIntent, execVars
<1>2. \A j \in Intents : intent'[j].status = intent[j].status
  <2>1. ASSUME NEW row \in IntentRow, SetIntent(i, row), row.status = intent[i].status
        PROVE  \A j \in Intents : intent'[j].status = intent[j].status
    BY <2>1 DEF SetIntent, TypeOK, StoreTypeOK
  <2>2. /\ [intent[i] EXCEPT !.due = TRUE] \in IntentRow
        /\ [intent[i] EXCEPT !.verifyDue = TRUE] \in IntentRow
        /\ [intent[i] EXCEPT !.since = "OLD"] \in IntentRow
    BY TypeFacts, IntentDue, IntentVerifyDue, IntentSince
  <2>3. /\ [intent[i] EXCEPT !.due = TRUE].status = intent[i].status
        /\ [intent[i] EXCEPT !.verifyDue = TRUE].status = intent[i].status
        /\ [intent[i] EXCEPT !.since = "OLD"].status = intent[i].status
    BY TypeFacts DEF IntentRow
  <2> QED
    BY <2>1, <2>2, <2>3 DEF BackoffElapses, CadenceElapses, UnknownWindowElapses
<1>3. SweepIsCurrent'
  <2>1. \A j \in Todo : j \in Intents
    BY DEF Todo
  <2> QED
    BY <1>1, <1>2, <2>1 DEF ChargeInvariant, SweepIsCurrent, Todo, IsCurrent, VerdictHolds,
       IsLast, Present
<1> QED
  BY <1>1, <1>2, <1>3, FrameInvariant DEF TypeOK

LEMMA ScheduleStepInvariant ==
  ASSUME TypeOK, ChargeInvariant, NEW i \in Intents, ScheduleIntent(i),
         UNCHANGED <<provider, execVars>>
  PROVE  ChargeInvariant'
<1>1. UNCHANGED <<attempt, provider, worker, seen, verdict>>
  BY DEF ScheduleIntent, execVars
<1>2. /\ intent[i].status = "ABSENT" /\ intent'[i].status = "SCHEDULED"
      /\ \A j \in Intents \ {i} : intent'[j] = intent[j]
  BY DEF ScheduleIntent, TypeOK, StoreTypeOK, IntentRow
<1>3. OperationsAreRecorded' /\ RowsInOrder' /\ OpenIsLast'
  BY <1>1 DEF ChargeInvariant, OperationsAreRecorded, RowsInOrder, OpenIsLast, MayCharge, IsLast,
     Present
<1>4. ReopenedOnlyAfterRejection' /\ InFlightAgrees' /\ UnknownIsLast'
  BY <1>1, <1>2 DEF ChargeInvariant, ReopenedOnlyAfterRejection, InFlightAgrees, UnknownIsLast,
     MayCharge, IsLast, Present
<1>5. \A v \in Workers : worker[v].pc # "idle" => worker[v].intent \in Intents \ {i}
  BY <1>2 DEF ChargeInvariant, ExecutionOwnsAttempt, TypeOK
<1>6. ExecutionOwnsAttempt' /\ ExecutionKnowsOutcome'
  BY <1>1, <1>2, <1>5 DEF ChargeInvariant, ExecutionOwnsAttempt, ExecutionKnowsOutcome
<1>7. SweepIsCurrent'
  <2>1. \A j \in Todo : j \in Intents \ {i}
    BY <1>2 DEF ChargeInvariant, SweepIsCurrent, Todo
  <2> QED
    BY <1>1, <1>2, <2>1 DEF ChargeInvariant, SweepIsCurrent, Todo, IsCurrent, VerdictHolds,
       IsLast, Present
<1> QED
  BY <1>3, <1>4, <1>6, <1>7 DEF ChargeInvariant

LEMMA StutterInvariant ==
  ASSUME TypeOK, ChargeInvariant, UNCHANGED vars
  PROVE  ChargeInvariant'
<1>1. UNCHANGED <<intent, attempt, provider, worker, seen, verdict>>
  BY DEF vars, storeVars, execVars
<1>2. ProviderAdvances
  BY <1>1 DEF ProviderAdvances
<1> QED
  BY <1>1, <1>2, ProviderAdvancesInvariant, ProviderAdvancesSweep, ProviderAdvancesExecutions
     DEF ChargeInvariant

-----------------------------------------------------------------------------
LEMMA StepInvariant ==
  ASSUME StallBeyondDeadline = FALSE, TypeOK, ChargeInvariant, [Next]_vars
  PROVE  ChargeInvariant'
<1>1. ASSUME NEW w \in Workers, ExecutionStep(w) \/ ExecutionDies(w)
      PROVE  ChargeInvariant'
  BY <1>1, ChargeStepInvariant, VerifyStepInvariant, SettleStepInvariant, IdleStepInvariant
     DEF ExecutionStep, Settlement
<1>2. ASSUME NEW i \in Intents, SweepStep(i) \/ SweepAborts(i)
      PROVE  ChargeInvariant'
  <2>1. CASE SweepThrows(i) \/ SweepAborts(i)
    BY <2>1, AbandonSweepInvariant DEF SweepThrows, SweepAborts
  <2> QED
    BY <1>2, <2>1, SweepVerifiesInvariant, SweepStepInvariant DEF SweepStep
<1>3. ASSUME NEW i \in Intents, TimeStep(i)
      PROVE  ChargeInvariant'
  BY <1>3, TimeStepInvariant, DeadlineStepInvariant DEF TimeStep
<1>4. ASSUME ExecutorNext
      PROVE  ChargeInvariant'
  BY <1>1, <1>2, <1>3, <1>4, StartAttemptInvariant, RecoverStepInvariant, ResolveStepInvariant,
     FindUnknownInvariant DEF ExecutorNext
<1> QED
  BY <1>4, ScheduleStepInvariant, StutterInvariant DEF Next

\* The charge invariant holds in every state, when executions do not stall.
THEOREM ChargeInvariantHolds ==
  ASSUME StallBeyondDeadline = FALSE
  PROVE  Spec => []ChargeInvariant
<1>1. Init => ChargeInvariant
  BY InitInvariant
<1>2. TypeOK /\ ChargeInvariant /\ [Next]_vars => ChargeInvariant'
  BY StepInvariant
<1> QED
  BY <1>1, <1>2, TypeCorrect, PTL DEF Spec

\* Two operations that were accepted would both be the last one.
LEMMA InvariantGivesOneCharge ==
  TypeOK /\ ChargeInvariant => AtMostOneEffectiveCharge
<1> SUFFICES ASSUME TypeOK, ChargeInvariant, NEW i \in Intents, NEW m \in Rows, NEW n \in Rows,
                    provider[i][m] = "CHARGED", provider[i][n] = "CHARGED"
             PROVE  m = n
  BY DEF AtMostOneEffectiveCharge
<1>1. MayCharge(i, m) /\ MayCharge(i, n)
  BY DEF ChargeInvariant, OperationsAreRecorded, MayCharge
<1>2. IsLast(i, m) /\ IsLast(i, n) /\ Present(i, m) /\ Present(i, n)
  BY <1>1 DEF ChargeInvariant, OpenIsLast, MayCharge
<1> QED
  BY <1>2, RowsAreNat, LastIsUnique

\* INV-01: no intent is charged twice, whatever the interleaving of executions,
\* crashes, recoveries and verifications, as long as no execution outlives the
\* deadline of its attempt.
THEOREM OneEffectiveCharge ==
  ASSUME StallBeyondDeadline = FALSE
  PROVE  Spec => []AtMostOneEffectiveCharge
BY InvariantGivesOneCharge, TypeCorrect, ChargeInvariantHolds, PTL

\* RF-17: an intent is never reopened, or closed as not charged, over an
\* operation that the provider accepted or may still accept.
THEOREM NeverReopenedInDoubt ==
  ASSUME StallBeyondDeadline = FALSE
  PROVE  Spec => []ReopenedOnlyAfterRejection
<1>1. ChargeInvariant => ReopenedOnlyAfterRejection
  BY DEF ChargeInvariant
<1> QED
  BY <1>1, ChargeInvariantHolds, PTL

\* An intent is IN_FLIGHT exactly while its last attempt is, so neither table shows
\* a charge in progress that the other has closed.
THEOREM TablesAgree ==
  ASSUME StallBeyondDeadline = FALSE
  PROVE  Spec => []InFlightAgrees
<1>1. ChargeInvariant => InFlightAgrees
  BY DEF ChargeInvariant
<1> QED
  BY <1>1, ChargeInvariantHolds, PTL

\* INV-03, INV-07: whoever calls the provider or settles still owns the attempt
\* it started, and nobody else works on its intent.
THEOREM OwnershipHolds ==
  ASSUME StallBeyondDeadline = FALSE
  PROVE  Spec => []ExecutionOwnsAttempt
<1>1. ChargeInvariant => ExecutionOwnsAttempt
  BY DEF ChargeInvariant
<1> QED
  BY <1>1, ChargeInvariantHolds, PTL
=============================================================================
