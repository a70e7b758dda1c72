--------------------------- MODULE BillingEngineProofs ---------------------------
(***************************************************************************)
(* Manual attempts cause no second charge of an intent, as long as no       *)
(* execution outlives its deadline, no probe is stale and no manual attempt *)
(* starts under the hands of the verification sweep: what ReprocessSpec     *)
(* adds to the executor. Requests that create intents, cancel, pause and    *)
(* resume and the insertions of the scheduler do not change what is shown   *)
(* of the executor and of manual attempts: so it is in the whole engine.    *)
(*                                                                          *)
(* A probe that is not stale is about the last attempt of the intent, and   *)
(* the provider rejected it (ProbeIsSound); by OpenIsLast nothing of the    *)
(* intent is in doubt, so the manual attempt is a new attempt like those of *)
(* ChargeExecutorProofs.                                                    *)
(***************************************************************************)
EXTENDS BillingEngine, ChargeExecutorProofs, FiniteSetTheorems

-----------------------------------------------------------------------------
(* What a request relies on is final *)

\* No step forgets an attempt or changes what the provider settled.
VerdictsPersist ==
  \A j \in Intents : \A m \in Rows :
      /\ Present(j, m) => Present(j, m)'
      /\ Present(j, m) /\ provider[j][m] \in {"CHARGED", "REJECTED"} =>
             provider'[j][m] = provider[j][m]

LEMMA AdvancesPersist ==
  ASSUME ProviderAdvances
  PROVE  VerdictsPersist
  BY DEF ProviderAdvances, VerdictsPersist, Present

\* Attempts only get a new status, and the provider is not called.
LEMMA AttemptsPersist ==
  ASSUME provider' = provider,
         \A j \in Intents : \A m \in Rows :
            Present(j, m) => attempt'[j][m].status # "ABSENT"
  PROVE  VerdictsPersist
  BY DEF VerdictsPersist, Present

LEMMA StartPersists ==
  ASSUME TypeOK, NEW w \in Workers, NEW i \in Intents, NEW n \in Rows,
         NEW seq \in 1 .. (MaxAttempts + 1), StartAttempt(w, i, n, seq)
  PROVE  VerdictsPersist
<1>1. provider' = provider
  BY DEF StartAttempt
<1>2. \A j \in Intents : \A m \in Rows : Present(j, m) => attempt'[j][m].status # "ABSENT"
  BY DEF StartAttempt, TypeOK, StoreTypeOK, Present
<1> QED
  BY <1>1, <1>2, AttemptsPersist

LEMMA ExecutionPersists ==
  ASSUME TypeOK, ChargeInvariant, NEW w \in Workers, ExecutionStep(w) \/ ExecutionDies(w)
  PROVE  VerdictsPersist
<1>1. worker[w].pc # "idle" =>
         /\ worker[w].intent \in Intents /\ worker[w].row \in Rows
         /\ Present(worker[w].intent, worker[w].row)
  BY DEF TypeOK, ChargeInvariant, ExecutionOwnsAttempt, Present
<1>2. ASSUME NEW o \in ChargeOutcomes, Charge(w, o)
      PROVE  VerdictsPersist
  BY <1>1, <1>2, ChargeAdvances, AdvancesPersist DEF Charge, storeVars
<1>3. ASSUME NEW v \in Verdicts, Verify(w, v)
      PROVE  VerdictsPersist
  BY <1>1, <1>3, VerifyAdvances, AdvancesPersist DEF Verify, storeVars
<1>4. CASE SettleAttempt(w)
  <2>1. PICK i \in Intents, n \in Rows, s \in Settlements :
           i = worker[w].intent /\ n = worker[w].row /\ s = worker[w].settlement
    BY <1>4 DEF SettleAttempt, TypeOK
  <2>2. provider' = provider /\ FinishAttempt(i, n, s)
    BY <1>4, <2>1 DEF SettleAttempt
  <2>3. AttemptTarget(s) # "ABSENT"
    BY DEF AttemptTarget
  <2>4. \A j \in Intents : \A m \in Rows : Present(j, m) => attempt'[j][m].status # "ABSENT"
    BY <2>2, <2>3 DEF FinishAttempt, TypeOK, StoreTypeOK, AttemptRow, Present
  <2> QED
    BY <2>2, <2>4, AttemptsPersist
<1>5. CASE SettlementRolledBack(w) \/ ExecutionDies(w)
  BY <1>5, AttemptsPersist DEF SettlementRolledBack, ExecutionDies, storeVars, Present
<1> QED
  BY <1>2, <1>3, <1>4, <1>5 DEF ExecutionStep, Settlement

LEMMA SweepPersists ==
  ASSUME TypeOK, ChargeInvariant, NEW i \in Intents, SweepStep(i) \/ SweepAborts(i)
  PROVE  VerdictsPersist
<1>1. ASSUME NEW v \in Verdicts, SweepVerifies(i, v)
      PROVE  VerdictsPersist
  <2>1. i \in Todo
    BY <1>1 DEF SweepVerifies, IsCurrent
  <2>2. seen[i].row \in Rows /\ Present(i, seen[i].row)
    BY <2>1, TypeFacts DEF ChargeInvariant, SweepIsCurrent, Todo, Candidate, IsLast
  <2> QED
    BY <1>1, <2>2, VerifyAdvances, AdvancesPersist DEF SweepVerifies, storeVars
<1>2. CASE SweepThrows(i) \/ SweepAborts(i)
  BY <1>2, AttemptsPersist DEF SweepThrows, SweepAborts, AbandonSweep, storeVars, Present
<1>3. CASE SweepEscalates(i) \/ SweepKeepsUnknown(i) \/ SweepSettles(i)
  BY <1>3, AttemptsPersist
     DEF SweepEscalates, SweepKeepsUnknown, SweepSettles, NextCandidate, Present
<1> QED
  BY <1>1, <1>2, <1>3 DEF SweepStep

LEMMA StepPersists ==
  ASSUME TypeOK, ChargeInvariant, [Next]_vars
  PROVE  VerdictsPersist
<1>1. ASSUME NEW i \in Intents, NEW n \in Rows, RecoverExpired(i, n) \/ DeadlinePasses(i, n)
      PROVE  VerdictsPersist
  <2>1. provider' = provider
    BY <1>1 DEF RecoverExpired, DeadlinePasses
  <2>2. CASE RecoverExpired(i, n)
    <3>1. \A j \in Intents : \A m \in Rows : Present(j, m) => attempt'[j][m].status # "ABSENT"
      BY <2>2 DEF RecoverExpired, TypeOK, StoreTypeOK, AttemptRow, Present
    <3> QED
      BY <2>1, <3>1, AttemptsPersist
  <2>3. CASE DeadlinePasses(i, n)
    <3>1. \A j \in Intents : \A m \in Rows : attempt'[j][m].status = attempt[j][m].status
      BY <2>3 DEF DeadlinePasses, TypeOK, StoreTypeOK, AttemptRow
    <3> QED
      BY <2>1, <3>1, AttemptsPersist DEF Present
  <2> QED
    BY <1>1, <2>2, <2>3
<1>2. ASSUME NEW i \in Intents, NEW n \in Rows, ProviderResolves(i, n), UNCHANGED <<storeVars, execVars>>
      PROVE  VerdictsPersist
  BY <1>2, ResolveAdvances, AdvancesPersist DEF storeVars, ChargeInvariant
<1>3. ASSUME NEW i \in Intents, TimeStep(i)
      PROVE  VerdictsPersist
  <2>1. CASE BackoffElapses(i) \/ CadenceElapses(i) \/ UnknownWindowElapses(i)
    BY <2>1, AttemptsPersist
       DEF BackoffElapses, CadenceElapses, UnknownWindowElapses, SetIntent, Present
  <2> QED
    BY <1>1, <1>3, <2>1 DEF TimeStep
<1>4. CASE FindUnknown \/ UNCHANGED vars \/ \E i \in Intents : ScheduleIntent(i) /\ UNCHANGED <<provider, execVars>>
  BY <1>4, AttemptsPersist DEF FindUnknown, ScheduleIntent, vars, storeVars, Present
<1> QED
  BY <1>1, <1>2, <1>3, <1>4, StartPersists, ExecutionPersists, SweepPersists
     DEF Next, ExecutorNext

\* So what a request knows survives the steps of the others.
LEMMA ProbesPersist ==
  ASSUME TypeOK, ReprocessTypeOK, ProbeIsSound, VerdictsPersist, reprocess' = reprocess
  PROVE  ProbeIsSound'
  BY DEF ReprocessTypeOK, ProbeIsSound, VerdictsPersist

LEMMA OneProbeChanges ==
  ASSUME TypeOK, ReprocessTypeOK, ProbeIsSound, VerdictsPersist, NEW p \in Operators, NEW r,
         reprocess' = [reprocess EXCEPT ![p] = r],
         r.pc # "idle" => attempt'[r.intent][r.row].status # "ABSENT",
         r.pc = "start" => provider'[r.intent][r.row] = "REJECTED",
         r.pc = "close" => provider'[r.intent][r.row] = "CHARGED"
  PROVE  ProbeIsSound'
<1>1. reprocess'[p] = r /\ \A q \in Operators \ {p} : reprocess'[q] = reprocess[q]
  BY DEF ReprocessTypeOK
<1>2. ASSUME NEW q \in Operators \ {p}
      PROVE  /\ reprocess[q].pc # "idle" =>
                    attempt'[reprocess[q].intent][reprocess[q].row].status # "ABSENT"
             /\ reprocess[q].pc = "start" =>
                    provider'[reprocess[q].intent][reprocess[q].row] = "REJECTED"
             /\ reprocess[q].pc = "close" =>
                    provider'[reprocess[q].intent][reprocess[q].row] = "CHARGED"
  <2>1. reprocess[q].pc # "idle" => reprocess[q].intent \in Intents /\ reprocess[q].row \in Rows
    BY DEF ReprocessTypeOK
  <2> QED
    BY <2>1 DEF ProbeIsSound, VerdictsPersist, Present
<1>3. ASSUME NEW q \in Operators
      PROVE  /\ reprocess'[q].pc # "idle" =>
                    attempt'[reprocess'[q].intent][reprocess'[q].row].status # "ABSENT"
             /\ reprocess'[q].pc = "start" =>
                    provider'[reprocess'[q].intent][reprocess'[q].row] = "REJECTED"
             /\ reprocess'[q].pc = "close" =>
                    provider'[reprocess'[q].intent][reprocess'[q].row] = "CHARGED"
  <2>1. CASE q = p
    BY <1>1, <2>1
  <2>2. CASE q # p
    <3>1. reprocess'[q] = reprocess[q] /\ q \in Operators \ {p}
      BY <1>1, <2>2
    <3> QED
      BY <1>2, <3>1
  <2> QED
    BY <2>1, <2>2
<1> QED
  BY <1>3 DEF ProbeIsSound, Present

-----------------------------------------------------------------------------
(* Types *)

LEMMA ReprocessStepType ==
  ASSUME TypeOK, ReprocessTypeOK, ReprocessNext
  PROVE  TypeOK' /\ ReprocessTypeOK'
<1>1. \A r \in ReprocessState :
         (r.pc # "idle" => r.intent \in Intents /\ r.row \in Rows) =>
            \A p \in Operators : reprocess' = [reprocess EXCEPT ![p] = r] => ReprocessTypeOK'
  BY DEF ReprocessTypeOK
<1>2. NoReprocess \in ReprocessState /\ NoReprocess.pc = "idle"
  BY DEF NoReprocess, ReprocessState
<1>3. ASSUME NEW p \in Operators, NEW i \in Intents, NEW n \in Rows, LoadCandidate(p, i, n)
      PROVE  TypeOK' /\ ReprocessTypeOK'
  <2> DEFINE r == [pc |-> FirstStep(intent[i].status), intent |-> i, row |-> n]
  <2>1. r \in ReprocessState /\ r.intent \in Intents /\ r.row \in Rows
    BY DEF ReprocessState, FirstStep
  <2>2. reprocess' = [reprocess EXCEPT ![p] = r] /\ UNCHANGED vars
    BY <1>3 DEF LoadCandidate
  <2> HIDE DEF r
  <2> QED
    BY <1>1, <2>1, <2>2, StepTypeOK
<1>4. ASSUME NEW p \in Operators, NEW v \in Verdicts, VerifyLatest(p, v)
      PROVE  TypeOK' /\ ReprocessTypeOK'
  <2>1. reprocess[p].intent \in Intents /\ reprocess[p].row \in Rows
    BY <1>4 DEF VerifyLatest, ReprocessTypeOK
  <2>2. ProviderTypeOK'
    BY <1>4, <2>1, VerifyCallType DEF VerifyLatest, TypeOK
  <2>3. TypeOK'
    BY <1>4, <2>2 DEF VerifyLatest, TypeOK, StoreTypeOK, storeVars, execVars
  <2>4. ProbeStep(v) \in {"close", "start", "idle"}
    BY DEF ProbeStep, Verdicts
  <2>5. CASE ProbeStep(v) = "idle"
    BY <1>1, <1>2, <1>4, <2>3, <2>5 DEF VerifyLatest
  <2>6. CASE ProbeStep(v) # "idle"
    <3>1. reprocess' = [reprocess EXCEPT ![p].pc = ProbeStep(v)]
      BY <1>4, <2>6 DEF VerifyLatest
    <3> QED
      BY <2>1, <2>3, <2>4, <3>1 DEF ReprocessTypeOK, ReprocessState
  <2> QED
    BY <2>5, <2>6
<1>5. ASSUME NEW p \in Operators, CloseVerification(p)
      PROVE  TypeOK' /\ ReprocessTypeOK'
  <2> DEFINE i == reprocess[p].intent
  <2>1. i \in Intents /\ intent[i] \in IntentRow
    BY <1>5 DEF CloseVerification, ReprocessTypeOK, TypeOK, StoreTypeOK
  <2>2. [intent[i] EXCEPT !.status = "SUCCEEDED"] \in IntentRow
    BY <2>1, IntentStatus DEF IntentStates
  <2>3. intent' \in [Intents -> IntentRow]
    BY <1>5, <2>2 DEF CloseVerification, Closed, UpdateUnknown, TypeOK, StoreTypeOK
  <2>4. TypeOK'
    BY <1>5, <2>3 DEF CloseVerification, TypeOK, StoreTypeOK, ProviderTypeOK, execVars
  <2> QED
    BY <1>1, <1>2, <1>5, <2>4 DEF CloseVerification
<1>6. ASSUME NEW p \in Operators, NEW w \in Workers, NEW n \in Rows, StartManualAttempt(p, w, n)
      PROVE  TypeOK' /\ ReprocessTypeOK'
  <2>1. PICK i \in Intents : i = reprocess[p].intent
    BY <1>6 DEF StartManualAttempt, ReprocessTypeOK
  <2> DEFINE r == [Idle EXCEPT !.pc = "charge", !.intent = i, !.row = n]
  <2>2. r \in WorkerState
    <3>1. 0 \in 0 .. MaxAttempts
      BY StoreAssumption
    <3> QED
      BY <2>1, <3>1 DEF Idle, WorkerState
  <2>3. r.pc = "charge" /\ r.intent = i /\ r.row = n
    BY <2>1 DEF Idle
  <2>4. worker' = [worker EXCEPT ![w] = r]
    BY <1>6, <2>1 DEF StartManualAttempt
  <2> HIDE DEF r
  <2>5. StoreTypeOK'
    <3>0. [intent[i] EXCEPT !.status = "IN_FLIGHT"] \in IntentRow
      BY <2>1, TypeFacts, IntentStatus DEF IntentStates
    <3>1. attempt' \in [Intents -> [Rows -> AttemptRow]]
      <4>1. [status |-> "IN_FLIGHT", auto |-> 0, overdue |-> FALSE] \in AttemptRow
        BY StoreAssumption DEF AttemptRow, AttemptStates
      <4> QED
        BY <1>6, <2>1, <4>1 DEF StartManualAttempt, TypeOK, StoreTypeOK
    <3>2. intent' \in [Intents -> IntentRow]
      BY <1>6, <2>1, <3>0 DEF StartManualAttempt, TypeOK, StoreTypeOK
    <3> QED
      BY <1>6, <3>1, <3>2 DEF StartManualAttempt, TypeOK, StoreTypeOK
  <2>6. TypeOK'
    BY <1>6, <2>1, <2>2, <2>3, <2>4, <2>5 DEF StartManualAttempt, TypeOK, ProviderTypeOK
  <2> QED
    BY <1>1, <1>2, <1>6, <2>6 DEF StartManualAttempt
<1>7. ASSUME NEW p \in Operators, ReprocessEnds(p)
      PROVE  TypeOK' /\ ReprocessTypeOK'
  BY <1>1, <1>2, <1>7, StepTypeOK DEF ReprocessEnds
<1>8. ASSUME NEW w \in Workers, NEW v \in Verdicts, ManualVerify(w, v), UNCHANGED reprocess
      PROVE  TypeOK' /\ ReprocessTypeOK'
  <2>1. ManualSettlementFor(v, worker[w].outcome) \in Settlements
    BY DEF ManualSettlementFor, Settlements
  <2> QED
    BY <1>8, <2>1, AnswerType DEF ManualVerify, ReprocessTypeOK
<1> QED
  BY <1>3, <1>4, <1>5, <1>6, <1>7, <1>8 DEF ReprocessNext, ReprocessStep

LEMMA ReprocessInitType == Init /\ ReprocessInit => TypeOK /\ ReprocessTypeOK
  BY InitTypeOK DEF ReprocessInit, ReprocessTypeOK, NoReprocess, ReprocessState

\* Every variable keeps its type.
THEOREM ReprocessTypeCorrect == ReprocessSpec => [](TypeOK /\ ReprocessTypeOK)
<1>1. Init /\ ReprocessInit => TypeOK /\ ReprocessTypeOK
  BY ReprocessInitType
<1>2. TypeOK /\ ReprocessTypeOK /\ [ReprocessNext \/ (Next /\ UNCHANGED reprocess)]_reprocessVars
         => TypeOK' /\ ReprocessTypeOK'
  BY ReprocessStepType, StepTypeOK DEF reprocessVars, ReprocessTypeOK
<1> QED
  BY <1>1, <1>2, PTL DEF ReprocessSpec

-----------------------------------------------------------------------------
(* The invariant *)

LEMMA LoadCandidateInvariant ==
  ASSUME ReprocessInvariant, NEW p \in Operators, NEW i \in Intents, NEW n \in Rows,
         LoadCandidate(p, i, n)
  PROVE  ChargeInvariant' /\ ProbeIsSound'
<1>1. UNCHANGED vars /\ Present(i, n) /\ intent[i].status \in {"UNKNOWN", "FAILED_FINAL"}
  BY DEF LoadCandidate, IsLast
<1>2. attempt' = attempt /\ provider' = provider
  BY <1>1 DEF vars, storeVars
<1>3. ChargeInvariant'
  BY <1>1, StutterInvariant DEF ReprocessInvariant
<1>4. intent[i].status = "FAILED_FINAL" => provider[i][n] = "REJECTED"
  BY <1>1 DEF ReprocessInvariant, ChargeInvariant, ReopenedOnlyAfterRejection, MayCharge
<1>5. VerdictsPersist
  BY <1>2, AttemptsPersist DEF Present
<1> DEFINE r == [pc |-> FirstStep(intent[i].status), intent |-> i, row |-> n]
<1>6. /\ r.intent = i /\ r.row = n /\ r.pc # "close"
      /\ r.pc = "start" => intent[i].status = "FAILED_FINAL"
  BY DEF FirstStep
<1>7. reprocess' = [reprocess EXCEPT ![p] = r]
  BY DEF LoadCandidate
<1> HIDE DEF r
<1>8. /\ r.pc # "idle" => attempt'[r.intent][r.row].status # "ABSENT"
      /\ r.pc = "start" => provider'[r.intent][r.row] = "REJECTED"
      /\ r.pc = "close" => provider'[r.intent][r.row] = "CHARGED"
  BY <1>1, <1>2, <1>4, <1>6 DEF Present
<1> QED
  BY <1>3, <1>5, <1>7, <1>8, OneProbeChanges DEF ReprocessInvariant

LEMMA VerifyLatestInvariant ==
  ASSUME ReprocessInvariant, NEW p \in Operators, NEW v \in Verdicts, VerifyLatest(p, v)
  PROVE  ChargeInvariant' /\ ProbeIsSound'
<1>1. PICK i \in Intents, n \in Rows :
         i = reprocess[p].intent /\ n = reprocess[p].row /\ Present(i, n)
  BY DEF VerifyLatest, ReprocessInvariant, ReprocessTypeOK, ProbeIsSound
<1>2. VerifyCall(i, n, v) /\ UNCHANGED <<intent, attempt, worker, seen, verdict>>
  BY <1>1 DEF VerifyLatest, storeVars, execVars
<1>3. /\ ProviderAdvances
      /\ v = "SUCCEEDED" => provider'[i][n] = "CHARGED"
      /\ v = "FAILED" => provider'[i][n] = "REJECTED"
  BY <1>1, <1>2, VerifyAdvances DEF ReprocessInvariant
<1>4. ChargeInvariant'
  BY <1>2, <1>3, ProviderAdvancesInvariant, ProviderAdvancesSweep, ProviderAdvancesExecutions
     DEF ReprocessInvariant, ChargeInvariant
<1>5. VerdictsPersist
  BY <1>3, AdvancesPersist
<1>6. PICK r : /\ reprocess' = [reprocess EXCEPT ![p] = r]
               /\ r.pc = ProbeStep(v)
               /\ r.pc # "idle" => r.intent = i /\ r.row = n
  <2>1. CASE ProbeStep(v) = "idle"
    <3>1. reprocess' = [reprocess EXCEPT ![p] = NoReprocess] /\ NoReprocess.pc = "idle"
      BY <2>1 DEF VerifyLatest, NoReprocess
    <3> QED
      BY <2>1, <3>1
  <2>2. CASE ProbeStep(v) # "idle"
    <3> DEFINE r == [reprocess[p] EXCEPT !.pc = ProbeStep(v)]
    <3>1. reprocess' = [reprocess EXCEPT ![p] = r]
      BY <2>2 DEF VerifyLatest
    <3>2. r.pc = ProbeStep(v) /\ r.intent = i /\ r.row = n
      BY <1>1 DEF ReprocessInvariant, ReprocessTypeOK, ReprocessState
    <3> QED
      BY <3>1, <3>2
  <2> QED
    BY <2>1, <2>2
<1>7. /\ ProbeStep(v) = "close" => v = "SUCCEEDED"
      /\ ProbeStep(v) = "start" => v = "FAILED"
  BY DEF ProbeStep, Verdicts
<1>8. /\ r.pc # "idle" => attempt'[r.intent][r.row].status # "ABSENT"
      /\ r.pc = "start" => provider'[r.intent][r.row] = "REJECTED"
      /\ r.pc = "close" => provider'[r.intent][r.row] = "CHARGED"
  BY <1>1, <1>2, <1>3, <1>6, <1>7 DEF Present
<1> QED
  BY <1>4, <1>5, <1>6, <1>8, OneProbeChanges DEF ReprocessInvariant

\* The request p is over and the others keep what they know.
LEMMA RequestOver ==
  ASSUME ReprocessInvariant, NEW p \in Operators, VerdictsPersist,
         reprocess' = [reprocess EXCEPT ![p] = NoReprocess]
  PROVE  ProbeIsSound'
<1>1. NoReprocess.pc = "idle"
  BY DEF NoReprocess
<1> QED
  BY <1>1, OneProbeChanges DEF ReprocessInvariant

LEMMA CloseVerificationInvariant ==
  ASSUME ReprocessInvariant, NEW p \in Operators, CloseVerification(p)
  PROVE  ChargeInvariant' /\ ProbeIsSound'
<1>1. PICK i \in Intents : i = reprocess[p].intent
  BY DEF CloseVerification, ReprocessInvariant, ReprocessTypeOK
<1>2. /\ UNCHANGED <<attempt, provider, worker, seen, verdict>>
      /\ intent' = Closed(i)
      /\ reprocess' = [reprocess EXCEPT ![p] = NoReprocess]
  BY <1>1 DEF CloseVerification, execVars
<1>3. VerdictsPersist
  BY <1>2, AttemptsPersist DEF Present
<1>4. CASE intent[i].status = "UNKNOWN"
  <2>1. /\ intent'[i].status = "SUCCEEDED"
        /\ \A j \in Intents \ {i} : intent'[j] = intent[j]
    BY <1>2, <1>4 DEF Closed, UpdateUnknown, ReprocessInvariant, TypeOK, StoreTypeOK, IntentRow
  <2>2. OperationsAreRecorded' /\ RowsInOrder' /\ OpenIsLast'
    BY <1>2 DEF ReprocessInvariant, ChargeInvariant, OperationsAreRecorded, RowsInOrder,
       OpenIsLast, MayCharge, IsLast, Present
  <2>3. ReopenedOnlyAfterRejection' /\ InFlightAgrees' /\ UnknownIsLast'
    BY <1>2, <1>4, <2>1 DEF ReprocessInvariant, ChargeInvariant, ReopenedOnlyAfterRejection,
       InFlightAgrees, UnknownIsLast, MayCharge, IsLast, Present
  <2>4. \A v \in Workers : worker[v].pc # "idle" => worker[v].intent \in Intents \ {i}
    BY <1>4 DEF ReprocessInvariant, ChargeInvariant, ExecutionOwnsAttempt, TypeOK
  <2>5. ExecutionOwnsAttempt' /\ ExecutionKnowsOutcome'
    BY <1>2, <2>1, <2>4
       DEF ReprocessInvariant, ChargeInvariant, ExecutionOwnsAttempt, ExecutionKnowsOutcome
  <2>6. SweepIsCurrent'
    <3>1. \A j \in Todo : j \in Intents /\ intent'[j].status \in {"UNKNOWN", "SUCCEEDED"}
      BY <2>1 DEF ReprocessInvariant, ChargeInvariant, SweepIsCurrent, Todo
    <3> QED
      BY <1>2, <3>1 DEF ReprocessInvariant, ChargeInvariant, SweepIsCurrent, Todo, IsCurrent,
         VerdictHolds, IsLast, Present
  <2>7. ChargeInvariant'
    BY <2>2, <2>3, <2>5, <2>6 DEF ChargeInvariant
  <2> QED
    BY <1>2, <1>3, <2>7, RequestOver
<1>5. CASE intent[i].status # "UNKNOWN"
  <2>1. intent' = intent
    BY <1>2, <1>5 DEF Closed, UpdateUnknown
  <2>2. ProviderAdvances
    BY <1>2, <2>1 DEF ProviderAdvances
  <2>3. ChargeInvariant'
    BY <1>2, <2>2, ProviderAdvancesInvariant, ProviderAdvancesSweep, ProviderAdvancesExecutions
       DEF ReprocessInvariant, ChargeInvariant
  <2> QED
    BY <1>2, <1>3, <2>3, RequestOver
<1> QED
  BY <1>4, <1>5

\* Nothing of the intent is in doubt when its manual attempt starts.
LEMMA StartManualInvariant ==
  ASSUME StaleProbes = FALSE, StartsDuringSweep = FALSE, ReprocessInvariant,
         NEW p \in Operators, NEW w \in Workers, NEW n \in Rows,
         StartManualAttempt(p, w, n), StoreTypeOK'
  PROVE  ChargeInvariant' /\ ProbeIsSound'
<1>1. PICK i \in Intents, k \in Rows : i = reprocess[p].intent /\ k = reprocess[p].row
  BY DEF StartManualAttempt, ReprocessInvariant, ReprocessTypeOK
<1>2. provider[i][k] = "REJECTED" /\ IsLast(i, k) /\ i \notin Todo
  BY <1>1 DEF StartManualAttempt, ProbeStillHolds, ReprocessInvariant, ProbeIsSound
<1>3. \A m \in Rows : ~MayCharge(i, m)
  <2> SUFFICES ASSUME NEW m \in Rows, MayCharge(i, m)
               PROVE  FALSE
    OBVIOUS
  <2>1. IsLast(i, m) /\ Present(i, m) /\ Present(i, k)
    BY <1>2 DEF ReprocessInvariant, ChargeInvariant, OpenIsLast, IsLast
  <2>2. m = k
    BY <1>2, <2>1, RowsAreNat, LastIsUnique
  <2> QED
    BY <1>2, <2>2 DEF MayCharge
<1>4. IsNextRow(i, n) /\ NoInFlightAttempt(i) /\ UNCHANGED <<provider, seen, verdict>>
  BY <1>1 DEF StartManualAttempt
<1>5. /\ attempt'[i][n].status = "IN_FLIGHT" /\ ~attempt'[i][n].overdue
      /\ \A m \in Rows \ {n} : attempt'[i][m] = attempt[i][m]
      /\ \A j \in Intents \ {i} : attempt'[j] = attempt[j]
  BY <1>1 DEF StartManualAttempt, ReprocessInvariant, TypeOK, StoreTypeOK
<1>6. /\ intent'[i].status = "IN_FLIGHT"
      /\ \A j \in Intents \ {i} : intent'[j] = intent[j]
  BY <1>1 DEF StartManualAttempt, ReprocessInvariant, TypeOK, StoreTypeOK, IntentRow
<1>7. /\ worker'[w].pc = "charge" /\ worker'[w].intent = i /\ worker'[w].row = n
      /\ \A v \in Workers \ {w} : worker'[v] = worker[v]
  BY <1>1 DEF StartManualAttempt, ReprocessInvariant, TypeOK, Idle
<1>8. ChargeInvariant'
  BY <1>2, <1>3, <1>4, <1>5, <1>6, <1>7, NewAttemptInvariant DEF ReprocessInvariant
<1>9. VerdictsPersist
  <2>1. \A j \in Intents : \A m \in Rows : Present(j, m) => attempt'[j][m].status # "ABSENT"
    BY <1>5 DEF Present
  <2> QED
    BY <1>4, <2>1, AttemptsPersist
<1>10. reprocess' = [reprocess EXCEPT ![p] = NoReprocess]
  BY DEF StartManualAttempt
<1> QED
  BY <1>8, <1>9, <1>10, RequestOver

LEMMA ManualVerifyInvariant ==
  ASSUME ReprocessInvariant, NEW w \in Workers, NEW v \in Verdicts, ManualVerify(w, v),
         UNCHANGED reprocess
  PROVE  ChargeInvariant' /\ ProbeIsSound'
<1> DEFINE s == ManualSettlementFor(v, worker[w].outcome)
<1>1. /\ s \in Settlements
      /\ s = "SUCCEEDED" => v = "SUCCEEDED"
      /\ s \in {"RETRY_PENDING", "FAILED_FINAL"} => v = "FAILED"
  BY DEF ManualSettlementFor, Settlements
<1>2. /\ worker[w].pc = "verify"
      /\ VerifyCall(worker[w].intent, worker[w].row, v)
      /\ worker' = [worker EXCEPT ![w].pc = "settle", ![w].settlement = s]
      /\ UNCHANGED <<storeVars, seen, verdict>>
  BY DEF ManualVerify
<1> HIDE DEF s
<1>3. ChargeInvariant'
  BY <1>1, <1>2, AnswerInvariant DEF ReprocessInvariant
<1>4. PICK i \in Intents, n \in Rows :
         i = worker[w].intent /\ n = worker[w].row /\ Present(i, n)
  BY <1>2 DEF ReprocessInvariant, TypeOK, ChargeInvariant, ExecutionOwnsAttempt, Present
<1>5. ProviderAdvances
  BY <1>2, <1>4, VerifyAdvances DEF storeVars, ReprocessInvariant
<1> QED
  BY <1>3, <1>5, AdvancesPersist, ProbesPersist DEF ReprocessInvariant

LEMMA ReprocessStepInvariant ==
  ASSUME StaleProbes = FALSE, StartsDuringSweep = FALSE, ReprocessInvariant, ReprocessNext
  PROVE  ChargeInvariant' /\ ProbeIsSound'
<1>1. StoreTypeOK'
  BY ReprocessStepType DEF ReprocessInvariant, TypeOK
<1>2. ASSUME NEW p \in Operators, ReprocessEnds(p)
      PROVE  ChargeInvariant' /\ ProbeIsSound'
  <2>1. UNCHANGED vars /\ reprocess' = [reprocess EXCEPT ![p] = NoReprocess]
    BY <1>2 DEF ReprocessEnds
  <2>2. VerdictsPersist
    BY <2>1, AttemptsPersist DEF vars, storeVars, Present
  <2> QED
    BY <2>1, <2>2, StutterInvariant, RequestOver DEF ReprocessInvariant
<1> QED
  BY <1>1, <1>2, LoadCandidateInvariant, VerifyLatestInvariant, CloseVerificationInvariant,
     StartManualInvariant, ManualVerifyInvariant DEF ReprocessNext, ReprocessStep

\* The invariant of the executor survives the requests, and theirs survives the
\* executor.
THEOREM ReprocessInvariantHolds ==
  ASSUME StallBeyondDeadline = FALSE, StaleProbes = FALSE, StartsDuringSweep = FALSE
  PROVE  ReprocessSpec => []ReprocessInvariant
<1>1. Init /\ ReprocessInit => ReprocessInvariant
  <2>1. ReprocessInit => ProbeIsSound
    BY DEF ReprocessInit, ProbeIsSound, NoReprocess
  <2> QED
    BY <2>1, ReprocessInitType, InitInvariant DEF ReprocessInvariant
<1>2. ReprocessInvariant /\ [ReprocessNext \/ (Next /\ UNCHANGED reprocess)]_reprocessVars
         => ReprocessInvariant'
  <2> SUFFICES ASSUME ReprocessInvariant,
                      [ReprocessNext \/ (Next /\ UNCHANGED reprocess)]_reprocessVars
               PROVE  ReprocessInvariant'
    OBVIOUS
  <2>1. CASE ReprocessNext
    BY <2>1, ReprocessStepType, ReprocessStepInvariant DEF ReprocessInvariant
  <2>2. CASE [Next]_vars /\ reprocess' = reprocess
    <3>1. TypeOK' /\ ReprocessTypeOK'
      BY <2>2, StepTypeOK DEF ReprocessInvariant, ReprocessTypeOK
    <3>2. ChargeInvariant'
      BY <2>2, StepInvariant DEF ReprocessInvariant
    <3>3. ProbeIsSound'
      BY <2>2, StepPersists, ProbesPersist DEF ReprocessInvariant
    <3> QED
      BY <3>1, <3>2, <3>3 DEF ReprocessInvariant
  <2> QED
    BY <2>1, <2>2 DEF reprocessVars
<1> QED
  BY <1>1, <1>2, PTL DEF ReprocessSpec

\* INV-01 with manual attempts: no intent is charged twice, as long as no
\* execution outlives its deadline, no probe is stale and no manual attempt
\* starts while the verification sweep has its intent on the list.
THEOREM ReprocessOneEffectiveCharge ==
  ASSUME StallBeyondDeadline = FALSE, StaleProbes = FALSE, StartsDuringSweep = FALSE
  PROVE  ReprocessSpec => []AtMostOneEffectiveCharge
<1>1. ReprocessInvariant => AtMostOneEffectiveCharge
  BY InvariantGivesOneCharge DEF ReprocessInvariant
<1> QED
  BY <1>1, ReprocessInvariantHolds, PTL

-----------------------------------------------------------------------------
(* Requests about subscriptions and cycles *)

\* What a lifecycle request writes is typed, and it is about one subscription.
LEMMA OmitIntentsType ==
  ASSUME TypeOK, NEW ids
  PROVE  OmitIntents(ids) \in [Intents -> IntentRow]
  BY TypeFacts, IntentStatus DEF OmitIntents, IntentStates

\* The three tables change at most as OMIT_INTENTS and the two UPDATEs of the
\* subscription say.
LEMMA LifecycleWrites ==
  ASSUME TypeOK, LifecycleTypeOK, LifecycleNext
  PROVE  /\ attempt' = attempt
         /\ \/ intent' = intent
            \/ \E ids \in SUBSET Intents : intent' = OmitIntents(ids)
         /\ subscription' \in [Subscriptions -> SubscriptionStates]
         /\ outbox' \in [Subscriptions -> Nat]
         /\ LifecycleTypeOK'
<1>0. PICK a \in Admins :
        \/ \E op \in LifecycleOps, s \in Subscriptions : LoadSubscription(a, op, s)
        \/ LoadLiveIntents(a)
        \/ ApplyCancellation(a)
        \/ ApplyPause(a)
        \/ ApplyResume(a)
        \/ RequestAbandoned(a)
  BY DEF LifecycleNext
<1>1. request[a] \in LifecycleState
  BY DEF LifecycleTypeOK
<1>2. request[a].sub \in Subscriptions /\ request[a].omit \in SUBSET Intents
  BY <1>1 DEF LifecycleState
<1>3. /\ subscription \in [Subscriptions -> SubscriptionStates]
      /\ outbox \in [Subscriptions -> Nat]
  BY DEF TypeOK, StoreTypeOK
<1>4. ASSUME request' = [request EXCEPT ![a] = NoLifecycle], request[a].sub \in Subscriptions
      PROVE  LifecycleTypeOK'
  <2>1. (CHOOSE s \in Subscriptions : TRUE) \in Subscriptions
    BY <1>4
  <2>2. NoLifecycle \in LifecycleState
    BY <2>1 DEF NoLifecycle, LifecycleState, LifecycleOps, SubscriptionStates
  <2> QED
    BY <1>4, <2>2 DEF LifecycleTypeOK
<1>5. ASSUME NEW op \in LifecycleOps, NEW s \in Subscriptions, LoadSubscription(a, op, s)
      PROVE  LifecycleTypeOK'
  <2> DEFINE r == [NoLifecycle EXCEPT !.pc = "loaded", !.op = op, !.sub = s,
                                    !.status = subscription[s]]
  <2>1. subscription[s] \in SubscriptionStates
    BY <1>3, <1>5
  <2>2. r \in LifecycleState
    BY <1>5, <2>1 DEF NoLifecycle, LifecycleState
  <2>3. request' = [request EXCEPT ![a] = r]
    BY <1>5 DEF LoadSubscription
  <2> HIDE DEF r
  <2> QED
    BY <2>2, <2>3 DEF LifecycleTypeOK
<1>6. ASSUME LoadLiveIntents(a)
      PROVE  LifecycleTypeOK'
  <2>1. ASSUME NEW ids \in SUBSET Intents
        PROVE  [request[a] EXCEPT !.pc = "apply", !.omit = ids] \in LifecycleState
    BY <1>1, <2>1 DEF LifecycleState
  <2>2. PICK ids \in SUBSET Intents :
           \/ request' = [request EXCEPT ![a] = NoLifecycle]
           \/ request' = [request EXCEPT ![a] =
                             [request[a] EXCEPT !.pc = "apply", !.omit = ids]]
    <3>1. IntentsToOmit(request[a].sub) \in SUBSET Intents
      BY DEF IntentsToOmit
    <3> QED
      BY <1>6, <3>1 DEF LoadLiveIntents
  <2> QED
    BY <1>2, <1>4, <2>1, <2>2 DEF LifecycleTypeOK
<1>7. CASE ApplyCancellation(a)
  <2>1. outbox[request[a].sub] + 1 \in Nat
    BY <1>2, <1>3
  <2> QED
    BY <1>2, <1>3, <1>4, <1>7, <2>1 DEF ApplyCancellation, SubscriptionStates
<1>8. CASE ApplyPause(a) \/ ApplyResume(a)
  BY <1>2, <1>3, <1>4, <1>8 DEF ApplyPause, ApplyResume, SubscriptionStates
<1>9. CASE RequestAbandoned(a)
  BY <1>2, <1>3, <1>4, <1>9 DEF RequestAbandoned, storeVars
<1> QED
  BY <1>0, <1>3, <1>5, <1>6, <1>7, <1>8, <1>9 DEF LoadSubscription, LoadLiveIntents, storeVars

\* A sweep of the scheduler inserts the row of one cycle.
LEMMA SweptWrites ==
  ASSUME TypeOK, SweptCycle
  PROVE  /\ UNCHANGED <<subscription, attempt, outbox, creating>>
         /\ intent' \in [Intents -> IntentRow]
         /\ \E i \in Intents :
                /\ intent[i].status = "ABSENT"
                /\ \/ intent'[i].status = "SCHEDULED" /\ LiveUnique(i)
                   \/ intent'[i].status = "OMITTED"
                /\ \A j \in Intents \ {i} : intent'[j] = intent[j]
<1>1. PICK i \in Intents : ScheduleIntent(i) \/ OmitCycle(i)
  BY DEF SweptCycle
<1>2. intent \in [Intents -> IntentRow]
  BY DEF TypeOK, StoreTypeOK
<1>3. ASSUME NEW st \in IntentStates, intent' = [intent EXCEPT ![i].status = st]
      PROVE  /\ intent' \in [Intents -> IntentRow] /\ intent'[i].status = st
             /\ \A j \in Intents \ {i} : intent'[j] = intent[j]
  <2>1. [intent[i] EXCEPT !.status = st] \in IntentRow /\ [intent[i] EXCEPT !.status = st].status = st
    BY <1>2 DEF IntentRow
  <2> QED
    BY <1>2, <1>3, <2>1
<1>4. CASE ScheduleIntent(i)
  BY <1>3, <1>4 DEF ScheduleIntent, SweptCycle, IntentStates
<1>5. CASE OmitCycle(i)
  BY <1>3, <1>5 DEF OmitCycle, SweptCycle, IntentStates
<1> QED
  BY <1>1, <1>4, <1>5

\* Intents that have nothing in doubt may be omitted, and cycles inserted.
LEMMA OmitInvariant ==
  ASSUME TypeOK, ChargeInvariant,
         \A j \in Intents :
            \/ intent'[j].status = intent[j].status
            \/ /\ intent[j].status \in {"ABSENT", "SCHEDULED", "RETRY_PENDING"}
               /\ intent'[j].status \in {"SCHEDULED", "OMITTED"},
         UNCHANGED <<attempt, provider, worker, seen, verdict>>
  PROVE  ChargeInvariant'
<1>1. \A j \in Intents :
         \/ intent'[j].status = intent[j].status
         \/ /\ intent[j].status \in {"ABSENT", "SCHEDULED", "RETRY_PENDING"}
            /\ intent'[j].status \in {"SCHEDULED", "OMITTED"}
  OBVIOUS
<1>2. OperationsAreRecorded' /\ RowsInOrder' /\ OpenIsLast'
  BY DEF ChargeInvariant, OperationsAreRecorded, RowsInOrder, OpenIsLast, MayCharge, IsLast, Present
<1>3. ReopenedOnlyAfterRejection' /\ InFlightAgrees' /\ UnknownIsLast'
  BY <1>1 DEF ChargeInvariant, ReopenedOnlyAfterRejection, InFlightAgrees, UnknownIsLast,
     MayCharge, IsLast, Present
<1>4. \A v \in Workers : worker[v].pc # "idle" => worker[v].intent \in Intents
  BY DEF TypeOK
<1>5. ExecutionOwnsAttempt' /\ ExecutionKnowsOutcome'
  BY <1>1, <1>4 DEF ChargeInvariant, ExecutionOwnsAttempt, ExecutionKnowsOutcome
<1>6. SweepIsCurrent'
  <2>1. \A j \in Todo : j \in Intents
    BY DEF Todo
  <2> QED
    BY <1>1, <2>1 DEF ChargeInvariant, SweepIsCurrent, Todo, IsCurrent, VerdictHolds, IsLast, Present
<1> QED
  BY <1>2, <1>3, <1>5, <1>6 DEF ChargeInvariant

LEMMA EngineInitType == EngineInit => EngineTypeOK
<1> SUFFICES ASSUME EngineInit PROVE EngineTypeOK
  OBVIOUS
<1>1. TypeOK /\ ReprocessTypeOK /\ CyclesTypeOK
  BY ReprocessInitType DEF EngineInit, CyclesInit, CyclesTypeOK
<1>2. (CHOOSE s \in Subscriptions : TRUE) \in Subscriptions
  BY LifecycleAssumption
<1>3. NoLifecycle \in LifecycleState
  BY <1>2 DEF NoLifecycle, LifecycleState, LifecycleOps, SubscriptionStates
<1> QED
  BY <1>1, <1>3 DEF EngineInit, LifecycleInit, LifecycleTypeOK, EngineTypeOK

\* A request that creates an intent is a step, or a stutter, of the executor.
LEMMA CyclesAreSteps ==
  ASSUME CyclesNext, UNCHANGED <<provider, execVars>>
  PROVE  [Next]_vars
  BY DEF CyclesNext, FindSubscription, CreateIntent, CreationAbandoned, Next, vars

LEMMA EngineStepType == EngineTypeOK /\ [EngineNext]_engineVars => EngineTypeOK'
<1> SUFFICES ASSUME EngineTypeOK, [EngineNext]_engineVars PROVE EngineTypeOK'
  OBVIOUS
<1>0. TypeOK /\ ReprocessTypeOK /\ CyclesTypeOK /\ LifecycleTypeOK
  BY DEF EngineTypeOK
<1>1. ASSUME [Next]_vars, UNCHANGED <<reprocess, request>>, CyclesTypeOK'
      PROVE  EngineTypeOK'
  BY <1>0, <1>1, StepTypeOK DEF EngineTypeOK, LifecycleTypeOK, ReprocessTypeOK
<1>2. CASE ExecutorNext /\ UNCHANGED <<reprocess, creating, request>>
  BY <1>0, <1>1, <1>2 DEF Next, CyclesTypeOK
<1>3. CASE ReprocessNext /\ UNCHANGED <<creating, request>>
  BY <1>0, <1>3, ReprocessStepType DEF EngineTypeOK, CyclesTypeOK, LifecycleTypeOK
<1>4. CASE CyclesNext /\ UNCHANGED <<provider, execVars, reprocess, request>>
  <2>1. CyclesTypeOK'
    BY <1>0, <1>4 DEF CyclesNext, FindSubscription, CreateIntent, CreationAbandoned, CyclesTypeOK
  <2> QED
    BY <1>1, <1>4, <2>1, CyclesAreSteps
<1>5. CASE LifecycleNext /\ UNCHANGED <<provider, execVars, reprocess, creating>>
  <2>1. /\ attempt' = attempt
        /\ \/ intent' = intent
           \/ \E ids \in SUBSET Intents : intent' = OmitIntents(ids)
        /\ subscription' \in [Subscriptions -> SubscriptionStates]
        /\ outbox' \in [Subscriptions -> Nat]
        /\ LifecycleTypeOK'
    BY <1>0, <1>5, LifecycleWrites
  <2>2. intent' \in [Intents -> IntentRow]
    BY <1>0, <2>1, OmitIntentsType DEF TypeOK, StoreTypeOK
  <2>3. TypeOK'
    BY <1>0, <1>5, <2>1, <2>2 DEF TypeOK, StoreTypeOK, ProviderTypeOK, execVars
  <2> QED
    BY <1>0, <1>5, <2>1, <2>3 DEF EngineTypeOK, CyclesTypeOK, ReprocessTypeOK
<1>6. CASE UNCHANGED engineVars
  BY <1>0, <1>1, <1>6 DEF engineVars, reprocessVars, CyclesTypeOK
<1>7. CASE SweptCycle /\ UNCHANGED <<provider, execVars, reprocess, request>>
  <2>1. TypeOK'
    BY <1>0, <1>7, SweptWrites DEF TypeOK, StoreTypeOK, ProviderTypeOK, execVars
  <2> QED
    BY <1>0, <1>7, <2>1, SweptWrites DEF EngineTypeOK, CyclesTypeOK, ReprocessTypeOK, LifecycleTypeOK
<1> QED
  BY <1>2, <1>3, <1>4, <1>5, <1>6, <1>7 DEF EngineNext, ServiceNext

\* Every variable of the engine keeps its type.
THEOREM EngineTypeCorrect == EngineSpec => []EngineTypeOK
BY EngineInitType, EngineStepType, PTL DEF EngineSpec

LEMMA EngineStepInvariant ==
  ASSUME StallBeyondDeadline = FALSE, StaleProbes = FALSE, StartsDuringSweep = FALSE,
         EngineTypeOK, ReprocessInvariant, [EngineNext]_engineVars
  PROVE  ReprocessInvariant'
<1>0. /\ TypeOK /\ ReprocessTypeOK /\ LifecycleTypeOK
      /\ TypeOK' /\ ReprocessTypeOK'
      /\ ChargeInvariant /\ ProbeIsSound
  BY EngineStepType DEF EngineTypeOK, ReprocessInvariant
<1>1. ASSUME [Next]_vars, reprocess' = reprocess
      PROVE  ReprocessInvariant'
  BY <1>0, <1>1, StepInvariant, StepPersists, ProbesPersist DEF ReprocessInvariant
<1>2. CASE (ExecutorNext /\ UNCHANGED <<reprocess, creating, request>>) \/ UNCHANGED engineVars
  BY <1>1, <1>2 DEF Next, engineVars, reprocessVars
<1>3. CASE ReprocessNext
  BY <1>0, <1>3, ReprocessStepInvariant DEF ReprocessInvariant
<1>4. CASE CyclesNext /\ UNCHANGED <<provider, execVars, reprocess, request>>
  BY <1>1, <1>4, CyclesAreSteps
<1>5. CASE LifecycleNext /\ UNCHANGED <<provider, execVars, reprocess, creating>>
  <2>1. /\ attempt' = attempt
        /\ \/ intent' = intent
           \/ \E ids \in SUBSET Intents : intent' = OmitIntents(ids)
    BY <1>0, <1>5, LifecycleWrites
  <2>2. UNCHANGED <<provider, worker, seen, verdict, reprocess>>
    BY <1>5 DEF execVars
  <2>3. ChargeInvariant'
    <3>1. CASE intent' = intent
      BY <1>0, <2>1, <2>2, <3>1, ProviderAdvancesInvariant, ProviderAdvancesSweep,
         ProviderAdvancesExecutions DEF ProviderAdvances, ChargeInvariant
    <3>2. CASE \E ids \in SUBSET Intents : intent' = OmitIntents(ids)
      <4>1. \A j \in Intents : [intent[j] EXCEPT !.status = "OMITTED"].status = "OMITTED"
        BY <1>0, TypeFacts DEF IntentRow
      <4>2. \A j \in Intents :
               \/ intent'[j].status = intent[j].status
               \/ /\ intent[j].status \in {"ABSENT", "SCHEDULED", "RETRY_PENDING"}
                  /\ intent'[j].status \in {"SCHEDULED", "OMITTED"}
        BY <3>2, <4>1 DEF OmitIntents, OmittableStates
      <4> QED
        BY <1>0, <2>1, <2>2, <4>2, OmitInvariant
    <3> QED
      BY <2>1, <3>1, <3>2
  <2>4. VerdictsPersist
    BY <2>1, <2>2, AttemptsPersist DEF Present
  <2> QED
    BY <1>0, <2>2, <2>3, <2>4, ProbesPersist DEF ReprocessInvariant
<1>6. CASE SweptCycle /\ UNCHANGED <<provider, execVars, reprocess, request>>
  <2>1. UNCHANGED <<attempt, provider, worker, seen, verdict, reprocess>>
    BY <1>0, <1>6, SweptWrites DEF execVars
  <2>2. \A j \in Intents :
           \/ intent'[j].status = intent[j].status
           \/ /\ intent[j].status \in {"ABSENT", "SCHEDULED", "RETRY_PENDING"}
              /\ intent'[j].status \in {"SCHEDULED", "OMITTED"}
    BY <1>0, <1>6, SweptWrites
  <2>3. ChargeInvariant'
    BY <1>0, <2>1, <2>2, OmitInvariant
  <2>4. VerdictsPersist
    BY <2>1, AttemptsPersist DEF Present
  <2> QED
    BY <1>0, <2>1, <2>3, <2>4, ProbesPersist DEF ReprocessInvariant
<1> QED
  BY <1>2, <1>3, <1>4, <1>5, <1>6 DEF EngineNext, ServiceNext

\* The invariant of executor and reprocess survives every request of the engine.
THEOREM EngineChargeInvariant ==
  ASSUME StallBeyondDeadline = FALSE, StaleProbes = FALSE, StartsDuringSweep = FALSE
  PROVE  EngineSpec => []ReprocessInvariant
<1>1. EngineInit => ReprocessInvariant
  <2>1. ReprocessInit => ProbeIsSound
    BY DEF ReprocessInit, ProbeIsSound, NoReprocess
  <2> QED
    BY <2>1, ReprocessInitType, InitInvariant DEF EngineInit, ReprocessInvariant
<1>2. EngineTypeOK /\ ReprocessInvariant /\ [EngineNext]_engineVars => ReprocessInvariant'
  BY EngineStepInvariant
<1> QED
  BY <1>1, <1>2, EngineTypeCorrect, PTL DEF EngineSpec

\* INV-01 for the whole engine: manual attempts, cancellations, pauses,
\* resumptions and new cycles, however they interleave with executions and
\* sweeps, cause no second effective charge of an intent, as long as no
\* execution outlives its deadline, no probe is stale and no manual attempt
\* starts under the hands of the verification sweep.
THEOREM EngineOneEffectiveCharge ==
  ASSUME StallBeyondDeadline = FALSE, StaleProbes = FALSE, StartsDuringSweep = FALSE
  PROVE  EngineSpec => []AtMostOneEffectiveCharge
<1>1. ReprocessInvariant => AtMostOneEffectiveCharge
  BY InvariantGivesOneCharge DEF ReprocessInvariant
<1> QED
  BY <1>1, EngineChargeInvariant, PTL

\* RF-10, RF-17: no cancellation or pause omits an intent whose charge was, or
\* may yet be, accepted.
THEOREM OmittedOnlyAfterRejection ==
  ASSUME StallBeyondDeadline = FALSE, StaleProbes = FALSE, StartsDuringSweep = FALSE
  PROVE  EngineSpec => []ReopenedOnlyAfterRejection
<1>1. ReprocessInvariant => ReopenedOnlyAfterRejection
  BY DEF ReprocessInvariant, ChargeInvariant
<1> QED
  BY <1>1, EngineChargeInvariant, PTL

-----------------------------------------------------------------------------
(* Subscriptions and their cancellation events *)

\* What the outbox and the subscriptions owe each other; a request that is about
\* to apply its decision found a status it proceeds from.
CancellationInvariant ==
  /\ EngineTypeOK
  /\ EveryCancellationIsTold
  /\ \A a \in Admins : request[a].pc = "apply" => Proceeds(request[a].op, request[a].status)

\* A settlement, the only step of executions that writes a subscription, cancels
\* and tells, or leaves both alone.
LEMMA CancelWithTells ==
  ASSUME StoreTypeOK, EveryCancellationIsTold, NEW rows, NEW s \in Subscriptions,
         CancelWith(rows, s)
  PROVE  /\ EveryCancellationIsTold'
         /\ \A t \in Subscriptions :
                /\ subscription'[t] # subscription[t] => subscription'[t] = "CANCELLED"
                /\ subscription[t] = "CANCELLED" =>
                      subscription'[t] = "CANCELLED" /\ outbox'[t] = outbox[t]
<1>1. CASE subscription[s] = "CANCELLED"
  BY <1>1 DEF CancelWith, EveryCancellationIsTold
<1>2. CASE subscription[s] # "CANCELLED"
  <2>1. /\ subscription' = [subscription EXCEPT ![s] = "CANCELLED"]
        /\ outbox' = [outbox EXCEPT ![s] = @ + 1]
    BY <1>2 DEF CancelWith
  <2>2. outbox[s] \in Nat
    BY DEF StoreTypeOK
  <2> QED
    BY <1>2, <2>1, <2>2 DEF StoreTypeOK, EveryCancellationIsTold
<1> QED
  BY <1>1, <1>2

\* No step of the executor but a settlement touches subscription and outbox.
LEMMA ExecutorTells ==
  ASSUME TypeOK, EveryCancellationIsTold, ExecutorNext
  PROVE  /\ EveryCancellationIsTold'
         /\ \A t \in Subscriptions :
                /\ subscription'[t] # subscription[t] => subscription'[t] = "CANCELLED"
                /\ subscription[t] = "CANCELLED" =>
                      subscription'[t] = "CANCELLED" /\ outbox'[t] = outbox[t]
<1>1. ASSUME UNCHANGED <<subscription, outbox>>
      PROVE  /\ EveryCancellationIsTold'
             /\ \A t \in Subscriptions :
                    /\ subscription'[t] # subscription[t] => subscription'[t] = "CANCELLED"
                    /\ subscription[t] = "CANCELLED" =>
                          subscription'[t] = "CANCELLED" /\ outbox'[t] = outbox[t]
  BY <1>1 DEF EveryCancellationIsTold
<1>2. ASSUME NEW w \in Workers, SettleAttempt(w), worker[w].settlement = "FAILED_FINAL"
      PROVE  \E rows : \E s \in Subscriptions : CancelWith(rows, s)
  <2>1. worker[w].intent \in Intents
    BY <1>2 DEF SettleAttempt, TypeOK
  <2>2. SubOf[worker[w].intent] \in Subscriptions
    BY <2>1, StoreAssumption
  <2> QED
    BY <1>2, <2>2 DEF SettleAttempt
<1>3. ASSUME NEW w \in Workers, SettleAttempt(w)
      PROVE  \/ UNCHANGED <<subscription, outbox>>
             \/ \E rows : \E s \in Subscriptions : CancelWith(rows, s)
  <2>1. CASE worker[w].settlement = "FAILED_FINAL"
    BY <1>2, <1>3, <2>1
  <2>2. CASE worker[w].settlement # "FAILED_FINAL"
    BY <1>3, <2>2 DEF SettleAttempt
  <2> QED
    BY <2>1, <2>2
<1>4. \/ UNCHANGED <<subscription, outbox>>
      \/ \E rows : \E s \in Subscriptions : CancelWith(rows, s)
  <2>1. ASSUME NEW w \in Workers, ExecutionStep(w) \/ ExecutionDies(w), ~SettleAttempt(w)
        PROVE  UNCHANGED <<subscription, outbox>>
    BY <2>1
       DEF ExecutionStep, Settlement, Charge, Verify, SettlementRolledBack, ExecutionDies, storeVars
  <2>2. ASSUME NEW i \in Intents, SweepStep(i) \/ SweepAborts(i) \/ TimeStep(i)
        PROVE  UNCHANGED <<subscription, outbox>>
    <3>1. CASE SweepStep(i) \/ SweepAborts(i)
      BY <3>1 DEF SweepStep, SweepAborts, SweepThrows, SweepEscalates, SweepVerifies,
         SweepKeepsUnknown, SweepSettles, AbandonSweep, NextCandidate, storeVars
    <3>2. CASE TimeStep(i)
      BY <3>2 DEF TimeStep, BackoffElapses, CadenceElapses, UnknownWindowElapses, SetIntent,
         DeadlinePasses
    <3> QED
      BY <2>2, <3>1, <3>2
  <2> QED
    BY <1>3, <2>1, <2>2 DEF ExecutorNext, StartAttempt, RecoverExpired, FindUnknown, storeVars
<1> QED
  BY <1>1, <1>4, CancelWithTells DEF TypeOK

\* What a step of the engine may do to subscriptions and outbox.
LEMMA EngineTells ==
  ASSUME CancellationInvariant, [EngineNext]_engineVars
  PROVE  /\ CancellationInvariant'
         /\ \A t \in Subscriptions :
                /\ subscription'[t] # subscription[t] =>
                      <<subscription[t], subscription'[t]>> \in AllowedSubscriptionTransitions
                /\ subscription[t] = "CANCELLED" /\ outbox'[t] # outbox[t] =>
                      \E a \in Admins :
                          /\ request[a].op = "cancel" /\ request[a].sub = t
                          /\ request[a].pc = "apply" /\ request'[a].pc = "idle"
                          /\ request[a].status # "CANCELLED"
<1>0. /\ TypeOK /\ LifecycleTypeOK /\ EngineTypeOK' /\ EveryCancellationIsTold
      /\ \A a \in Admins : request[a].pc = "apply" => Proceeds(request[a].op, request[a].status)
  BY EngineStepType DEF CancellationInvariant, EngineTypeOK
<1>1. /\ \A t \in Subscriptions : subscription[t] \in SubscriptionStates
      /\ subscription \in [Subscriptions -> SubscriptionStates]
      /\ outbox \in [Subscriptions -> Nat]
  BY <1>0 DEF TypeOK, StoreTypeOK
<1>2. ASSUME request' = request,
             EveryCancellationIsTold',
             \A t \in Subscriptions :
                /\ subscription'[t] # subscription[t] => subscription'[t] = "CANCELLED"
                /\ subscription[t] = "CANCELLED" =>
                      subscription'[t] = "CANCELLED" /\ outbox'[t] = outbox[t]
      PROVE  /\ CancellationInvariant'
             /\ \A t \in Subscriptions :
                    /\ subscription'[t] # subscription[t] =>
                          <<subscription[t], subscription'[t]>> \in AllowedSubscriptionTransitions
                    /\ ~(subscription[t] = "CANCELLED" /\ outbox'[t] # outbox[t])
  <2>1. CancellationInvariant'
    BY <1>0, <1>2 DEF CancellationInvariant
  <2>2. ASSUME NEW t \in Subscriptions, subscription'[t] # subscription[t]
        PROVE  <<subscription[t], subscription'[t]>> \in AllowedSubscriptionTransitions
    BY <1>1, <1>2, <2>2 DEF SubscriptionStates, AllowedSubscriptionTransitions
  <2> QED
    BY <1>2, <2>1, <2>2
<1>3. CASE ExecutorNext /\ UNCHANGED <<reprocess, creating, request>>
  BY <1>0, <1>2, <1>3, ExecutorTells
<1>4. ASSUME UNCHANGED <<subscription, outbox, request>>
      PROVE  /\ CancellationInvariant'
             /\ \A t \in Subscriptions :
                    /\ subscription'[t] # subscription[t] =>
                          <<subscription[t], subscription'[t]>> \in AllowedSubscriptionTransitions
                    /\ ~(subscription[t] = "CANCELLED" /\ outbox'[t] # outbox[t])
  BY <1>0, <1>2, <1>4 DEF EveryCancellationIsTold
<1>5. CASE ReprocessNext /\ UNCHANGED <<creating, request>>
  <2>1. UNCHANGED <<subscription, outbox>>
    BY <1>5 DEF ReprocessNext, ReprocessStep, LoadCandidate, VerifyLatest, CloseVerification,
       StartManualAttempt, ReprocessEnds, ManualVerify, vars, storeVars
  <2> QED
    BY <1>4, <1>5, <2>1
<1>6. CASE CyclesNext /\ UNCHANGED <<provider, execVars, reprocess, request>>
  <2>1. UNCHANGED <<subscription, outbox>>
    BY <1>6 DEF CyclesNext, FindSubscription, CreateIntent, CreationAbandoned, ScheduleIntent,
       storeVars
  <2> QED
    BY <1>4, <1>6, <2>1
<1>7. CASE LifecycleNext /\ UNCHANGED <<provider, execVars, reprocess, creating>>
  <2>0. PICK a \in Admins :
          \/ \E op \in LifecycleOps, s \in Subscriptions : LoadSubscription(a, op, s)
          \/ LoadLiveIntents(a)
          \/ ApplyCancellation(a)
          \/ ApplyPause(a)
          \/ ApplyResume(a)
          \/ RequestAbandoned(a)
    BY <1>7 DEF LifecycleNext
  <2>1. /\ request[a] \in LifecycleState /\ request[a].sub \in Subscriptions
        /\ \A r : request' = [request EXCEPT ![a] = r] =>
              request'[a] = r /\ \A b \in Admins \ {a} : request'[b] = request[b]
    BY <1>0 DEF LifecycleTypeOK, LifecycleState
  <2>2. NoLifecycle.pc = "idle"
    BY DEF NoLifecycle
  <2>3. ASSUME NEW r, request' = [request EXCEPT ![a] = r],
               r.pc = "apply" => Proceeds(r.op, r.status)
        PROVE  \A b \in Admins : request'[b].pc = "apply" =>
                  Proceeds(request'[b].op, request'[b].status)
    BY <1>0, <2>1, <2>3
  <2>4. ASSUME NEW op \in LifecycleOps, NEW s \in Subscriptions, LoadSubscription(a, op, s)
        PROVE  \E r : request' = [request EXCEPT ![a] = r] /\ r.pc # "apply"
    <3>1. [NoLifecycle EXCEPT !.pc = "loaded", !.op = op, !.sub = s,
                              !.status = subscription[s]].pc = "loaded"
      BY DEF NoLifecycle
    <3> QED
      BY <2>4, <3>1 DEF LoadSubscription
  <2>5. ASSUME LoadLiveIntents(a)
        PROVE  \E r : /\ request' = [request EXCEPT ![a] = r]
                      /\ r.pc = "apply" => Proceeds(r.op, r.status)
    <3>1. CASE Proceeds(request[a].op, request[a].status)
      <4>1. PICK ids : request' = [request EXCEPT ![a] =
                                      [request[a] EXCEPT !.pc = "apply", !.omit = ids]]
        BY <2>5, <3>1 DEF LoadLiveIntents
      <4>2. /\ [request[a] EXCEPT !.pc = "apply", !.omit = ids].op = request[a].op
            /\ [request[a] EXCEPT !.pc = "apply", !.omit = ids].status = request[a].status
        BY <2>1 DEF LifecycleState
      <4> QED
        BY <3>1, <4>1, <4>2
    <3>2. CASE ~Proceeds(request[a].op, request[a].status)
      BY <2>2, <2>5, <3>2 DEF LoadLiveIntents
    <3> QED
      BY <3>1, <3>2
  <2>6. \A b \in Admins : request'[b].pc = "apply" => Proceeds(request'[b].op, request'[b].status)
    <3>1. CASE ApplyCancellation(a) \/ ApplyPause(a) \/ ApplyResume(a) \/ RequestAbandoned(a)
      BY <2>2, <2>3, <3>1 DEF ApplyCancellation, ApplyPause, ApplyResume, RequestAbandoned
    <3> QED
      BY <2>0, <2>3, <2>4, <2>5, <3>1
  <2>7. CASE UNCHANGED <<subscription, outbox>>
    BY <1>0, <2>6, <2>7 DEF CancellationInvariant, EveryCancellationIsTold
  <2>8. CASE ApplyCancellation(a)
    <3> DEFINE s == request[a].sub
    <3>1. /\ subscription' = [subscription EXCEPT ![s] = "CANCELLED"]
          /\ outbox' = [outbox EXCEPT ![s] = @ + 1]
          /\ request[a].pc = "apply" /\ request[a].op = "cancel"
          /\ request' = [request EXCEPT ![a] = NoLifecycle]
      BY <2>8 DEF ApplyCancellation
    <3>2. outbox[s] \in Nat /\ s \in Subscriptions
      BY <1>1, <2>1
    <3>3. EveryCancellationIsTold'
      BY <1>0, <1>1, <3>1, <3>2 DEF EveryCancellationIsTold
    <3>4. request[a].status # "CANCELLED"
      BY <1>0, <3>1 DEF Proceeds
    <3>5. ASSUME NEW t \in Subscriptions, subscription'[t] # subscription[t]
          PROVE  <<subscription[t], subscription'[t]>> \in AllowedSubscriptionTransitions
      BY <1>1, <3>1, <3>5 DEF SubscriptionStates, AllowedSubscriptionTransitions
    <3>6. request'[a].pc = "idle"
      BY <2>1, <2>2, <3>1
    <3>7. \A t \in Subscriptions : outbox'[t] # outbox[t] => t = s
      BY <1>1, <3>1
    <3> QED
      BY <1>0, <2>6, <3>1, <3>3, <3>4, <3>5, <3>6, <3>7 DEF CancellationInvariant
  <2>9. CASE ApplyPause(a) \/ ApplyResume(a)
    <3> DEFINE s == request[a].sub
    <3>1. PICK st \in {"ACTIVE", "PAUSED"} : subscription' = [subscription EXCEPT ![s] = st]
      BY <2>9 DEF ApplyPause, ApplyResume
    <3>2. outbox' = outbox /\ subscription[s] # "CANCELLED"
      BY <2>9 DEF ApplyPause, ApplyResume, SubscriptionUpdatable
    <3>3. EveryCancellationIsTold'
      BY <1>0, <1>1, <3>1, <3>2 DEF EveryCancellationIsTold
    <3>4. ASSUME NEW t \in Subscriptions, subscription'[t] # subscription[t]
          PROVE  <<subscription[t], subscription'[t]>> \in AllowedSubscriptionTransitions
      BY <1>1, <3>1, <3>2, <3>4 DEF SubscriptionStates, AllowedSubscriptionTransitions
    <3> QED
      BY <1>0, <2>6, <3>2, <3>3, <3>4 DEF CancellationInvariant
  <2> QED
    BY <2>0, <2>7, <2>8, <2>9 DEF LoadSubscription, LoadLiveIntents, RequestAbandoned, storeVars
<1>8. CASE UNCHANGED engineVars
  BY <1>4, <1>8 DEF engineVars, reprocessVars, vars, storeVars
<1>9. CASE SweptCycle /\ UNCHANGED <<provider, execVars, reprocess, request>>
  BY <1>0, <1>4, <1>9, SweptWrites
<1> QED
  BY <1>3, <1>4, <1>5, <1>6, <1>7, <1>8, <1>9 DEF EngineNext, ServiceNext

LEMMA CancellationInvariantHolds == EngineSpec => []CancellationInvariant
<1>1. EngineInit => CancellationInvariant
  BY EngineInitType DEF EngineInit, Init, StoreInit, LifecycleInit, NoLifecycle,
     EveryCancellationIsTold, CancellationInvariant
<1>2. CancellationInvariant /\ [EngineNext]_engineVars => CancellationInvariant'
  BY EngineTells
<1> QED
  BY <1>1, <1>2, PTL DEF EngineSpec

\* RF-28: no interleaving of requests and settlements cancels a subscription
\* without an event, or tells of one that is not cancelled.
THEOREM CancellationsAreTold == EngineSpec => []EveryCancellationIsTold
<1>1. CancellationInvariant => EveryCancellationIsTold
  BY DEF CancellationInvariant
<1> QED
  BY <1>1, CancellationInvariantHolds, PTL

\* CANCELLED is final, and no request takes another step that the table of
\* subscriptions does not list.
THEOREM SubscriptionsFollowTheTable == EngineSpec => SubscriptionTransitionsAllowed
<1>1. CancellationInvariant /\ [EngineNext]_engineVars =>
        [\A s \in Subscriptions :
            subscription'[s] # subscription[s] =>
                <<subscription[s], subscription'[s]>> \in AllowedSubscriptionTransitions]_storeVars
  BY EngineTells
<1> QED
  BY <1>1, CancellationInvariantHolds, PTL DEF EngineSpec, SubscriptionTransitionsAllowed

\* RF-28: only a request that read the subscription before it was cancelled tells
\* of its cancellation again.
THEOREM OnlyLateRequestsTellAgain == EngineSpec => ToldAgainOnlyByLateRequests
<1>1. CancellationInvariant /\ [EngineNext]_engineVars =>
        [\A s \in Subscriptions :
            subscription[s] = "CANCELLED" /\ outbox'[s] # outbox[s] =>
                \E a \in Admins :
                    /\ request[a].op = "cancel" /\ request[a].sub = s
                    /\ request[a].pc = "apply" /\ request'[a].pc = "idle"
                    /\ request[a].status # "CANCELLED"]_engineVars
  BY EngineTells
<1> QED
  BY <1>1, CancellationInvariantHolds, PTL DEF EngineSpec, ToldAgainOnlyByLateRequests

-----------------------------------------------------------------------------
(* The transition table of the intents, and what a success rests on *)

\* What a step that gives i a new status may do.
StatusMove(i) ==
  intent'[i].status # intent[i].status =>
      /\ <<intent[i].status, intent'[i].status>> \in AllowedWithReprocess
      /\ intent'[i].status = "SUCCEEDED" => \E n \in Rows : provider'[i][n] = "CHARGED"

LEMMA SettlementMoves ==
  ASSUME ReprocessInvariant, NEW w \in Workers, SettleAttempt(w), NEW i \in Intents
  PROVE  StatusMove(i)
<1> DEFINE j == worker[w].intent
           s == worker[w].settlement
           rows == [intent EXCEPT ![j] = SettledRow(j, s)]
<1>1. /\ TypeOK /\ j \in Intents /\ s \in Settlements /\ worker[w].row \in Rows
      /\ intent[j].status = "IN_FLIGHT"
      /\ s = "SUCCEEDED" => provider[j][worker[w].row] = "CHARGED"
      /\ provider' = provider
  BY DEF SettleAttempt, ReprocessInvariant, TypeOK, ChargeInvariant, ExecutionOwnsAttempt,
     ExecutionKnowsOutcome
<1>2. intent[j] \in IntentRow /\ intent \in [Intents -> IntentRow]
  BY <1>1 DEF TypeOK, StoreTypeOK
<1>3. rows[j].status = s /\ \A k \in Intents \ {j} : rows[k] = intent[k]
  <2>1. SettledRow(j, s).status = s
    BY <1>2 DEF SettledRow, IntentRow
  <2> QED
    BY <1>1, <1>2, <2>1
<1>4. \/ intent'[i].status = rows[i].status
      \/ rows[i].status \in OmittableStates /\ intent'[i].status = "OMITTED" /\ s = "FAILED_FINAL"
  <2>1. [rows[i] EXCEPT !.status = "OMITTED"].status = "OMITTED"
    <3>1. rows[i] \in IntentRow \/ rows[i] = SettledRow(j, s)
      BY <1>1, <1>2
    <3> QED
      BY <3>1 DEF IntentRow, SettledRow
  <2>2. Omitted(rows, SubOf[j])[i] =
          IF SubOf[i] = SubOf[j] /\ rows[i].status \in OmittableStates
          THEN [rows[i] EXCEPT !.status = "OMITTED"] ELSE rows[i]
    BY DEF Omitted
  <2>3. IF s = "FAILED_FINAL" THEN CancelWith(rows, SubOf[j]) ELSE intent' = rows
    BY DEF SettleAttempt
  <2> HIDE DEF rows
  <2>4. CASE s = "FAILED_FINAL"
    BY <2>1, <2>2, <2>3, <2>4 DEF CancelWith
  <2> QED
    BY <2>3, <2>4
<1> HIDE DEF rows
<1>5. CASE i = j
  BY <1>1, <1>3, <1>4, <1>5
     DEF StatusMove, AllowedWithReprocess, AllowedTransitions, Settlements, OmittableStates
<1>6. CASE i # j
  BY <1>3, <1>4, <1>6 DEF StatusMove, AllowedWithReprocess, AllowedTransitions, OmittableStates
<1> QED
  BY <1>5, <1>6

\* A sweep's update moves only an intent that is UNKNOWN.
LEMMA SweepMoves ==
  ASSUME ReprocessInvariant, NEW k \in Intents, SweepStep(k) \/ SweepAborts(k), NEW i \in Intents
  PROVE  StatusMove(i)
<1>0. TypeOK /\ intent \in [Intents -> IntentRow] /\ intent[k] \in IntentRow
  BY DEF ReprocessInvariant, TypeOK, StoreTypeOK
<1>1. CASE SweepSettles(k)
  <2>1. PICK row : /\ intent' = UpdateUnknown(k, row)
                   /\ row.status \in {"SUCCEEDED", "RETRY_PENDING", "OMITTED"}
                   /\ row.status = "SUCCEEDED" => verdict = "SUCCEEDED"
    <3>1. /\ [intent[k] EXCEPT !.status = "SUCCEEDED"].status = "SUCCEEDED"
          /\ [intent[k] EXCEPT !.status = "RETRY_PENDING", !.due = FALSE].status = "RETRY_PENDING"
          /\ [intent[k] EXCEPT !.status = "OMITTED"].status = "OMITTED"
      BY <1>0 DEF IntentRow
    <3>2. CASE verdict = "SUCCEEDED"
      BY <1>1, <3>1, <3>2 DEF SweepSettles, NextCandidate
    <3>3. CASE verdict = "FAILED" /\ seen[k].sub = "ACTIVE"
      BY <1>1, <3>1, <3>3 DEF SweepSettles, NextCandidate
    <3>4. CASE verdict = "FAILED" /\ seen[k].sub # "ACTIVE"
      BY <1>1, <3>1, <3>4 DEF SweepSettles, NextCandidate
    <3> QED
      BY <1>1, <3>2, <3>3, <3>4 DEF SweepSettles
  <2>2. /\ k \in Todo /\ provider' = provider /\ seen[k].row \in Rows
        /\ verdict = "SUCCEEDED" => provider[k][seen[k].row] = "CHARGED"
    BY <1>0, <1>1 DEF SweepSettles, NextCandidate, IsCurrent, Todo, ReprocessInvariant, TypeOK,
       Candidate, ChargeInvariant, SweepIsCurrent, VerdictHolds
  <2> QED
    BY <1>0, <2>1, <2>2 DEF UpdateUnknown, StatusMove, AllowedWithReprocess, AllowedTransitions
<1>2. ASSUME NEW row, row.status = intent[k].status,
             intent' = UpdateUnknown(k, row) \/ intent' = intent
      PROVE  StatusMove(i)
  BY <1>0, <1>2 DEF UpdateUnknown, StatusMove
<1>3. CASE SweepEscalates(k)
  <2>1. [intent[k] EXCEPT !.needsReview = TRUE, !.verifyDue = TRUE].status = intent[k].status
    BY <1>0 DEF IntentRow
  <2> QED
    BY <1>2, <1>3, <2>1 DEF SweepEscalates, NextCandidate
<1>4. CASE SweepKeepsUnknown(k)
  <2> DEFINE review == seen[k].count + 1 >= ManualReviewThreshold
             row == [intent[k] EXCEPT !.verifyCount = @ + 1, !.verifyDue = review,
                                      !.needsReview = review]
  <2>1. row.status = intent[k].status
    BY <1>0 DEF IntentRow
  <2>2. intent' = UpdateUnknown(k, row) \/ intent' = intent
    BY <1>4 DEF SweepKeepsUnknown, NextCandidate
  <2> HIDE DEF row
  <2> QED
    BY <1>2, <2>1, <2>2
<1>5. CASE SweepThrows(k) \/ SweepAborts(k) \/ \E v \in Verdicts : SweepVerifies(k, v)
  BY <1>5 DEF SweepThrows, SweepAborts, SweepVerifies, AbandonSweep, storeVars, StatusMove
<1> QED
  BY <1>1, <1>3, <1>4, <1>5 DEF SweepStep

LEMMA ExecutorMoves ==
  ASSUME ReprocessInvariant, ExecutorNext, NEW i \in Intents
  PROVE  StatusMove(i)
<1>0. TypeOK /\ intent \in [Intents -> IntentRow]
  BY DEF ReprocessInvariant, TypeOK, StoreTypeOK
<1>1. ASSUME NEW w \in Workers, NEW k \in Intents, NEW n \in Rows,
             NEW seq \in 1 .. (MaxAttempts + 1), StartAttempt(w, k, n, seq)
      PROVE  StatusMove(i)
  <2>1. /\ intent' = [intent EXCEPT ![k].status = "IN_FLIGHT"]
        /\ intent[k].status \in {"SCHEDULED", "RETRY_PENDING"}
    BY <1>1 DEF StartAttempt, Chargeable
  <2> QED
    BY <1>0, <2>1 DEF IntentRow, StatusMove, AllowedWithReprocess, AllowedTransitions
<1>2. ASSUME NEW w \in Workers, ExecutionStep(w) \/ ExecutionDies(w)
      PROVE  StatusMove(i)
  <2>1. CASE SettleAttempt(w)
    BY <2>1, SettlementMoves
  <2>2. CASE ~SettleAttempt(w)
    BY <1>2, <2>2
       DEF ExecutionStep, Settlement, Charge, Verify, SettlementRolledBack, ExecutionDies,
       storeVars, StatusMove
  <2> QED
    BY <2>1, <2>2
<1>3. ASSUME NEW k \in Intents, NEW n \in Rows, RecoverExpired(k, n)
      PROVE  StatusMove(i)
  BY <1>0, <1>3 DEF RecoverExpired, IntentRow, StatusMove, AllowedWithReprocess, AllowedTransitions
<1>4. ASSUME NEW k \in Intents, TimeStep(k)
      PROVE  StatusMove(i)
  BY <1>0, <1>4 DEF TimeStep, BackoffElapses, CadenceElapses, UnknownWindowElapses,
     DeadlinePasses, SetIntent, IntentRow, StatusMove
<1>5. ASSUME UNCHANGED storeVars
      PROVE  StatusMove(i)
  BY <1>5 DEF storeVars, StatusMove
<1> QED
  BY <1>1, <1>2, <1>3, <1>4, <1>5, SweepMoves DEF ExecutorNext, FindUnknown

LEMMA EngineMoves ==
  ASSUME EngineTypeOK, ReprocessInvariant, [EngineNext]_engineVars, NEW i \in Intents
  PROVE  StatusMove(i)
<1>0. TypeOK /\ ReprocessTypeOK /\ LifecycleTypeOK /\ intent \in [Intents -> IntentRow]
  BY DEF EngineTypeOK, TypeOK, StoreTypeOK
<1>1. CASE ReprocessNext
  <2>1. ASSUME NEW p \in Operators, CloseVerification(p)
        PROVE  StatusMove(i)
    <3>1. PICK k \in Intents, n \in Rows :
             /\ intent' = UpdateUnknown(k, [intent[k] EXCEPT !.status = "SUCCEEDED"])
             /\ provider' = provider /\ provider[k][n] = "CHARGED"
      BY <1>0, <2>1 DEF CloseVerification, Closed, ReprocessTypeOK, ReprocessInvariant, ProbeIsSound
    <3> QED
      BY <1>0, <3>1 DEF UpdateUnknown, IntentRow, StatusMove, AllowedWithReprocess, AllowedTransitions
  <2>2. ASSUME NEW p \in Operators, NEW w \in Workers, NEW n \in Rows, StartManualAttempt(p, w, n)
        PROVE  StatusMove(i)
    <3>1. PICK k \in Intents : /\ intent' = [intent EXCEPT ![k].status = "IN_FLIGHT"]
                                /\ intent[k].status \in {"UNKNOWN", "FAILED_FINAL"}
      BY <1>0, <2>2 DEF StartManualAttempt, Reopenable, ReprocessTypeOK
    <3> QED
      BY <1>0, <3>1 DEF IntentRow, StatusMove, AllowedWithReprocess, AllowedTransitions
  <2> QED
    BY <1>1, <2>1, <2>2 DEF ReprocessNext, ReprocessStep, LoadCandidate, VerifyLatest,
       ReprocessEnds, ManualVerify, vars, storeVars, StatusMove
<1>2. CASE CyclesNext
  BY <1>0, <1>2 DEF CyclesNext, FindSubscription, CreateIntent, CreationAbandoned, ScheduleIntent,
     storeVars, IntentRow, StatusMove, AllowedWithReprocess, AllowedTransitions
<1>3. CASE LifecycleNext
  <2>1. \/ intent' = intent
        \/ \E ids \in SUBSET Intents : intent' = OmitIntents(ids)
    BY <1>0, <1>3, LifecycleWrites
  <2> QED
    BY <1>0, <2>1 DEF OmitIntents, OmittableStates, IntentRow, StatusMove, AllowedWithReprocess,
       AllowedTransitions
<1>4. CASE UNCHANGED engineVars
  BY <1>4 DEF engineVars, reprocessVars, vars, storeVars, StatusMove
<1>5. CASE SweptCycle
  BY <1>0, <1>5, SweptWrites DEF StatusMove, AllowedWithReprocess, AllowedTransitions
<1> QED
  BY <1>1, <1>2, <1>3, <1>4, <1>5, ExecutorMoves DEF EngineNext, ServiceNext

\* Nobody takes an intent through a step its transition table does not list,
\* although most of the statements do not ask it.
THEOREM IntentsFollowTheTable ==
  ASSUME StallBeyondDeadline = FALSE, StaleProbes = FALSE, StartsDuringSweep = FALSE
  PROVE  EngineSpec => ReprocessTransitionsAllowed
<1>1. EngineTypeOK /\ ReprocessInvariant /\ [EngineNext]_engineVars =>
        [\A i \in Intents :
            intent'[i].status # intent[i].status =>
                <<intent[i].status, intent'[i].status>> \in AllowedWithReprocess]_reprocessVars
  BY EngineMoves DEF StatusMove
<1> QED
  BY <1>1, EngineTypeCorrect, EngineChargeInvariant, PTL DEF EngineSpec, ReprocessTransitionsAllowed

\* No request forgets an attempt or what the provider settled about one.
LEMMA ReprocessPersists ==
  ASSUME ReprocessInvariant, ReprocessNext
  PROVE  VerdictsPersist
<1>1. ASSUME NEW p \in Operators, NEW v \in Verdicts, VerifyLatest(p, v)
      PROVE  VerdictsPersist
  <2>1. PICK i \in Intents, n \in Rows :
           i = reprocess[p].intent /\ n = reprocess[p].row /\ Present(i, n)
    BY <1>1 DEF VerifyLatest, ReprocessInvariant, ReprocessTypeOK, ProbeIsSound
  <2> QED
    BY <1>1, <2>1, VerifyAdvances, AdvancesPersist DEF VerifyLatest, storeVars, ReprocessInvariant
<1>2. ASSUME NEW p \in Operators, NEW w \in Workers, NEW n \in Rows, StartManualAttempt(p, w, n)
      PROVE  VerdictsPersist
  <2>1. provider' = provider
    BY <1>2 DEF StartManualAttempt
  <2>2. \A j \in Intents : \A m \in Rows : Present(j, m) => attempt'[j][m].status # "ABSENT"
    BY <1>2 DEF StartManualAttempt, ReprocessInvariant, TypeOK, StoreTypeOK, Present
  <2> QED
    BY <2>1, <2>2, AttemptsPersist
<1>3. ASSUME NEW w \in Workers, NEW v \in Verdicts, ManualVerify(w, v)
      PROVE  VerdictsPersist
  <2>1. PICK i \in Intents, n \in Rows :
           i = worker[w].intent /\ n = worker[w].row /\ Present(i, n)
    BY <1>3 DEF ManualVerify, ReprocessInvariant, TypeOK, ChargeInvariant, ExecutionOwnsAttempt, Present
  <2> QED
    BY <1>3, <2>1, VerifyAdvances, AdvancesPersist DEF ManualVerify, storeVars, ReprocessInvariant
<1>4. ASSUME UNCHANGED <<attempt, provider>>
      PROVE  VerdictsPersist
  BY <1>4, AttemptsPersist DEF Present
<1> QED
  BY <1>1, <1>2, <1>3, <1>4 DEF ReprocessNext, ReprocessStep, LoadCandidate, CloseVerification,
     ReprocessEnds, vars, storeVars

LEMMA EnginePersists ==
  ASSUME EngineTypeOK, ReprocessInvariant, [EngineNext]_engineVars
  PROVE  VerdictsPersist
<1>1. CASE ExecutorNext \/ UNCHANGED engineVars
  BY <1>1, StepPersists DEF Next, engineVars, reprocessVars, ReprocessInvariant
<1>2. CASE CyclesNext /\ UNCHANGED <<provider, execVars, reprocess, request>>
  BY <1>2, CyclesAreSteps, StepPersists DEF ReprocessInvariant
<1>3. CASE LifecycleNext /\ UNCHANGED <<provider, execVars, reprocess, creating>>
  BY <1>3, LifecycleWrites, AttemptsPersist DEF EngineTypeOK, Present
<1>4. CASE SweptCycle /\ UNCHANGED <<provider, execVars, reprocess, request>>
  BY <1>4, SweptWrites, AttemptsPersist DEF EngineTypeOK, Present
<1> QED
  BY <1>1, <1>2, <1>3, <1>4, ReprocessPersists DEF EngineNext, ServiceNext

\* RF-15 for the whole engine: a success, whoever wrote it, rests on an operation
\* that the provider accepted.
THEOREM SuccessIsConfirmed ==
  ASSUME StallBeyondDeadline = FALSE, StaleProbes = FALSE, StartsDuringSweep = FALSE
  PROVE  EngineSpec => []SucceededIsConfirmed
<1>1. EngineInit => SucceededIsConfirmed
  BY DEF EngineInit, Init, StoreInit, NoIntentRow, SucceededIsConfirmed
<1>2. ASSUME EngineTypeOK, ReprocessInvariant, SucceededIsConfirmed, [EngineNext]_engineVars
      PROVE  SucceededIsConfirmed'
  <2> SUFFICES ASSUME NEW i \in Intents, intent'[i].status = "SUCCEEDED"
               PROVE  \E n \in Rows : provider'[i][n] = "CHARGED"
    BY DEF SucceededIsConfirmed
  <2>1. CASE intent[i].status = "SUCCEEDED"
    <3>1. PICK n \in Rows : provider[i][n] = "CHARGED"
      BY <2>1, <1>2 DEF SucceededIsConfirmed
    <3>2. Present(i, n)
      BY <1>2, <3>1 DEF ReprocessInvariant, ChargeInvariant, OperationsAreRecorded
    <3> QED
      BY <1>2, <3>1, <3>2, EnginePersists DEF VerdictsPersist
  <2>2. CASE intent[i].status # "SUCCEEDED"
    BY <1>2, <2>2, EngineMoves DEF StatusMove
  <2> QED
    BY <2>1, <2>2
<1> QED
  BY <1>1, <1>2, EngineTypeCorrect, EngineChargeInvariant, PTL DEF EngineSpec

-----------------------------------------------------------------------------
(* The numbering of the automatic attempts *)

\* The automatic attempts among the first n of i, and their number.
Autos(i, n) == {m \in 1 .. n : attempt[i][m].auto # 0}
AutosSoFar(i, n) == Cardinality(Autos(i, n))

\* MAX(auto_seq) is the number of automatic attempts, and rows that are not there
\* have none.
AutoInvariant ==
  /\ RowsInOrder
  /\ \A i \in Intents : \A n \in Rows : ~Present(i, n) => attempt[i][n].auto = 0
  /\ \A i \in Intents : \A n \in Rows :
        attempt[i][n].auto # 0 => attempt[i][n].auto = AutosSoFar(i, n)
  /\ \A i \in Intents : \A n \in Rows : Autos(i, n) # {} =>
        \E m \in 1 .. n : attempt[i][m].auto = AutosSoFar(i, n)

LEMMA RowsBelow ==
  ASSUME NEW n \in Rows
  PROVE  n \in Nat /\ n >= 1 /\ n \in 1 .. n /\ 1 .. n \subseteq Rows /\ 1 .. (n - 1) \subseteq Rows
  BY StoreAssumption DEF Rows

LEMMA AutosAreFinite ==
  ASSUME NEW i, NEW n \in Nat
  PROVE  /\ IsFiniteSet(Autos(i, n)) /\ AutosSoFar(i, n) \in Nat
         /\ AutosSoFar(i, n) = 0 <=> Autos(i, n) = {}
<1>1. IsFiniteSet(1 .. n)
  BY FS_Interval
<1>2. Autos(i, n) \in SUBSET (1 .. n)
  BY DEF Autos
<1>3. IsFiniteSet(Autos(i, n))
  BY <1>1, <1>2, FS_Subset
<1> QED
  BY <1>3, FS_CardinalityType, FS_EmptySet DEF AutosSoFar

LEMMA AutosGrow ==
  ASSUME NEW i, NEW m \in Nat, NEW n \in Nat, m <= n
  PROVE  AutosSoFar(i, m) <= AutosSoFar(i, n)
<1>1. Autos(i, m) \in SUBSET Autos(i, n)
  BY DEF Autos
<1> QED
  BY <1>1, AutosAreFinite, FS_Subset DEF AutosSoFar

\* A step that inserts no attempt changes nothing of the numbering.
LEMMA AutosKept ==
  ASSUME AutoInvariant,
         \A j \in Intents : \A m \in Rows :
            /\ attempt'[j][m].auto = attempt[j][m].auto
            /\ attempt'[j][m].status = "ABSENT" <=> attempt[j][m].status = "ABSENT"
  PROVE  AutoInvariant'
<1>1. \A n \in Rows : 1 .. n \subseteq Rows
  BY RowsBelow
<1>2. \A j \in Intents : \A n \in Rows : Autos(j, n)' = Autos(j, n)
  BY <1>1 DEF Autos
<1>3. RowsInOrder'
  <2>1. \A n \in Rows : 1 .. (n - 1) \subseteq Rows
    BY RowsBelow
  <2> QED
    BY <2>1 DEF AutoInvariant, RowsInOrder, Present
<1>4. \A j \in Intents : \A n \in Rows : AutosSoFar(j, n)' = AutosSoFar(j, n)
  BY <1>2 DEF AutosSoFar
<1> QED
  BY <1>1, <1>2, <1>3, <1>4 DEF AutoInvariant, Present

\* A new attempt is MANUAL or has the next number.
LEMMA AutosExtended ==
  ASSUME TypeOK, AutoInvariant, NEW i \in Intents, NEW n \in Rows, NEW seq \in Nat,
         IsNextRow(i, n),
         seq = 0 \/ (seq # 0 /\ IsNextAutoSeq(i, seq)),
         attempt' = [attempt EXCEPT ![i][n] =
                        [status |-> "IN_FLIGHT", auto |-> seq, overdue |-> FALSE]]
  PROVE  AutoInvariant'
<1>0. /\ n \in Nat /\ n >= 1 /\ \A k \in Rows : 1 .. k \subseteq Rows /\ k \in Nat /\ k \in 1 .. k
      /\ \A k \in Rows : 1 .. (k - 1) \subseteq Rows
  BY RowsBelow
<1>1. /\ attempt'[i][n].status = "IN_FLIGHT" /\ attempt'[i][n].auto = seq
      /\ \A m \in Rows \ {n} : attempt'[i][m] = attempt[i][m]
      /\ \A j \in Intents \ {i} : attempt'[j] = attempt[j]
  BY DEF TypeOK, StoreTypeOK
<1>2. /\ \A m \in Rows : m >= n => ~Present(i, m) /\ attempt[i][m].auto = 0
      /\ \A m \in 1 .. (n - 1) : Present(i, m)
  <2>1. \A m \in Rows : m > n => n \in 1 .. (m - 1)
    BY <1>0
  <2> QED
    BY <1>0, <2>1 DEF IsNextRow, AutoInvariant, RowsInOrder
<1>3. RowsInOrder'
  BY <1>0, <1>1, <1>2 DEF AutoInvariant, RowsInOrder, Present
<1>4. \A j \in Intents : \A m \in Rows : ~Present(j, m)' => attempt'[j][m].auto = 0
  BY <1>1 DEF AutoInvariant, Present
<1>5. \A j \in Intents \ {i} : \A k \in Rows :
         Autos(j, k)' = Autos(j, k) /\ AutosSoFar(j, k)' = AutosSoFar(j, k)
  <2>1. \A j \in Intents \ {i} : \A k \in Rows : Autos(j, k)' = Autos(j, k)
    BY <1>1 DEF Autos
  <2> QED
    BY <2>1 DEF AutosSoFar
<1>6. \A k \in Rows : k < n => Autos(i, k)' = Autos(i, k) /\ AutosSoFar(i, k)' = AutosSoFar(i, k)
  <2>1. ASSUME NEW k \in Rows, k < n
        PROVE  Autos(i, k)' = Autos(i, k)
    <3>1. \A m \in 1 .. k : m \in Rows \ {n}
      BY <1>0, <2>1
    <3>2. \A m \in 1 .. k : attempt'[i][m] = attempt[i][m]
      BY <1>1, <3>1
    <3> QED
      BY <3>2 DEF Autos
  <2> QED
    BY <2>1 DEF AutosSoFar
<1>7. \A k \in Rows : k >= n => Autos(i, k) = Autos(i, n)
  BY <1>0, <1>2 DEF Autos
<1>8. \A k \in Rows : k >= n =>
         Autos(i, k)' = IF seq = 0 THEN Autos(i, n) ELSE Autos(i, n) \cup {n}
  <2> SUFFICES ASSUME NEW k \in Rows, k >= n
               PROVE  Autos(i, k)' = IF seq = 0 THEN Autos(i, n) ELSE Autos(i, n) \cup {n}
    OBVIOUS
  <2>1. Autos(i, k)' = {m \in 1 .. k : attempt'[i][m].auto # 0}
    BY DEF Autos
  <2>2. Autos(i, n) = {m \in 1 .. k : attempt[i][m].auto # 0}
    BY <1>7 DEF Autos
  <2>3. \A m \in 1 .. k : m # n => attempt'[i][m].auto = attempt[i][m].auto
    BY <1>0, <1>1
  <2>4. n \in 1 .. k /\ attempt[i][n].auto = 0
    BY <1>0, <1>2
  <2> QED
    BY <1>1, <2>1, <2>2, <2>3, <2>4
<1>9. AutosSoFar(i, n) \in Nat
  BY <1>0, AutosAreFinite
<1>10. CASE seq = 0
  <2>1. \A k \in Rows : Autos(i, k)' = Autos(i, k) /\ AutosSoFar(i, k)' = AutosSoFar(i, k)
    BY <1>0, <1>6, <1>7, <1>8, <1>10 DEF AutosSoFar
  <2>2. attempt'[i][n].auto = 0 /\ attempt[i][n].auto = 0
    BY <1>0, <1>1, <1>2, <1>10
  <2>3. \A j \in Intents : \A m \in Rows : attempt'[j][m].auto = attempt[j][m].auto
    BY <1>1, <2>2
  <2> QED
    BY <1>0, <1>3, <1>4, <1>5, <2>1, <2>3 DEF AutoInvariant
<1>11. CASE seq # 0
  <2>1. seq = AutosSoFar(i, n) + 1
    <3>1. seq > AutosSoFar(i, n)
      <4>1. CASE Autos(i, n) = {}
        BY <1>0, <1>9, <1>11, <4>1, AutosAreFinite
      <4>2. CASE Autos(i, n) # {}
        <5>1. PICK m \in 1 .. n : attempt[i][m].auto = AutosSoFar(i, n)
          BY <4>2 DEF AutoInvariant
        <5> QED
          BY <1>0, <1>11, <5>1 DEF IsNextAutoSeq
      <4> QED
        BY <4>1, <4>2
    <3>2. seq <= AutosSoFar(i, n) + 1
      <4>1. CASE seq = 1
        BY <1>9, <4>1
      <4>2. CASE seq # 1
        <5>1. PICK m \in Rows : attempt[i][m].auto = seq - 1
          BY <1>11, <4>2 DEF IsNextAutoSeq
        <5>2. seq - 1 = AutosSoFar(i, m)
          BY <1>11, <4>2, <5>1 DEF AutoInvariant
        <5>3. m < n
          BY <1>0, <1>2, <1>11, <4>2, <5>1
        <5> QED
          BY <1>0, <1>9, <5>2, <5>3, AutosGrow, AutosAreFinite
      <4> QED
        BY <4>1, <4>2
    <3> QED
      BY <1>9, <3>1, <3>2
  <2>2. n \notin Autos(i, n) /\ IsFiniteSet(Autos(i, n))
    <3>1. attempt[i][n].auto = 0
      BY <1>0, <1>2
    <3> QED
      BY <1>0, <3>1, AutosAreFinite DEF Autos
  <2>3. \A k \in Rows : k >= n => Autos(i, k)' # {} /\ AutosSoFar(i, k)' = seq
    BY <1>8, <1>11, <2>1, <2>2, FS_AddElement DEF AutosSoFar
  <2>4. ASSUME NEW j \in Intents, NEW k \in Rows, attempt'[j][k].auto # 0
        PROVE  attempt'[j][k].auto = AutosSoFar(j, k)'
    <3>1. CASE j # i
      BY <1>1, <1>5, <2>4, <3>1 DEF AutoInvariant
    <3>2. CASE j = i /\ k = n
      BY <1>0, <1>1, <2>3, <3>2
    <3>3. CASE j = i /\ k # n
      <4>1. attempt'[i][k] = attempt[i][k]
        BY <1>1, <3>3
      <4>2. k < n
        BY <1>0, <1>2, <2>4, <3>3, <4>1
      <4> QED
        BY <1>6, <2>4, <3>3, <4>1, <4>2 DEF AutoInvariant
    <3> QED
      BY <3>1, <3>2, <3>3
  <2>5. ASSUME NEW j \in Intents, NEW k \in Rows, Autos(j, k)' # {}
        PROVE  \E m \in 1 .. k : attempt'[j][m].auto = AutosSoFar(j, k)'
    <3>1. CASE j # i
      BY <1>1, <1>5, <2>5, <3>1 DEF AutoInvariant
    <3>2. CASE j = i /\ k >= n
      <4>1. n \in 1 .. k
        BY <1>0, <3>2
      <4> QED
        BY <1>1, <2>3, <3>2, <4>1
    <3>3. CASE j = i /\ ~(k >= n)
      <4>1. k < n
        BY <1>0, <3>3
      <4>2. PICK m \in 1 .. k : attempt[i][m].auto = AutosSoFar(i, k)
        BY <1>6, <2>5, <3>3, <4>1 DEF AutoInvariant
      <4>3. m \in Rows /\ m # n
        BY <1>0, <4>1
      <4> QED
        BY <1>1, <1>6, <3>3, <4>1, <4>2, <4>3
    <3> QED
      BY <3>1, <3>2, <3>3
  <2> QED
    BY <1>3, <1>4, <2>4, <2>5 DEF AutoInvariant
<1> QED
  BY <1>10, <1>11

LEMMA EngineStepAutos ==
  ASSUME EngineTypeOK, AutoInvariant, [EngineNext]_engineVars
  PROVE  AutoInvariant'
<1>0. TypeOK /\ ReprocessTypeOK /\ attempt \in [Intents -> [Rows -> AttemptRow]]
  BY DEF EngineTypeOK, TypeOK, StoreTypeOK
<1>1. ASSUME attempt' = attempt
      PROVE  AutoInvariant'
  BY <1>1, AutosKept
<1>2. ASSUME NEW i \in Intents, NEW n \in Rows, NEW st \in AttemptStates \ {"ABSENT"},
             attempt[i][n].status # "ABSENT",
             attempt' = [attempt EXCEPT ![i][n].status = st]
      PROVE  AutoInvariant'
  <2>1. \A j \in Intents : \A m \in Rows :
            /\ attempt'[j][m].auto = attempt[j][m].auto
            /\ attempt'[j][m].status = "ABSENT" <=> attempt[j][m].status = "ABSENT"
    BY <1>0, <1>2 DEF AttemptRow
  <2> QED
    BY <2>1, AutosKept
<1>3. ASSUME NEW w \in Workers, NEW i \in Intents, NEW n \in Rows,
             NEW seq \in 1 .. (MaxAttempts + 1), StartAttempt(w, i, n, seq)
      PROVE  AutoInvariant'
  <2>1. seq \in Nat /\ seq # 0
    BY StoreAssumption
  <2>2. /\ IsNextRow(i, n) /\ IsNextAutoSeq(i, seq)
        /\ attempt' = [attempt EXCEPT ![i][n] =
                          [status |-> "IN_FLIGHT", auto |-> seq, overdue |-> FALSE]]
    BY <1>3 DEF StartAttempt
  <2> QED
    BY <1>0, <2>1, <2>2, AutosExtended
<1>4. ASSUME NEW w \in Workers, SettleAttempt(w)
      PROVE  AutoInvariant'
  <2>1. PICK i \in Intents, n \in Rows, s \in Settlements :
           /\ FinishAttempt(i, n, s)
    BY <1>0, <1>4 DEF SettleAttempt, TypeOK
  <2>2. AttemptTarget(s) \in AttemptStates \ {"ABSENT"}
    BY DEF AttemptTarget, AttemptStates
  <2>3. CASE attempt[i][n].status = "IN_FLIGHT"
    <3>1. attempt' = [attempt EXCEPT ![i][n].status = AttemptTarget(s)]
      BY <2>1, <2>3 DEF FinishAttempt
    <3> QED
      BY <1>2, <2>2, <2>3, <3>1
  <2>4. CASE attempt[i][n].status # "IN_FLIGHT"
    BY <1>1, <2>1, <2>4 DEF FinishAttempt
  <2> QED
    BY <2>3, <2>4
<1>5. ASSUME NEW i \in Intents, NEW n \in Rows, RecoverExpired(i, n)
      PROVE  AutoInvariant'
  <2>1. /\ attempt[i][n].status # "ABSENT"
        /\ attempt' = [attempt EXCEPT ![i][n].status = "UNKNOWN"]
    BY <1>5 DEF RecoverExpired, Expired
  <2>2. "UNKNOWN" \in AttemptStates \ {"ABSENT"}
    BY DEF AttemptStates
  <2> QED
    BY <1>2, <2>1, <2>2
<1>6. ASSUME NEW i \in Intents, TimeStep(i)
      PROVE  AutoInvariant'
  <2>1. ASSUME NEW n \in Rows, DeadlinePasses(i, n)
        PROVE  AutoInvariant'
    <3>1. \A j \in Intents : \A m \in Rows :
              /\ attempt'[j][m].auto = attempt[j][m].auto
              /\ attempt'[j][m].status = "ABSENT" <=> attempt[j][m].status = "ABSENT"
      BY <1>0, <2>1 DEF DeadlinePasses, AttemptRow
    <3> QED
      BY <3>1, AutosKept
  <2> QED
    BY <1>1, <1>6, <2>1 DEF TimeStep, BackoffElapses, CadenceElapses, UnknownWindowElapses, SetIntent
<1>7. CASE ExecutorNext
  <2>1. ASSUME NEW w \in Workers, ExecutionStep(w) \/ ExecutionDies(w)
        PROVE  AutoInvariant'
    BY <1>1, <1>4, <2>1
       DEF ExecutionStep, Settlement, Charge, Verify, SettlementRolledBack, ExecutionDies,
       storeVars
  <2>2. ASSUME NEW i \in Intents, SweepStep(i) \/ SweepAborts(i)
        PROVE  AutoInvariant'
    BY <1>1, <2>2 DEF SweepStep, SweepAborts, SweepThrows, SweepEscalates, SweepVerifies,
       SweepKeepsUnknown, SweepSettles, AbandonSweep, NextCandidate, storeVars
  <2> QED
    BY <1>1, <1>3, <1>5, <1>6, <1>7, <2>1, <2>2 DEF ExecutorNext, FindUnknown, storeVars
<1>8. CASE ReprocessNext
  <2>1. ASSUME NEW p \in Operators, NEW w \in Workers, NEW n \in Rows, StartManualAttempt(p, w, n)
        PROVE  AutoInvariant'
    <3>1. PICK i \in Intents :
             /\ IsNextRow(i, n)
             /\ attempt' = [attempt EXCEPT ![i][n] =
                               [status |-> "IN_FLIGHT", auto |-> 0, overdue |-> FALSE]]
      BY <1>0, <2>1 DEF StartManualAttempt, ReprocessTypeOK
    <3> QED
      BY <1>0, <3>1, AutosExtended
  <2> QED
    BY <1>1, <1>8, <2>1 DEF ReprocessNext, ReprocessStep, LoadCandidate, VerifyLatest,
       CloseVerification, ReprocessEnds, ManualVerify, vars, storeVars
<1>9. CASE CyclesNext
  BY <1>1, <1>9 DEF CyclesNext, FindSubscription, CreateIntent, CreationAbandoned, ScheduleIntent,
     storeVars
<1>10. CASE LifecycleNext
  BY <1>1, <1>10, LifecycleWrites DEF EngineTypeOK
<1>11. CASE UNCHANGED engineVars
  BY <1>1, <1>11 DEF engineVars, reprocessVars, vars, storeVars
<1>12. CASE SweptCycle
  BY <1>0, <1>1, <1>12, SweptWrites
<1> QED
  BY <1>7, <1>8, <1>9, <1>10, <1>11, <1>12 DEF EngineNext, ServiceNext

\* INV-10 and D13 for any number of attempts and requests, and whatever stalls:
\* the automatic attempts of an intent are numbered 1, 2, 3... in the order they
\* were made, however many manual ones come in between.
THEOREM AutomaticAttemptsAreNumbered == EngineSpec => []AutoSequence
<1>1. EngineInit => AutoInvariant
  <2> SUFFICES ASSUME EngineInit PROVE AutoInvariant
    OBVIOUS
  <2>1. \A i \in Intents : \A n \in Rows : attempt[i][n].status = "ABSENT" /\ attempt[i][n].auto = 0
    BY DEF EngineInit, Init, StoreInit, NoAttemptRow
  <2>2. \A i \in Intents : \A n \in Rows : Autos(i, n) = {}
    BY <2>1, RowsBelow DEF Autos
  <2> QED
    BY <2>1, <2>2 DEF AutoInvariant, RowsInOrder, Present
<1>2. EngineTypeOK /\ AutoInvariant /\ [EngineNext]_engineVars => AutoInvariant'
  BY EngineStepAutos
<1>3. AutoInvariant => AutoSequence
  BY DEF AutoInvariant, AutoSequence, AutosSoFar, Autos
<1> QED
  BY <1>1, <1>2, <1>3, EngineTypeCorrect, PTL DEF EngineSpec

-----------------------------------------------------------------------------
(* The engine implements CyclePayments *)

\* No step moves money and writes an intent at once.
LEMMA EngineSeparates ==
  ASSUME EngineTypeOK, [EngineNext]_engineVars
  PROVE  provider' = provider \/ intent' = intent
<1>1. CASE ExecutorNext
  <2>1. ASSUME NEW w \in Workers, ExecutionStep(w) \/ ExecutionDies(w)
        PROVE  provider' = provider \/ intent' = intent
    BY <2>1
       DEF ExecutionStep, Settlement, Charge, Verify, SettleAttempt, SettlementRolledBack, ExecutionDies,
       storeVars
  <2>2. ASSUME NEW i \in Intents, SweepStep(i) \/ SweepAborts(i) \/ TimeStep(i)
        PROVE  provider' = provider \/ intent' = intent
    BY <2>2 DEF SweepStep, SweepAborts, SweepThrows, SweepEscalates, SweepVerifies,
       SweepKeepsUnknown, SweepSettles, AbandonSweep, NextCandidate, storeVars, TimeStep,
       BackoffElapses, CadenceElapses, UnknownWindowElapses, SetIntent, DeadlinePasses
  <2> QED
    BY <1>1, <2>1, <2>2 DEF ExecutorNext, StartAttempt, RecoverExpired, FindUnknown, storeVars
<1>2. CASE ReprocessNext
  BY <1>2 DEF ReprocessNext, ReprocessStep, LoadCandidate, VerifyLatest, CloseVerification,
     StartManualAttempt, ReprocessEnds, ManualVerify, vars, storeVars
<1> QED
  BY <1>1, <1>2 DEF EngineNext, ServiceNext, engineVars, reprocessVars, vars, storeVars

\* Of an intent with at most one effective charge there is one or none.
LEMMA OneOrNone ==
  ASSUME AtMostOneEffectiveCharge, NEW i \in Intents
  PROVE  /\ Cardinality(Effective(i)) \in 0 .. 1
         /\ Cardinality(Effective(i)) = 1 <=> \E n \in Rows : provider[i][n] = "CHARGED"
<1>1. CASE Effective(i) = {}
  <2>1. Cardinality(Effective(i)) = 0
    BY <1>1, FS_EmptySet
  <2> QED
    BY <1>1, <2>1 DEF Effective
<1>2. CASE Effective(i) # {}
  <2>1. PICK n \in Rows : Effective(i) = {n} /\ provider[i][n] = "CHARGED"
    BY <1>2 DEF Effective, AtMostOneEffectiveCharge
  <2>2. Cardinality(Effective(i)) = 1
    BY <2>1, FS_Singleton
  <2> QED
    BY <2>1, <2>2
<1> QED
  BY <1>1, <1>2

\* What the invariants say in terms of CyclePayments.
PaymentsInvariant ==
  \A i \in Intents :
    /\ Cardinality(Effective(i)) \in 0 .. 1
    /\ Cardinality(Effective(i)) = 1 <=> \E n \in Rows : provider[i][n] = "CHARGED"
    /\ RecordOf(intent[i].status) = "dropped" => Cardinality(Effective(i)) = 0
    /\ RecordOf(intent[i].status) = "paid" => Cardinality(Effective(i)) = 1

LEMMA PaymentsAgree ==
  ReprocessInvariant /\ SucceededIsConfirmed => PaymentsInvariant
<1> SUFFICES ASSUME ReprocessInvariant, SucceededIsConfirmed, NEW i \in Intents
             PROVE  /\ Cardinality(Effective(i)) \in 0 .. 1
                    /\ Cardinality(Effective(i)) = 1 <=> \E n \in Rows : provider[i][n] = "CHARGED"
                    /\ RecordOf(intent[i].status) = "dropped" => Cardinality(Effective(i)) = 0
                    /\ RecordOf(intent[i].status) = "paid" => Cardinality(Effective(i)) = 1
  BY DEF PaymentsInvariant
<1>1. AtMostOneEffectiveCharge
  BY InvariantGivesOneCharge DEF ReprocessInvariant
<1>2. \A n \in Rows : provider[i][n] = "CHARGED" => MayCharge(i, n)
  BY DEF ReprocessInvariant, ChargeInvariant, OperationsAreRecorded, MayCharge
<1>3. ASSUME RecordOf(intent[i].status) = "dropped"
      PROVE  Cardinality(Effective(i)) = 0
  <2>1. intent[i].status \in {"FAILED_FINAL", "OMITTED"}
    BY <1>3 DEF RecordOf
  <2>2. \A n \in Rows : ~MayCharge(i, n)
    BY <2>1 DEF ReprocessInvariant, ChargeInvariant, ReopenedOnlyAfterRejection
  <2> QED
    BY <1>1, <1>2, <2>2, OneOrNone
<1>4. ASSUME RecordOf(intent[i].status) = "paid"
      PROVE  Cardinality(Effective(i)) = 1
  <2>1. intent[i].status = "SUCCEEDED"
    BY <1>4 DEF RecordOf
  <2> QED
    BY <1>1, <2>1, OneOrNone DEF SucceededIsConfirmed
<1> QED
  BY <1>1, <1>3, <1>4, OneOrNone

\* A step of CyclePayments, or none, for one intent.
PaymentMove(c, d, r, q) ==
  \/ d = c /\ q = r
  \/ r = "pending" /\ q = "pending" /\ c = 0 /\ d = 1
  \/ r = "pending" /\ q = "paid" /\ c = 1 /\ d = 1
  \/ r = "pending" /\ q = "dropped" /\ c = 0 /\ d = 0
  \/ r = "dropped" /\ q = "pending" /\ c = 0 /\ d = 0

LEMMA EngineStepPayments ==
  ASSUME EngineTypeOK, ReprocessInvariant, PaymentsInvariant, PaymentsInvariant',
         [EngineNext]_engineVars, NEW i \in Intents
  PROVE  PaymentMove(Cardinality(Effective(i)), Cardinality(Effective(i)'),
                     RecordOf(intent[i].status), RecordOf(intent'[i].status))
<1> DEFINE c == Cardinality(Effective(i))
           d == Cardinality(Effective(i)')
           r == RecordOf(intent[i].status)
           q == RecordOf(intent'[i].status)
<1>1. /\ c \in 0 .. 1
      /\ c = 1 <=> \E n \in Rows : provider[i][n] = "CHARGED"
      /\ r = "dropped" => c = 0
      /\ r = "paid" => c = 1
  BY DEF PaymentsInvariant
<1>2. /\ d \in 0 .. 1
      /\ d = 1 <=> \E n \in Rows : provider'[i][n] = "CHARGED"
      /\ q = "dropped" => d = 0
      /\ q = "paid" => d = 1
  BY DEF PaymentsInvariant
<1>3. ASSUME c = 1
      PROVE  d = 1
  <2>1. PICK n \in Rows : provider[i][n] = "CHARGED"
    BY <1>1, <1>3
  <2>2. Present(i, n)
    BY <2>1 DEF ReprocessInvariant, ChargeInvariant, OperationsAreRecorded
  <2>3. provider'[i][n] = "CHARGED"
    BY <2>1, <2>2, EnginePersists DEF VerdictsPersist
  <2> QED
    BY <1>2, <2>3
<1>4. r \in {"pending", "paid", "dropped"} /\ q \in {"pending", "paid", "dropped"}
  BY DEF RecordOf
<1>5. \/ q = r
      \/ d = c /\ (r = "paid" => q = "paid") /\ (r = "dropped" => q # "paid")
  <2>1. CASE intent' = intent
    BY <2>1
  <2>2. CASE provider' = provider
    <3>1. d = c
      BY <2>2 DEF Effective
    <3>2. CASE intent'[i].status # intent[i].status
      <4>1. <<intent[i].status, intent'[i].status>> \in AllowedWithReprocess
        BY <3>2, EngineMoves DEF StatusMove
      <4> QED
        BY <3>1, <4>1 DEF AllowedWithReprocess, AllowedTransitions, RecordOf
    <3> QED
      BY <3>1, <3>2
  <2> QED
    BY <2>1, <2>2, EngineSeparates
<1> HIDE DEF c, d, r, q
<1>6. PaymentMove(c, d, r, q)
  BY <1>1, <1>2, <1>3, <1>4, <1>5 DEF PaymentMove
<1> QED
  BY <1>6 DEF c, d, r, q

\* INV-01, RF-15 and RF-17 together: the engine implements CyclePayments.
THEOREM EnginePaysOnce ==
  ASSUME StallBeyondDeadline = FALSE, StaleProbes = FALSE, StartsDuringSweep = FALSE
  PROVE  EngineSpec => PaysOnce
<1>1. EngineInit => Payments!PaymentsInit
  <2> SUFFICES ASSUME EngineInit PROVE Payments!PaymentsInit
    OBVIOUS
  <2>1. \A i \in Intents : Effective(i) = {} /\ RecordOf(intent[i].status) = "pending"
    BY DEF EngineInit, Init, StoreInit, ProviderInit, NoIntentRow, Effective, RecordOf
  <2> QED
    BY <2>1, FS_EmptySet DEF Payments!PaymentsInit
<1>2. ASSUME EngineTypeOK, ReprocessInvariant, PaymentsInvariant, PaymentsInvariant',
             [EngineNext]_engineVars
      PROVE  [Payments!PaymentsNext]_Payments!paymentVars
  <2>1. \A i \in Intents : Cardinality(Effective(i)') \in 0 .. 1
    BY <1>2 DEF PaymentsInvariant
  <2>2. \A i \in Intents : RecordOf(intent'[i].status) \in Payments!Records
    BY DEF RecordOf, Payments!Records
  <2>3. ASSUME NEW i \in Intents
        PROVE  \/ Payments!Keeps(i) \/ Payments!Pay(i) \/ Payments!RecordPaid(i)
               \/ Payments!Drop(i) \/ Payments!Reopen(i)
    BY <1>2, EngineStepPayments DEF PaymentMove, Payments!Keeps, Payments!Pay,
       Payments!RecordPaid, Payments!Drop, Payments!Reopen
  <2> QED
    BY <2>1, <2>2, <2>3 DEF Payments!PaymentsNext
<1>3. ReprocessInvariant /\ SucceededIsConfirmed => PaymentsInvariant
  BY PaymentsAgree
<1> QED
  BY <1>1, <1>2, <1>3, EngineTypeCorrect, EngineChargeInvariant, SuccessIsConfirmed, PTL
     DEF EngineSpec, PaysOnce, Payments!PaymentsSpec

-----------------------------------------------------------------------------
(* What the others see of the attempts *)

\* A row that gets another status, seen by its status.
LEMMA StatusSeen ==
  ASSUME NEW rows, NEW next, NEW i \in Intents,
         \A j \in Intents \ {i} : next[j].status = rows[j].status
  PROVE  /\ StatusOnly(next) = [StatusOnly(rows) EXCEPT ![i].status = next[i].status]
         /\ next[i].status = rows[i].status => StatusOnly(next) = StatusOnly(rows)
         /\ StatusOnly(rows)[i].status = rows[i].status
  BY DEF StatusOnly, NoIntentRow

LEMMA SeenRow ==
  ASSUME NEW rows, NEW i \in Intents
  PROVE  StatusOnly(rows)[i].status = rows[i].status
  BY DEF StatusOnly, NoIntentRow

\* What omits an intent, a cancellation or a request, looks at its status alone.
LEMMA OmissionSeen ==
  ASSUME NEW rows \in [Intents -> IntentRow], NEW s
  PROVE  StatusOnly(Omitted(rows, s)) = Moves!Omitted(StatusOnly(rows), s)
<1> SUFFICES ASSUME NEW j \in Intents
             PROVE  StatusOnly(Omitted(rows, s))[j] = Moves!Omitted(StatusOnly(rows), s)[j]
  BY DEF StatusOnly, Moves!Omitted
<1>1. [rows[j] EXCEPT !.status = "OMITTED"].status = "OMITTED"
  BY DEF IntentRow
<1>2. StatusOnly(rows)[j] = [NoIntentRow EXCEPT !.status = rows[j].status]
  BY DEF StatusOnly
<1>3. [StatusOnly(rows)[j] EXCEPT !.status = "OMITTED"] = [NoIntentRow EXCEPT !.status = "OMITTED"]
  BY <1>2 DEF NoIntentRow
<1>4. StatusOnly(Omitted(rows, s))[j] =
        IF SubOf[j] = s /\ rows[j].status \in OmittableStates
        THEN [NoIntentRow EXCEPT !.status = "OMITTED"]
        ELSE [NoIntentRow EXCEPT !.status = rows[j].status]
  BY <1>1 DEF StatusOnly, Omitted
<1> QED
  BY <1>2, <1>3, <1>4, SeenRow DEF Moves!Omitted, Moves!OmittableStates, OmittableStates

LEMMA RequestOmissionSeen ==
  ASSUME TypeOK, NEW ids
  PROVE  StatusOnly(OmitIntents(ids)) = Moves!OmitIntents(ids)
<1> SUFFICES ASSUME NEW j \in Intents
             PROVE  StatusOnly(OmitIntents(ids))[j] = Moves!OmitIntents(ids)[j]
  BY DEF StatusOnly, Moves!OmitIntents
<1>1. [intent[j] EXCEPT !.status = "OMITTED"].status = "OMITTED"
  BY DEF TypeOK, StoreTypeOK, IntentRow
<1>2. StatusOnly(intent)[j] = [NoIntentRow EXCEPT !.status = intent[j].status]
  BY DEF StatusOnly
<1>3. [StatusOnly(intent)[j] EXCEPT !.status = "OMITTED"] = [NoIntentRow EXCEPT !.status = "OMITTED"]
  BY <1>2 DEF NoIntentRow
<1>4. StatusOnly(OmitIntents(ids))[j] =
        IF j \in ids /\ intent[j].status \in OmittableStates
        THEN [NoIntentRow EXCEPT !.status = "OMITTED"]
        ELSE [NoIntentRow EXCEPT !.status = intent[j].status]
  BY <1>1 DEF StatusOnly, OmitIntents
<1> QED
  BY <1>2, <1>3, <1>4, SeenRow DEF Moves!OmitIntents, Moves!OmittableStates, OmittableStates

\* A step of IntentMoves that stands for attempts, or none.
AttemptStepSeen ==
  \/ \E i \in Intents : \/ Moves!AttemptMoves(i) \/ Moves!GivesUp(i)
                        \/ Moves!Reopens(i) \/ Moves!FailsFinally(i)
  \/ UNCHANGED <<subscription, StatusOnly(intent), outbox>>

\* A step that writes the row of one intent and no subscription.
LEMMA OneRowSeen ==
  ASSUME NEW i \in Intents, UNCHANGED <<subscription, outbox>>,
         \A j \in Intents \ {i} : intent'[j].status = intent[j].status,
         \/ intent'[i].status = intent[i].status
         \/ /\ intent[i].status \in {"SCHEDULED", "RETRY_PENDING"}
            /\ intent'[i].status = "IN_FLIGHT"
         \/ /\ intent[i].status \in {"IN_FLIGHT", "UNKNOWN"}
            /\ intent'[i].status \in {"SUCCEEDED", "UNKNOWN", "RETRY_PENDING"}
         \/ intent[i].status = "UNKNOWN" /\ intent'[i].status = "OMITTED"
         \/ /\ intent[i].status \in {"UNKNOWN", "FAILED_FINAL"} /\ LiveUnique(i)
            /\ intent'[i].status = "IN_FLIGHT"
  PROVE  AttemptStepSeen
<1>1. /\ StatusOnly(intent') = [StatusOnly(intent) EXCEPT ![i].status = intent'[i].status]
      /\ intent'[i].status = intent[i].status => StatusOnly(intent') = StatusOnly(intent)
      /\ StatusOnly(intent)[i].status = intent[i].status
  BY StatusSeen
<1>2. CASE intent'[i].status = intent[i].status
  BY <1>1, <1>2 DEF AttemptStepSeen
<1>3. CASE /\ intent[i].status \in {"SCHEDULED", "RETRY_PENDING"}
           /\ intent'[i].status = "IN_FLIGHT"
  BY <1>1, <1>3 DEF AttemptStepSeen, Moves!AttemptMoves
<1>4. CASE /\ intent[i].status \in {"IN_FLIGHT", "UNKNOWN"}
           /\ intent'[i].status \in {"SUCCEEDED", "UNKNOWN", "RETRY_PENDING"}
  BY <1>1, <1>4 DEF AttemptStepSeen, Moves!AttemptMoves
<1>5. CASE intent[i].status = "UNKNOWN" /\ intent'[i].status = "OMITTED"
  BY <1>1, <1>5 DEF AttemptStepSeen, Moves!GivesUp
<1>6. CASE /\ intent[i].status \in {"UNKNOWN", "FAILED_FINAL"} /\ LiveUnique(i)
           /\ intent'[i].status = "IN_FLIGHT"
  <2>1. Moves!LiveUnique(i)
    BY <1>6, SeenRow DEF LiveUnique, Moves!LiveUnique, LiveStates, Moves!LiveStates
  <2> QED
    BY <1>1, <1>6, <2>1 DEF AttemptStepSeen, Moves!Reopens
<1> QED
  BY <1>2, <1>3, <1>4, <1>5, <1>6

LEMMA SettlementSeen ==
  ASSUME ReprocessInvariant, NEW w \in Workers, SettleAttempt(w)
  PROVE  AttemptStepSeen
<1> DEFINE i == worker[w].intent
           s == worker[w].settlement
           rows == [intent EXCEPT ![i] = SettledRow(i, s)]
<1>1. /\ TypeOK /\ i \in Intents /\ s \in Settlements /\ intent[i].status = "IN_FLIGHT"
  BY DEF SettleAttempt, ReprocessInvariant, TypeOK, ChargeInvariant, ExecutionOwnsAttempt
<1>2. intent[i] \in IntentRow /\ intent \in [Intents -> IntentRow]
  BY <1>1 DEF TypeOK, StoreTypeOK
<1>3. SettledRow(i, s) \in IntentRow /\ SettledRow(i, s).status = s
  BY <1>1, <1>2 DEF SettledRow, IntentRow, Settlements, IntentStates
<1>4. /\ rows \in [Intents -> IntentRow] /\ rows[i].status = s
      /\ \A j \in Intents \ {i} : rows[j] = intent[j]
  BY <1>1, <1>2, <1>3
<1>5. IF s = "FAILED_FINAL"
      THEN CancelWith(rows, SubOf[i])
      ELSE intent' = rows /\ UNCHANGED <<subscription, outbox>>
  BY DEF SettleAttempt
<1> HIDE DEF i, s, rows
<1>6. CASE s = "FAILED_FINAL"
  <2>1. /\ StatusOnly(rows) = [StatusOnly(intent) EXCEPT ![i].status = "FAILED_FINAL"]
        /\ StatusOnly(intent)[i].status = "IN_FLIGHT"
    <3>1. \A j \in Intents \ {i} : rows[j].status = intent[j].status
      BY <1>4
    <3>2. StatusOnly(rows) = [StatusOnly(intent) EXCEPT ![i].status = rows[i].status]
      BY <1>1, <3>1 DEF StatusOnly, NoIntentRow
    <3> QED
      BY <1>1, <1>4, <1>6, <3>2, SeenRow
  <2>2. StatusOnly(Omitted(rows, SubOf[i])) = Moves!Omitted(StatusOnly(rows), SubOf[i])
    BY <1>4, OmissionSeen
  <2>3. Moves!CancelWith(StatusOnly(rows), SubOf[i])
    BY <1>5, <1>6, <2>2 DEF CancelWith, Moves!CancelWith
  <2>4. Moves!FailsFinally(i)
    BY <2>1, <2>3 DEF Moves!FailsFinally
  <2> QED
    BY <1>1, <2>4 DEF AttemptStepSeen
<1>7. CASE s # "FAILED_FINAL"
  BY <1>1, <1>4, <1>5, <1>7, OneRowSeen DEF Settlements
<1> QED
  BY <1>6, <1>7

LEMMA SweepSeen ==
  ASSUME ReprocessInvariant, NEW k \in Intents, SweepStep(k) \/ SweepAborts(k)
  PROVE  AttemptStepSeen
<1>0. TypeOK /\ intent \in [Intents -> IntentRow] /\ intent[k] \in IntentRow
  BY DEF ReprocessInvariant, TypeOK, StoreTypeOK
<1>1. UNCHANGED <<subscription, outbox>>
  BY DEF SweepStep, SweepThrows, SweepEscalates, SweepVerifies, SweepKeepsUnknown, SweepSettles,
     SweepAborts, AbandonSweep, NextCandidate, storeVars
<1>2. ASSUME NEW row, intent' = UpdateUnknown(k, row) \/ intent' = intent,
             row.status \in {"SUCCEEDED", "RETRY_PENDING", "OMITTED", intent[k].status}
      PROVE  AttemptStepSeen
  <2>1. \A j \in Intents \ {k} : intent'[j] = intent[j]
    BY <1>0, <1>2 DEF UpdateUnknown
  <2>2. \/ intent'[k] = intent[k]
        \/ intent[k].status = "UNKNOWN" /\ intent'[k] = row
    BY <1>0, <1>2 DEF UpdateUnknown
  <2> QED
    BY <1>1, <1>2, <2>1, <2>2, OneRowSeen
<1>3. CASE SweepSettles(k)
  <2> DEFINE row == CASE verdict = "SUCCEEDED" -> [intent[k] EXCEPT !.status = "SUCCEEDED"]
                      [] verdict = "FAILED" /\ seen[k].sub = "ACTIVE" ->
                            [intent[k] EXCEPT !.status = "RETRY_PENDING", !.due = FALSE]
                      [] OTHER -> [intent[k] EXCEPT !.status = "OMITTED"]
  <2>1. row.status \in {"SUCCEEDED", "RETRY_PENDING", "OMITTED"}
    <3>1. /\ [intent[k] EXCEPT !.status = "SUCCEEDED"].status = "SUCCEEDED"
          /\ [intent[k] EXCEPT !.status = "RETRY_PENDING", !.due = FALSE].status = "RETRY_PENDING"
          /\ [intent[k] EXCEPT !.status = "OMITTED"].status = "OMITTED"
      BY <1>0 DEF IntentRow
    <3>2. CASE verdict = "SUCCEEDED"
      BY <3>1, <3>2
    <3>3. CASE verdict = "FAILED" /\ seen[k].sub = "ACTIVE"
      BY <3>1, <3>3
    <3>4. CASE verdict # "SUCCEEDED" /\ ~(verdict = "FAILED" /\ seen[k].sub = "ACTIVE")
      BY <3>1, <3>4
    <3> QED
      BY <3>2, <3>3, <3>4
  <2>2. intent' = UpdateUnknown(k, row)
    BY <1>3 DEF SweepSettles, NextCandidate
  <2> HIDE DEF row
  <2> QED
    BY <1>2, <2>1, <2>2
<1>4. CASE SweepEscalates(k)
  <2>1. [intent[k] EXCEPT !.needsReview = TRUE, !.verifyDue = TRUE].status = intent[k].status
    BY <1>0 DEF IntentRow
  <2> QED
    BY <1>2, <1>4, <2>1 DEF SweepEscalates, NextCandidate
<1>5. CASE SweepKeepsUnknown(k)
  <2> DEFINE review == seen[k].count + 1 >= ManualReviewThreshold
             row == [intent[k] EXCEPT !.verifyCount = @ + 1, !.verifyDue = review,
                                      !.needsReview = review]
  <2>1. row.status = intent[k].status
    BY <1>0 DEF IntentRow
  <2>2. intent' = UpdateUnknown(k, row) \/ intent' = intent
    BY <1>5 DEF SweepKeepsUnknown, NextCandidate
  <2> HIDE DEF row
  <2> QED
    BY <1>2, <2>1, <2>2
<1>6. CASE SweepThrows(k) \/ SweepAborts(k) \/ \E v \in Verdicts : SweepVerifies(k, v)
  BY <1>1, <1>6 DEF SweepThrows, SweepAborts, SweepVerifies, AbandonSweep, storeVars, AttemptStepSeen
<1> QED
  BY <1>3, <1>4, <1>5, <1>6 DEF SweepStep

LEMMA ExecutorSeen ==
  ASSUME ReprocessInvariant, ExecutorNext
  PROVE  AttemptStepSeen
<1>0. TypeOK /\ intent \in [Intents -> IntentRow]
  BY DEF ReprocessInvariant, TypeOK, StoreTypeOK
<1>1. ASSUME NEW w \in Workers, NEW k \in Intents, NEW n \in Rows,
             NEW seq \in 1 .. (MaxAttempts + 1), StartAttempt(w, k, n, seq)
      PROVE  AttemptStepSeen
  <2>1. /\ intent' = [intent EXCEPT ![k].status = "IN_FLIGHT"]
        /\ intent[k].status \in {"SCHEDULED", "RETRY_PENDING"}
        /\ UNCHANGED <<subscription, outbox>>
    BY <1>1 DEF StartAttempt, Chargeable
  <2>2. intent'[k].status = "IN_FLIGHT" /\ \A j \in Intents \ {k} : intent'[j] = intent[j]
    BY <1>0, <2>1 DEF IntentRow
  <2> QED
    BY <2>1, <2>2, OneRowSeen
<1>2. ASSUME NEW w \in Workers, ExecutionStep(w) \/ ExecutionDies(w)
      PROVE  AttemptStepSeen
  <2>1. CASE SettleAttempt(w)
    BY <2>1, SettlementSeen
  <2>2. CASE ~SettleAttempt(w)
    BY <1>2, <2>2
       DEF ExecutionStep, Settlement, Charge, Verify, SettlementRolledBack, ExecutionDies,
       storeVars, AttemptStepSeen
  <2> QED
    BY <2>1, <2>2
<1>3. ASSUME NEW k \in Intents, NEW n \in Rows, RecoverExpired(k, n)
      PROVE  AttemptStepSeen
  <2>1. /\ intent' = [intent EXCEPT ![k].status = "UNKNOWN"]
        /\ intent[k].status = "IN_FLIGHT"
        /\ UNCHANGED <<subscription, outbox>>
    BY <1>3 DEF RecoverExpired
  <2>2. intent'[k].status = "UNKNOWN" /\ \A j \in Intents \ {k} : intent'[j] = intent[j]
    BY <1>0, <2>1 DEF IntentRow
  <2> QED
    BY <2>1, <2>2, OneRowSeen
<1>4. ASSUME NEW k \in Intents, TimeStep(k)
      PROVE  AttemptStepSeen
  <2>1. UNCHANGED <<subscription, outbox>>
    BY <1>4 DEF TimeStep, BackoffElapses, CadenceElapses, UnknownWindowElapses, DeadlinePasses,
       SetIntent
  <2>2. \A j \in Intents : intent'[j].status = intent[j].status
    BY <1>0, <1>4 DEF TimeStep, BackoffElapses, CadenceElapses, UnknownWindowElapses,
       DeadlinePasses, SetIntent, IntentRow
  <2> QED
    BY <2>1, <2>2, OneRowSeen
<1>5. ASSUME UNCHANGED storeVars
      PROVE  AttemptStepSeen
  BY <1>5 DEF storeVars, AttemptStepSeen
<1> QED
  BY <1>1, <1>2, <1>3, <1>4, <1>5, SweepSeen DEF ExecutorNext, FindUnknown

LEMMA ReprocessSeen ==
  ASSUME ReprocessInvariant, ReprocessNext
  PROVE  AttemptStepSeen
<1>0. TypeOK /\ ReprocessTypeOK /\ intent \in [Intents -> IntentRow]
  BY DEF ReprocessInvariant, TypeOK, StoreTypeOK
<1>1. ASSUME NEW p \in Operators, CloseVerification(p)
      PROVE  AttemptStepSeen
  <2> DEFINE k == reprocess[p].intent
             row == [intent[k] EXCEPT !.status = "SUCCEEDED"]
  <2>1. k \in Intents /\ intent' = UpdateUnknown(k, row) /\ UNCHANGED <<subscription, outbox>>
    BY <1>0, <1>1 DEF CloseVerification, Closed, ReprocessTypeOK
  <2>2. row.status = "SUCCEEDED"
    BY <1>0, <2>1 DEF IntentRow
  <2> HIDE DEF k, row
  <2>3. /\ \A j \in Intents \ {k} : intent'[j] = intent[j]
        /\ \/ intent'[k] = intent[k]
           \/ intent[k].status = "UNKNOWN" /\ intent'[k] = row
    BY <1>0, <2>1 DEF UpdateUnknown
  <2> QED
    BY <2>1, <2>2, <2>3, OneRowSeen
<1>2. ASSUME NEW p \in Operators, NEW w \in Workers, NEW n \in Rows, StartManualAttempt(p, w, n)
      PROVE  AttemptStepSeen
  <2>1. PICK k \in Intents : /\ intent' = [intent EXCEPT ![k].status = "IN_FLIGHT"]
                              /\ intent[k].status \in {"UNKNOWN", "FAILED_FINAL"}
                              /\ LiveUnique(k)
                              /\ UNCHANGED <<subscription, outbox>>
    BY <1>0, <1>2 DEF StartManualAttempt, Reopenable, ReprocessTypeOK
  <2>2. intent'[k].status = "IN_FLIGHT" /\ \A j \in Intents \ {k} : intent'[j] = intent[j]
    BY <1>0, <2>1 DEF IntentRow
  <2> QED
    BY <2>1, <2>2, OneRowSeen
<1>3. ASSUME UNCHANGED storeVars
      PROVE  AttemptStepSeen
  BY <1>3 DEF storeVars, AttemptStepSeen
<1> QED
  BY <1>1, <1>2, <1>3 DEF ReprocessNext, ReprocessStep, LoadCandidate, VerifyLatest,
     ReprocessEnds, ManualVerify, vars, storeVars

LEMMA CyclesSeen ==
  ASSUME TypeOK, CyclesNext
  PROVE  Moves!CyclesNext
<1>0. intent \in [Intents -> IntentRow]
  BY DEF TypeOK, StoreTypeOK
<1>1. PICK i \in Intents : FindSubscription(i) \/ CreateIntent(i) \/ CreationAbandoned(i)
  BY DEF CyclesNext
<1>2. UNCHANGED storeVars => UNCHANGED Moves!storeVars
  BY DEF storeVars, Moves!storeVars
<1>3. CASE FindSubscription(i)
  BY <1>2, <1>3, SeenRow DEF FindSubscription, Moves!FindSubscription, Moves!CyclesNext
<1>4. CASE CreateIntent(i)
  <2>1. /\ intent[i].status = "ABSENT" /\ LiveUnique(i)
        /\ intent' = [intent EXCEPT ![i].status = "SCHEDULED"]
        /\ UNCHANGED <<subscription, outbox>>
    BY <1>4 DEF CreateIntent, ScheduleIntent
  <2>2. intent'[i].status = "SCHEDULED" /\ \A j \in Intents \ {i} : intent'[j] = intent[j]
    BY <1>0, <2>1 DEF IntentRow
  <2>3. StatusOnly(intent') = [StatusOnly(intent) EXCEPT ![i].status = "SCHEDULED"]
    <3>1. \A j \in Intents \ {i} : intent'[j].status = intent[j].status
      BY <2>2
    <3>2. StatusOnly(intent') = [StatusOnly(intent) EXCEPT ![i].status = intent'[i].status]
      BY <3>1, StatusSeen
    <3> QED
      BY <2>2, <3>2
  <2>4. Moves!LiveUnique(i)
    BY <2>1, SeenRow DEF LiveUnique, Moves!LiveUnique, LiveStates, Moves!LiveStates
  <2>5. Moves!ScheduleIntent(i)
    BY <2>1, <2>3, <2>4, SeenRow DEF Moves!ScheduleIntent
  <2> QED
    BY <1>4, <2>5 DEF CreateIntent, Moves!CreateIntent, Moves!CyclesNext
<1>5. CASE CreationAbandoned(i)
  BY <1>2, <1>5 DEF CreationAbandoned, Moves!CreationAbandoned, Moves!CyclesNext
<1> QED
  BY <1>1, <1>3, <1>4, <1>5

LEMMA LifecycleSeen ==
  ASSUME TypeOK, LifecycleNext
  PROVE  Moves!LifecycleNext
<1>0. PICK a \in Admins :
        \/ \E op \in LifecycleOps, s \in Subscriptions : LoadSubscription(a, op, s)
        \/ LoadLiveIntents(a)
        \/ ApplyCancellation(a)
        \/ ApplyPause(a)
        \/ ApplyResume(a)
        \/ RequestAbandoned(a)
  BY DEF LifecycleNext
<1>1. UNCHANGED storeVars => UNCHANGED Moves!storeVars
  BY DEF storeVars, Moves!storeVars
<1>2. Moves!NoLifecycle = NoLifecycle /\ Moves!LifecycleOps = LifecycleOps
  BY DEF NoLifecycle, Moves!NoLifecycle, LifecycleOps, Moves!LifecycleOps
<1>3. ASSUME NEW op \in LifecycleOps, NEW s \in Subscriptions, LoadSubscription(a, op, s)
      PROVE  Moves!LoadSubscription(a, op, s)
  BY <1>1, <1>2, <1>3 DEF LoadSubscription, Moves!LoadSubscription
<1>4. ASSUME LoadLiveIntents(a)
      PROVE  Moves!LoadLiveIntents(a)
  <2>1. \A s : Moves!IntentsToOmit(s) = IntentsToOmit(s)
    BY SeenRow DEF IntentsToOmit, Moves!IntentsToOmit, OmittableStates, Moves!OmittableStates
  <2>2. \A op, st : Moves!Proceeds(op, st) = Proceeds(op, st)
    BY DEF Proceeds, Moves!Proceeds
  <2> QED
    BY <1>1, <1>2, <1>4, <2>1, <2>2 DEF LoadLiveIntents, Moves!LoadLiveIntents
<1>5. StatusOnly(OmitIntents(request[a].omit)) = Moves!OmitIntents(request[a].omit)
  BY RequestOmissionSeen
<1>6. ASSUME ApplyCancellation(a)
      PROVE  Moves!ApplyCancellation(a)
  BY <1>2, <1>5, <1>6 DEF ApplyCancellation, Moves!ApplyCancellation
<1>7. ASSUME ApplyPause(a)
      PROVE  Moves!ApplyPause(a)
  BY <1>2, <1>5, <1>7 DEF ApplyPause, Moves!ApplyPause, SubscriptionUpdatable,
     Moves!SubscriptionUpdatable
<1>8. ASSUME ApplyResume(a)
      PROVE  Moves!ApplyResume(a)
  BY <1>2, <1>8 DEF ApplyResume, Moves!ApplyResume, SubscriptionUpdatable,
     Moves!SubscriptionUpdatable
<1>9. ASSUME RequestAbandoned(a)
      PROVE  Moves!RequestAbandoned(a)
  BY <1>1, <1>2, <1>9 DEF RequestAbandoned, Moves!RequestAbandoned
<1> QED
  BY <1>0, <1>2, <1>3, <1>4, <1>6, <1>7, <1>8, <1>9 DEF Moves!LifecycleNext

LEMMA SweptSeen ==
  ASSUME TypeOK, SweptCycle
  PROVE  Moves!SweptCycle
<1>1. /\ UNCHANGED <<subscription, outbox, creating>>
      /\ \E i \in Intents :
            /\ intent[i].status = "ABSENT"
            /\ \/ intent'[i].status = "SCHEDULED" /\ LiveUnique(i)
               \/ intent'[i].status = "OMITTED"
            /\ \A j \in Intents \ {i} : intent'[j] = intent[j]
  BY SweptWrites
<1>2. PICK i \in Intents : /\ intent[i].status = "ABSENT"
                           /\ \/ intent'[i].status = "SCHEDULED" /\ LiveUnique(i)
                              \/ intent'[i].status = "OMITTED"
                           /\ \A j \in Intents \ {i} : intent'[j] = intent[j]
  BY <1>1
<1>3. /\ StatusOnly(intent') = [StatusOnly(intent) EXCEPT ![i].status = intent'[i].status]
      /\ StatusOnly(intent)[i].status = "ABSENT"
  <2>1. \A j \in Intents \ {i} : intent'[j].status = intent[j].status
    BY <1>2
  <2>2. StatusOnly(intent') = [StatusOnly(intent) EXCEPT ![i].status = intent'[i].status]
    BY <2>1, StatusSeen
  <2> QED
    BY <1>2, <2>2, SeenRow
<1>4. CASE intent'[i].status = "SCHEDULED" /\ LiveUnique(i)
  <2>1. Moves!LiveUnique(i)
    BY <1>4, SeenRow DEF LiveUnique, Moves!LiveUnique, LiveStates, Moves!LiveStates
  <2>2. Moves!ScheduleIntent(i)
    BY <1>1, <1>3, <1>4, <2>1 DEF Moves!ScheduleIntent
  <2> QED
    BY <1>1, <2>2 DEF Moves!SweptCycle
<1>5. CASE intent'[i].status = "OMITTED"
  <2>1. Moves!OmitCycle(i)
    BY <1>1, <1>3, <1>5 DEF Moves!OmitCycle
  <2> QED
    BY <1>1, <2>1 DEF Moves!SweptCycle
<1> QED
  BY <1>2, <1>4, <1>5

\* What is not the scheduler is a step of IntentMoves, or none.
LEMMA ServiceSeen ==
  ASSUME EngineTypeOK, ReprocessInvariant, ServiceNext \/ UNCHANGED engineVars
  PROVE  [Moves!MovesNext]_Moves!movesVars
<1>0. TypeOK
  BY DEF EngineTypeOK
<1>1. ASSUME AttemptStepSeen, UNCHANGED <<creating, request>>
      PROVE  [Moves!MovesNext]_Moves!movesVars
  BY <1>1 DEF AttemptStepSeen, Moves!MovesNext, Moves!movesVars, Moves!storeVars
<1>2. CASE ExecutorNext /\ UNCHANGED <<reprocess, creating, request>>
  BY <1>1, <1>2, ExecutorSeen
<1>3. CASE ReprocessNext /\ UNCHANGED <<creating, request>>
  BY <1>1, <1>3, ReprocessSeen
<1>4. CASE CyclesNext /\ UNCHANGED <<provider, execVars, reprocess, request>>
  BY <1>0, <1>4, CyclesSeen DEF Moves!MovesNext
<1>5. CASE LifecycleNext /\ UNCHANGED <<provider, execVars, reprocess, creating>>
  BY <1>0, <1>5, LifecycleSeen DEF Moves!MovesNext
<1>6. CASE UNCHANGED engineVars
  BY <1>1, <1>6 DEF engineVars, reprocessVars, vars, storeVars, AttemptStepSeen
<1> QED
  BY <1>2, <1>3, <1>4, <1>5, <1>6 DEF ServiceNext

LEMMA EngineInitSeen == EngineInit => Moves!MovesInit
<1> SUFFICES ASSUME EngineInit PROVE Moves!MovesInit
  OBVIOUS
<1>1. StatusOnly(intent) = [i \in Intents |-> NoIntentRow]
  BY DEF EngineInit, Init, StoreInit, StatusOnly, NoIntentRow
<1>2. Moves!StoreInit
  BY <1>1 DEF EngineInit, Init, StoreInit, Moves!StoreInit, Moves!NoIntentRow, NoIntentRow,
     Moves!NoAttemptRow, NoAttemptRow, Rows, Moves!Rows
<1>3. Moves!CyclesInit /\ Moves!LifecycleInit
  BY DEF EngineInit, CyclesInit, Moves!CyclesInit, LifecycleInit, Moves!LifecycleInit,
     NoLifecycle, Moves!NoLifecycle
<1> QED
  BY <1>2, <1>3 DEF Moves!MovesInit

\* To requests that create, omit and cancel, the engine's attempts, sweeps and
\* manual attempts are the attempts of IntentMoves (startAttempt, settleAttempt,
\* startManualAttempt, the two sweeps): what BillingPlan takes for granted is so.
THEOREM EngineOnlyMoves ==
  ASSUME StallBeyondDeadline = FALSE, StaleProbes = FALSE, StartsDuringSweep = FALSE
  PROVE  EngineSpec => AttemptsOnlyMove
<1>1. ASSUME EngineTypeOK, ReprocessInvariant, [EngineNext]_engineVars
      PROVE  [Moves!MovesNext \/ (Moves!SweptCycle /\ UNCHANGED request)]_Moves!movesVars
  <2>1. CASE SweptCycle /\ UNCHANGED <<provider, execVars, reprocess, request>>
    BY <1>1, <2>1, SweptSeen DEF EngineTypeOK
  <2> QED
    BY <1>1, <2>1, ServiceSeen DEF EngineNext
<1> QED
  BY <1>1, EngineInitSeen, EngineTypeCorrect, EngineChargeInvariant, PTL
     DEF EngineSpec, AttemptsOnlyMove, Moves!MovesSpec
=============================================================================
