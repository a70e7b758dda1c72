---------------------------- MODULE DispatcherProofs ----------------------------
(***************************************************************************)
(* The dispatcher, its queue and its worker add nothing to what executions  *)
(* may do: whatever is lost, repeated or late on the way, what happens to   *)
(* the rows and at the provider is a behaviour of ChargeExecutor. So what   *)
(* ChargeExecutorProofs shows of any executions holds of jobs. The queue    *)
(* itself never holds two jobs of an intent, and the order in which intents *)
(* are picked overlooks none.                                               *)
(***************************************************************************)
EXTENDS Dispatcher, ChargeExecutorProofs, FiniteSetTheorems

-----------------------------------------------------------------------------
(* Sequences *)

\* What is left of a sequence without its k-th element.
LEMMA RemoveAtFacts ==
  ASSUME NEW S, NEW s \in Seq(S), NEW k \in DOMAIN s
  PROVE  /\ RemoveAt(s, k) \in Seq(S)
         /\ Len(RemoveAt(s, k)) = Len(s) - 1
         /\ \A j \in 1 .. Len(s) - 1 :
               RemoveAt(s, k)[j] = IF j < k THEN s[j] ELSE s[j + 1]
<1> DEFINE front == SubSeq(s, 1, k - 1)
           back == SubSeq(s, k + 1, Len(s))
<1>1. k \in 1 .. Len(s) /\ Len(s) \in Nat
  OBVIOUS
<1>2. front \in Seq(S) /\ Len(front) = k - 1 /\ \A j \in 1 .. k - 1 : front[j] = s[j]
  BY <1>1
<1>3. /\ back \in Seq(S) /\ Len(back) = Len(s) - k
      /\ \A j \in 1 .. Len(s) - k : back[j] = s[j + k]
  BY <1>1
<1>4. RemoveAt(s, k) = front \o back
  BY DEF RemoveAt
<1> HIDE DEF front, back
<1> QED
  BY <1>1, <1>2, <1>3, <1>4

\* Who is left once its k-th element is gone: everybody else, once each.
LEMMA RemoveAtLeaves ==
  ASSUME NEW S, NEW s \in Seq(S), IsInjective(s), NEW k \in DOMAIN s
  PROVE  /\ IsInjective(RemoveAt(s, k))
         /\ \A e : Contains(RemoveAt(s, k), e) <=> Contains(s, e) /\ e # s[k]
<1> DEFINE r == RemoveAt(s, k)
<1>1. /\ r \in Seq(S) /\ Len(r) = Len(s) - 1
      /\ \A j \in 1 .. Len(s) - 1 : r[j] = IF j < k THEN s[j] ELSE s[j + 1]
  BY RemoveAtFacts
<1>2. k \in 1 .. Len(s) /\ Len(s) \in Nat /\ DOMAIN r = 1 .. Len(r) /\ DOMAIN s = 1 .. Len(s)
  BY <1>1
<1> HIDE DEF r
<1>3. ASSUME NEW a \in DOMAIN r, NEW b \in DOMAIN r, r[a] = r[b]
      PROVE  a = b
  <2> DEFINE at(j) == IF j < k THEN j ELSE j + 1
  <2>1. /\ a \in Nat /\ b \in Nat /\ at(a) \in DOMAIN s /\ at(b) \in DOMAIN s
        /\ r[a] = s[at(a)] /\ r[b] = s[at(b)]
    BY <1>1, <1>2
  <2>2. at(a) = at(b)
    BY <1>3, <2>1 DEF IsInjective
  <2> QED
    BY <1>2, <2>1, <2>2
<1>4. ASSUME NEW e, Contains(r, e)
      PROVE  Contains(s, e) /\ e # s[k]
  BY <1>1, <1>2, <1>4 DEF IsInjective, Contains
<1>5. ASSUME NEW e, Contains(s, e), e # s[k]
      PROVE  Contains(r, e)
  <2>1. PICK j \in 1 .. Len(s) : s[j] = e
    BY <1>5 DEF Contains
  <2>2. CASE j < k
    BY <1>1, <1>2, <2>1, <2>2 DEF Contains
  <2>3. CASE j > k
    <3>1. j - 1 \in 1 .. Len(s) - 1 /\ ~(j - 1 < k) /\ (j - 1) + 1 = j
      BY <1>2, <2>3
    <3> QED
      BY <1>1, <2>1, <3>1 DEF Contains
  <2> QED
    BY <1>2, <1>5, <2>1, <2>2, <2>3
<1> QED
  BY <1>3, <1>4, <1>5 DEF r, IsInjective

LEMMA AppendFacts ==
  ASSUME NEW S, NEW s \in Seq(S), NEW e \in S
  PROVE  /\ Append(s, e) \in Seq(S)
         /\ \A x : Contains(Append(s, e), x) <=> Contains(s, x) \/ x = e
         /\ IsInjective(s) /\ ~Contains(s, e) => IsInjective(Append(s, e))
<1> DEFINE r == Append(s, e)
<1>1. /\ r \in Seq(S) /\ Len(r) = Len(s) + 1 /\ r[Len(s) + 1] = e
      /\ \A j \in 1 .. Len(s) : r[j] = s[j]
  OBVIOUS
<1>2. Len(s) \in Nat /\ DOMAIN r = 1 .. Len(s) + 1 /\ DOMAIN s = 1 .. Len(s)
  BY <1>1
<1> HIDE DEF r
<1>3. \A x : Contains(r, x) <=> Contains(s, x) \/ x = e
  BY <1>1, <1>2 DEF Contains
<1>4. IsInjective(s) /\ ~Contains(s, e) => IsInjective(r)
  BY <1>1, <1>2 DEF Contains, IsInjective
<1> QED
  BY <1>1, <1>3, <1>4 DEF r

\* The head of a sequence without repetitions is not in its tail.
LEMMA TailFacts ==
  ASSUME NEW S, NEW s \in Seq(S), s # <<>>
  PROVE  /\ Head(s) \in S /\ Tail(s) \in Seq(S)
         /\ IsInjective(s) => IsInjective(Tail(s)) /\ ~Contains(Tail(s), Head(s))
<1> DEFINE r == Tail(s)
<1>1. /\ r \in Seq(S) /\ Len(r) = Len(s) - 1 /\ Head(s) = s[1] /\ Head(s) \in S
      /\ Len(s) \in Nat \ {0} /\ \A j \in 1 .. Len(s) - 1 : r[j] = s[j + 1]
  OBVIOUS
<1>2. DOMAIN r = 1 .. Len(s) - 1 /\ DOMAIN s = 1 .. Len(s)
  BY <1>1
<1> HIDE DEF r
<1>3. ASSUME IsInjective(s), NEW a \in DOMAIN r, NEW b \in DOMAIN r, r[a] = r[b]
      PROVE  a = b
  <2>1. /\ a \in Nat /\ b \in Nat /\ a + 1 \in DOMAIN s /\ b + 1 \in DOMAIN s
        /\ s[a + 1] = s[b + 1]
    BY <1>1, <1>2, <1>3
  <2>2. a + 1 = b + 1
    BY <1>3, <2>1 DEF IsInjective
  <2> QED
    BY <2>1, <2>2
<1>4. IsInjective(s) => ~Contains(r, Head(s))
  BY <1>1, <1>2 DEF IsInjective, Contains
<1> QED
  BY <1>1, <1>3, <1>4 DEF r, IsInjective

LEMMA PutBackFacts ==
  ASSUME NEW S, NEW s \in Seq(S), NEW e \in S
  PROVE  /\ <<e>> \o s \in Seq(S)
         /\ IsInjective(s) /\ ~Contains(s, e) => IsInjective(<<e>> \o s)
<1> DEFINE r == <<e>> \o s
<1>1. /\ r \in Seq(S) /\ Len(r) = Len(s) + 1 /\ r[1] = e
      /\ \A j \in 1 .. Len(s) : r[j + 1] = s[j]
  OBVIOUS
<1>2. Len(s) \in Nat /\ DOMAIN r = 1 .. Len(s) + 1 /\ DOMAIN s = 1 .. Len(s)
  BY <1>1
<1>3. \A j \in 2 .. Len(s) + 1 : r[j] = s[j - 1] /\ j - 1 \in 1 .. Len(s)
  BY <1>1, <1>2
<1> HIDE DEF r
<1>4. ASSUME IsInjective(s), ~Contains(s, e),
             NEW a \in DOMAIN r, NEW b \in DOMAIN r, r[a] = r[b]
      PROVE  a = b
  <2>1. CASE a = 1 \/ b = 1
    BY <1>1, <1>2, <1>3, <1>4, <2>1 DEF Contains
  <2>2. CASE a # 1 /\ b # 1
    <3>1. /\ a \in Nat /\ b \in Nat /\ a - 1 \in DOMAIN s /\ b - 1 \in DOMAIN s
          /\ s[a - 1] = s[b - 1]
      BY <1>2, <1>3, <1>4, <2>2
    <3>2. a - 1 = b - 1
      BY <1>4, <3>1 DEF IsInjective
    <3> QED
      BY <3>1, <3>2
  <2> QED
    BY <2>1, <2>2
<1> QED
  BY <1>1, <1>4 DEF r, IsInjective

LEMMA PicksType ==
  ASSUME DispatcherTypeOK, NEW skipped, PicksDue(skipped)
  PROVE  batch' \in Seq(Intents)
<1> DEFINE due == {k \in DOMAIN line : IsDue(line[k]) /\ line[k] \notin skipped}
           n == IF Cardinality(due) < BatchSize THEN Cardinality(due) ELSE BatchSize
<1>1. line \in Seq(Intents) /\ DOMAIN line = 1 .. Len(line) /\ Len(line) \in Nat
  BY DEF DispatcherTypeOK
<1>2. Cardinality(due) \in Nat
  <2>1. IsFiniteSet(1 .. Len(line))
    BY <1>1, FS_Interval
  <2>2. due \in SUBSET (1 .. Len(line))
    BY <1>1
  <2> HIDE DEF due
  <2> QED
    BY <2>1, <2>2, FS_Subset, FS_CardinalityType
<1>3. n \in Nat
  BY <1>2, DispatcherAssumption
<1>4. PICK place \in [1 .. n -> due] : batch' = [j \in 1 .. n |-> line[place[j]]]
  BY DEF PicksDue
<1>5. \A k \in due : line[k] \in Intents
  BY <1>1
<1> HIDE DEF due, n
<1> QED
  BY <1>3, <1>4, <1>5

-----------------------------------------------------------------------------
(* A job is an execution *)

LEMMA DispatchedIsExecution ==
  ASSUME DispatcherTypeOK, DispatcherNext
  PROVE  [Next]_vars
<1>1. ASSUME DispatchDue \/ DispatchSkips \/ Enqueue \/ EnqueueFails \/ TakeJob \/ JobLost \/ JobRefused
      PROVE  UNCHANGED vars
  BY <1>1 DEF DispatchDue, DispatchSkips, Enqueue, EnqueueFails, TakeJob, JobLost, JobRefused
<1>2. ASSUME NEW w \in Workers, NEW i \in Intents, NEW n \in Rows, NEW seq \in 1 .. MaxAttempts,
             StartAttempt(w, i, n, seq)
      PROVE  Next
  <2>1. seq \in 1 .. (MaxAttempts + 1)
    BY StoreAssumption
  <2> QED
    BY <1>2, <2>1 DEF Next, ExecutorNext
<1>3. ASSUME StartJob
      PROVE  Next
  BY <1>2, <1>3, DispatcherAssumption DEF StartJob, DispatcherTypeOK
<1>4. ASSUME JobRuns
      PROVE  Next
  <2>1. ExecutionStep(QueueWorker) \/ ExecutionDies(QueueWorker)
    BY <1>4 DEF JobRuns, JobEnds, ExecutionStep
  <2> QED
    BY <2>1, DispatcherAssumption DEF Next, ExecutorNext
<1>5. ASSUME Others
      PROVE  Next
  BY <1>2, <1>5 DEF Others, Next, ExecutorNext
<1> QED
  BY <1>1, <1>3, <1>4, <1>5 DEF DispatcherNext

\* The other executions and the two sweeps leave the worker's alone.
LEMMA OthersKeepTheJob ==
  ASSUME DispatcherTypeOK, Others
  PROVE  worker'[QueueWorker] = worker[QueueWorker]
<1>1. worker \in [Workers -> WorkerState]
  BY DEF DispatcherTypeOK, TypeOK
<1>2. ASSUME NEW w \in Workers \ {QueueWorker}, NEW row, worker' = [worker EXCEPT ![w] = row]
      PROVE  worker'[QueueWorker] = worker[QueueWorker]
  BY <1>1, <1>2, DispatcherAssumption
<1>3. ASSUME NEW w \in Workers \ {QueueWorker}, NEW i \in Intents, NEW n \in Rows,
             NEW seq \in 1 .. MaxAttempts, StartAttempt(w, i, n, seq)
      PROVE  worker'[QueueWorker] = worker[QueueWorker]
  BY <1>2, <1>3 DEF StartAttempt
<1>4. ASSUME NEW w \in Workers \ {QueueWorker}, ExecutionStep(w) \/ ExecutionDies(w)
      PROVE  worker'[QueueWorker] = worker[QueueWorker]
  BY <1>1, <1>4, DispatcherAssumption
     DEF ExecutionStep, ExecutionDies, Charge, Verify, Settlement, SettleAttempt,
         SettlementRolledBack
<1>5. ASSUME NEW i \in Intents, NEW n \in Rows,
             RecoverExpired(i, n) \/ UNCHANGED <<storeVars, execVars>>
      PROVE  worker' = worker
  BY <1>5 DEF RecoverExpired, execVars
<1>6. ASSUME NEW i \in Intents, SweepStep(i) \/ SweepAborts(i)
      PROVE  worker' = worker
  BY <1>6 DEF SweepStep, SweepAborts, SweepThrows, SweepEscalates, SweepVerifies,
     SweepKeepsUnknown, SweepSettles, AbandonSweep, NextCandidate
<1>7. ASSUME NEW i \in Intents, TimeStep(i)
      PROVE  worker' = worker
  BY <1>7 DEF TimeStep, BackoffElapses, CadenceElapses, UnknownWindowElapses, SetIntent,
     DeadlinePasses, execVars
<1> QED
  BY <1>3, <1>4, <1>5, <1>6, <1>7 DEF Others, FindUnknown, execVars

-----------------------------------------------------------------------------
(* Jobs *)

\* What a step of an execution or a sweep does to the queue, and to its job.
LEMMA RunningKeepsJobs ==
  ASSUME DispatcherTypeOK, OneJobPerIntent, JobRuns \/ Others
  PROVE  /\ batch' = batch /\ losses' = losses
         /\ queue' \in Seq(Intents) /\ active' \in Intents \cup {-1}
         /\ OneJobPerIntent'
<1>0. /\ queue \in Seq(Intents) /\ active \in Intents \cup {-1}
      /\ worker \in [Workers -> WorkerState] /\ QueueWorker \in Workers
  BY DispatcherAssumption DEF DispatcherTypeOK, TypeOK
<1>1. CASE JobRuns /\ JobEnds /\ active' = -1 /\ UNCHANGED <<batch, losses>>
  <2>1. worker' = [worker EXCEPT ![QueueWorker] = Idle] /\ worker[QueueWorker].pc # "idle"
    BY <1>1 DEF JobEnds, Settlement, SettleAttempt, SettlementRolledBack, ExecutionDies
  <2>2. worker'[QueueWorker].pc = "idle"
    BY <1>0, <2>1 DEF Idle
  <2>3. active \in Intents
    BY <1>0, <2>1 DEF OneJobPerIntent
  <2>4. queue' = queue \/ queue' = <<active>> \o queue
    BY <1>1 DEF JobEnds
  <2>5. queue' \in Seq(Intents) /\ IsInjective(queue')
    BY <1>0, <2>3, <2>4, PutBackFacts DEF OneJobPerIntent
  <2>6. ~Contains(queue', -1)
    BY <2>5, StoreAssumption DEF Contains
  <2> QED
    BY <1>1, <2>2, <2>5, <2>6 DEF OneJobPerIntent
<1>2. CASE /\ \/ \E o \in ChargeOutcomes : Charge(QueueWorker, o)
              \/ \E v \in Verdicts : Verify(QueueWorker, v)
           /\ UNCHANGED queueVars
  <2>1. worker[QueueWorker].pc # "idle" /\ worker'[QueueWorker].intent = worker[QueueWorker].intent
    BY <1>0, <1>2 DEF Charge, Verify, WorkerState
  <2> QED
    BY <1>0, <1>2, <2>1 DEF OneJobPerIntent, queueVars
<1>3. CASE Others
  <2>1. UNCHANGED queueVars
    BY <1>3 DEF Others
  <2> QED
    BY <1>0, <1>3, <2>1, OthersKeepTheJob DEF OneJobPerIntent, queueVars
<1> QED
  BY <1>1, <1>2, <1>3 DEF JobRuns

LEMMA DispatcherStep ==
  ASSUME DispatcherTypeOK, OneJobPerIntent, DispatcherNext, TypeOK', line' \in Seq(Intents)
  PROVE  DispatcherTypeOK' /\ OneJobPerIntent'
<1>0. /\ batch \in Seq(Intents) /\ queue \in Seq(Intents) /\ active \in Intents \cup {-1}
      /\ losses \in 0 .. MaxLosses /\ MaxLosses \in Nat
      /\ worker \in [Workers -> WorkerState] /\ QueueWorker \in Workers
  BY DispatcherAssumption DEF DispatcherTypeOK, TypeOK
<1>1. Loses => losses' \in 0 .. MaxLosses
  BY <1>0 DEF Loses
<1>2. CASE DispatchDue \/ DispatchSkips
  <2>1. batch' \in Seq(Intents)
    BY <1>2, PicksType DEF DispatchDue, DispatchSkips
  <2> QED
    BY <1>0, <1>1, <1>2, <2>1
       DEF DispatchDue, DispatchSkips, DispatcherTypeOK, OneJobPerIntent, vars, execVars
<1>3. CASE Enqueue
  <2>1. Head(batch) \in Intents /\ batch' \in Seq(Intents)
    BY <1>0, <1>3, TailFacts DEF Enqueue
  <2>2. /\ queue' \in Seq(Intents) /\ IsInjective(queue') /\ ~Contains(queue', active)
    BY <1>0, <1>3, <2>1, AppendFacts DEF Enqueue, HasJob, OneJobPerIntent
  <2> QED
    BY <1>0, <1>3, <2>1, <2>2 DEF Enqueue, DispatcherTypeOK, OneJobPerIntent, vars, execVars
<1>4. CASE EnqueueFails
  BY <1>0, <1>1, <1>4 DEF EnqueueFails, DispatcherTypeOK, OneJobPerIntent, vars, execVars
<1>5. CASE TakeJob
  <2>1. /\ Head(queue) \in Intents /\ Tail(queue) \in Seq(Intents)
        /\ IsInjective(Tail(queue)) /\ ~Contains(Tail(queue), Head(queue))
    BY <1>0, <1>5, TailFacts DEF TakeJob, OneJobPerIntent
  <2>2. worker[QueueWorker].pc = "idle"
    BY <1>5 DEF TakeJob, OneJobPerIntent
  <2> QED
    BY <1>0, <1>5, <2>1, <2>2 DEF TakeJob, DispatcherTypeOK, OneJobPerIntent, vars, execVars
<1>6. CASE JobLost
  <2>1. worker' = worker /\ batch' = batch /\ Loses
    BY <1>6 DEF JobLost, vars, execVars
  <2>2. CASE \E k \in DOMAIN queue : queue' = RemoveAt(queue, k) /\ UNCHANGED active
    <3>1. PICK k \in DOMAIN queue : queue' = RemoveAt(queue, k) /\ active' = active
      BY <2>2
    <3>2. queue' \in Seq(Intents) /\ IsInjective(queue') /\ ~Contains(queue', active)
      BY <1>0, <3>1, RemoveAtFacts, RemoveAtLeaves DEF OneJobPerIntent
    <3> QED
      BY <1>0, <1>1, <2>1, <3>1, <3>2 DEF DispatcherTypeOK, OneJobPerIntent
  <2>3. CASE worker[QueueWorker].pc = "idle" /\ active' = -1 /\ UNCHANGED queue
    <3>1. ~Contains(queue, -1)
      BY <1>0, StoreAssumption DEF Contains
    <3> QED
      BY <1>0, <1>1, <2>1, <2>3, <3>1 DEF DispatcherTypeOK, OneJobPerIntent
  <2> QED
    BY <1>6, <2>2, <2>3 DEF JobLost
<1>7. CASE StartJob
  <2>1. PICK n \in Rows, seq \in 1 .. MaxAttempts : StartAttempt(QueueWorker, active, n, seq)
    BY <1>7 DEF StartJob
  <2>2. worker'[QueueWorker].intent = active
    BY <1>0, <2>1 DEF StartAttempt, Idle
  <2> QED
    BY <1>0, <1>7, <2>2 DEF StartJob, DispatcherTypeOK, OneJobPerIntent, queueVars
<1>8. CASE JobRefused
  <2>1. ~Contains(queue, -1)
    BY <1>0, StoreAssumption DEF Contains
  <2> QED
    BY <1>0, <1>8, <2>1 DEF JobRefused, DispatcherTypeOK, OneJobPerIntent, vars, execVars
<1>9. CASE JobRuns \/ Others
  BY <1>0, <1>9, RunningKeepsJobs DEF DispatcherTypeOK
<1> QED
  BY <1>2, <1>3, <1>4, <1>5, <1>6, <1>7, <1>8, <1>9 DEF DispatcherNext

-----------------------------------------------------------------------------
(* The order of next_attempt_at *)

\* Every due intent stands in the line exactly once: no dispatch overlooks one but
\* for its LIMIT and for locked rows.
LineHoldsTheDue ==
    /\ IsInjective(line)
    /\ \A i \in Intents : IsDue(i) => Contains(line, i)

\* A step makes at most one intent due: it writes one row, and those that a
\* cancellation omits along with it.
LEMMA OneIntentChanges ==
  ASSUME TypeOK, Next
  PROVE  \/ intent' = intent
         \/ \E k \in Intents : \A j \in Intents \ {k} :
               intent'[j] = intent[j] \/ intent'[j].status = "OMITTED"
<1> DEFINE Goal == \/ intent' = intent
                   \/ \E k \in Intents : \A j \in Intents \ {k} :
                         intent'[j] = intent[j] \/ intent'[j].status = "OMITTED"
<1>0. intent \in [Intents -> IntentRow]
  BY DEF TypeOK, StoreTypeOK
<1>1. ASSUME NEW k \in Intents, NEW row, intent' = [intent EXCEPT ![k] = row]
      PROVE  Goal
  BY <1>0, <1>1
<1>2. ASSUME NEW k \in Intents, NEW row, intent' = UpdateUnknown(k, row)
      PROVE  Goal
  BY <1>0, <1>2 DEF UpdateUnknown
<1>3. ASSUME NEW w \in Workers, SettleAttempt(w)
      PROVE  Goal
  <2> DEFINE k == worker[w].intent
             rows == [intent EXCEPT ![k] = SettledRow(k, worker[w].settlement)]
  <2>1. k \in Intents
    BY <1>3 DEF SettleAttempt, TypeOK
  <2>2. \A j \in Intents \ {k} : rows[j] = intent[j]
    BY <1>0
  <2>3. intent' = rows \/ intent' = Omitted(rows, SubOf[k])
    BY <1>3 DEF SettleAttempt, CancelWith
  <2> HIDE DEF rows, k
  <2>4. ASSUME NEW j \in Intents \ {k}
        PROVE  intent'[j] = intent[j] \/ intent'[j].status = "OMITTED"
    <3>1. intent'[j] = rows[j] \/ intent'[j] = [rows[j] EXCEPT !.status = "OMITTED"]
      BY <2>3 DEF Omitted
    <3>2. rows[j] \in IntentRow
      BY <1>0, <2>2
    <3> QED
      BY <2>2, <3>1, <3>2 DEF IntentRow
  <2> QED
    BY <2>1, <2>4
<1>4. ASSUME NEW w \in Workers, NEW k \in Intents, NEW n \in Rows, NEW seq, StartAttempt(w, k, n, seq)
      PROVE  Goal
  BY <1>0, <1>4 DEF StartAttempt
<1>5. ASSUME NEW w \in Workers, ExecutionStep(w) \/ ExecutionDies(w), ~SettleAttempt(w)
      PROVE  intent' = intent
  BY <1>5 DEF ExecutionStep, Settlement, Charge, Verify, SettlementRolledBack, ExecutionDies,
     storeVars
<1>6. ASSUME NEW k \in Intents, SweepEscalates(k)
      PROVE  Goal
  BY <1>2, <1>6 DEF SweepEscalates, NextCandidate
<1>7. ASSUME NEW k \in Intents, SweepKeepsUnknown(k)
      PROVE  Goal
  BY <1>2, <1>7 DEF SweepKeepsUnknown, NextCandidate
<1>8. ASSUME NEW k \in Intents, SweepSettles(k)
      PROVE  Goal
  BY <1>2, <1>8 DEF SweepSettles, NextCandidate
<1>9. ASSUME NEW k \in Intents, SweepThrows(k) \/ SweepAborts(k) \/ \E v \in Verdicts : SweepVerifies(k, v)
      PROVE  intent' = intent
  BY <1>9 DEF SweepThrows, SweepAborts, AbandonSweep, SweepVerifies, storeVars
<1>10. ASSUME NEW k \in Intents, TimeStep(k)
       PROVE  Goal
  BY <1>1, <1>10 DEF TimeStep, BackoffElapses, CadenceElapses, UnknownWindowElapses, SetIntent,
     DeadlinePasses
<1>11. ASSUME NEW k \in Intents, NEW n \in Rows,
              RecoverExpired(k, n) \/ (ProviderResolves(k, n) /\ UNCHANGED <<storeVars, execVars>>)
       PROVE  Goal
  BY <1>0, <1>11 DEF RecoverExpired, storeVars
<1>12. ASSUME FindUnknown
       PROVE  intent' = intent
  BY <1>12 DEF FindUnknown, storeVars
<1>13. ASSUME NEW k \in Intents, ScheduleIntent(k)
       PROVE  Goal
  BY <1>0, <1>13 DEF ScheduleIntent
<1> HIDE DEF Goal
<1>14. intent' = intent => Goal
  BY DEF Goal
<1>15. Goal
  BY <1>3, <1>4, <1>5, <1>6, <1>7, <1>8, <1>9, <1>10, <1>11, <1>12, <1>13, <1>14
     DEF Next, ExecutorNext, SweepStep
<1> QED
  BY <1>15 DEF Goal

LEMMA LineStep ==
  ASSUME DispatcherTypeOK, LineHoldsTheDue, DispatcherNext
  PROVE  line' \in Seq(Intents) /\ LineHoldsTheDue'
<1>0. line \in Seq(Intents) /\ TypeOK
  BY DEF DispatcherTypeOK
<1>1. ASSUME UNCHANGED line, \A i \in Intents : IsDue(i)' => IsDue(i)
      PROVE  line' \in Seq(Intents) /\ LineHoldsTheDue'
  BY <1>0, <1>1 DEF LineHoldsTheDue
<1>2. CASE \/ DispatchDue \/ DispatchSkips \/ Enqueue \/ EnqueueFails
           \/ TakeJob \/ JobLost \/ JobRefused
  <2>1. UNCHANGED <<vars, line>>
    BY <1>2 DEF DispatchDue, DispatchSkips, Enqueue, EnqueueFails, TakeJob, JobLost, JobRefused
  <2> QED
    BY <1>1, <2>1 DEF IsDue, vars, storeVars
<1>3. CASE StartJob
  <2>1. PICK n \in Rows, seq \in 1 .. MaxAttempts : StartAttempt(QueueWorker, active, n, seq)
    BY <1>3 DEF StartJob
  <2>2. active \in Intents
    BY <1>3 DEF StartJob, DispatcherTypeOK
  <2>3. ASSUME NEW i \in Intents, IsDue(i)'
        PROVE  IsDue(i)
    BY <1>0, <2>1, <2>2, <2>3 DEF StartAttempt, IsDue, TypeOK, StoreTypeOK, IntentRow
  <2> QED
    BY <1>1, <1>3, <2>3 DEF StartJob
<1>4. CASE (JobRuns \/ Others) /\ LineUp
  <2>1. CASE (\A i \in Intents : IsDue(i)' => IsDue(i)) /\ UNCHANGED line
    BY <1>1, <2>1
  <2>2. CASE \E i \in Intents :
               /\ ~IsDue(i) /\ IsDue(i)'
               /\ \/ \E k \in DOMAIN line : line[k] = i /\ line' = Append(RemoveAt(line, k), i)
                  \/ ~Contains(line, i) /\ line' = Append(line, i)
    <3>1. PICK i \in Intents :
            /\ ~IsDue(i) /\ IsDue(i)'
            /\ \/ \E k \in DOMAIN line : line[k] = i /\ line' = Append(RemoveAt(line, k), i)
               \/ ~Contains(line, i) /\ line' = Append(line, i)
      BY <2>2
    <3>2. Next \/ UNCHANGED vars
      BY <1>4, DispatchedIsExecution DEF DispatcherNext
    <3>3. ASSUME NEW j \in Intents, j # i, IsDue(j)'
          PROVE  IsDue(j)
      BY <1>0, <3>1, <3>2, <3>3, OneIntentChanges DEF IsDue, vars, storeVars
    <3>4. PICK rest \in Seq(Intents) :
            /\ line' = Append(rest, i) /\ ~Contains(rest, i) /\ IsInjective(rest)
            /\ \A j \in Intents : j # i /\ Contains(line, j) => Contains(rest, j)
      <4>1. CASE \E k \in DOMAIN line : line[k] = i /\ line' = Append(RemoveAt(line, k), i)
        <5>1. PICK k \in DOMAIN line : line[k] = i /\ line' = Append(RemoveAt(line, k), i)
          BY <4>1
        <5>2. /\ RemoveAt(line, k) \in Seq(Intents) /\ IsInjective(RemoveAt(line, k))
              /\ \A e : Contains(RemoveAt(line, k), e) <=> Contains(line, e) /\ e # i
          BY <1>0, <5>1, RemoveAtFacts, RemoveAtLeaves DEF LineHoldsTheDue
        <5> QED
          BY <5>1, <5>2
      <4>2. CASE ~Contains(line, i) /\ line' = Append(line, i)
        BY <1>0, <4>2 DEF LineHoldsTheDue
      <4> QED
        BY <3>1, <4>1, <4>2
    <3>5. /\ line' \in Seq(Intents) /\ IsInjective(line')
          /\ \A j : Contains(line', j) <=> Contains(rest, j) \/ j = i
      BY <3>4, AppendFacts
    <3> QED
      BY <3>3, <3>4, <3>5 DEF LineHoldsTheDue
  <2> QED
    BY <1>4, <2>1, <2>2 DEF LineUp
<1> QED
  BY <1>2, <1>3, <1>4 DEF DispatcherNext

-----------------------------------------------------------------------------
LEMMA DispatcherStutters ==
  ASSUME DispatcherTypeOK, OneJobPerIntent, LineHoldsTheDue, UNCHANGED dispatcherVars
  PROVE  DispatcherTypeOK' /\ OneJobPerIntent' /\ LineHoldsTheDue'
<1>1. TypeOK'
  BY StepTypeOK DEF dispatcherVars, DispatcherTypeOK
<1> QED
  BY <1>1 DEF dispatcherVars, queueVars, vars, execVars, storeVars, DispatcherTypeOK,
     OneJobPerIntent, LineHoldsTheDue, IsDue

\* Init's intents are ABSENT, and there is no job.
LEMMA DispatcherStarts ==
  DispatcherInit => DispatcherTypeOK /\ OneJobPerIntent /\ LineHoldsTheDue
<1> SUFFICES ASSUME DispatcherInit
             PROVE  DispatcherTypeOK /\ OneJobPerIntent /\ LineHoldsTheDue
  OBVIOUS
<1>1. DispatcherTypeOK
  BY InitTypeOK, DispatcherAssumption DEF DispatcherInit, DispatcherTypeOK
<1>2. OneJobPerIntent
  BY DispatcherAssumption DEF DispatcherInit, OneJobPerIntent, Init, Idle, IsInjective, Contains
<1>3. LineHoldsTheDue
  BY DEF DispatcherInit, LineHoldsTheDue, Init, StoreInit, NoIntentRow, IsDue, IsInjective
<1> QED
  BY <1>1, <1>2, <1>3

LEMMA DispatcherSteps ==
  ASSUME DispatcherTypeOK, OneJobPerIntent, LineHoldsTheDue, [DispatcherNext]_dispatcherVars
  PROVE  /\ [Next]_vars
         /\ DispatcherTypeOK' /\ OneJobPerIntent' /\ LineHoldsTheDue'
<1>1. CASE DispatcherNext
  <2>1. [Next]_vars
    BY <1>1, DispatchedIsExecution
  <2>2. TypeOK'
    BY <2>1, StepTypeOK DEF DispatcherTypeOK
  <2> QED
    BY <1>1, <2>1, <2>2, LineStep, DispatcherStep
<1>2. CASE UNCHANGED dispatcherVars
  BY <1>2, DispatcherStutters DEF dispatcherVars
<1> QED
  BY <1>1, <1>2

\* Every reachable state of the dispatcher and its queue is well typed.
THEOREM DispatcherTypeCorrect == DispatcherSpec => []DispatcherTypeOK
  BY DispatcherStarts, DispatcherSteps, PTL DEF DispatcherSpec

\* RF-30: jobs that are dispatched again, lost, late or put back after a crash
\* never make two of one intent, and what the worker executes is its job.
THEOREM QueueHoldsOneJob == DispatcherSpec => []OneJobPerIntent
  BY DispatcherStarts, DispatcherSteps, PTL DEF DispatcherSpec

\* RF-30: every due intent has its place in the order in which PICK_DUE reads them,
\* so none is overlooked for any reason but the LIMIT and the locks.
THEOREM DueAreInLine == DispatcherSpec => []LineHoldsTheDue
  BY DispatcherStarts, DispatcherSteps, PTL DEF DispatcherSpec

\* The queue is a mere transport: whatever it loses, repeats or delays, jobs do
\* to the rows and to the provider what executions of ChargeExecutor do.
THEOREM JobsAreExecutions == DispatcherSpec => Spec
<1>1. DispatcherInit => Init
  BY DEF DispatcherInit
<1> QED
  BY <1>1, DispatcherStarts, DispatcherSteps, PTL DEF DispatcherSpec, Spec

\* INV-01 for jobs: an intent that is dispatched more than once, or executed as a
\* job and by request at the same time, is charged at most once, as long as no
\* execution outlives its deadline.
THEOREM DispatchedOneEffectiveCharge ==
  ASSUME StallBeyondDeadline = FALSE
  PROVE  DispatcherSpec => []AtMostOneEffectiveCharge
  BY JobsAreExecutions, OneEffectiveCharge, PTL

\* RF-15 for jobs: none ends SUCCEEDED that the provider did not charge, jobs that
\* settle late included.
THEOREM DispatchedSuccessIsConfirmed == DispatcherSpec => []SucceededIsConfirmed
  BY JobsAreExecutions, SuccessNeedsConfirmation, PTL
=============================================================================
