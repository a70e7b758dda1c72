------------------------------- MODULE Dispatcher -------------------------------
(***************************************************************************)
(* The dispatcher (src/dispatcher), which reads the due intents from        *)
(* PostgreSQL and adds a job for each to the queue in Redis, and the queue's *)
(* worker, which executes one job at a time. PostgreSQL is the truth and    *)
(* the queue a mere transport: jobs get lost and dispatched again.          *)
(*                                                                          *)
(* The other workers are the executions somebody requests, which need no    *)
(* job.                                                                     *)
(***************************************************************************)
EXTENDS ChargeExecutor, SequencesExt

CONSTANTS
    QueueWorker,    \* the execution the BullMQ worker runs, concurrency 1
    BatchSize,      \* DEFAULT_DISPATCH_BATCH_SIZE = 100 in the code
    MaxLosses       \* bound: lost jobs, failed additions and skipped rows

ASSUME DispatcherAssumption ==
    /\ QueueWorker \in Workers
    /\ BatchSize \in Nat \ {0}
    /\ MaxLosses \in Nat

VARIABLES
    line,       \* intents in the order of their next_attempt_at
    batch,      \* what dispatch() still has to add to the queue
    queue,      \* the waiting jobs, by their jobId, which is the intent's id
    active,     \* the job the worker has taken, -1 for none
    losses

queueVars == <<batch, queue, active, losses>>
dispatcherVars == <<vars, line, queueVars>>

DispatcherTypeOK ==
    /\ TypeOK
    /\ line \in Seq(Intents) /\ batch \in Seq(Intents) /\ queue \in Seq(Intents)
    /\ active \in Intents \cup {-1}
    /\ losses \in 0 .. MaxLosses

DispatcherInit == Init /\ line = <<>> /\ batch = <<>> /\ queue = <<>> /\ active = -1 /\ losses = 0

-----------------------------------------------------------------------------
(* dispatch() *)

\* A mutant: retries are not picked.
IsScheduled(i) == intent[i].status = "SCHEDULED"

\* The condition of PICK_DUE.
IsDue(i) == intent[i].status \in {"SCHEDULED", "RETRY_PENDING"} /\ intent[i].due

\* ORDER BY next_attempt_at LIMIT, without the rows that are locked: the first
\* of those in the line that are due.
PicksDue(skipped) ==
    LET due == {k \in DOMAIN line : IsDue(line[k]) /\ line[k] \notin skipped}
        n == IF Cardinality(due) < BatchSize THEN Cardinality(due) ELSE BatchSize
    IN  \E place \in [1 .. n -> due] :
            /\ \A j \in 1 .. n : {k \in due : k < place[j]} = {place[h] : h \in 1 .. j - 1}
            /\ batch' = [j \in 1 .. n |-> line[place[j]]]

\* The timer fires and no dispatch() is running. The transaction has ended, and
\* with it the row locks, before the first job is added.
DispatchDue ==
    /\ batch = <<>>
    /\ PicksDue({})
    /\ UNCHANGED <<vars, line, queue, active, losses>>

Loses == losses < MaxLosses /\ losses' = losses + 1

\* Rows that a transaction which will roll back has locked.
DispatchSkips ==
    /\ batch = <<>>
    /\ \E skipped \in SUBSET Intents : PicksDue(skipped)
    /\ Loses
    /\ UNCHANGED <<vars, line, queue, active>>

\* A mutant: only waiting jobs are looked at.
IsWaiting(i) == Contains(queue, i)

\* queue.add ignores a jobId that is waiting or active.
HasJob(i) == i = active \/ Contains(queue, i)

Enqueue ==
    /\ batch # <<>>
    /\ queue' = IF HasJob(Head(batch)) THEN queue ELSE Append(queue, Head(batch))
    /\ batch' = Tail(batch)
    /\ UNCHANGED <<vars, line, active, losses>>

\* queue.add rejects and the catch drops the rest, or the process dies after the
\* COMMIT.
EnqueueFails ==
    /\ batch # <<>>
    /\ batch' = <<>>
    /\ Loses
    /\ UNCHANGED <<vars, line, queue, active>>

-----------------------------------------------------------------------------
(* The queue and its worker *)

TakeJob ==
    /\ active = -1
    /\ queue # <<>>
    /\ active' = Head(queue)
    /\ queue' = Tail(queue)
    /\ UNCHANGED <<vars, line, batch, losses>>

\* A waiting job is lost with Redis, or the one taken with the worker's process.
JobLost ==
    /\ \/ \E k \in DOMAIN queue : queue' = RemoveAt(queue, k) /\ UNCHANGED active
       \/ /\ active # -1 /\ worker[QueueWorker].pc = "idle"
          /\ active' = -1 /\ UNCHANGED queue
    /\ Loses
    /\ UNCHANGED <<vars, line, batch>>

\* startAttempt would start an attempt of i.
Startable(i) ==
    /\ Chargeable(i)
    /\ NoInFlightAttempt(i)
    /\ \E seq \in 1 .. MaxAttempts : IsNextAutoSeq(i, seq)

StartJob ==
    /\ active # -1
    /\ \E n \in Rows, seq \in 1 .. MaxAttempts : StartAttempt(QueueWorker, active, n, seq)
    /\ UNCHANGED <<line, queueVars>>

\* execute() returns what it found instead of starting, and the job is removed.
JobRefused ==
    /\ active # -1 /\ worker[QueueWorker].pc = "idle" /\ ~Startable(active)
    /\ active' = -1
    /\ UNCHANGED <<vars, line, batch, queue, losses>>

\* A completed or failed job is removed; the job of a worker that died is either
\* lost or found stalled and put back in the queue.
JobEnds ==
    \/ /\ Settlement(QueueWorker)
       /\ UNCHANGED queue
    \/ /\ ExecutionDies(QueueWorker)
       /\ queue' \in {queue, <<active>> \o queue}

\* What becomes due now is last in the order of next_attempt_at.
LineUp ==
    \/ \E i \in Intents :
          /\ ~IsDue(i) /\ IsDue(i)'
          /\ \/ \E k \in DOMAIN line : line[k] = i /\ line' = Append(RemoveAt(line, k), i)
             \/ ~Contains(line, i) /\ line' = Append(line, i)
    \/ (\A i \in Intents : IsDue(i)' => IsDue(i)) /\ UNCHANGED line

JobRuns ==
    \/ /\ JobEnds
       /\ active' = -1
       /\ UNCHANGED <<batch, losses>>
    \/ /\ \/ \E o \in ChargeOutcomes : Charge(QueueWorker, o)
          \/ \E v \in Verdicts : Verify(QueueWorker, v)
       /\ UNCHANGED queueVars

-----------------------------------------------------------------------------
\* Everything else the engine does.
Others ==
    /\ \/ \E w \in Workers \ {QueueWorker} :
             \/ \E i \in Intents, n \in Rows, seq \in 1 .. MaxAttempts : StartAttempt(w, i, n, seq)
             \/ ExecutionStep(w)
             \/ ExecutionDies(w)
       \/ \E i \in Intents, n \in Rows :
             \/ RecoverExpired(i, n)
             \/ ProviderResolves(i, n) /\ UNCHANGED <<storeVars, execVars>>
       \/ FindUnknown
       \/ \E i \in Intents : SweepStep(i) \/ SweepAborts(i) \/ TimeStep(i)
       \/ \E i \in Intents : ScheduleIntent(i) /\ UNCHANGED <<provider, execVars>>
    /\ UNCHANGED queueVars

DispatcherNext ==
    \/ DispatchDue \/ DispatchSkips \/ Enqueue \/ EnqueueFails
    \/ TakeJob \/ JobLost \/ StartJob \/ JobRefused
    \/ (JobRuns \/ Others) /\ LineUp

DispatcherSpec == DispatcherInit /\ [][DispatcherNext]_dispatcherVars

\* The timers fire and what has been begun goes on, unless it dies; nobody has to
\* ask for an execution. The gateway may fail in every sweep, but the process does
\* not die each time the sweep is about to escalate an intent.
DispatcherFairness ==
    /\ WF_dispatcherVars(DispatchDue)
    /\ WF_dispatcherVars(Enqueue)
    /\ WF_dispatcherVars(TakeJob)
    /\ WF_dispatcherVars(StartJob \/ JobRefused)
    /\ WF_dispatcherVars(JobRuns /\ LineUp)
    /\ \A w \in Workers \ {QueueWorker} :
           WF_dispatcherVars(ExecutionStep(w) /\ UNCHANGED queueVars /\ LineUp)
    /\ \A i \in Intents :
           /\ WF_dispatcherVars(TimeStep(i) /\ UNCHANGED queueVars /\ LineUp)
           /\ WF_dispatcherVars(SweepStep(i) /\ UNCHANGED queueVars /\ LineUp)
           /\ WF_dispatcherVars((\E n \in Rows : RecoverExpired(i, n))
                                   /\ UNCHANGED queueVars /\ LineUp)
           /\ SF_dispatcherVars(SweepEscalates(i) /\ UNCHANGED queueVars /\ LineUp)
    /\ WF_dispatcherVars(FindUnknown /\ UNCHANGED queueVars /\ LineUp)

DispatcherFairSpec == DispatcherSpec /\ DispatcherFairness

-----------------------------------------------------------------------------
(* Correctness *)

\* A mere transport, but never two jobs of one intent: jobs are dispatched again
\* while one waits, is active or is put back after a crash, and yet at most one of
\* an intent waits or is active; and what the worker executes is its job.
OneJobPerIntent ==
    /\ IsInjective(queue)
    /\ ~Contains(queue, active)
    /\ worker[QueueWorker].pc # "idle" =>
           active # -1 /\ worker[QueueWorker].intent = active

\* RF-30: an intent whose next attempt is due gets it, or stops being chargeable,
\* although jobs are lost with Redis, the dispatcher dies between its COMMIT and
\* the queue, jobs are dispatched twice and executions die: nobody but the
\* dispatcher has to ask for it.
DueIsAttempted ==
    \A i \in Intents : Startable(i) ~> ~Startable(i)

\* RF-17: an UNKNOWN intent is resolved or handed to a person, even when every
\* verification fails or cannot tell, provided the time it became UNKNOWN is known
\* (the recovery sweep does not note it: UnknownIsResolvedOrEscalated).
TimedUnknownIsResolved ==
    [](\A i \in Intents : intent[i].status = "UNKNOWN" => intent[i].since # "NULL")
        => UnknownIsResolvedOrEscalated
=============================================================================
