--------------------------- MODULE BillingSystemProofs ---------------------------
(***************************************************************************)
(* What is shown of the engine and of the plan holds of the whole system:   *)
(* each of its steps is one of BillingEngine and, seen by the statuses of   *)
(* the intents, one of BillingPlan.                                         *)
(***************************************************************************)
EXTENDS BillingSystem, BillingEngineProofs

\* BillingPlan and what is shown of it, for the rows as the others see them.
Plan == INSTANCE BillingPlanProofs WITH
    intent <- StatusOnly(intent),
    attempt <- [i \in Intents |-> [n \in Rows |-> NoAttemptRow]]

-----------------------------------------------------------------------------
(* The engine *)

\* A step of the scheduler inserts one cycle or touches nothing of the engine's.
LEMMA SchedulerIsReduced ==
  ASSUME SchedulerNext
  PROVE  UNCHANGED storeVars \/ \E i \in Intents : ScheduleIntent(i) \/ OmitCycle(i)
<1>1. ASSUME NEW i \in Intents, NEW reason, InsertOmitted(i, reason)
      PROVE  UNCHANGED storeVars \/ OmitCycle(i)
  BY <1>1 DEF InsertOmitted, OmitCycle, storeVars
<1>2. ASSUME NEW x \in Sweepers, NEW i \in Intents,
             OmitOverlapIntent(x, i) \/ OmitEngineDownIntent(x, i)
      PROVE  UNCHANGED storeVars \/ OmitCycle(i)
  BY <1>1, <1>2 DEF OmitOverlapIntent, OmitEngineDownIntent
<1>3. ASSUME NEW x \in Sweepers, NEW i \in Intents, ScheduleCycle(x, i)
      PROVE  UNCHANGED storeVars \/ ScheduleIntent(i)
  BY <1>3 DEF ScheduleCycle
<1> QED
  BY <1>2, <1>3 DEF SchedulerNext, DayPasses, ListActiveSubscriptions, ListExistingIntents,
     SkipExisting, StopAtFutureDay, PassOver, ScheduleRejected, SweepReturns, SweepDies

LEMMA SystemIsAnEngine == SystemSpec => EngineSpec
<1>1. SystemInit => EngineInit
  BY DEF SystemInit
<1>2. ASSUME [SystemNext]_systemVars
      PROVE  [EngineNext]_engineVars
  <2>1. CASE ServiceNext /\ UNCHANGED schedulerVars
    BY <2>1 DEF EngineNext
  <2>2. CASE SchedulerNext /\ UNCHANGED <<provider, execVars, reprocess, creating, request>>
    BY <2>2, SchedulerIsReduced DEF EngineNext, SweptCycle, engineVars, reprocessVars, vars
  <2>3. CASE UNCHANGED systemVars
    BY <2>3 DEF systemVars
  <2> QED
    BY <1>2, <2>1, <2>2, <2>3 DEF SystemNext
<1> QED
  BY <1>1, <1>2, PTL DEF SystemSpec, EngineSpec

-----------------------------------------------------------------------------
(* The plan *)

\* BillingPlan takes its moves from IntentMoves.
LEMMA MovesOfThePlan ==
  ASSUME [Moves!MovesNext]_Moves!movesVars
  PROVE  Plan!MovesNext \/ UNCHANGED Plan!movesVars
<1> USE DEF Moves!storeVars, Plan!storeVars
<1>1. ASSUME NEW i \in Intents,
             Moves!FindSubscription(i) \/ Moves!CreateIntent(i) \/ Moves!CreationAbandoned(i)
      PROVE  Plan!FindSubscription(i) \/ Plan!CreateIntent(i) \/ Plan!CreationAbandoned(i)
  BY <1>1
     DEF Moves!FindSubscription, Plan!FindSubscription, Moves!CreateIntent, Plan!CreateIntent,
         Moves!CreationAbandoned, Plan!CreationAbandoned, Moves!ScheduleIntent,
         Plan!ScheduleIntent, Moves!LiveUnique, Plan!LiveUnique, Moves!LiveStates, Plan!LiveStates
<1>2. ASSUME Moves!LifecycleNext
      PROVE  Plan!LifecycleNext
  <2>1. Plan!NoLifecycle = Moves!NoLifecycle /\ Plan!LifecycleOps = Moves!LifecycleOps
    BY DEF Plan!NoLifecycle, Moves!NoLifecycle, Plan!LifecycleOps, Moves!LifecycleOps
  <2>2. \A op, st : Plan!Proceeds(op, st) = Moves!Proceeds(op, st)
    BY DEF Plan!Proceeds, Moves!Proceeds
  <2>3. /\ \A s : Plan!IntentsToOmit(s) = Moves!IntentsToOmit(s)
        /\ \A ids : Plan!OmitIntents(ids) = Moves!OmitIntents(ids)
    BY DEF Plan!IntentsToOmit, Moves!IntentsToOmit, Plan!OmitIntents, Moves!OmitIntents,
       Plan!OmittableStates, Moves!OmittableStates
  <2>4. \A a, op, s : Moves!LoadSubscription(a, op, s) => Plan!LoadSubscription(a, op, s)
    BY <2>1 DEF Moves!LoadSubscription, Plan!LoadSubscription
  <2>5. \A a : Moves!LoadLiveIntents(a) => Plan!LoadLiveIntents(a)
    BY <2>1, <2>2, <2>3 DEF Moves!LoadLiveIntents, Plan!LoadLiveIntents
  <2>6. \A a : Moves!ApplyCancellation(a) => Plan!ApplyCancellation(a)
    BY <2>1, <2>3 DEF Moves!ApplyCancellation, Plan!ApplyCancellation
  <2>7. \A a : Moves!ApplyPause(a) => Plan!ApplyPause(a)
    BY <2>1, <2>3 DEF Moves!ApplyPause, Plan!ApplyPause, Moves!SubscriptionUpdatable,
       Plan!SubscriptionUpdatable
  <2>8. \A a : Moves!ApplyResume(a) => Plan!ApplyResume(a)
    BY <2>1 DEF Moves!ApplyResume, Plan!ApplyResume, Moves!SubscriptionUpdatable,
       Plan!SubscriptionUpdatable
  <2>9. \A a : Moves!RequestAbandoned(a) => Plan!RequestAbandoned(a)
    BY <2>1 DEF Moves!RequestAbandoned, Plan!RequestAbandoned
  <2> QED
    BY <1>2, <2>1, <2>4, <2>5, <2>6, <2>7, <2>8, <2>9 DEF Moves!LifecycleNext, Plan!LifecycleNext
<1>3. ASSUME NEW i \in Intents,
             \/ Moves!AttemptMoves(i) \/ Moves!GivesUp(i)
             \/ Moves!Reopens(i) \/ Moves!FailsFinally(i)
      PROVE  \/ Plan!AttemptMoves(i) \/ Plan!GivesUp(i)
             \/ Plan!Reopens(i) \/ Plan!FailsFinally(i)
  <2>1. Moves!LiveUnique(i) = Plan!LiveUnique(i)
    BY DEF Moves!LiveUnique, Plan!LiveUnique, Moves!LiveStates, Plan!LiveStates
  <2>2. \A rows, s : Moves!Omitted(rows, s) = Plan!Omitted(rows, s)
    BY DEF Moves!Omitted, Plan!Omitted, Moves!OmittableStates, Plan!OmittableStates
  <2>3. \A rows, s : Moves!CancelWith(rows, s) => Plan!CancelWith(rows, s)
    BY <2>2 DEF Moves!CancelWith, Plan!CancelWith
  <2> QED
    BY <1>3, <2>1, <2>3
       DEF Moves!AttemptMoves, Plan!AttemptMoves, Moves!GivesUp, Plan!GivesUp, Moves!Reopens,
           Plan!Reopens, Moves!FailsFinally, Plan!FailsFinally
<1>4. CASE Moves!CyclesNext /\ UNCHANGED request
  BY <1>1, <1>4 DEF Moves!CyclesNext, Plan!CyclesNext, Plan!MovesNext
<1>5. CASE Moves!LifecycleNext /\ UNCHANGED creating
  BY <1>2, <1>5 DEF Plan!MovesNext
<1>6. CASE /\ \E i \in Intents : \/ Moves!AttemptMoves(i) \/ Moves!GivesUp(i)
                                 \/ Moves!Reopens(i) \/ Moves!FailsFinally(i)
           /\ UNCHANGED <<creating, request>>
  BY <1>3, <1>6 DEF Plan!MovesNext
<1>7. CASE UNCHANGED Moves!movesVars
  BY <1>7 DEF Moves!movesVars, Plan!movesVars
<1> QED
  BY <1>4, <1>5, <1>6, <1>7 DEF Moves!MovesNext

\* The calendar and the loop of a sweep do not look at the rows.
LEMMA LoopSeen ==
  /\ Plan!NoSweep = NoSweep /\ Plan!ScheduleDay = ScheduleDay
  /\ \A s, day : Plan!CyclesOf(s, day) = CyclesOf(s, day)
  /\ \A i, day : Plan!Overdue(i, day) = Overdue(i, day)
  /\ \A x, i : /\ Plan!Considers(x, i) = Considers(x, i)
               /\ Plan!Handles(x, i) = Handles(x, i)
               /\ Plan!DueToday(x, i) = DueToday(x, i)
<1>1. /\ Plan!NoSweep = NoSweep /\ Plan!ScheduleDay = ScheduleDay
      /\ Plan!MinutesPerDay = MinutesPerDay
      /\ \A s, day : Plan!CyclesOf(s, day) = CyclesOf(s, day)
  BY DEF Plan!NoSweep, NoSweep, Plan!ScheduleDay, ScheduleDay, Plan!MinutesPerDay, MinutesPerDay,
     Plan!CyclesOf, CyclesOf
<1>2. \A i, day : /\ Plan!IsCurrentCycle(i, day) = IsCurrentCycle(i, day)
                  /\ Plan!Overdue(i, day) = Overdue(i, day)
  BY <1>1 DEF Plan!IsCurrentCycle, IsCurrentCycle, Plan!Overdue, Overdue
<1> QED
  BY <1>1, <1>2 DEF Plan!Considers, Considers, Plan!Handles, Handles, Plan!DueToday, DueToday

\* A sweep looks at the statuses alone.
LEMMA SchedulerSeen ==
  ASSUME TypeOK, SchedulerNext
  PROVE  Plan!SchedulerNext
<1>0. intent \in [Intents -> IntentRow]
  BY DEF TypeOK, StoreTypeOK
<1>1. UNCHANGED storeVars => UNCHANGED Plan!storeVars
  BY DEF storeVars, Plan!storeVars
<1>2. Plan!NoSweep = NoSweep /\ Plan!ScheduleDay = ScheduleDay
  BY LoopSeen
<1>3. \A i, day : Plan!Overdue(i, day) = Overdue(i, day)
  BY LoopSeen
<1>4. \A x, i : /\ Plan!Considers(x, i) = Considers(x, i)
                /\ Plan!Handles(x, i) = Handles(x, i)
                /\ Plan!DueToday(x, i) = DueToday(x, i)
  BY LoopSeen
<1>5. \A r, s : Plan!ReadIntents(r, s) = ReadIntents(r, s)
  <2> SUFFICES ASSUME NEW r, NEW s
               PROVE  Plan!ReadIntents(r, s) = ReadIntents(r, s)
    OBVIOUS
  <2>1. \A i \in CyclesOf(s, r.day) : StatusOnly(intent)[i].status = intent[i].status
    BY SeenRow DEF CyclesOf
  <2>2. {i \in CyclesOf(s, r.day) : StatusOnly(intent)[i].status # "ABSENT"}
          = {i \in CyclesOf(s, r.day) : intent[i].status # "ABSENT"}
    BY <2>1
  <2>3. {i \in CyclesOf(s, r.day) : StatusOnly(intent)[i].status \in LiveStates}
          = {i \in CyclesOf(s, r.day) : intent[i].status \in LiveStates}
    BY <2>1
  <2>4. Plan!LiveStates = LiveStates /\ Plan!CyclesOf(s, r.day) = CyclesOf(s, r.day)
    BY LoopSeen DEF Plan!LiveStates, LiveStates
  <2> QED
    BY <2>2, <2>3, <2>4 DEF Plan!ReadIntents, ReadIntents
<1>6. ASSUME NEW i \in Intents, NEW st \in IntentStates,
             intent' = [intent EXCEPT ![i].status = st]
      PROVE  StatusOnly(intent') = [StatusOnly(intent) EXCEPT ![i].status = st]
  <2>1. intent'[i].status = st
    BY <1>0, <1>6 DEF IntentRow
  <2>2. \A j \in Intents \ {i} : intent'[j].status = intent[j].status
    BY <1>0, <1>6
  <2>3. StatusOnly(intent') = [StatusOnly(intent) EXCEPT ![i].status = intent'[i].status]
    BY <2>2 DEF StatusOnly, NoIntentRow
  <2> QED
    BY <2>1, <2>3
<1>7. ASSUME NEW i \in Intents, NEW reason, InsertOmitted(i, reason)
      PROVE  Plan!InsertOmitted(i, reason)
  <2>1. "OMITTED" \in IntentStates
    BY DEF IntentStates
  <2>2. StatusOnly(intent)[i].status = intent[i].status
    BY SeenRow
  <2> QED
    BY <1>6, <1>7, <2>1, <2>2 DEF InsertOmitted, Plan!InsertOmitted
<1>8. ASSUME NEW i \in Intents, ScheduleIntent(i)
      PROVE  Plan!ScheduleIntent(i)
  <2>1. "SCHEDULED" \in IntentStates
    BY DEF IntentStates
  <2> QED
    BY <1>6, <1>8, <2>1, SeenRow DEF ScheduleIntent, Plan!ScheduleIntent, LiveUnique,
       Plan!LiveUnique, LiveStates, Plan!LiveStates
<1>9. CASE DayPasses
  BY <1>1, <1>9 DEF DayPasses, Plan!DayPasses, Plan!SchedulerNext
<1>10. ASSUME NEW x \in Sweepers,
              \/ ListActiveSubscriptions(x) \/ SweepReturns(x) \/ SweepDies(x)
              \/ \E s \in Subscriptions : ListExistingIntents(x, s)
       PROVE  Plan!SchedulerNext
  <2>1. ListActiveSubscriptions(x) => Plan!ListActiveSubscriptions(x)
    BY <1>1, <1>2 DEF ListActiveSubscriptions, Plan!ListActiveSubscriptions
  <2>2. SweepReturns(x) => Plan!SweepReturns(x)
    BY <1>1, <1>2 DEF SweepReturns, Plan!SweepReturns
  <2>3. SweepDies(x) => Plan!SweepDies(x)
    BY <1>1, <1>2 DEF SweepDies, Plan!SweepDies
  <2>4. \A s : ListExistingIntents(x, s) => Plan!ListExistingIntents(x, s)
    BY <1>1, <1>5 DEF ListExistingIntents, Plan!ListExistingIntents
  <2> QED
    BY <1>10, <2>1, <2>2, <2>3, <2>4 DEF Plan!SchedulerNext
<1>11. ASSUME NEW x \in Sweepers, NEW i \in Intents,
              \/ SkipExisting(x, i) \/ StopAtFutureDay(x, i) \/ PassOver(x, i)
              \/ OmitOverlapIntent(x, i) \/ OmitEngineDownIntent(x, i)
              \/ ScheduleCycle(x, i) \/ ScheduleRejected(x, i)
       PROVE  Plan!SchedulerNext
  <2>1. SkipExisting(x, i) => Plan!SkipExisting(x, i)
    BY <1>1, <1>4 DEF SkipExisting, Plan!SkipExisting
  <2>2. StopAtFutureDay(x, i) => Plan!StopAtFutureDay(x, i)
    BY <1>1, <1>2, <1>4 DEF StopAtFutureDay, Plan!StopAtFutureDay
  <2>3. PassOver(x, i) => Plan!PassOver(x, i)
    BY <1>1, <1>3, <1>4 DEF PassOver, Plan!PassOver
  <2>4. OmitOverlapIntent(x, i) => Plan!OmitOverlapIntent(x, i)
    BY <1>3, <1>4, <1>7 DEF OmitOverlapIntent, Plan!OmitOverlapIntent
  <2>5. OmitEngineDownIntent(x, i) => Plan!OmitEngineDownIntent(x, i)
    BY <1>3, <1>4, <1>7 DEF OmitEngineDownIntent, Plan!OmitEngineDownIntent
  <2>6. ScheduleCycle(x, i) => Plan!ScheduleCycle(x, i)
    BY <1>1, <1>4, <1>8, SeenRow DEF ScheduleCycle, Plan!ScheduleCycle
  <2>7. ScheduleRejected(x, i) => Plan!ScheduleRejected(x, i)
    BY <1>1, <1>2, <1>4, SeenRow DEF ScheduleRejected, Plan!ScheduleRejected, LiveUnique,
       Plan!LiveUnique, LiveStates, Plan!LiveStates
  <2> QED
    BY <1>11, <2>1, <2>2, <2>3, <2>4, <2>5, <2>6, <2>7 DEF Plan!SchedulerNext
<1> QED
  BY <1>9, <1>10, <1>11 DEF SchedulerNext

LEMMA SystemInitSeen == SystemInit => Plan!PlanInit
<1> SUFFICES ASSUME SystemInit PROVE Plan!PlanInit
  OBVIOUS
<1>1. Moves!MovesInit
  BY EngineInitSeen DEF SystemInit
<1>2. Plan!MovesInit
  BY <1>1 DEF Moves!MovesInit, Plan!MovesInit, Moves!StoreInit, Plan!StoreInit, Moves!CyclesInit,
     Plan!CyclesInit, Moves!LifecycleInit, Plan!LifecycleInit, Moves!NoLifecycle,
     Plan!NoLifecycle, Moves!NoIntentRow, Plan!NoIntentRow, Moves!NoAttemptRow,
     Plan!NoAttemptRow, Moves!Rows, Plan!Rows
<1>3. Plan!SchedulerInit
  BY DEF SystemInit, SchedulerInit, Plan!SchedulerInit, NoSweep, Plan!NoSweep
<1> QED
  BY <1>2, <1>3 DEF Plan!PlanInit

LEMMA SystemSteps ==
  ASSUME EngineTypeOK, ReprocessInvariant, [SystemNext]_systemVars
  PROVE  [Plan!PlanNext]_Plan!planVars
<1>1. CASE ServiceNext /\ UNCHANGED schedulerVars
  <2>1. Plan!MovesNext \/ UNCHANGED Plan!movesVars
    BY <1>1, ServiceSeen, MovesOfThePlan
  <2> QED
    BY <1>1, <2>1 DEF Plan!PlanNext, Plan!planVars, schedulerVars, Plan!schedulerVars
<1>2. CASE SchedulerNext /\ UNCHANGED <<provider, execVars, reprocess, creating, request>>
  BY <1>2, SchedulerSeen DEF EngineTypeOK, Plan!PlanNext
<1>3. CASE UNCHANGED systemVars
  BY <1>3 DEF systemVars, engineVars, reprocessVars, vars, storeVars, schedulerVars,
     Plan!planVars, Plan!movesVars, Plan!storeVars, Plan!schedulerVars
<1> QED
  BY <1>1, <1>2, <1>3 DEF SystemNext

\* The executions, sweeps and requests of BillingEngine and the scheduler's sweep,
\* at work on the same rows, implement both views of them: neither the engine nor
\* the plan leaves out anything of the other that could break what is shown of it.
THEOREM SystemKeepsBothViews ==
  ASSUME StallBeyondDeadline = FALSE, StaleProbes = FALSE, StartsDuringSweep = FALSE
  PROVE  SystemSpec => EngineSpec /\ Plan!PlanSpec
<1>1. SystemInit => Plan!PlanInit
  BY SystemInitSeen
<1>2. EngineTypeOK /\ ReprocessInvariant /\ [SystemNext]_systemVars => [Plan!PlanNext]_Plan!planVars
  BY SystemSteps
<1> QED
  BY <1>1, <1>2, SystemIsAnEngine, EngineTypeCorrect, EngineChargeInvariant, PTL
     DEF SystemSpec, Plan!PlanSpec

-----------------------------------------------------------------------------
(* What is shown of the plan, in terms of the rows themselves *)

LEMMA SweepInvariantSeen == Plan!PlanTypeOK /\ Plan!SweepInvariant => SweepInvariant
<1> SUFFICES ASSUME Plan!PlanTypeOK, Plan!SweepInvariant PROVE SweepInvariant
  OBVIOUS
<1>0. \A x \in Sweepers : /\ sweep[x].cycles \subseteq Intents
                          /\ sweep[x].existing \subseteq Intents
                          /\ sweep[x].live \subseteq Intents
  BY DEF Plan!PlanTypeOK, Plan!SchedulerTypeOK, Plan!SweepState
<1>1. \A i \in Intents : StatusOnly(intent)[i].status = intent[i].status
  BY SeenRow
<1>2. \A s, day : CyclesOf(s, day) \subseteq Intents
  BY DEF CyclesOf
<1>3. OmissionsStay
  BY <1>1 DEF Plan!SweepInvariant, Plan!OmissionsStay, OmissionsStay
<1>4. LoopsOverCycles
  BY LoopSeen DEF Plan!SweepInvariant, Plan!LoopsOverCycles, LoopsOverCycles
<1>5. BlockedByLive
  BY DEF Plan!SweepInvariant, Plan!BlockedByLive, BlockedByLive
<1>6. OverlapFollowsALiveCycle
  BY <1>1, <1>2, LoopSeen DEF Plan!SweepInvariant, Plan!OverlapFollowsALiveCycle,
     OverlapFollowsALiveCycle
<1>7. ReadingsHold
  BY <1>0, <1>1 DEF Plan!SweepInvariant, Plan!ReadingsHold, ReadingsHold
<1>8. SweepCoversItsCycles
  BY <1>0, <1>1, LoopSeen DEF Plan!SweepInvariant, Plan!SweepCoversItsCycles, SweepCoversItsCycles
<1> QED
  BY <1>3, <1>4, <1>5, <1>6, <1>7, <1>8 DEF SweepInvariant

\* RF-14 and RF-31 in the whole system: with executions, sweeps, reprocess requests
\* and lifecycle requests all about, no sweep of the scheduler leaves a cycle behind
\* or omits one for nothing.
THEOREM SystemSweepsWell ==
  ASSUME StallBeyondDeadline = FALSE, StaleProbes = FALSE, StartsDuringSweep = FALSE
  PROVE  SystemSpec => [](SweepCoversItsCycles /\ OverlapFollowsALiveCycle)
<1>1. Plan!PlanSpec => [](Plan!PlanTypeOK /\ Plan!SweepInvariant)
  BY Plan!PlanInvariantHolds, LifecycleAssumption, SchedulerAssumption, StoreAssumption
<1>2. SweepInvariant => SweepCoversItsCycles /\ OverlapFollowsALiveCycle
  BY DEF SweepInvariant
<1>3. SystemSpec => EngineSpec /\ Plan!PlanSpec
  BY SystemKeepsBothViews
<1> QED
  BY <1>1, <1>2, <1>3, SweepInvariantSeen, PTL

\* INV-08 in the whole system, as far as the code keeps it: once those who read
\* the subscription before its cancellation have ended, no cycle comes, whatever
\* executions and reprocess requests still do to those it has.
THEOREM SystemFallsQuiet ==
  ASSUME StallBeyondDeadline = FALSE, StaleProbes = FALSE, StartsDuringSweep = FALSE
  PROVE  SystemSpec => Plan!QuietOnceCancelled
<1>1. Plan!PlanSpec => Plan!QuietOnceCancelled
  BY Plan!CancelledFallsQuiet, LifecycleAssumption, SchedulerAssumption, StoreAssumption
<1> QED
  BY <1>1, SystemKeepsBothViews, PTL

\* INV-01, RF-15 and RF-17 in the whole system: whatever the scheduler inserts or
\* omits, and whenever it does, a cycle is paid at most once and settled for good.
THEOREM SystemPaysOnce ==
  ASSUME StallBeyondDeadline = FALSE, StaleProbes = FALSE, StartsDuringSweep = FALSE
  PROVE  SystemSpec => PaysOnce
BY SystemIsAnEngine, EnginePaysOnce, PTL
=============================================================================
