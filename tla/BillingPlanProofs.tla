---------------------------- MODULE BillingPlanProofs ----------------------------
(***************************************************************************)
(* Any number of overlapping sweeps, requests and lifecycle requests: no    *)
(* sweep leaves a cycle behind or omits one for nothing, and a cancelled    *)
(* subscription falls quiet.                                                *)
(***************************************************************************)
EXTENDS BillingPlan, TLAPS

-----------------------------------------------------------------------------
(* The calendar *)

\* nextBusinessDay finds a day, and a later cycle none that is earlier.
LEMMA BusinessDayFacts ==
  /\ \A i \in Intents : ScheduleDay[i] \in Nat /\ NominalDay[i] \in Nat
  /\ \A i, j \in Intents : NominalDay[i] <= NominalDay[j] => ScheduleDay[i] <= ScheduleDay[j]
<1> DEFINE Least(i, d) ==
      d >= NominalDay[i] /\ \A e \in BusinessDays : e >= NominalDay[i] => d <= e
<1>1. \A i \in Intents : ScheduleDay[i] \in BusinessDays /\ Least(i, ScheduleDay[i])
  BY SchedulerAssumption DEF ScheduleDay
<1>2. BusinessDays \subseteq Nat /\ \A i \in Intents : NominalDay[i] \in Nat
  BY SchedulerAssumption
<1>3. \A i \in Intents : ScheduleDay[i] \in Nat /\ NominalDay[i] \in Nat
  BY <1>1, <1>2
<1>4. ASSUME NEW i \in Intents, NEW j \in Intents, NominalDay[i] <= NominalDay[j]
      PROVE  ScheduleDay[i] <= ScheduleDay[j]
  <2>1. ScheduleDay[j] \in BusinessDays /\ ScheduleDay[j] >= NominalDay[j]
    BY <1>1
  <2>2. ScheduleDay[j] >= NominalDay[i]
    BY <1>3, <1>4, <2>1
  <2> QED
    BY <1>1, <2>1, <2>2
<1> QED
  BY <1>3, <1>4

\* The cycles that follow the current one are not in the range of the sweep.
LEMMA CurrentIsLast ==
  ASSUME NEW s, NEW day, NEW i \in CyclesOf(s, day), IsCurrentCycle(i, day),
         NEW j \in CyclesOf(s, day), NominalDay[i] <= NominalDay[j]
  PROVE  j = i
<1>1. i \in Intents /\ j \in Intents /\ SubOf[i] = s /\ SubOf[j] = s
  BY DEF CyclesOf
<1>2. NominalDay[j] <= NominalDay[i]
  BY <1>1 DEF IsCurrentCycle
<1> QED
  BY <1>1, <1>2, BusinessDayFacts, SchedulerAssumption

-----------------------------------------------------------------------------
(* What the steps do to the rows *)

LEMMA IntentStatus ==
  ASSUME StoreTypeOK, NEW i \in Intents
  PROVE  /\ intent[i] \in IntentRow
         /\ intent[i].status \in IntentStates
         /\ \A st \in IntentStates :
              /\ [intent[i] EXCEPT !.status = st] \in IntentRow
              /\ [intent[i] EXCEPT !.status = st].status = st
<1>1. intent[i] \in IntentRow
  BY DEF StoreTypeOK
<1> QED
  BY <1>1 DEF IntentRow

\* One row of billing_intents gets another status.
LEMMA StatusWritten ==
  ASSUME StoreTypeOK, NEW i \in Intents, NEW st \in IntentStates,
         intent' = [intent EXCEPT ![i].status = st]
  PROVE  /\ intent' \in [Intents -> IntentRow]
         /\ intent'[i].status = st
         /\ \A j \in Intents \ {i} : intent'[j] = intent[j]
<1>1. intent' = [intent EXCEPT ![i] = [intent[i] EXCEPT !.status = st]]
  OBVIOUS
<1>2. intent \in [Intents -> IntentRow]
  BY DEF StoreTypeOK
<1> QED
  BY <1>1, <1>2, IntentStatus

\* A row is never deleted, and an omitted one stays so.
RowsStay ==
  \A i \in Intents :
    /\ intent[i].status # "ABSENT" => intent'[i].status # "ABSENT"
    /\ intent[i].status = "OMITTED" => intent'[i].status = "OMITTED"

LEMMA ScheduleIntentWrites ==
  ASSUME StoreTypeOK, NEW i \in Intents, ScheduleIntent(i)
  PROVE  /\ StoreTypeOK' /\ RowsStay
         /\ intent'[i].status = "SCHEDULED"
         /\ \A j \in Intents \ {i} : intent'[j] = intent[j]
         /\ subscription' = subscription
<1>1. "SCHEDULED" \in IntentStates
  BY DEF IntentStates
<1>2. intent' = [intent EXCEPT ![i].status = "SCHEDULED"]
  BY DEF ScheduleIntent
<1>3. /\ intent' \in [Intents -> IntentRow]
      /\ intent'[i].status = "SCHEDULED"
      /\ \A j \in Intents \ {i} : intent'[j] = intent[j]
  BY <1>1, <1>2, StatusWritten
<1> QED
  BY <1>3 DEF ScheduleIntent, StoreTypeOK, RowsStay

LEMMA InsertOmittedWrites ==
  ASSUME StoreTypeOK, SchedulerTypeOK, NEW i \in Intents,
         NEW reason \in {"ENGINE_DOWN", "OVERLAP"}, InsertOmitted(i, reason)
  PROVE  /\ StoreTypeOK' /\ RowsStay
         /\ intent'[i].status # "ABSENT"
         /\ \A j \in Intents \ {i} : intent'[j] = intent[j] /\ omission'[j] = omission[j]
         /\ \/ omission' = omission /\ intent' = intent
            \/ /\ intent[i].status = "ABSENT" /\ intent'[i].status = "OMITTED"
               /\ omission'[i] = reason
         /\ omission' \in [Intents -> {"NONE", "ENGINE_DOWN", "OVERLAP"}]
         /\ subscription' = subscription
<1>1. CASE intent[i].status = "ABSENT"
  <2>1. "OMITTED" \in IntentStates
    BY DEF IntentStates
  <2>2. /\ intent' = [intent EXCEPT ![i].status = "OMITTED"]
        /\ omission' = [omission EXCEPT ![i] = reason]
    BY <1>1 DEF InsertOmitted
  <2>3. /\ intent' \in [Intents -> IntentRow]
        /\ intent'[i].status = "OMITTED"
        /\ \A j \in Intents \ {i} : intent'[j] = intent[j]
    BY <2>1, <2>2, StatusWritten
  <2>4. omission \in [Intents -> {"NONE", "ENGINE_DOWN", "OVERLAP"}]
    BY DEF SchedulerTypeOK
  <2> QED
    BY <1>1, <2>2, <2>3, <2>4 DEF InsertOmitted, StoreTypeOK, RowsStay
<1>2. CASE intent[i].status # "ABSENT"
  BY <1>2 DEF InsertOmitted, StoreTypeOK, RowsStay, SchedulerTypeOK
<1> QED
  BY <1>1, <1>2

LEMMA CyclesWrites ==
  ASSUME StoreTypeOK, CyclesNext
  PROVE  StoreTypeOK' /\ RowsStay
<1>1. ASSUME NEW i \in Intents, CreateIntent(i)
      PROVE  StoreTypeOK' /\ RowsStay
  BY <1>1, ScheduleIntentWrites DEF CreateIntent
<1>2. ASSUME UNCHANGED storeVars
      PROVE  StoreTypeOK' /\ RowsStay
  BY <1>2 DEF storeVars, StoreTypeOK, RowsStay
<1> QED
  BY <1>1, <1>2 DEF CyclesNext, FindSubscription, CreationAbandoned

\* The intents that OMIT_INTENTS and OMIT_SUBSCRIPTION_INTENTS write.
LEMMA OmissionWrites ==
  ASSUME StoreTypeOK, NEW ids
  PROVE  /\ OmitIntents(ids) \in [Intents -> IntentRow]
         /\ \A j \in Intents :
              \/ OmitIntents(ids)[j] = intent[j]
              \/ /\ intent[j].status \in OmittableStates
                 /\ OmitIntents(ids)[j].status = "OMITTED"
<1>1. "OMITTED" \in IntentStates
  BY DEF IntentStates
<1> QED
  BY <1>1, IntentStatus DEF OmitIntents

LEMMA LifecycleWrites ==
  ASSUME StoreTypeOK, LifecycleNext
  PROVE  StoreTypeOK' /\ RowsStay
<1>0. PICK a \in Admins :
        \/ \E op \in LifecycleOps, s \in Subscriptions : LoadSubscription(a, op, s)
        \/ LoadLiveIntents(a)
        \/ ApplyCancellation(a)
        \/ ApplyPause(a)
        \/ ApplyResume(a)
        \/ RequestAbandoned(a)
  BY DEF LifecycleNext
<1> DEFINE ids == request[a].omit
           omitted == OmitIntents(ids)
<1>1. /\ omitted \in [Intents -> IntentRow]
      /\ \A j \in Intents :
           \/ omitted[j] = intent[j]
           \/ intent[j].status \in OmittableStates /\ omitted[j].status = "OMITTED"
  BY OmissionWrites
<1>2. ASSUME intent' = intent \/ intent' = omitted
      PROVE  intent' \in [Intents -> IntentRow] /\ RowsStay
  BY <1>1, <1>2 DEF StoreTypeOK, RowsStay, OmittableStates
<1>3. CASE ApplyCancellation(a)
  <2>1. subscription' \in [Subscriptions -> SubscriptionStates]
    BY <1>3 DEF ApplyCancellation, StoreTypeOK, SubscriptionStates
  <2>2. outbox' \in [Subscriptions -> Nat]
    <3> DEFINE s == request[a].sub
    <3>1. outbox' = [outbox EXCEPT ![s] = outbox[s] + 1] /\ outbox \in [Subscriptions -> Nat]
      BY <1>3 DEF ApplyCancellation, StoreTypeOK
    <3>2. s \in Subscriptions => outbox[s] + 1 \in Nat
      BY <3>1
    <3> HIDE DEF s
    <3> QED
      BY <3>1, <3>2
  <2> QED
    BY <1>2, <1>3, <2>1, <2>2 DEF ApplyCancellation, StoreTypeOK
<1>4. CASE ApplyPause(a)
  BY <1>2, <1>4 DEF ApplyPause, StoreTypeOK, SubscriptionStates
<1>5. CASE ApplyResume(a)
  BY <1>2, <1>5 DEF ApplyResume, StoreTypeOK, SubscriptionStates
<1>6. CASE UNCHANGED storeVars
  BY <1>6 DEF storeVars, StoreTypeOK, RowsStay
<1> QED
  <2>1. (\E op \in LifecycleOps, s \in Subscriptions : LoadSubscription(a, op, s)) => UNCHANGED storeVars
    BY DEF LoadSubscription
  <2>2. LoadLiveIntents(a) \/ RequestAbandoned(a) => UNCHANGED storeVars
    BY DEF LoadLiveIntents, RequestAbandoned
  <2> QED
    BY <1>0, <1>3, <1>4, <1>5, <1>6, <2>1, <2>2

\* The steps that stand for the executor and for reprocess.
AttemptNext ==
  \E i \in Intents : AttemptMoves(i) \/ GivesUp(i) \/ Reopens(i) \/ FailsFinally(i)

LEMMA AttemptWrites ==
  ASSUME StoreTypeOK, AttemptNext
  PROVE  StoreTypeOK' /\ RowsStay
<1>0. PICK i \in Intents : AttemptMoves(i) \/ GivesUp(i) \/ Reopens(i) \/ FailsFinally(i)
  BY DEF AttemptNext
<1>1. ASSUME NEW st \in IntentStates \ {"ABSENT"}, intent[i].status \notin {"ABSENT", "OMITTED"},
             intent' = [intent EXCEPT ![i].status = st]
      PROVE  intent' \in [Intents -> IntentRow] /\ RowsStay
  BY <1>1, StatusWritten DEF RowsStay
<1>2. CASE AttemptMoves(i)
  <2>1. PICK st \in IntentStates \ {"ABSENT"} : intent' = [intent EXCEPT ![i].status = st]
    BY <1>2 DEF AttemptMoves, IntentStates
  <2> QED
    BY <1>1, <1>2, <2>1 DEF AttemptMoves, StoreTypeOK
<1>3. CASE GivesUp(i) \/ Reopens(i)
  <2>1. {"IN_FLIGHT", "OMITTED"} \subseteq IntentStates \ {"ABSENT"}
    BY DEF IntentStates
  <2> QED
    BY <1>1, <1>3, <2>1 DEF GivesUp, Reopens, StoreTypeOK
<1>4. CASE FailsFinally(i)
  <2> DEFINE rows == [intent EXCEPT ![i].status = "FAILED_FINAL"]
             s == SubOf[i]
  <2>1. "FAILED_FINAL" \in IntentStates /\ "OMITTED" \in IntentStates
    BY DEF IntentStates
  <2>2. /\ rows \in [Intents -> IntentRow]
        /\ rows[i].status = "FAILED_FINAL"
        /\ \A j \in Intents \ {i} : rows[j] = intent[j]
    <3>1. intent \in [Intents -> IntentRow]
      BY DEF StoreTypeOK
    <3>2. rows = [intent EXCEPT ![i] = [intent[i] EXCEPT !.status = "FAILED_FINAL"]]
      OBVIOUS
    <3> QED
      BY <2>1, <3>1, <3>2, IntentStatus
  <2>3. \A j \in Intents :
          /\ [rows[j] EXCEPT !.status = "OMITTED"] \in IntentRow
          /\ [rows[j] EXCEPT !.status = "OMITTED"].status = "OMITTED"
    BY <2>1, <2>2 DEF IntentRow
  <2>4. /\ Omitted(rows, s) \in [Intents -> IntentRow]
        /\ \A j \in Intents :
             \/ Omitted(rows, s)[j] = rows[j]
             \/ rows[j].status \in OmittableStates /\ Omitted(rows, s)[j].status = "OMITTED"
    <3> HIDE DEF rows
    <3> QED
      BY <2>2, <2>3 DEF Omitted
  <2>5. intent[i].status = "IN_FLIGHT" /\ CancelWith(rows, s) /\ attempt' = attempt
    BY <1>4 DEF FailsFinally
  <2>6. /\ intent' = rows \/ intent' = Omitted(rows, s)
        /\ subscription' \in [Subscriptions -> SubscriptionStates]
        /\ outbox' \in [Subscriptions -> Nat]
    <3> HIDE DEF rows
    <3> QED
      BY <2>5 DEF CancelWith, StoreTypeOK, SubscriptionStates
  <2> HIDE DEF rows
  <2>7. intent' \in [Intents -> IntentRow] /\ RowsStay
    BY <2>2, <2>4, <2>5, <2>6 DEF RowsStay, OmittableStates
  <2> QED
    BY <2>5, <2>6, <2>7 DEF StoreTypeOK
<1> QED
  BY <1>0, <1>2, <1>3, <1>4

-----------------------------------------------------------------------------
(* SweepInvariant *)

\* Nobody but a sweep writes what SweepInvariant speaks of, except the rows, and
\* these only as RowsStay says.
LEMMA OthersKeepSweepInvariant ==
  ASSUME SchedulerTypeOK, SweepInvariant, RowsStay, UNCHANGED <<sweep, omission>>
  PROVE  SweepInvariant'
<1>1. \A x \in Sweepers : sweep[x] \in SweepState
  BY DEF SchedulerTypeOK
<1>2. \A x \in Sweepers :
        /\ sweep[x].cycles \subseteq Intents
        /\ sweep[x].existing \subseteq Intents
        /\ sweep[x].live \subseteq Intents
  BY <1>1 DEF SweepState
<1>3. OmissionsStay'
  BY DEF SweepInvariant, OmissionsStay, RowsStay
<1>4. LoopsOverCycles'
  BY DEF SweepInvariant, LoopsOverCycles, CyclesOf
<1>5. ReadingsHold'
  BY <1>2 DEF SweepInvariant, ReadingsHold, RowsStay
<1>6. BlockedByLive'
  BY DEF SweepInvariant, BlockedByLive
<1>7. SweepCoversItsCycles'
  BY <1>2 DEF SweepInvariant, SweepCoversItsCycles, RowsStay, DueToday, Overdue, IsCurrentCycle, CyclesOf
<1>8. OverlapFollowsALiveCycle'
  BY DEF SweepInvariant, OverlapFollowsALiveCycle, RowsStay, CyclesOf
<1> QED
  BY <1>3, <1>4, <1>5, <1>6, <1>7, <1>8 DEF SweepInvariant

\* What a step of sweep x has to show: the invariant of its own state, with
\* rows and omissions as they are after the step.
OneSweepSteps(x) ==
  /\ x \in Sweepers
  /\ sweep' \in [Sweepers -> SweepState]
  /\ \A y \in Sweepers \ {x} : sweep'[y] = sweep[y]
  /\ RowsStay
  /\ \A j \in Intents : intent[j].status # "ABSENT" => omission'[j] = omission[j]
  /\ OmissionsStay' /\ OverlapFollowsALiveCycle'

OwnLoop(r) ==
  /\ r.left \subseteq r.cycles
  /\ \A i \in r.cycles : r.cycles = CyclesOf(SubOf[i], r.day)

OwnReadings(r) ==
  /\ \A j \in r.existing : intent'[j].status # "ABSENT"
  /\ \A j \in r.live : intent'[j].status # "ABSENT" /\ omission'[j] = "NONE"

OwnBlock(r) ==
  r.blocked /\ r.left # {} =>
    \E j \in (r.live \cap r.cycles) \ r.left :
      \A i \in r.left : NominalDay[j] <= NominalDay[i]

OwnCycles(r) ==
  \A i \in r.cycles \ r.left :
    Overdue(i, r.day) \/ (ScheduleDay[i] = r.day /\ IsCurrentCycle(i, r.day) /\ r.live = {})
      => intent'[i].status # "ABSENT"

LEMMA OneSweepIsEnough ==
  ASSUME SchedulerTypeOK, SweepInvariant, NEW x, OneSweepSteps(x),
         OwnLoop(sweep'[x]), OwnReadings(sweep'[x]), OwnBlock(sweep'[x]), OwnCycles(sweep'[x])
  PROVE  SweepInvariant'
<1>1. \A y \in Sweepers :
        /\ sweep[y].cycles \subseteq Intents
        /\ sweep[y].existing \subseteq Intents
        /\ sweep[y].live \subseteq Intents
  BY DEF SchedulerTypeOK, SweepState
<1>2. LoopsOverCycles'
  BY DEF OneSweepSteps, OwnLoop, SweepInvariant, LoopsOverCycles, CyclesOf
<1>3. ReadingsHold'
  BY <1>1 DEF OneSweepSteps, OwnReadings, SweepInvariant, ReadingsHold, RowsStay
<1>4. BlockedByLive'
  BY DEF OneSweepSteps, OwnBlock, SweepInvariant, BlockedByLive
<1>5. SweepCoversItsCycles'
  BY <1>1 DEF OneSweepSteps, OwnCycles, SweepInvariant, SweepCoversItsCycles, RowsStay,
     DueToday, Overdue, IsCurrentCycle, CyclesOf
<1> QED
  BY <1>2, <1>3, <1>4, <1>5 DEF OneSweepSteps, SweepInvariant

\* The loop goes on after cycle i, as blocked as b says.
Advances(x, i, b) ==
  /\ Considers(x, i)
  /\ sweep' \in [Sweepers -> SweepState]
  /\ \A y \in Sweepers \ {x} : sweep'[y] = sweep[y]
  /\ sweep'[x].left = sweep[x].left \ {i}
  /\ sweep'[x].blocked = b
  /\ sweep'[x].day = sweep[x].day
  /\ sweep'[x].cycles = sweep[x].cycles
  /\ sweep'[x].existing = sweep[x].existing
  /\ sweep'[x].live = sweep[x].live

LEMMA AdvancingKeepsInvariant ==
  ASSUME SchedulerTypeOK, SweepInvariant, NEW x \in Sweepers, NEW i \in Intents, NEW b,
         Advances(x, i, b), OneSweepSteps(x),
         b => sweep[x].blocked \/ i \in sweep[x].live \/ sweep[x].left = {i},
         Overdue(i, sweep[x].day) \/ (DueToday(x, i) /\ sweep[x].live = {})
           => intent'[i].status # "ABSENT"
  PROVE  SweepInvariant'
<1>1. /\ sweep[x].cycles \subseteq Intents
      /\ sweep[x].existing \subseteq Intents
      /\ sweep[x].live \subseteq Intents
      /\ i \in sweep[x].left
      /\ sweep[x].left \subseteq sweep[x].cycles
  BY DEF SchedulerTypeOK, SweepState, Advances, Considers, SweepInvariant, LoopsOverCycles
<1>2. OwnLoop(sweep'[x])
  BY <1>1 DEF Advances, OwnLoop, SweepInvariant, LoopsOverCycles
<1>3. OwnReadings(sweep'[x])
  BY <1>1 DEF Advances, OwnReadings, SweepInvariant, ReadingsHold, OneSweepSteps, RowsStay
<1>4. OwnBlock(sweep'[x])
  <2>1. SUFFICES ASSUME b, sweep[x].left \ {i} # {}
        PROVE  \E j \in (sweep[x].live \cap sweep[x].cycles) \ (sweep[x].left \ {i}) :
                 \A k \in sweep[x].left \ {i} : NominalDay[j] <= NominalDay[k]
    BY DEF Advances, OwnBlock
  <2>2. CASE sweep[x].blocked
    BY <1>1, <2>2 DEF SweepInvariant, BlockedByLive
  <2>3. CASE i \in sweep[x].live
    BY <1>1, <2>3 DEF Advances, Considers
  <2> QED
    BY <2>1, <2>2, <2>3
<1>5. OwnCycles(sweep'[x])
  BY <1>1 DEF Advances, OwnCycles, SweepInvariant, SweepCoversItsCycles, OneSweepSteps, RowsStay,
     DueToday
<1> QED
  BY <1>2, <1>3, <1>4, <1>5, OneSweepIsEnough

\* A step of a sweep that writes no row.
LEMMA ReadingStep ==
  ASSUME SweepInvariant, UNCHANGED <<storeVars, omission>>, NEW x \in Sweepers,
         sweep' \in [Sweepers -> SweepState],
         \A y \in Sweepers \ {x} : sweep'[y] = sweep[y]
  PROVE  OneSweepSteps(x)
BY DEF OneSweepSteps, SweepInvariant, RowsStay, OmissionsStay, OverlapFollowsALiveCycle,
   storeVars, CyclesOf

\* What the two EXCEPTs of the loop do.
LEMMA LoopWrites ==
  ASSUME SchedulerTypeOK, NEW x \in Sweepers, NEW L \in SUBSET Intents
  PROVE  /\ \A b \in BOOLEAN :
              sweep' = [sweep EXCEPT ![x].left = L, ![x].blocked = b] =>
                /\ sweep' \in [Sweepers -> SweepState]
                /\ \A y \in Sweepers \ {x} : sweep'[y] = sweep[y]
                /\ sweep'[x].left = L /\ sweep'[x].blocked = b
                /\ sweep'[x].day = sweep[x].day /\ sweep'[x].cycles = sweep[x].cycles
                /\ sweep'[x].existing = sweep[x].existing /\ sweep'[x].live = sweep[x].live
         /\ sweep' = [sweep EXCEPT ![x].left = L] =>
              /\ sweep' \in [Sweepers -> SweepState]
              /\ \A y \in Sweepers \ {x} : sweep'[y] = sweep[y]
              /\ sweep'[x].left = L /\ sweep'[x].blocked = sweep[x].blocked
              /\ sweep'[x].day = sweep[x].day /\ sweep'[x].cycles = sweep[x].cycles
              /\ sweep'[x].existing = sweep[x].existing /\ sweep'[x].live = sweep[x].live
BY DEF SchedulerTypeOK, SweepState

LEMMA SkipExistingKeepsInvariant ==
  ASSUME SchedulerTypeOK, SweepInvariant, NEW x \in Sweepers, NEW i \in Intents,
         SkipExisting(x, i)
  PROVE  SweepInvariant'
<1> DEFINE L == sweep[x].left \ {i}
           b == sweep[x].blocked \/ i \in sweep[x].live
<1>1. L \in SUBSET Intents /\ b \in BOOLEAN
  BY DEF SchedulerTypeOK, SweepState
<1>2. sweep' = [sweep EXCEPT ![x].left = L, ![x].blocked = b]
  BY DEF SkipExisting, SchedulerTypeOK, SweepState
<1>3. Considers(x, i) /\ i \in sweep[x].existing /\ UNCHANGED <<storeVars, omission>>
  BY DEF SkipExisting
<1> HIDE DEF L, b
<1>4. Advances(x, i, b)
  BY <1>1, <1>2, <1>3, LoopWrites DEF Advances, L
<1>5. OneSweepSteps(x)
  BY <1>3, <1>4, ReadingStep DEF Advances
<1>6. intent'[i].status # "ABSENT"
  BY <1>3 DEF SweepInvariant, ReadingsHold, storeVars
<1> QED
  BY <1>4, <1>5, <1>6, AdvancingKeepsInvariant DEF b

\* Neither cycle i nor a later one has its business day by then.
LEMMA StopAtFutureDayKeepsInvariant ==
  ASSUME SchedulerTypeOK, SweepInvariant, SchedulerAssumption, NEW x \in Sweepers,
         NEW i \in Intents, StopAtFutureDay(x, i)
  PROVE  SweepInvariant'
<1>1. /\ sweep[x].day \in Nat /\ sweep[x].left \subseteq Intents
      /\ sweep[x].left \subseteq sweep[x].cycles /\ sweep[x].cycles \subseteq Intents
  BY DEF SchedulerTypeOK, SweepState, SweepInvariant, LoopsOverCycles
<1>2. /\ sweep' \in [Sweepers -> SweepState]
      /\ \A y \in Sweepers \ {x} : sweep'[y] = sweep[y]
      /\ sweep'[x].left = {}
      /\ sweep'[x].day = sweep[x].day /\ sweep'[x].cycles = sweep[x].cycles
      /\ sweep'[x].existing = sweep[x].existing /\ sweep'[x].live = sweep[x].live
  BY LoopWrites DEF StopAtFutureDay
<1>3. UNCHANGED <<storeVars, omission>>
  BY DEF StopAtFutureDay
<1>4. \A k \in sweep[x].left : ScheduleDay[k] > sweep[x].day
  <2> SUFFICES ASSUME NEW k \in sweep[x].left
      PROVE  ScheduleDay[k] > sweep[x].day
    OBVIOUS
  <2>1. NominalDay[i] <= NominalDay[k] /\ ScheduleDay[i] > sweep[x].day
    BY DEF StopAtFutureDay, Considers
  <2>2. ScheduleDay[i] <= ScheduleDay[k]
    BY <1>1, <2>1, BusinessDayFacts
  <2> QED
    BY <1>1, <2>1, <2>2, BusinessDayFacts
<1>5. \A k \in sweep[x].left : ~Overdue(k, sweep[x].day) /\ ScheduleDay[k] # sweep[x].day
  <2> SUFFICES ASSUME NEW k \in sweep[x].left
      PROVE  ~Overdue(k, sweep[x].day) /\ ScheduleDay[k] # sweep[x].day
    OBVIOUS
  <2>1. ScheduleDay[k] \in Nat /\ sweep[x].day \in Nat /\ ToleranceMinutes \in Nat
    BY <1>1, BusinessDayFacts, SchedulerAssumption
  <2> DEFINE late == sweep[x].day - ScheduleDay[k]
  <2>2. late \in Int /\ late < 0
    BY <1>4, <2>1
  <2> HIDE DEF late
  <2>3. ~(late * (24 * 60) > ToleranceMinutes)
    BY <2>1, <2>2
  <2> QED
    BY <1>4, <2>1, <2>3 DEF Overdue, MinutesPerDay, late
<1>6. OneSweepSteps(x)
  BY <1>2, <1>3, ReadingStep
<1>7. OwnLoop(sweep'[x]) /\ OwnBlock(sweep'[x])
  BY <1>2 DEF OwnLoop, OwnBlock, SweepInvariant, LoopsOverCycles
<1>8. OwnReadings(sweep'[x])
  BY <1>2, <1>3 DEF OwnReadings, SweepInvariant, ReadingsHold, storeVars
<1>9. OwnCycles(sweep'[x])
  BY <1>2, <1>3, <1>5 DEF OwnCycles, SweepInvariant, SweepCoversItsCycles, DueToday, storeVars
<1> QED
  BY <1>6, <1>7, <1>8, <1>9, OneSweepIsEnough

LEMMA PassOverKeepsInvariant ==
  ASSUME SchedulerTypeOK, SweepInvariant, NEW x \in Sweepers, NEW i \in Intents,
         PassOver(x, i)
  PROVE  SweepInvariant'
<1> DEFINE L == sweep[x].left \ {i}
           b == sweep[x].blocked
<1>1. L \in SUBSET Intents
  BY DEF SchedulerTypeOK, SweepState
<1>2. sweep' = [sweep EXCEPT ![x].left = L]
  BY DEF PassOver
<1>3. Considers(x, i) /\ UNCHANGED <<storeVars, omission>>
  BY DEF PassOver, Handles
<1> HIDE DEF L, b
<1>4. Advances(x, i, b)
  BY <1>1, <1>2, <1>3, LoopWrites DEF Advances, L, b
<1>5. OneSweepSteps(x)
  BY <1>3, <1>4, ReadingStep DEF Advances
<1>6. ~Overdue(i, sweep[x].day) /\ ~(DueToday(x, i) /\ sweep[x].live = {})
  <2>1. i \in sweep[x].left
    BY <1>3 DEF Considers
  <2>2. sweep[x].blocked => sweep[x].live # {}
    BY <2>1 DEF SweepInvariant, BlockedByLive
  <2> QED
    BY <2>2 DEF PassOver
<1> QED
  BY <1>4, <1>5, <1>6, AdvancingKeepsInvariant DEF b

\* INSERT_OMITTED, for either reason.
LEMMA OmissionKeepsInvariant ==
  ASSUME StoreTypeOK, SchedulerTypeOK, SweepInvariant, NEW x \in Sweepers, NEW i \in Intents,
         OmitOverlapIntent(x, i) \/ OmitEngineDownIntent(x, i)
  PROVE  SweepInvariant'
<1> DEFINE L == sweep[x].left \ {i}
           b == sweep[x].blocked
<1>1. L \in SUBSET Intents
  BY DEF SchedulerTypeOK, SweepState
<1>2. sweep' = [sweep EXCEPT ![x].left = L] /\ Considers(x, i)
  BY DEF OmitOverlapIntent, OmitEngineDownIntent, Handles
<1> HIDE DEF L, b
<1>3. PICK reason \in {"ENGINE_DOWN", "OVERLAP"} :
        InsertOmitted(i, reason) /\ (reason = "OVERLAP" => sweep[x].blocked)
  BY DEF OmitOverlapIntent, OmitEngineDownIntent
<1>4. /\ RowsStay
      /\ intent'[i].status # "ABSENT"
      /\ \A j \in Intents \ {i} : intent'[j] = intent[j] /\ omission'[j] = omission[j]
      /\ \/ omission' = omission /\ intent' = intent
         \/ /\ intent[i].status = "ABSENT" /\ intent'[i].status = "OMITTED"
            /\ omission'[i] = reason
  BY <1>3, InsertOmittedWrites
<1>5. Advances(x, i, b)
  BY <1>1, <1>2, LoopWrites DEF Advances, L, b
<1>6. OmissionsStay'
  BY <1>4 DEF SweepInvariant, OmissionsStay
<1>7. OverlapFollowsALiveCycle'
  <2>1. CASE omission' = omission /\ intent' = intent
    BY <2>1 DEF SweepInvariant, OverlapFollowsALiveCycle, CyclesOf
  <2>2. CASE /\ intent[i].status = "ABSENT" /\ intent'[i].status = "OMITTED"
             /\ omission'[i] = reason
    <3>1. ASSUME NEW k \in Intents, omission'[k] = "OVERLAP", k # i
          PROVE  \E j \in CyclesOf(SubOf[k], NominalDay[k]) \ {k} :
                    intent'[j].status # "ABSENT" /\ omission'[j] = "NONE"
      <4>1. PICK j \in CyclesOf(SubOf[k], NominalDay[k]) \ {k} :
              intent[j].status # "ABSENT" /\ omission[j] = "NONE"
        BY <1>4, <3>1 DEF SweepInvariant, OverlapFollowsALiveCycle
      <4>2. j \in Intents /\ j # i
        BY <2>2, <4>1 DEF CyclesOf
      <4> QED
        BY <1>4, <4>1, <4>2
    <3>2. ASSUME reason = "OVERLAP"
          PROVE  \E j \in CyclesOf(SubOf[i], NominalDay[i]) \ {i} :
                    intent'[j].status # "ABSENT" /\ omission'[j] = "NONE"
      <4>1. /\ i \in sweep[x].left /\ sweep[x].left \subseteq sweep[x].cycles
            /\ sweep[x].cycles \subseteq Intents
            /\ sweep[x].cycles = CyclesOf(SubOf[i], sweep[x].day)
        BY <1>2 DEF Considers, SweepInvariant, LoopsOverCycles, SchedulerTypeOK, SweepState
      <4>2. PICK j \in (sweep[x].live \cap sweep[x].cycles) \ sweep[x].left :
              NominalDay[j] <= NominalDay[i]
        BY <1>3, <3>2, <4>1 DEF SweepInvariant, BlockedByLive
      <4>3. j \in Intents /\ j # i /\ SubOf[j] = SubOf[i]
        BY <4>1, <4>2 DEF CyclesOf
      <4>4. intent[j].status # "ABSENT" /\ omission[j] = "NONE"
        BY <4>2 DEF SweepInvariant, ReadingsHold
      <4> QED
        BY <1>4, <4>2, <4>3, <4>4 DEF CyclesOf
    <3> QED
      BY <2>2, <3>1, <3>2 DEF OverlapFollowsALiveCycle, CyclesOf
  <2> QED
    BY <1>4, <2>1, <2>2
<1>8. OneSweepSteps(x)
  BY <1>4, <1>5, <1>6, <1>7 DEF OneSweepSteps, Advances
<1> QED
  BY <1>4, <1>5, <1>8, AdvancingKeepsInvariant DEF b

\* The cycle that is scheduled is the last of the loop.
LEMMA ScheduleCycleKeepsInvariant ==
  ASSUME StoreTypeOK, SchedulerTypeOK, SweepInvariant, NEW x \in Sweepers, NEW i \in Intents,
         ScheduleCycle(x, i)
  PROVE  SweepInvariant'
<1> DEFINE L == sweep[x].left \ {i}
<1>1. L \in SUBSET Intents
  BY DEF SchedulerTypeOK, SweepState
<1>2. /\ sweep' = [sweep EXCEPT ![x].left = L, ![x].blocked = TRUE]
      /\ Considers(x, i) /\ DueToday(x, i) /\ omission' = omission
  BY DEF ScheduleCycle, Handles
<1> HIDE DEF L
<1>3. Advances(x, i, TRUE)
  BY <1>1, <1>2, LoopWrites DEF Advances, L
<1>4. /\ RowsStay
      /\ intent'[i].status # "ABSENT"
      /\ \A j \in Intents : intent'[j] = intent[j] \/ intent[j].status = "ABSENT"
  <2>1. CASE ScheduleIntent(i)
    BY <2>1, ScheduleIntentWrites DEF ScheduleIntent
  <2>2. CASE intent[i].status # "ABSENT" /\ UNCHANGED storeVars
    BY <2>2 DEF storeVars, RowsStay
  <2> QED
    BY <2>1, <2>2 DEF ScheduleCycle
<1>5. OmissionsStay' /\ OverlapFollowsALiveCycle'
  BY <1>2, <1>4 DEF SweepInvariant, OmissionsStay, OverlapFollowsALiveCycle, CyclesOf, RowsStay
<1>6. OneSweepSteps(x)
  BY <1>2, <1>3, <1>4, <1>5 DEF OneSweepSteps, Advances
<1>7. sweep[x].left = {i}
  <2>1. /\ i \in sweep[x].left
        /\ \A k \in sweep[x].left : NominalDay[i] <= NominalDay[k]
    BY <1>2 DEF Considers
  <2>2. sweep[x].left \subseteq CyclesOf(SubOf[i], sweep[x].day)
    BY <2>1 DEF SweepInvariant, LoopsOverCycles
  <2>3. IsCurrentCycle(i, sweep[x].day)
    BY <1>2 DEF DueToday
  <2> QED
    BY <2>1, <2>2, <2>3, CurrentIsLast
<1> QED
  BY <1>3, <1>4, <1>6, <1>7, AdvancingKeepsInvariant

\* A step of the loop leaves the sweep typed, with no cycle more to consider.
LEMMA SweptWithin ==
  ASSUME SchedulerTypeOK, NEW x \in Sweepers, NEW i \in Intents,
         \/ SkipExisting(x, i) \/ StopAtFutureDay(x, i) \/ PassOver(x, i)
         \/ OmitOverlapIntent(x, i) \/ OmitEngineDownIntent(x, i) \/ ScheduleCycle(x, i)
  PROVE  /\ sweep' \in [Sweepers -> SweepState]
         /\ \A y \in Sweepers : sweep'[y].left \subseteq sweep[y].left
                             /\ sweep'[y].todo = sweep[y].todo
<1>1. PICK L \in SUBSET Intents, b \in BOOLEAN :
        /\ L \subseteq sweep[x].left
        /\ sweep' = [sweep EXCEPT ![x].left = L, ![x].blocked = b]
  <2>1. /\ sweep[x].left \ {i} \in SUBSET Intents /\ {} \in SUBSET Intents
        /\ sweep[x].blocked \in BOOLEAN
    BY DEF SchedulerTypeOK, SweepState
  <2>2. ASSUME NEW L \in SUBSET Intents, sweep' = [sweep EXCEPT ![x].left = L]
        PROVE  sweep' = [sweep EXCEPT ![x].left = L, ![x].blocked = sweep[x].blocked]
    BY <2>2 DEF SchedulerTypeOK, SweepState
  <2>3. CASE SkipExisting(x, i)
    <3> DEFINE b == sweep[x].blocked \/ i \in sweep[x].live
    <3>1. sweep' = [sweep EXCEPT ![x].left = sweep[x].left \ {i}, ![x].blocked = b] /\ b \in BOOLEAN
      BY <2>1, <2>3 DEF SkipExisting, SchedulerTypeOK, SweepState
    <3> QED
      BY <2>1, <3>1
  <2>4. CASE StopAtFutureDay(x, i)
    BY <2>1, <2>2, <2>4 DEF StopAtFutureDay
  <2>5. CASE PassOver(x, i) \/ OmitOverlapIntent(x, i) \/ OmitEngineDownIntent(x, i)
    <3>1. sweep' = [sweep EXCEPT ![x].left = sweep[x].left \ {i}]
      BY <2>5 DEF PassOver, OmitOverlapIntent, OmitEngineDownIntent
    <3> QED
      BY <2>1, <2>2, <3>1
  <2>6. CASE ScheduleCycle(x, i)
    BY <2>1, <2>6 DEF ScheduleCycle
  <2> QED
    BY <2>3, <2>4, <2>5, <2>6
<1>2. \A y \in Sweepers : sweep'[y].todo = sweep[y].todo
  BY <1>1 DEF SchedulerTypeOK, SweepState
<1>3. /\ sweep' \in [Sweepers -> SweepState] /\ sweep'[x].left = L
      /\ \A y \in Sweepers \ {x} : sweep'[y] = sweep[y]
  BY <1>1, LoopWrites
<1> QED
  BY <1>1, <1>2, <1>3

\* A sweep begins, or is over for any reason.
LEMMA IdleLoopKeepsInvariant ==
  ASSUME SchedulerTypeOK, SweepInvariant, NEW x \in Sweepers, NEW r \in SweepState,
         UNCHANGED <<storeVars, omission>>, sweep' = [sweep EXCEPT ![x] = r],
         r.cycles = {}, r.left = {}, r.existing = {}, r.live = {}
  PROVE  SweepInvariant'
<1>1. /\ sweep' \in [Sweepers -> SweepState] /\ sweep'[x] = r
      /\ \A y \in Sweepers \ {x} : sweep'[y] = sweep[y]
  BY DEF SchedulerTypeOK
<1>2. OneSweepSteps(x)
  BY <1>1, ReadingStep
<1>3. OwnLoop(sweep'[x]) /\ OwnReadings(sweep'[x]) /\ OwnBlock(sweep'[x]) /\ OwnCycles(sweep'[x])
  BY <1>1 DEF OwnLoop, OwnReadings, OwnBlock, OwnCycles
<1> QED
  BY <1>2, <1>3, OneSweepIsEnough

LEMMA ListExistingKeepsInvariant ==
  ASSUME SchedulerTypeOK, SweepInvariant, NEW x \in Sweepers, NEW s \in Subscriptions,
         ListExistingIntents(x, s)
  PROVE  SweepInvariant' /\ sweep' \in [Sweepers -> SweepState]
<1> DEFINE cycles == CyclesOf(s, sweep[x].day)
           existing == {i \in cycles : intent[i].status # "ABSENT"}
           live == {i \in cycles : intent[i].status \in LiveStates}
           r == ReadIntents(sweep[x], s)
<1>0. sweep[x] \in SweepState
  BY DEF SchedulerTypeOK
<1>1. sweep' = [sweep EXCEPT ![x] = r] /\ UNCHANGED <<storeVars, omission>>
  BY DEF ListExistingIntents
<1>2. cycles \in SUBSET Intents /\ existing \in SUBSET Intents /\ live \in SUBSET Intents
  BY DEF CyclesOf
<1>3. /\ \A j \in existing : intent[j].status # "ABSENT"
      /\ \A j \in live : intent[j].status # "ABSENT" /\ intent[j].status # "OMITTED"
  BY DEF LiveStates
<1>4. \A i \in cycles : cycles = CyclesOf(SubOf[i], sweep[x].day)
  BY DEF CyclesOf
<1>r. r = [sweep[x] EXCEPT !.todo = sweep[x].todo \ {s}, !.cycles = cycles, !.left = cycles,
                           !.blocked = FALSE, !.existing = existing, !.live = live]
  BY <1>0 DEF ReadIntents, SweepState
<1> HIDE DEF cycles, existing, live, r
<1>5. /\ r \in SweepState
      /\ r.day = sweep[x].day /\ r.cycles = cycles /\ r.left = cycles
      /\ r.blocked = FALSE /\ r.existing = existing /\ r.live = live
  BY <1>0, <1>2, <1>r DEF SweepState
<1>6. /\ sweep' \in [Sweepers -> SweepState] /\ sweep'[x] = r
      /\ \A y \in Sweepers \ {x} : sweep'[y] = sweep[y]
  BY <1>1, <1>5 DEF SchedulerTypeOK
<1>7. OneSweepSteps(x)
  BY <1>1, <1>6, ReadingStep
<1>8. OwnLoop(sweep'[x]) /\ OwnBlock(sweep'[x]) /\ OwnCycles(sweep'[x])
  BY <1>4, <1>5, <1>6 DEF OwnLoop, OwnBlock, OwnCycles
<1>9. OwnReadings(sweep'[x])
  <2>1. \A j \in live : omission[j] = "NONE"
    BY <1>2, <1>3 DEF SweepInvariant, OmissionsStay
  <2> QED
    BY <1>1, <1>3, <1>5, <1>6, <2>1 DEF OwnReadings, storeVars
<1> QED
  BY <1>6, <1>7, <1>8, <1>9, OneSweepIsEnough

NoSweepYet(r) == r.cycles = {} /\ r.left = {} /\ r.existing = {} /\ r.live = {}

LEMMA SweepStates ==
  /\ NoSweep \in SweepState /\ NoSweepYet(NoSweep)
  /\ \A day \in Nat, todo \in SUBSET Subscriptions :
       LET r == [NoSweep EXCEPT !.active = TRUE, !.day = day, !.todo = todo]
       IN  r \in SweepState /\ NoSweepYet(r)
BY DEF NoSweep, SweepState, NoSweepYet

LEMMA SchedulerSteps ==
  ASSUME StoreTypeOK, SchedulerTypeOK, SweepInvariant, SchedulerAssumption, SchedulerNext
  PROVE  StoreTypeOK' /\ SchedulerTypeOK' /\ SweepInvariant'
<1>1. CASE DayPasses
  <2>1. UNCHANGED <<storeVars, omission, sweep>> /\ today' \in Nat
    BY <1>1 DEF DayPasses, SchedulerTypeOK
  <2>2. RowsStay
    BY <2>1 DEF RowsStay, storeVars
  <2> QED
    BY <2>1, <2>2, OthersKeepSweepInvariant DEF StoreTypeOK, SchedulerTypeOK, storeVars
<1>2. ASSUME NEW x \in Sweepers,
             \/ ListActiveSubscriptions(x)
             \/ \E i \in Intents : ScheduleRejected(x, i)
             \/ SweepReturns(x) \/ SweepDies(x)
      PROVE  StoreTypeOK' /\ SchedulerTypeOK' /\ SweepInvariant'
  <2>1. PICK r \in SweepState :
          NoSweepYet(r) /\ sweep' = [sweep EXCEPT ![x] = r]
    <3>1. CASE ListActiveSubscriptions(x)
      <4>1. today \in Nat /\ {s \in Subscriptions : subscription[s] = "ACTIVE"} \in SUBSET Subscriptions
        BY DEF SchedulerTypeOK
      <4> QED
        BY <3>1, <4>1, SweepStates DEF ListActiveSubscriptions
    <3> QED
      BY <1>2, <3>1, SweepStates DEF ScheduleRejected, SweepReturns, SweepDies
  <2>2. UNCHANGED <<storeVars, today, omission>>
    BY <1>2 DEF ListActiveSubscriptions, ScheduleRejected, SweepReturns, SweepDies
  <2>3. SchedulerTypeOK' /\ StoreTypeOK'
    BY <2>1, <2>2 DEF SchedulerTypeOK, StoreTypeOK, storeVars
  <2> QED
    BY <2>1, <2>2, <2>3, IdleLoopKeepsInvariant DEF NoSweepYet
<1>3. ASSUME NEW x \in Sweepers, NEW s \in Subscriptions, ListExistingIntents(x, s)
      PROVE  StoreTypeOK' /\ SchedulerTypeOK' /\ SweepInvariant'
  <2>1. UNCHANGED <<storeVars, today, omission>>
    BY <1>3 DEF ListExistingIntents
  <2> QED
    BY <1>3, <2>1, ListExistingKeepsInvariant DEF SchedulerTypeOK, StoreTypeOK, storeVars
<1>4. ASSUME NEW x \in Sweepers, NEW i \in Intents,
             SkipExisting(x, i) \/ StopAtFutureDay(x, i) \/ PassOver(x, i)
      PROVE  StoreTypeOK' /\ SchedulerTypeOK' /\ SweepInvariant'
  <2>1. UNCHANGED <<storeVars, today, omission>>
    BY <1>4 DEF SkipExisting, StopAtFutureDay, PassOver
  <2>2. sweep' \in [Sweepers -> SweepState]
    BY <1>4, SweptWithin
  <2> QED
    BY <1>4, <2>1, <2>2, SkipExistingKeepsInvariant, StopAtFutureDayKeepsInvariant,
       PassOverKeepsInvariant DEF SchedulerTypeOK, StoreTypeOK, storeVars
<1>5. ASSUME NEW x \in Sweepers, NEW i \in Intents,
             OmitOverlapIntent(x, i) \/ OmitEngineDownIntent(x, i)
      PROVE  StoreTypeOK' /\ SchedulerTypeOK' /\ SweepInvariant'
  <2>1. PICK reason \in {"ENGINE_DOWN", "OVERLAP"} : InsertOmitted(i, reason)
    BY <1>5 DEF OmitOverlapIntent, OmitEngineDownIntent
  <2>2. sweep' \in [Sweepers -> SweepState] /\ today' = today
    BY <1>5, SweptWithin DEF OmitOverlapIntent, OmitEngineDownIntent
  <2> QED
    BY <1>5, <2>1, <2>2, InsertOmittedWrites, OmissionKeepsInvariant DEF SchedulerTypeOK
<1>6. ASSUME NEW x \in Sweepers, NEW i \in Intents, ScheduleCycle(x, i)
      PROVE  StoreTypeOK' /\ SchedulerTypeOK' /\ SweepInvariant'
  <2>1. StoreTypeOK'
    BY <1>6, ScheduleIntentWrites DEF ScheduleCycle, StoreTypeOK, storeVars
  <2>2. sweep' \in [Sweepers -> SweepState] /\ UNCHANGED <<today, omission>>
    BY <1>6, SweptWithin DEF ScheduleCycle
  <2> QED
    BY <1>6, <2>1, <2>2, ScheduleCycleKeepsInvariant DEF SchedulerTypeOK
<1> QED
  BY <1>1, <1>2, <1>3, <1>4, <1>5, <1>6 DEF SchedulerNext

-----------------------------------------------------------------------------
(* The plan *)

LEMMA PlanInitially ==
  ASSUME PlanInit
  PROVE  PlanTypeOK /\ SweepInvariant
<1>1. NoIntentRow \in IntentRow /\ NoIntentRow.status = "ABSENT"
  BY DEF NoIntentRow, IntentRow, IntentStates
<1>2. NoAttemptRow \in AttemptRow
  BY StoreAssumption DEF NoAttemptRow, AttemptRow, AttemptStates
<1>3. StoreTypeOK
  BY <1>1, <1>2 DEF PlanInit, MovesInit, StoreInit, StoreTypeOK, SubscriptionStates
<1>4. SchedulerTypeOK
  BY SweepStates DEF PlanInit, SchedulerInit, SchedulerTypeOK
<1>5. \A x \in Sweepers : sweep[x] = NoSweep /\ NoSweepYet(sweep[x])
  BY SweepStates DEF PlanInit, SchedulerInit
<1>6. \A i \in Intents : omission[i] = "NONE"
  BY DEF PlanInit, SchedulerInit
<1>7. SweepInvariant
  BY <1>5, <1>6 DEF NoSweepYet, SweepInvariant, OmissionsStay, LoopsOverCycles, ReadingsHold,
     BlockedByLive, SweepCoversItsCycles, OverlapFollowsALiveCycle
<1> QED
  BY <1>3, <1>4, <1>7 DEF PlanTypeOK

LEMMA PlanSteps ==
  ASSUME PlanTypeOK, SweepInvariant, SchedulerAssumption, [PlanNext]_planVars
  PROVE  PlanTypeOK' /\ SweepInvariant'
<1>1. CASE SchedulerNext
  BY <1>1, SchedulerSteps DEF PlanTypeOK
<1>2. ASSUME StoreTypeOK', RowsStay, UNCHANGED schedulerVars
      PROVE  PlanTypeOK' /\ SweepInvariant'
  BY <1>2, OthersKeepSweepInvariant DEF PlanTypeOK, SchedulerTypeOK, schedulerVars
<1>3. CASE CyclesNext /\ UNCHANGED schedulerVars
  BY <1>2, <1>3, CyclesWrites DEF PlanTypeOK
<1>4. CASE LifecycleNext /\ UNCHANGED schedulerVars
  BY <1>2, <1>4, LifecycleWrites DEF PlanTypeOK
<1>5. CASE AttemptNext /\ UNCHANGED schedulerVars
  BY <1>2, <1>5, AttemptWrites DEF PlanTypeOK
<1>6. CASE UNCHANGED planVars
  <2>1. StoreTypeOK' /\ RowsStay /\ UNCHANGED schedulerVars
    BY <1>6 DEF planVars, movesVars, PlanTypeOK, StoreTypeOK, RowsStay, storeVars
  <2> QED
    BY <1>2, <2>1
<1> QED
  BY <1>1, <1>3, <1>4, <1>5, <1>6 DEF PlanNext, MovesNext, AttemptNext

\* Sweeps, requests and attempts keep the rows typed, and the sweeps keep what
\* RF-14 and RF-31 rest on, for any number of them (Scheduler, BillingCycles,
\* SubscriptionLifecycle on the same rows).
THEOREM PlanInvariantHolds == PlanSpec => [](PlanTypeOK /\ SweepInvariant)
<1>1. PlanInit => PlanTypeOK /\ SweepInvariant
  BY PlanInitially
<1>2. PlanTypeOK /\ SweepInvariant /\ [PlanNext]_planVars => (PlanTypeOK /\ SweepInvariant)'
  BY PlanSteps, SchedulerAssumption
<1> QED
  BY <1>1, <1>2, PTL DEF PlanSpec

\* RF-31: a sweep that has gone past a cycle that is overdue, or due and free to
\* go, leaves it with a row.
THEOREM NoCycleLeftBehind == PlanSpec => []SweepCoversItsCycles
<1>1. SweepInvariant => SweepCoversItsCycles
  BY DEF SweepInvariant
<1> QED
  BY <1>1, PlanInvariantHolds, PTL

\* RF-14: a cycle is OMITTED(OVERLAP) only behind one that has been live.
THEOREM OverlapsFollowLiveCycles == PlanSpec => []OverlapFollowsALiveCycle
<1>1. SweepInvariant => OverlapFollowsALiveCycle
  BY DEF SweepInvariant
<1> QED
  BY <1>1, PlanInvariantHolds, PTL

-----------------------------------------------------------------------------
(* Quiet *)

\* No row of s comes.
NoneComes(s) ==
  \A i \in Intents :
    SubOf[i] = s /\ intent[i].status = "ABSENT" => intent'[i].status = "ABSENT"

LEMMA QuietSweeps ==
  ASSUME StoreTypeOK, SchedulerTypeOK, NEW s \in Subscriptions, Quiet(s), SchedulerNext,
         UNCHANGED creating
  PROVE  Quiet(s)' /\ NoneComes(s)
<1> DEFINE Away == \A x \in Sweepers :
             s \notin sweep[x].todo /\ \A i \in sweep[x].left : SubOf[i] # s
<1>0. Away
  BY DEF Quiet
<1>1. ASSUME Away', subscription' = subscription, NoneComes(s)
      PROVE  Quiet(s)' /\ NoneComes(s)
  BY <1>1 DEF Quiet
<1>2. UNCHANGED intent => NoneComes(s)
  BY DEF NoneComes
<1>3. CASE DayPasses
  BY <1>0, <1>1, <1>2, <1>3 DEF DayPasses, storeVars
<1>4. ASSUME NEW x \in Sweepers, ListActiveSubscriptions(x)
      PROVE  Quiet(s)' /\ NoneComes(s)
  <2> DEFINE todo == {t \in Subscriptions : subscription[t] = "ACTIVE"}
             r == [NoSweep EXCEPT !.active = TRUE, !.day = today, !.todo = todo]
  <2>1. sweep' = [sweep EXCEPT ![x] = r] /\ UNCHANGED storeVars
    BY <1>4 DEF ListActiveSubscriptions
  <2>2. r.todo = todo /\ r.left = {}
    BY DEF NoSweep
  <2>3. s \notin todo
    BY DEF Quiet
  <2> HIDE DEF todo, r
  <2>4. Away'
    BY <1>0, <2>1, <2>2, <2>3 DEF SchedulerTypeOK
  <2> QED
    BY <1>1, <1>2, <2>1, <2>4 DEF storeVars
<1>5. ASSUME NEW x \in Sweepers, NEW t \in Subscriptions, ListExistingIntents(x, t)
      PROVE  Quiet(s)' /\ NoneComes(s)
  <2>1. sweep' = [sweep EXCEPT ![x] = ReadIntents(sweep[x], t)] /\ UNCHANGED storeVars
    BY <1>5 DEF ListExistingIntents
  <2>2. /\ ReadIntents(sweep[x], t).todo = sweep[x].todo \ {t}
        /\ ReadIntents(sweep[x], t).left = CyclesOf(t, sweep[x].day)
    BY DEF ReadIntents, SchedulerTypeOK, SweepState
  <2>3. t # s
    BY <1>0, <1>5 DEF ListExistingIntents
  <2>4. Away'
    BY <1>0, <2>1, <2>2, <2>3 DEF SchedulerTypeOK, CyclesOf
  <2> QED
    BY <1>1, <1>2, <2>1, <2>4 DEF storeVars
<1>6. ASSUME NEW x \in Sweepers,
             \/ \E i \in Intents : ScheduleRejected(x, i)
             \/ SweepReturns(x) \/ SweepDies(x)
      PROVE  Quiet(s)' /\ NoneComes(s)
  <2>1. sweep' = [sweep EXCEPT ![x] = NoSweep] /\ UNCHANGED storeVars
    BY <1>6 DEF ScheduleRejected, SweepReturns, SweepDies
  <2>2. Away'
    BY <1>0, <2>1 DEF SchedulerTypeOK, NoSweep
  <2> QED
    BY <1>1, <1>2, <2>1, <2>2 DEF storeVars
<1>7. ASSUME NEW x \in Sweepers, NEW i \in Intents,
             \/ SkipExisting(x, i) \/ StopAtFutureDay(x, i) \/ PassOver(x, i)
             \/ OmitOverlapIntent(x, i) \/ OmitEngineDownIntent(x, i) \/ ScheduleCycle(x, i)
      PROVE  Quiet(s)' /\ NoneComes(s)
  <2>1. Away'
    BY <1>0, <1>7, SweptWithin
  <2>2. SubOf[i] # s
    BY <1>0, <1>7 DEF SkipExisting, StopAtFutureDay, PassOver, OmitOverlapIntent,
       OmitEngineDownIntent, ScheduleCycle, Handles, Considers
  <2>3. /\ subscription' = subscription
        /\ \A j \in Intents \ {i} : intent'[j] = intent[j]
    <3>1. CASE ScheduleIntent(i)
      BY <3>1, ScheduleIntentWrites
    <3>2. ASSUME NEW reason \in {"ENGINE_DOWN", "OVERLAP"}, InsertOmitted(i, reason)
          PROVE  /\ subscription' = subscription
                 /\ \A j \in Intents \ {i} : intent'[j] = intent[j]
      BY <3>2, InsertOmittedWrites
    <3>3. CASE UNCHANGED storeVars
      BY <3>3 DEF storeVars
    <3> QED
      BY <1>7, <3>1, <3>2, <3>3 DEF SkipExisting, StopAtFutureDay, PassOver, OmitOverlapIntent,
         OmitEngineDownIntent, ScheduleCycle
  <2>4. NoneComes(s)
    BY <2>2, <2>3 DEF NoneComes
  <2> QED
    BY <1>1, <2>1, <2>3, <2>4
<1> QED
  BY <1>3, <1>4, <1>5, <1>6, <1>7 DEF SchedulerNext

LEMMA QuietRequests ==
  ASSUME StoreTypeOK, NEW s \in Subscriptions, Quiet(s), CyclesNext, UNCHANGED sweep
  PROVE  Quiet(s)' /\ NoneComes(s)
<1>1. ASSUME NEW i \in Intents, CreateIntent(i)
      PROVE  Quiet(s)' /\ NoneComes(s)
  <2>1. SubOf[i] # s
    BY <1>1 DEF CreateIntent, Quiet
  <2> QED
    BY <1>1, <2>1, ScheduleIntentWrites DEF CreateIntent, Quiet, NoneComes
<1>2. ASSUME NEW i \in Intents, FindSubscription(i) \/ CreationAbandoned(i)
      PROVE  Quiet(s)' /\ NoneComes(s)
  BY <1>2 DEF FindSubscription, CreationAbandoned, Quiet, NoneComes, storeVars
<1> QED
  BY <1>1, <1>2 DEF CyclesNext

LEMMA QuietLifecycle ==
  ASSUME StoreTypeOK, NEW s \in Subscriptions, Quiet(s), LifecycleNext,
         UNCHANGED <<sweep, creating>>
  PROVE  Quiet(s)' /\ NoneComes(s)
<1>1. ASSUME subscription'[s] = "CANCELLED"
      PROVE  Quiet(s)'
  BY <1>1 DEF Quiet
<1>2. ASSUME NEW ids, intent' = OmitIntents(ids) \/ intent' = intent
      PROVE  NoneComes(s)
  BY <1>2, OmissionWrites DEF NoneComes, OmittableStates
<1>3. subscription[s] = "CANCELLED" /\ subscription \in [Subscriptions -> SubscriptionStates]
  BY DEF Quiet, StoreTypeOK
<1>4. ASSUME NEW a \in Admins, ApplyCancellation(a)
      PROVE  Quiet(s)' /\ NoneComes(s)
  BY <1>1, <1>2, <1>3, <1>4 DEF ApplyCancellation
<1>5. ASSUME NEW a \in Admins, ApplyPause(a) \/ ApplyResume(a)
      PROVE  Quiet(s)' /\ NoneComes(s)
  BY <1>1, <1>2, <1>3, <1>5 DEF ApplyPause, ApplyResume, SubscriptionUpdatable
<1>6. CASE UNCHANGED storeVars
  BY <1>1, <1>2, <1>3, <1>6 DEF storeVars
<1> QED
  BY <1>4, <1>5, <1>6 DEF LifecycleNext, LoadSubscription, LoadLiveIntents, RequestAbandoned

LEMMA QuietAttempts ==
  ASSUME StoreTypeOK, NEW s \in Subscriptions, Quiet(s), AttemptNext,
         UNCHANGED <<sweep, creating>>
  PROVE  Quiet(s)' /\ NoneComes(s)
<1>0. PICK i \in Intents : AttemptMoves(i) \/ GivesUp(i) \/ Reopens(i) \/ FailsFinally(i)
  BY DEF AttemptNext
<1>1. intent[i].status # "ABSENT" /\ intent \in [Intents -> IntentRow]
  BY <1>0 DEF AttemptMoves, GivesUp, Reopens, FailsFinally, StoreTypeOK
<1>2. subscription[s] = "CANCELLED" /\ subscription \in [Subscriptions -> SubscriptionStates]
  BY DEF Quiet, StoreTypeOK
<1>3. ASSUME NEW rows, \A j \in Intents \ {i} : rows[j] = intent[j],
             intent' = rows \/ intent' = Omitted(rows, SubOf[i])
      PROVE  NoneComes(s)
  BY <1>1, <1>3 DEF NoneComes, Omitted, OmittableStates
<1>4. CASE AttemptMoves(i) \/ GivesUp(i) \/ Reopens(i)
  <2>1. subscription' = subscription /\ \A j \in Intents \ {i} : intent'[j] = intent[j]
    BY <1>1, <1>4 DEF AttemptMoves, GivesUp, Reopens
  <2> QED
    BY <1>1, <2>1 DEF Quiet, NoneComes
<1>5. CASE FailsFinally(i)
  <2> DEFINE rows == [intent EXCEPT ![i].status = "FAILED_FINAL"]
  <2>1. \A j \in Intents \ {i} : rows[j] = intent[j]
    BY <1>1
  <2>2. CancelWith(rows, SubOf[i])
    BY <1>5 DEF FailsFinally
  <2> HIDE DEF rows
  <2>3. subscription'[s] = "CANCELLED"
    BY <1>2, <2>2 DEF CancelWith
  <2>4. NoneComes(s)
    BY <1>3, <2>1, <2>2 DEF CancelWith
  <2> QED
    BY <2>3, <2>4 DEF Quiet
<1> QED
  BY <1>0, <1>4, <1>5

\* INV-08 as far as the code keeps it (findSubscription and listActiveSubscriptions
\* read the status before they insert): once they have ended, no cycle comes.
THEOREM CancelledFallsQuiet == PlanSpec => QuietOnceCancelled
<1>1. ASSUME PlanTypeOK, [PlanNext]_planVars, NEW s \in Subscriptions, Quiet(s)
      PROVE  Quiet(s)' /\ NoneComes(s)
  <2>1. StoreTypeOK /\ SchedulerTypeOK
    BY <1>1 DEF PlanTypeOK
  <2>2. CASE SchedulerNext /\ UNCHANGED creating
    BY <1>1, <2>1, <2>2, QuietSweeps
  <2>3. CASE CyclesNext /\ UNCHANGED sweep
    BY <1>1, <2>1, <2>3, QuietRequests
  <2>4. CASE LifecycleNext /\ UNCHANGED <<sweep, creating>>
    BY <1>1, <2>1, <2>4, QuietLifecycle
  <2>5. CASE AttemptNext /\ UNCHANGED <<sweep, creating>>
    BY <1>1, <2>1, <2>5, QuietAttempts
  <2>6. CASE UNCHANGED planVars
    BY <1>1, <2>6 DEF planVars, movesVars, storeVars, schedulerVars, Quiet, NoneComes
  <2> QED
    BY <1>1, <2>2, <2>3, <2>4, <2>5, <2>6 DEF PlanNext, MovesNext, AttemptNext, schedulerVars
<1>2. PlanTypeOK /\ [PlanNext]_planVars =>
        [\A s \in Subscriptions :
            Quiet(s) =>
              /\ Quiet(s)'
              /\ \A i \in Intents :
                    SubOf[i] = s /\ intent[i].status = "ABSENT" =>
                      intent'[i].status = "ABSENT"]_planVars
  BY <1>1 DEF NoneComes
<1>3. PlanSpec => []PlanTypeOK
  BY PlanInvariantHolds, PTL
<1> QED
  BY <1>2, <1>3, PTL DEF PlanSpec, QuietOnceCancelled
=============================================================================
