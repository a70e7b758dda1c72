------------------------------- MODULE Scheduler -------------------------------
(***************************************************************************)
(* BillingSchedulerService.sweep, which an external cron calls: it lists    *)
(* the ACTIVE subscriptions, and for each of them reads its intents once    *)
(* and walks through the cycles up to today, one insertion at a time.       *)
(*                                                                          *)
(* A calendar date is a day number. Each step considers one cycle; between  *)
(* the steps anybody may insert or move the same rows.                      *)
(***************************************************************************)
EXTENDS BillingStore

CONSTANTS
    Sweepers,           \* calls of sweep() that may overlap
    NominalDay,         \* billing_cycle of each intent: cycleDateAt
    BusinessDays,       \* days that are no weekend and no holiday
    ToleranceMinutes,   \* ENGINE_DOWN_TOLERANCE_MINUTES
    LastDay             \* bound of the calendar

ASSUME SchedulerAssumption ==
    /\ NominalDay \in [Intents -> Nat]
    /\ \A i, j \in Intents :
        i # j /\ SubOf[i] = SubOf[j] => NominalDay[i] # NominalDay[j]
    /\ BusinessDays \subseteq Nat
    /\ \A i \in Intents : \E d \in BusinessDays :
        d >= NominalDay[i] /\ \A e \in BusinessDays : e >= NominalDay[i] => d <= e
    /\ ToleranceMinutes \in Nat /\ LastDay \in Nat

VARIABLES
    today,      \* the calendar
    omission,   \* omitted_reason of an intent the scheduler inserted as OMITTED
    sweep       \* what each sweep has read and has left to do

schedulerVars == <<today, omission, sweep>>

-----------------------------------------------------------------------------
(* The calendar *)

MinutesPerDay == 24 * 60

\* nextBusinessDay
ScheduleDay ==
    [i \in Intents |->
        CHOOSE d \in BusinessDays :
            d >= NominalDay[i] /\ \A e \in BusinessDays : e >= NominalDay[i] => d <= e]

CyclesOf(s, day) == {i \in Intents : SubOf[i] = s /\ NominalDay[i] <= day}

\* currentCycleDate: the last cycle up to the day.
IsCurrentCycle(i, day) == \A j \in CyclesOf(SubOf[i], day) : NominalDay[j] <= NominalDay[i]

\* isOverdueByTolerance
Overdue(i, day) == (day - ScheduleDay[i]) * MinutesPerDay > ToleranceMinutes

-----------------------------------------------------------------------------
\* cycles are those of the subscription the loop is at, left the ones still to
\* consider; existing and live are what LIST_EXISTING_INTENTS returned of them.
SweepState ==
    [active : BOOLEAN, day : Nat, todo : SUBSET Subscriptions,
     cycles : SUBSET Intents, left : SUBSET Intents, existing : SUBSET Intents,
     live : SUBSET Intents, blocked : BOOLEAN]

NoSweep ==
    [active |-> FALSE, day |-> 0, todo |-> {}, cycles |-> {}, left |-> {},
     existing |-> {}, live |-> {}, blocked |-> FALSE]

SchedulerTypeOK ==
    /\ today \in Nat
    /\ omission \in [Intents -> {"NONE", "ENGINE_DOWN", "OVERLAP"}]
    /\ sweep \in [Sweepers -> SweepState]

SchedulerInit ==
    /\ today = 0
    /\ omission = [i \in Intents |-> "NONE"]
    /\ sweep = [x \in Sweepers |-> NoSweep]

\* A mutant of ListActiveSubscriptions: without WHERE status = 'ACTIVE'.
ListAllSubscriptions(x) ==
    /\ ~sweep[x].active
    /\ sweep' = [sweep EXCEPT ![x] =
           [NoSweep EXCEPT !.active = TRUE, !.day = today, !.todo = Subscriptions]]
    /\ UNCHANGED <<storeVars, today, omission>>

ListActiveSubscriptions(x) ==
    /\ ~sweep[x].active
    /\ sweep' = [sweep EXCEPT ![x] =
           [NoSweep EXCEPT !.active = TRUE, !.day = today,
                           !.todo = {s \in Subscriptions : subscription[s] = "ACTIVE"}]]
    /\ UNCHANGED <<storeVars, today, omission>>

\* LIST_EXISTING_INTENTS and the beginning of the loop over the cycles.
ReadIntents(r, s) ==
    LET cycles == CyclesOf(s, r.day)
    IN  [r EXCEPT !.todo = @ \ {s}, !.cycles = cycles, !.left = cycles, !.blocked = FALSE,
                  !.existing = {i \in cycles : intent[i].status # "ABSENT"},
                  !.live = {i \in cycles : intent[i].status \in LiveStates}]

ListExistingIntents(x, s) ==
    /\ sweep[x].active /\ sweep[x].left = {} /\ s \in sweep[x].todo
    /\ sweep' = [sweep EXCEPT ![x] = ReadIntents(sweep[x], s)]
    /\ UNCHANGED <<storeVars, today, omission>>

\* The loop is at cycle i.
Considers(x, i) ==
    /\ i \in sweep[x].left
    /\ \A j \in sweep[x].left : NominalDay[i] <= NominalDay[j]

\* The loop is at cycle i, which LIST_EXISTING_INTENTS did not return, and its
\* business day has come.
Handles(x, i) ==
    /\ Considers(x, i)
    /\ i \notin sweep[x].existing
    /\ ScheduleDay[i] <= sweep[x].day

\* A mutant of SkipExisting: any intent blocks, live or not.
SkipAndBlock(x, i) ==
    /\ Considers(x, i)
    /\ i \in sweep[x].existing
    /\ sweep' = [sweep EXCEPT ![x].left = @ \ {i}, ![x].blocked = TRUE]
    /\ UNCHANGED <<storeVars, today, omission>>

SkipExisting(x, i) ==
    /\ Considers(x, i)
    /\ i \in sweep[x].existing
    /\ sweep' = [sweep EXCEPT ![x].left = @ \ {i},
                              ![x].blocked = @ \/ i \in sweep[x].live]
    /\ UNCHANGED <<storeVars, today, omission>>

\* The business day of cycle i has not come: nor has that of a later one.
StopAtFutureDay(x, i) ==
    /\ Considers(x, i)
    /\ i \notin sweep[x].existing
    /\ ScheduleDay[i] > sweep[x].day
    /\ sweep' = [sweep EXCEPT ![x].left = {}]
    /\ UNCHANGED <<storeVars, today, omission>>

\* INSERT_OMITTED, which does nothing over a row that has come since.
InsertOmitted(i, reason) ==
    /\ IF intent[i].status = "ABSENT"
       THEN /\ intent' = [intent EXCEPT ![i].status = "OMITTED"]
            /\ omission' = [omission EXCEPT ![i] = reason]
       ELSE UNCHANGED <<intent, omission>>
    /\ UNCHANGED <<subscription, attempt, outbox>>

DueToday(x, i) == ScheduleDay[i] = sweep[x].day /\ IsCurrentCycle(i, sweep[x].day)

OmitOverlapIntent(x, i) ==
    /\ Handles(x, i)
    /\ sweep[x].blocked /\ Overdue(i, sweep[x].day)
    /\ InsertOmitted(i, "OVERLAP")
    /\ sweep' = [sweep EXCEPT ![x].left = @ \ {i}]
    /\ UNCHANGED today

OmitEngineDownIntent(x, i) ==
    /\ Handles(x, i)
    /\ ~sweep[x].blocked /\ ~DueToday(x, i) /\ Overdue(i, sweep[x].day)
    /\ InsertOmitted(i, "ENGINE_DOWN")
    /\ sweep' = [sweep EXCEPT ![x].left = @ \ {i}]
    /\ UNCHANGED today

\* A mutant of PassOver: a blocked cycle is passed over, overdue or not.
PassOverBlocked(x, i) ==
    /\ Handles(x, i)
    /\ ~(~sweep[x].blocked /\ DueToday(x, i))
    /\ sweep[x].blocked \/ ~Overdue(i, sweep[x].day)
    /\ sweep' = [sweep EXCEPT ![x].left = @ \ {i}]
    /\ UNCHANGED <<storeVars, today, omission>>

\* Neither due today and free to go, nor late enough to be omitted.
PassOver(x, i) ==
    /\ Handles(x, i)
    /\ ~(~sweep[x].blocked /\ DueToday(x, i))
    /\ ~Overdue(i, sweep[x].day)
    /\ sweep' = [sweep EXCEPT ![x].left = @ \ {i}]
    /\ UNCHANGED <<storeVars, today, omission>>

\* INSERT_INTENT, which does nothing over a row of the same cycle.
ScheduleCycle(x, i) ==
    /\ Handles(x, i)
    /\ ~sweep[x].blocked /\ DueToday(x, i)
    /\ \/ ScheduleIntent(i)
       \/ intent[i].status # "ABSENT" /\ UNCHANGED storeVars
    /\ sweep' = [sweep EXCEPT ![x].left = @ \ {i}, ![x].blocked = TRUE]
    /\ UNCHANGED <<today, omission>>

\* Another cycle is live: billing_intents_live_unique rejects the row, and the
\* exception ends the sweep over all subscriptions.
ScheduleRejected(x, i) ==
    /\ Handles(x, i)
    /\ ~sweep[x].blocked /\ DueToday(x, i)
    /\ intent[i].status = "ABSENT" /\ ~LiveUnique(i)
    /\ sweep' = [sweep EXCEPT ![x] = NoSweep]
    /\ UNCHANGED <<storeVars, today, omission>>

SweepReturns(x) ==
    /\ sweep[x].active /\ sweep[x].left = {} /\ sweep[x].todo = {}
    /\ sweep' = [sweep EXCEPT ![x] = NoSweep]
    /\ UNCHANGED <<storeVars, today, omission>>

\* A query fails or the process dies.
SweepDies(x) ==
    /\ sweep[x].active
    /\ sweep' = [sweep EXCEPT ![x] = NoSweep]
    /\ UNCHANGED <<storeVars, today, omission>>

DayPasses ==
    /\ today < LastDay
    /\ today' = today + 1
    /\ UNCHANGED <<storeVars, omission, sweep>>

SchedulerNext ==
    \/ DayPasses
    \/ \E x \in Sweepers :
        \/ ListActiveSubscriptions(x)
        \/ \E s \in Subscriptions : ListExistingIntents(x, s)
        \/ \E i \in Intents :
            \/ SkipExisting(x, i)
            \/ StopAtFutureDay(x, i)
            \/ OmitOverlapIntent(x, i)
            \/ OmitEngineDownIntent(x, i)
            \/ PassOver(x, i)
            \/ ScheduleCycle(x, i)
            \/ ScheduleRejected(x, i)
        \/ SweepReturns(x)
        \/ SweepDies(x)

-----------------------------------------------------------------------------
\* RF-31, D14: a sweep leaves no cycle behind. When it is past a cycle that is
\* overdue, or that is due that day and was not blocked, the cycle has its row,
\* whatever others did since the sweep read the intents.
SweepCoversItsCycles ==
    \A x \in Sweepers : \A i \in sweep[x].cycles \ sweep[x].left :
        Overdue(i, sweep[x].day) \/ (DueToday(x, i) /\ sweep[x].live = {})
            => intent[i].status # "ABSENT"

\* RF-14: a cycle is OMITTED(OVERLAP) only behind an earlier one that has been
\* live, never behind one that was itself inserted as omitted.
OverlapFollowsALiveCycle ==
    \A i \in Intents :
        omission[i] = "OVERLAP" =>
            \E j \in CyclesOf(SubOf[i], NominalDay[i]) \ {i} :
                intent[j].status # "ABSENT" /\ omission[j] = "NONE"

(* What makes these two inductive. *)

\* A row inserted as omitted stays OMITTED.
OmissionsStay == \A i \in Intents : omission[i] # "NONE" => intent[i].status = "OMITTED"

\* The loop is over the cycles of one subscription up to the sweep's day.
LoopsOverCycles ==
    \A x \in Sweepers :
        /\ sweep[x].left \subseteq sweep[x].cycles
        /\ \A i \in sweep[x].cycles : sweep[x].cycles = CyclesOf(SubOf[i], sweep[x].day)

\* What a sweep read may be stale, but a row it saw is still there, and one it
\* saw live has not become one that was inserted as omitted.
ReadingsHold ==
    \A x \in Sweepers :
        /\ \A j \in sweep[x].existing : intent[j].status # "ABSENT"
        /\ \A j \in sweep[x].live : intent[j].status # "ABSENT" /\ omission[j] = "NONE"

\* A cycle still to consider is blocked by one that was live before it.
BlockedByLive ==
    \A x \in Sweepers :
        sweep[x].blocked /\ sweep[x].left # {} =>
            \E j \in (sweep[x].live \cap sweep[x].cycles) \ sweep[x].left :
                \A i \in sweep[x].left : NominalDay[j] <= NominalDay[i]

\* RF-14 and RF-31 together with what keeps them: no cycle is lost or omitted
\* for nothing, however many sweeps overlap with whatever moves the rows.
SweepInvariant ==
    /\ OmissionsStay
    /\ LoopsOverCycles
    /\ ReadingsHold
    /\ BlockedByLive
    /\ SweepCoversItsCycles
    /\ OverlapFollowsALiveCycle
=============================================================================
