-------------------------------- MODULE Calendar --------------------------------
(***************************************************************************)
(* The calendar of the engine (calendar.ts): the nominal dates of the       *)
(* cycles of a subscription, their shift to a business day, and the two     *)
(* searches for the cycle of a day. The module walks through the days of    *)
(* one subscription, as the scheduler and the queries meet them.            *)
(*                                                                          *)
(* A date is a record; `YYYY-MM-DD' strings of four-digit years compare     *)
(* like Before. Date.UTC in days is DayNumber.                              *)
(***************************************************************************)
EXTENDS Integers

CONSTANTS
    FirstYear,            \* bound: the years of the dates
    LastYear,
    Anchors,              \* anchor dates to walk from
    Cycles,               \* bound: cycles to walk through, per cadence
    NonBusinessWeekdays,  \* CALENDAR_NON_BUSINESS_WEEKDAYS, 0 is Sunday
    Holidays              \* calendar_non_business_days

Cadences == {"daily", "weekly", "monthly", "annual"}

Years == FirstYear .. LastYear

Date == [year : Years, month : 1 .. 12, day : 1 .. 31]

VARIABLES anchor, cadence, today

calendarVars == <<anchor, cadence, today>>

-----------------------------------------------------------------------------
(* Dates *)

IsLeap(y) == y % 4 = 0 /\ (y % 100 # 0 \/ y % 400 = 0)

DaysInMonth(y, m) ==
    CASE m \in {4, 6, 9, 11} -> 30
      [] m = 2 -> IF IsLeap(y) THEN 29 ELSE 28
      [] OTHER -> 31

\* What parseCalendarDate accepts; it throws on any other.
Parses(d) == d.month \in 1 .. 12 /\ d.day \in 1 .. DaysInMonth(d.year, d.month)

\* The order of the date strings.
Before(d, e) ==
    \/ d.year < e.year
    \/ d.year = e.year /\ d.month < e.month
    \/ d.year = e.year /\ d.month = e.month /\ d.day < e.day

NotAfter(d, e) == d = e \/ Before(d, e)

\* Days of the years before y, and of the months before m.
DaysBeforeYear(y) ==
    365 * (y - 1) + ((y - 1) \div 4) - ((y - 1) \div 100) + ((y - 1) \div 400)

DaysBeforeMonth(y, m) ==
    <<0, 31, 59, 90, 120, 151, 181, 212, 243, 273, 304, 334, 365>>[m]
        + IF m > 2 /\ IsLeap(y) THEN 1 ELSE 0

DayNumber(d) == DaysBeforeYear(d.year) + DaysBeforeMonth(d.year, d.month) + d.day

\* new Date(...).toISOString(), the inverse.
DateOf(n) ==
    LET y == CHOOSE y \in Years : DaysBeforeYear(y) < n /\ n <= DaysBeforeYear(y + 1)
        r == n - DaysBeforeYear(y)
        m == CHOOSE m \in 1 .. 12 : DaysBeforeMonth(y, m) < r /\ r <= DaysBeforeMonth(y, m + 1)
    IN  [year |-> y, month |-> m, day |-> r - DaysBeforeMonth(y, m)]

AddCalendarDays(d, n) == DateOf(DayNumber(d) + n)

WeekdayOf(d) == DayNumber(d) % 7

\* A mutant: the day of the anchor, whatever the month.
KeepDay(y, m, day) == [year |-> y, month |-> m, day |-> day]

TruncateToMonthEnd(y, m, day) ==
    [year |-> y, month |-> m,
     day |-> IF day <= DaysInMonth(y, m) THEN day ELSE DaysInMonth(y, m)]

-----------------------------------------------------------------------------
(* Business days *)

IsBusinessDay(d) == WeekdayOf(d) \notin NonBusinessWeekdays /\ d \notin Holidays

MaxLookaheadDays == 3660

\* A mutant: the day found is not looked up among the holidays again.
NextWeekday(d) ==
    IF IsBusinessDay(d) THEN d
    ELSE AddCalendarDays(d, CHOOSE n \in 1 .. 7 :
             /\ WeekdayOf(AddCalendarDays(d, n)) \notin NonBusinessWeekdays
             /\ \A k \in 1 .. (n - 1) :
                    WeekdayOf(AddCalendarDays(d, k)) \in NonBusinessWeekdays)

NoDate == [year |-> 0, month |-> 0, day |-> 0]

\* It throws when there is none, NoDate here.
NextBusinessDay(d) ==
    LET from[n \in 0 .. MaxLookaheadDays] ==
            IF IsBusinessDay(AddCalendarDays(d, n)) THEN AddCalendarDays(d, n)
            ELSE IF n = MaxLookaheadDays THEN NoDate
            ELSE from[n + 1]
    IN  from[0]

-----------------------------------------------------------------------------
(* Cycles *)

StepDays(c) == IF c = "daily" THEN 1 ELSE 7
StepMonths(c) == IF c = "annual" THEN 12 ELSE 1
CountsDays(c) == c \in {"daily", "weekly"}

\* A mutant: the years ahead are counted from January.
YearsOfIndex(a, c, index) ==
    IF CountsDays(c) THEN AddCalendarDays(a, StepDays(c) * index)
    ELSE TruncateToMonthEnd(a.year + ((index * StepMonths(c)) \div 12),
                            ((a.month - 1 + index * StepMonths(c)) % 12) + 1, a.day)

CycleDateAt(a, c, index) ==
    LET months == a.month - 1 + index * StepMonths(c)
    IN  IF CountsDays(c)
        THEN AddCalendarDays(a, StepDays(c) * index)
        ELSE TruncateToMonthEnd(a.year + (months \div 12), (months % 12) + 1, a.day)

\* A mutant: off by one at the end of a year.
AdvanceLate(x, step) ==
    [year |-> x.year + ((x.month + step) \div 12), month |-> ((x.month + step - 1) % 12) + 1]

\* The end of the loops of nextCycleDate and currentCycleDate.
AdvanceMonth(x, step) ==
    [year |-> x.year + ((x.month + step - 1) \div 12), month |-> ((x.month + step - 1) % 12) + 1]

\* The variables of these loops.
LoopState ==
    [at : [year : Nat, month : 1 .. 12],
     latest : [year : Nat, month : 0 .. 12, day : 0 .. 31]]

\* The loops: the first candidateDate on or after day number from, and the one
\* before it.
Search(a, c, from) ==
    LET loop[x \in LoopState] ==
            LET candidate == TruncateToMonthEnd(x.at.year, x.at.month, a.day)
            IN  IF DayNumber(candidate) >= from
                THEN [candidate |-> candidate, latest |-> x.latest]
                ELSE loop[[at |-> AdvanceMonth(x.at, StepMonths(c)), latest |-> candidate]]
    IN  loop[[at |-> [year |-> a.year, month |-> a.month], latest |-> NoDate]]

\* A mutant: the cycle of today is taken for a past one.
NextAfterToday(a, c, t) ==
    IF DayNumber(t) < DayNumber(a) THEN a
    ELSE IF CountsDays(c)
    THEN AddCalendarDays(a, StepDays(c) * (((DayNumber(t) - DayNumber(a)) \div StepDays(c)) + 1))
    ELSE Search(a, c, DayNumber(t) + 1).candidate

\* Math.ceil
Ceil(x, y) == -((-x) \div y)

NextCycleDate(a, c, t) ==
    IF DayNumber(t) <= DayNumber(a) THEN a
    ELSE IF CountsDays(c)
    THEN AddCalendarDays(a, StepDays(c) * Ceil(DayNumber(t) - DayNumber(a), StepDays(c)))
    ELSE Search(a, c, DayNumber(t)).candidate

CurrentCycleDate(a, c, t) ==
    IF DayNumber(t) < DayNumber(a) THEN NoDate
    ELSE IF CountsDays(c)
    THEN AddCalendarDays(a, StepDays(c) * ((DayNumber(t) - DayNumber(a)) \div StepDays(c)))
    ELSE Search(a, c, DayNumber(t) + 1).latest

-----------------------------------------------------------------------------
\* The years that index cycles may take, at most.
YearsAhead(c, index) ==
    CASE c = "annual" -> index
      [] c = "monthly" -> (index \div 12) + 1
      [] OTHER -> ((StepDays(c) * index) \div 365) + 1

\* Date takes a year below 100 for one of the 20th century, and the dates have
\* four digits for the year.
ASSUME CalendarAssumption ==
    /\ FirstYear \in 100 .. 9999 /\ LastYear \in 100 .. 9999
    /\ Cycles \in [Cadences -> Nat]
    /\ NonBusinessWeekdays \subseteq 0 .. 6
    /\ Holidays \subseteq Date
    /\ Anchors \subseteq Date
    /\ \A a \in Anchors :
           /\ Parses(a)
           /\ FirstYear < a.year
           /\ \A c \in Cadences : a.year + YearsAhead(c, Cycles[c] + 1) < LastYear

\* The days of the years the dates are taken from.
Days == {n \in Int : DaysBeforeYear(FirstYear) < n /\ n <= DaysBeforeYear(LastYear + 1)}

\* No date is further than span days from a business day: what some of the
\* properties need of the holidays, which are an input.
BusinessDayWithin(span) ==
    \A d \in Date : Parses(d) /\ d.year < LastYear =>
        \E n \in 0 .. span : /\ DayNumber(d) + n \in Days
                             /\ IsBusinessDay(AddCalendarDays(d, n))

CalendarInit ==
    /\ anchor \in Anchors
    /\ cadence \in Cadences
    /\ today = AddCalendarDays(anchor, -2)

\* A day passes, within the cycles of the bound.
DayPasses ==
    /\ Before(today, CycleDateAt(anchor, cadence, Cycles[cadence]))
    /\ today' = AddCalendarDays(today, 1)
    /\ UNCHANGED <<anchor, cadence>>

CalendarSpec == CalendarInit /\ [][DayPasses]_calendarVars

-----------------------------------------------------------------------------
(* Correctness *)

Indices == 0 .. Cycles[cadence]

Nominal(k) == CycleDateAt(anchor, cadence, k)

\* No date the calendar computes is one that parseCalendarDate throws on: a short
\* month, a leap day or a run of holidays never leaves a cycle without a date.
CalendarTypeOK ==
    /\ anchor \in Date /\ cadence \in Cadences /\ Parses(today)
    /\ Parses(NextBusinessDay(today))
    /\ Parses(NextCycleDate(anchor, cadence, today))
    /\ ~Before(today, anchor) => Parses(CurrentCycleDate(anchor, cadence, today))

\* RF-25: the cycles of a subscription never coincide nor go back, and none drifts
\* from the day of the anchor because an earlier one fell into a short month. The
\* scheduler and billing_intents_cycle_unique take the date for the cycle's identity.
CyclesAdvance ==
    today = anchor =>
        \A k \in Indices :
            /\ k > 0 => Before(Nominal(k - 1), Nominal(k))
            /\ ~CountsDays(cadence) =>
                   \/ Nominal(k).day = anchor.day
                   \/ /\ Nominal(k).day < anchor.day
                      /\ Nominal(k).day = DaysInMonth(Nominal(k).year, Nominal(k).month)

\* currentCycleDate, which searches, names the last of the cycles up to today
\* that cycleDateAt counts: the scheduler compares the one with the other.
CurrentIsTheLastCycle ==
    IF Before(today, anchor) THEN CurrentCycleDate(anchor, cadence, today) = NoDate
    ELSE \E k \in Indices :
            /\ CurrentCycleDate(anchor, cadence, today) = Nominal(k)
            /\ NotAfter(Nominal(k), today)
            /\ Before(today, Nominal(k + 1))

\* RF-09: the next billing date the queries show is the first cycle from today on.
NextIsTheFirstCycle ==
    \E k \in Indices :
        /\ NextCycleDate(anchor, cadence, today) = Nominal(k)
        /\ NotAfter(today, Nominal(k))
        /\ k > 0 => Before(Nominal(k - 1), today)

\* RF-24: a weekly, monthly or annual cycle is charged on the first business day
\* from its date on, across ends of month and year, and on that day it is still
\* the current cycle, so that a scheduler that runs every day omits none.
ChargedOnItsDay ==
    \A k \in Indices :
        LET due == NextBusinessDay(Nominal(k))
        IN  today = due =>
                /\ IsBusinessDay(today)
                /\ \A n \in 0 .. (DayNumber(today) - DayNumber(Nominal(k)) - 1) :
                       ~IsBusinessDay(AddCalendarDays(Nominal(k), n))
                /\ cadence # "daily" => CurrentCycleDate(anchor, cadence, today) = Nominal(k)
=============================================================================
