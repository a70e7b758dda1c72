------------------------------- MODULE MCCalendar -------------------------------
(* Years around a leap day and anchors at the ends of months and years. *)
EXTENDS Calendar

D(y, m, d) == [year |-> y, month |-> m, day |-> d]

EndAnchors ==
    {D(2027, 1, 31), D(2028, 2, 29), D(2027, 12, 31), D(2027, 11, 30)}

SomeCycles ==
    [c \in Cadences |-> CASE c = "monthly" -> 15 [] c = "annual" -> 4 [] OTHER -> 20]

Weekend == {0, 6}

\* Some of them next to a weekend, or at the end of a month or a year.
SomeHolidays ==
    {D(2027, 12, 31), D(2028, 1, 3), D(2028, 2, 28), D(2028, 2, 29), D(2029, 1, 1),
     D(2029, 3, 30), D(2029, 4, 2)}

\* The theorems assume no more of the holidays.
ASSUME HolidaysAssumption == BusinessDayWithin(6)
=============================================================================
