SPECIFICATION CalendarSpec
CONSTANTS
    FirstYear = 2026
    LastYear = 2035
    Anchors <- EndAnchors
    Cycles <- SomeCycles
    NonBusinessWeekdays <- Weekend
    Holidays <- SomeHolidays
INVARIANTS
    CalendarTypeOK
    CyclesAdvance
    CurrentIsTheLastCycle
    NextIsTheFirstCycle
    ChargedOnItsDay
CHECK_DEADLOCK FALSE
