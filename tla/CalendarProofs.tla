----------------------------- MODULE CalendarProofs -----------------------------
(***************************************************************************)
(* Theorems about Calendar, for every anchor date, every bound on the       *)
(* cycles and every set of holidays. The library's induction theorems take  *)
(* an operator as a parameter; induction is over sets of numbers here.      *)
(***************************************************************************)
EXTENDS Calendar, WellFoundedInduction, TLAPS

-----------------------------------------------------------------------------
(* Induction *)

\* Every set of natural numbers has a least element.
LEMMA LeastElement ==
  ASSUME NEW T, T \subseteq Nat, T # {}
  PROVE  \E x \in T : \A y \in T : x <= y
<1> DEFINE R == {ss \in Nat \X Nat : ss[1] < ss[2]}
<1>1. IsWellFoundedOn(R, Nat)
  BY NatLessThanWellFounded DEF OpToRel
<1>2. PICK x \in T : \A y \in T : ~(<<y, x>> \in R)
  BY <1>1, WFMin
<1>3. \A y \in T : ~(y < x)
  BY <1>2
<1> QED
  BY <1>3

LEMMA Induction ==
  ASSUME NEW T, T \subseteq Nat, 0 \in T, \A n \in T : n + 1 \in T
  PROVE  T = Nat
<1> SUFFICES ASSUME T # Nat PROVE FALSE
  OBVIOUS
<1>1. PICK x \in Nat \ T : \A y \in Nat \ T : x <= y
  BY LeastElement
<1>2. x # 0 /\ x - 1 \in Nat
  OBVIOUS
<1>3. x - 1 \in T
  BY <1>1, <1>2
<1> QED
  BY <1>1, <1>3

\* f[x] is the result of a loop over S that begins with x.
IsLoop(f, S, done, next, result) ==
    f = [x \in S |-> IF x \in done THEN result[x] ELSE f[next[x]]]

\* The loop ends, because rank decreases.
LoopEnds(S, done, next, rank) ==
    /\ next \in [S -> S] /\ rank \in [S -> Nat]
    /\ \A x \in S \ done : rank[next[x]] < rank[x]

\* A loop that ends computes one function.
LEMMA LoopIsUnique ==
  ASSUME NEW S, NEW done, NEW next, NEW result, NEW rank, NEW f, NEW g,
         LoopEnds(S, done, next, rank),
         IsLoop(f, S, done, next, result), IsLoop(g, S, done, next, result)
  PROVE  f = g
<1> USE DEF LoopEnds, IsLoop
<1> DEFINE T == {n \in Nat : \A x \in S : rank[x] < n => f[x] = g[x]}
<1>1. 0 \in T
  OBVIOUS
<1>2. ASSUME NEW n \in T
      PROVE  n + 1 \in T
  <2> SUFFICES ASSUME NEW x \in S, rank[x] < n + 1
               PROVE  f[x] = g[x]
    OBVIOUS
  <2>1. CASE x \in done
    BY <2>1
  <2>2. CASE x \notin done
    <3>1. next[x] \in S /\ rank[next[x]] < rank[x] /\ rank[x] \in Nat /\ rank[next[x]] \in Nat
      BY <2>2
    <3>2. f[next[x]] = g[next[x]]
      BY <3>1, <1>2
    <3> QED
      BY <2>2, <3>2
  <2> QED
    BY <2>1, <2>2
<1>3. T = Nat
  <2> HIDE DEF T
  <2>1. T \subseteq Nat
    BY DEF T
  <2> QED
    BY <1>1, <1>2, <2>1, Induction
<1>4. \A x \in S : f[x] = g[x]
  <2> SUFFICES ASSUME NEW x \in S
               PROVE  f[x] = g[x]
    OBVIOUS
  <2>1. rank[x] + 1 \in T
    BY <1>3
  <2> QED
    BY <2>1
<1> QED
  BY <1>4

-----------------------------------------------------------------------------
(* Months and years *)

LEMMA MonthFacts ==
  ASSUME NEW y \in Nat, NEW m \in 1 .. 12
  PROVE  /\ DaysInMonth(y, m) \in 28 .. 31 /\ DaysInMonth(y, m) \in Nat
         /\ DaysBeforeMonth(y, m) \in Nat /\ DaysBeforeMonth(y, m + 1) \in Nat
         /\ DaysBeforeMonth(y, m + 1) = DaysBeforeMonth(y, m) + DaysInMonth(y, m)
  BY DEF DaysInMonth, DaysBeforeMonth

LEMMA YearFacts ==
  ASSUME NEW y \in Nat
  PROVE  /\ DaysBeforeYear(y) \in Int
         /\ DaysBeforeYear(y + 1) = DaysBeforeYear(y) + DaysBeforeMonth(y, 13)
         /\ DaysBeforeMonth(y, 13) \in {365, 366}
         /\ DaysBeforeMonth(y, 1) = 0
  BY DEF DaysBeforeYear, DaysBeforeMonth, IsLeap

LEMMA MonthsGrow ==
  ASSUME NEW y \in Nat, NEW m \in 1 .. 12, NEW n \in 1 .. 13, m < n
  PROVE  DaysBeforeMonth(y, m + 1) <= DaysBeforeMonth(y, n)
  BY DEF DaysBeforeMonth

LEMMA YearsGrow ==
  ASSUME NEW y \in Nat, NEW z \in Nat, y < z
  PROVE  DaysBeforeYear(y + 1) <= DaysBeforeYear(z)
<1> DEFINE T == {k \in Nat : DaysBeforeYear(y + 1) <= DaysBeforeYear(y + 1 + k)}
<1>1. 0 \in T
  BY YearFacts
<1>2. ASSUME NEW k \in T
      PROVE  k + 1 \in T
  <2>1. y + 1 + k \in Nat /\ y + 1 + (k + 1) = (y + 1 + k) + 1 /\ y + 1 \in Nat
    OBVIOUS
  <2>2. /\ DaysBeforeYear(y + 1) \in Int /\ DaysBeforeYear(y + 1 + k) \in Int
        /\ DaysBeforeYear((y + 1 + k) + 1) >= DaysBeforeYear(y + 1 + k)
    BY <2>1, YearFacts
  <2>3. DaysBeforeYear(y + 1 + (k + 1)) \in Int
    BY <2>1, YearFacts
  <2> QED
    BY <2>1, <2>2, <2>3
<1>3. T = Nat
  <2> HIDE DEF T
  <2>1. T \subseteq Nat
    BY DEF T
  <2> QED
    BY <1>1, <1>2, <2>1, Induction
<1>4. z - y - 1 \in T
  <2>1. z - y - 1 \in Nat
    OBVIOUS
  <2> QED
    BY ONLY <1>3, <2>1
<1>5. y + 1 + (z - y - 1) = z
  OBVIOUS
<1> QED
  BY <1>4, <1>5

-----------------------------------------------------------------------------
(* Dates and day numbers *)

\* The dates of the calendar, whatever the year.
RealDate == {d \in [year : Nat, month : 1 .. 12, day : 1 .. 31] : Parses(d)}

LEMMA DayOfYear ==
  ASSUME NEW d \in RealDate
  PROVE  /\ DayNumber(d) \in Int
         /\ DaysBeforeYear(d.year) + DaysBeforeMonth(d.year, d.month) < DayNumber(d)
         /\ DayNumber(d) <= DaysBeforeYear(d.year) + DaysBeforeMonth(d.year, d.month + 1)
         /\ DaysBeforeYear(d.year) < DayNumber(d)
         /\ DayNumber(d) <= DaysBeforeYear(d.year + 1)
<1>1. d.year \in Nat /\ d.month \in 1 .. 12
  BY DEF RealDate
<1>5. d.day \in 1 .. DaysInMonth(d.year, d.month)
  BY DEF RealDate, Parses
<1>2. /\ DaysBeforeYear(d.year) \in Int
      /\ DaysBeforeYear(d.year + 1) = DaysBeforeYear(d.year) + DaysBeforeMonth(d.year, 13)
      /\ DaysBeforeMonth(d.year, 13) \in Nat
  BY <1>1, YearFacts
<1>4. /\ DaysInMonth(d.year, d.month) \in Nat
      /\ DaysBeforeMonth(d.year, d.month) \in Nat
      /\ DaysBeforeMonth(d.year, d.month + 1)
            = DaysBeforeMonth(d.year, d.month) + DaysInMonth(d.year, d.month)
  BY <1>1, MonthFacts
<1>3. DaysBeforeMonth(d.year, d.month + 1) <= DaysBeforeMonth(d.year, 13)
  BY <1>1, MonthsGrow
<1> QED
  BY <1>2, <1>3, <1>4, <1>5 DEF DayNumber

\* The order of the date strings is the order of the days.
LEMMA BeforeIsEarlier ==
  ASSUME NEW d \in RealDate, NEW e \in RealDate
  PROVE  /\ Before(d, e) <=> DayNumber(d) < DayNumber(e)
         /\ NotAfter(d, e) <=> DayNumber(d) <= DayNumber(e)
         /\ d = e <=> DayNumber(d) = DayNumber(e)
<1>1. ASSUME NEW x \in RealDate, NEW y \in RealDate, Before(x, y)
      PROVE  DayNumber(x) < DayNumber(y)
  <2>0. /\ x.year \in Nat /\ x.month \in 1 .. 12 /\ x.day \in 1 .. 31
        /\ y.year \in Nat /\ y.month \in 1 .. 12 /\ y.day \in 1 .. 31
    BY DEF RealDate
  <2>1. CASE x.year < y.year
    <3>1. DaysBeforeYear(x.year + 1) <= DaysBeforeYear(y.year)
      BY <2>0, <2>1, YearsGrow
    <3>2. DaysBeforeYear(x.year + 1) \in Int /\ DaysBeforeYear(y.year) \in Int
      BY <2>0, YearFacts
    <3> QED
      BY <3>1, <3>2, DayOfYear
  <2>2. CASE x.year = y.year /\ x.month < y.month
    <3>1. DaysBeforeMonth(x.year, x.month + 1) <= DaysBeforeMonth(x.year, y.month)
      BY <2>0, <2>2, MonthsGrow
    <3>2. /\ DaysBeforeMonth(x.year, x.month + 1) \in Nat
          /\ DaysBeforeMonth(x.year, y.month) \in Nat
          /\ DaysBeforeYear(x.year) \in Int
      BY <2>0, MonthFacts, YearFacts
    <3> QED
      BY <3>1, <3>2, <2>2, DayOfYear
  <2>3. CASE x.year = y.year /\ x.month = y.month /\ x.day < y.day
    <3>1. DaysBeforeYear(x.year) \in Int /\ DaysBeforeMonth(x.year, x.month) \in Nat
      BY <2>0, MonthFacts, YearFacts
    <3> QED
      BY <2>0, <2>3, <3>1 DEF DayNumber
  <2> QED
    BY <1>1, <2>1, <2>2, <2>3 DEF Before
<1>2. /\ d.year \in Nat /\ d.month \in 1 .. 12 /\ d.day \in 1 .. 31
      /\ e.year \in Nat /\ e.month \in 1 .. 12 /\ e.day \in 1 .. 31
      /\ d = [year |-> d.year, month |-> d.month, day |-> d.day]
      /\ e = [year |-> e.year, month |-> e.month, day |-> e.day]
  BY DEF RealDate
<1>3. Before(d, e) \/ Before(e, d) \/ d = e
  BY <1>2 DEF Before
<1>4. DayNumber(d) \in Int /\ DayNumber(e) \in Int
  BY DayOfYear
<1> QED
  BY <1>1, <1>3, <1>4 DEF NotAfter

LEMMA YearBounds == FirstYear \in Nat /\ LastYear \in Nat /\ FirstYear >= 100
  BY CalendarAssumption

LEMMA YearOfDay ==
  ASSUME NEW n \in Days
  PROVE  \E y \in Years : DaysBeforeYear(y) < n /\ n <= DaysBeforeYear(y + 1)
<1> DEFINE T == {y \in Nat : FirstYear <= y /\ n <= DaysBeforeYear(y + 1)}
<1>1. n \in Int /\ DaysBeforeYear(FirstYear) < n /\ n <= DaysBeforeYear(LastYear + 1)
  BY DEF Days
<1>2. FirstYear <= LastYear
  <2> SUFFICES ASSUME LastYear < FirstYear
               PROVE  FALSE
    BY YearBounds
  <2>1. DaysBeforeYear(LastYear + 1) <= DaysBeforeYear(FirstYear)
    BY YearBounds, YearsGrow
  <2>2. DaysBeforeYear(LastYear + 1) \in Int /\ DaysBeforeYear(FirstYear) \in Int
    BY YearBounds, YearFacts
  <2> QED
    BY <1>1, <2>1, <2>2
<1>3. LastYear \in T
  BY <1>1, <1>2, YearBounds
<1>4. PICK y \in T : \A z \in T : y <= z
  <2>1. T \subseteq Nat /\ T # {}
    BY <1>3
  <2> HIDE DEF T
  <2> QED
    BY <2>1, LeastElement
<1>5. y \in Years /\ y \in Nat
  BY <1>3, <1>4, YearBounds DEF Years
<1>6. DaysBeforeYear(y) < n
  <2>1. CASE y = FirstYear
    BY <1>1, <2>1
  <2>2. CASE y # FirstYear
    <3>1. y - 1 \in Nat /\ FirstYear <= y - 1 /\ y - 1 \notin T /\ (y - 1) + 1 = y
      BY <1>4, <1>5, <2>2, YearBounds
    <3>2. DaysBeforeYear(y) \in Int
      BY <1>5, YearFacts
    <3> QED
      BY <1>1, <3>1, <3>2
  <2> QED
    BY <2>1, <2>2
<1> QED
  BY <1>4, <1>5, <1>6

LEMMA MonthOfDay ==
  ASSUME NEW y \in Nat, NEW r \in 1 .. DaysBeforeMonth(y, 13)
  PROVE  \E m \in 1 .. 12 : DaysBeforeMonth(y, m) < r /\ r <= DaysBeforeMonth(y, m + 1)
  BY DEF DaysBeforeMonth

\* DateOf is the inverse of DayNumber on these days.
LEMMA DateOfDay ==
  ASSUME NEW n \in Days
  PROVE  DateOf(n) \in RealDate /\ DateOf(n).year \in Years /\ DayNumber(DateOf(n)) = n
<1> DEFINE y == CHOOSE z \in Years : DaysBeforeYear(z) < n /\ n <= DaysBeforeYear(z + 1)
           r == n - DaysBeforeYear(y)
           m == CHOOSE k \in 1 .. 12 : DaysBeforeMonth(y, k) < r /\ r <= DaysBeforeMonth(y, k + 1)
<1>0. DateOf(n) = [year |-> y, month |-> m, day |-> r - DaysBeforeMonth(y, m)]
  BY DEF DateOf
<1>1. y \in Years /\ DaysBeforeYear(y) < n /\ n <= DaysBeforeYear(y + 1)
  BY YearOfDay
<1>2. y \in Nat /\ n \in Int
  BY <1>1, YearBounds DEF Years, Days
<1> HIDE DEF y
<1>3. /\ DaysBeforeYear(y) \in Int
      /\ DaysBeforeYear(y + 1) = DaysBeforeYear(y) + DaysBeforeMonth(y, 13)
      /\ DaysBeforeMonth(y, 13) \in Nat
  BY <1>2, YearFacts
<1>4. r \in 1 .. DaysBeforeMonth(y, 13)
  BY <1>1, <1>2, <1>3
<1> HIDE DEF r
<1>5. m \in 1 .. 12 /\ DaysBeforeMonth(y, m) < r /\ r <= DaysBeforeMonth(y, m + 1)
  BY <1>2, <1>4, MonthOfDay
<1> HIDE DEF m
<1>6. /\ DaysInMonth(y, m) \in 28 .. 31 /\ DaysBeforeMonth(y, m) \in Nat
      /\ DaysBeforeMonth(y, m + 1) = DaysBeforeMonth(y, m) + DaysInMonth(y, m)
  BY <1>2, <1>5, MonthFacts
<1>7. r - DaysBeforeMonth(y, m) \in 1 .. DaysInMonth(y, m) /\ r \in Int
  BY <1>3, <1>4, <1>5, <1>6
<1>8. DateOf(n) \in RealDate
  BY <1>0, <1>2, <1>5, <1>6, <1>7 DEF RealDate, Parses
<1>9. DayNumber(DateOf(n)) = DaysBeforeYear(y) + r
  BY <1>0, <1>3, <1>6, <1>7 DEF DayNumber
<1> QED
  BY <1>0, <1>1, <1>2, <1>3, <1>8, <1>9 DEF r

\* The day of a date of these years.
LEMMA DayOfDate ==
  ASSUME NEW d \in RealDate, d.year \in Years
  PROVE  DayNumber(d) \in Days /\ DateOf(DayNumber(d)) = d
<1>1. d.year \in Nat /\ FirstYear <= d.year /\ d.year <= LastYear
  BY YearBounds DEF Years
<1>2. DaysBeforeYear(FirstYear) <= DaysBeforeYear(d.year)
  <2>1. CASE d.year = FirstYear
    BY <2>1, YearFacts, YearBounds
  <2>2. CASE FirstYear < d.year
    <3>1. DaysBeforeYear(FirstYear + 1) <= DaysBeforeYear(d.year)
      BY <1>1, <2>2, YearBounds, YearsGrow
    <3>2. /\ DaysBeforeYear(FirstYear) \in Int
          /\ DaysBeforeYear(FirstYear) <= DaysBeforeYear(FirstYear + 1)
          /\ DaysBeforeYear(d.year) \in Int
          /\ DaysBeforeYear(FirstYear + 1) \in Int
      BY <1>1, YearFacts, YearBounds
    <3> QED
      BY <3>1, <3>2
  <2> QED
    BY <1>1, <2>1, <2>2, YearBounds
<1>3. DaysBeforeYear(d.year + 1) <= DaysBeforeYear(LastYear + 1)
  <2>1. CASE d.year = LastYear
    BY <2>1, YearFacts, YearBounds
  <2>2. CASE d.year < LastYear
    <3>1. d.year < LastYear + 1 /\ LastYear + 1 \in Nat
      BY <1>1, <2>2, YearBounds
    <3> QED
      BY <1>1, <3>1, YearsGrow
  <2> QED
    BY <1>1, <2>1, <2>2, YearBounds
<1>4. /\ DaysBeforeYear(FirstYear) \in Int /\ DaysBeforeYear(LastYear + 1) \in Int
      /\ DaysBeforeYear(d.year) \in Int /\ DaysBeforeYear(d.year + 1) \in Int
  BY <1>1, YearBounds, YearFacts
<1>5. DayNumber(d) \in Days
  BY <1>2, <1>3, <1>4, DayOfYear DEF Days
<1> QED
  BY <1>5, DateOfDay, BeforeIsEarlier

\* addCalendarDays within these years.
LEMMA DaysAdded ==
  ASSUME NEW d \in RealDate, NEW n \in Int, DayNumber(d) + n \in Days
  PROVE  /\ AddCalendarDays(d, n) \in RealDate /\ AddCalendarDays(d, n).year \in Years
         /\ DayNumber(AddCalendarDays(d, n)) = DayNumber(d) + n
  BY DateOfDay DEF AddCalendarDays

-----------------------------------------------------------------------------
(* Business days *)

\* n days after d is the first business day from d on, within the lookahead.
IsFirstBusinessDay(d, n) ==
    /\ n \in 0 .. MaxLookaheadDays
    /\ IsBusinessDay(AddCalendarDays(d, n))
    /\ \A k \in 0 .. (n - 1) : ~IsBusinessDay(AddCalendarDays(d, k))

\* The loop of nextBusinessDay.
LEMMA NextBusinessDayFacts ==
  ASSUME NEW d
  PROVE  /\ \A n : IsFirstBusinessDay(d, n) => NextBusinessDay(d) = AddCalendarDays(d, n)
         /\ (\A n \in 0 .. MaxLookaheadDays : ~IsBusinessDay(AddCalendarDays(d, n)))
                => NextBusinessDay(d) = NoDate
<1> DEFINE S == 0 .. MaxLookaheadDays
           business == {n \in S : IsBusinessDay(AddCalendarDays(d, n))}
           done == business \cup {MaxLookaheadDays}
           next == [n \in S |-> IF n = MaxLookaheadDays THEN n ELSE n + 1]
           result == [n \in S |-> IF n \in business THEN AddCalendarDays(d, n) ELSE NoDate]
           rank == [n \in S |-> MaxLookaheadDays - n]
           end == [n \in S |-> CHOOSE m \in done : m >= n /\ \A k \in done : k >= n => m <= k]
           g == [n \in S |-> result[end[n]]]
           from == CHOOSE f : f = [n \in S |->
                       IF IsBusinessDay(AddCalendarDays(d, n)) THEN AddCalendarDays(d, n)
                       ELSE IF n = MaxLookaheadDays THEN NoDate
                       ELSE f[n + 1]]
<1>0. NextBusinessDay(d) = from[0]
  BY DEF NextBusinessDay
<1>1. /\ MaxLookaheadDays \in Nat /\ done \subseteq Nat /\ done \subseteq S
      /\ MaxLookaheadDays \in done
  <2>1. MaxLookaheadDays \in Nat
    BY DEF MaxLookaheadDays
  <2> QED
    BY <2>1
<1>2. \A f : [n \in S |-> IF IsBusinessDay(AddCalendarDays(d, n)) THEN AddCalendarDays(d, n)
                          ELSE IF n = MaxLookaheadDays THEN NoDate
                          ELSE f[n + 1]]
             = [n \in S |-> IF n \in done THEN result[n] ELSE f[next[n]]]
  OBVIOUS
<1>3. \A n \in S : end[n] \in done /\ end[n] >= n /\ \A k \in done : k >= n => end[n] <= k
  <2> SUFFICES ASSUME NEW n \in S
               PROVE  \E m \in done : m >= n /\ \A k \in done : k >= n => m <= k
    OBVIOUS
  <2> DEFINE T == {m \in done : m >= n}
  <2>1. T \subseteq Nat /\ T # {}
    BY <1>1
  <2> HIDE DEF T
  <2>2. \E m \in T : \A k \in T : m <= k
    BY <2>1, LeastElement
  <2> QED
    BY <2>2 DEF T
<1>4. IsLoop(g, S, done, next, result)
  <2>1. ASSUME NEW n \in S, n \in done
        PROVE  end[n] = n
    <3> HIDE DEF done, end
    <3>1. end[n] \in done /\ end[n] >= n /\ end[n] <= n
      BY <1>1, <1>3, <2>1
    <3>2. end[n] \in Nat /\ n \in Nat
      BY <1>1, <2>1, <3>1
    <3> QED
      BY <3>1, <3>2
  <2>2. ASSUME NEW n \in S, n \notin done
        PROVE  next[n] \in S /\ end[n] = end[next[n]]
    <3>1. next[n] = n + 1 /\ n + 1 \in S
      BY <1>1, <2>2
    <3> HIDE DEF done, end, next
    <3>2. /\ end[n] \in Nat /\ end[n + 1] \in Nat /\ end[n] # n
      BY <1>1, <1>3, <2>2, <3>1
    <3> QED
      BY <1>1, <1>3, <3>1, <3>2
  <2> HIDE DEF end, next, done, result
  <2> QED
    BY <2>1, <2>2 DEF IsLoop
<1>5. IsLoop(from, S, done, next, result)
  <2> DEFINE D(f) == [n \in S |-> IF IsBusinessDay(AddCalendarDays(d, n)) THEN AddCalendarDays(d, n)
                          ELSE IF n = MaxLookaheadDays THEN NoDate
                          ELSE f[n + 1]]
  <2>1. g = D(g)
    BY <1>2, <1>4 DEF IsLoop
  <2>2. from = CHOOSE f : f = D(f)
    OBVIOUS
  <2> HIDE DEF D, g, from
  <2>3. from = D(from)
    BY <2>1, <2>2
  <2> QED
    BY <1>2, <2>3 DEF D, IsLoop
<1>6. from = g
  <2>1. LoopEnds(S, done, next, rank)
    <3>1. next \in [S -> S] /\ rank \in [S -> Nat]
      BY <1>1
    <3>2. \A n \in S \ done : rank[next[n]] < rank[n]
      BY <1>1
    <3> QED
      BY <3>1, <3>2 DEF LoopEnds
  <2> HIDE DEF S, done, next, result, rank, from, g
  <2> QED
    BY <1>4, <1>5, <2>1, LoopIsUnique
<1>7. 0 \in S /\ NextBusinessDay(d) = result[end[0]]
  <2>1. 0 \in S
    BY <1>1
  <2> HIDE DEF result, end, from
  <2> QED
    BY <1>0, <1>6, <2>1
<1>8. ASSUME NEW n, IsFirstBusinessDay(d, n)
      PROVE  NextBusinessDay(d) = AddCalendarDays(d, n)
  <2>1. n \in business /\ n \in S /\ n \in done /\ n >= 0
    BY <1>8 DEF IsFirstBusinessDay
  <2>2. end[0] = n
    <3>1. end[0] \in 0 .. n /\ end[0] \in done
      <4> HIDE DEF end, done
      <4>1. end[0] \in done /\ end[0] <= n
        BY <1>3, <1>7, <2>1
      <4>2. end[0] \in Nat /\ n \in Nat
        BY <1>1, <2>1, <4>1
      <4> QED
        BY <4>1, <4>2
    <3>2. ASSUME end[0] # n
          PROVE  FALSE
      <4>1. end[0] \in 0 .. (n - 1) /\ end[0] # MaxLookaheadDays
        BY <1>1, <2>1, <3>1, <3>2
      <4>2. end[0] \in business
        BY <3>1, <4>1
      <4> QED
        BY <1>8, <4>1, <4>2 DEF IsFirstBusinessDay
    <3> QED
      BY <3>2
  <2> QED
    BY <1>7, <2>1, <2>2
<1>9. ASSUME \A n \in S : ~IsBusinessDay(AddCalendarDays(d, n))
      PROVE  NextBusinessDay(d) = NoDate
  <2>1. end[0] \in S
    BY <1>1, <1>3, <1>7
  <2> QED
    BY <1>7, <1>9, <2>1
<1> QED
  BY <1>8, <1>9

\* There is a first business day as soon as there is one.
LEMMA FirstBusinessDay ==
  ASSUME NEW d, NEW n \in 0 .. MaxLookaheadDays, IsBusinessDay(AddCalendarDays(d, n))
  PROVE  \E m \in 0 .. n : IsFirstBusinessDay(d, m)
<1> DEFINE T == {k \in 0 .. MaxLookaheadDays : IsBusinessDay(AddCalendarDays(d, k))}
<1>0. MaxLookaheadDays \in Nat
  BY DEF MaxLookaheadDays
<1>1. T \subseteq Nat /\ n \in T
  BY <1>0
<1> HIDE DEF T
<1>2. PICK m \in T : \A k \in T : m <= k
  BY <1>1, LeastElement
<1>3. m \in Nat /\ m <= n /\ n \in Nat /\ n <= MaxLookaheadDays
  BY <1>0, <1>1, <1>2
<1> QED
  BY <1>0, <1>1, <1>2, <1>3 DEF T, IsFirstBusinessDay

-----------------------------------------------------------------------------
(* Months *)

\* The day of the month that is m months after January of year 0.
MonthAt(m, day) == TruncateToMonthEnd(m \div 12, (m % 12) + 1, day)

LEMMA MonthAtFacts ==
  ASSUME NEW m \in Nat, NEW day \in 1 .. 31
  PROVE  /\ MonthAt(m, day) \in RealDate
         /\ MonthAt(m, day).year = m \div 12 /\ MonthAt(m, day).month = (m % 12) + 1
         /\ \/ MonthAt(m, day).day = day
            \/ /\ MonthAt(m, day).day < day
               /\ MonthAt(m, day).day = DaysInMonth(m \div 12, (m % 12) + 1)
<1>1. m \div 12 \in Nat /\ (m % 12) + 1 \in 1 .. 12
  OBVIOUS
<1>2. DaysInMonth(m \div 12, (m % 12) + 1) \in 28 .. 31
  BY <1>1, MonthFacts
<1> DEFINE d == IF day <= DaysInMonth(m \div 12, (m % 12) + 1) THEN day
                ELSE DaysInMonth(m \div 12, (m % 12) + 1)
<1>3. /\ d \in 1 .. 31 /\ d \in 1 .. DaysInMonth(m \div 12, (m % 12) + 1)
      /\ d = day \/ (d < day /\ d = DaysInMonth(m \div 12, (m % 12) + 1))
  BY <1>2
<1>4. MonthAt(m, day) = [year |-> m \div 12, month |-> (m % 12) + 1, day |-> d]
  BY DEF MonthAt, TruncateToMonthEnd
<1> HIDE DEF d
<1> QED
  BY <1>1, <1>3, <1>4 DEF RealDate, Parses

LEMMA MonthsLater ==
  ASSUME NEW m \in Nat, NEW n \in Nat, NEW day \in 1 .. 31, m < n
  PROVE  DayNumber(MonthAt(m, day)) < DayNumber(MonthAt(n, day))
<1>1. m \div 12 < n \div 12 \/ (m \div 12 = n \div 12 /\ (m % 12) + 1 < (n % 12) + 1)
  OBVIOUS
<1>2. /\ MonthAt(m, day) \in RealDate /\ MonthAt(n, day) \in RealDate
      /\ MonthAt(m, day).year = m \div 12 /\ MonthAt(m, day).month = (m % 12) + 1
      /\ MonthAt(n, day).year = n \div 12 /\ MonthAt(n, day).month = (n % 12) + 1
  BY MonthAtFacts
<1>3. Before(MonthAt(m, day), MonthAt(n, day))
  BY <1>1, <1>2 DEF Before
<1> QED
  BY <1>2, <1>3, BeforeIsEarlier

\* The months reach every day.
LEMMA MonthsReach ==
  ASSUME NEW m \in Nat, NEW day \in 1 .. 31, NEW k \in Nat
  PROVE  DayNumber(MonthAt(m + k, day)) >= DayNumber(MonthAt(m, day)) + k
<1> DEFINE T == {n \in Nat : DayNumber(MonthAt(m + n, day)) >= DayNumber(MonthAt(m, day)) + n}
<1>0. ASSUME NEW n \in Nat
      PROVE  DayNumber(MonthAt(m + n, day)) \in Int
  <2>1. m + n \in Nat
    OBVIOUS
  <2>2. MonthAt(m + n, day) \in RealDate
    BY <2>1, MonthAtFacts
  <2> QED
    BY <2>2, DayOfYear
<1>1. 0 \in T
  BY <1>0
<1>2. ASSUME NEW n \in T
      PROVE  n + 1 \in T
  <2>1. /\ m + n \in Nat /\ m + (n + 1) \in Nat /\ m + n < m + (n + 1) /\ m + 0 = m
        /\ n \in Nat /\ n + 1 \in Nat
    OBVIOUS
  <2>2. DayNumber(MonthAt(m + n, day)) < DayNumber(MonthAt(m + (n + 1), day))
    BY <2>1, MonthsLater
  <2>3. /\ DayNumber(MonthAt(m + n, day)) \in Int /\ DayNumber(MonthAt(m, day)) \in Int
        /\ DayNumber(MonthAt(m + (n + 1), day)) \in Int
    <3>1. DayNumber(MonthAt(m + 0, day)) \in Int
      BY <1>0
    <3> QED
      BY <1>0, <2>1, <3>1
  <2> QED
    BY <2>1, <2>2, <2>3
<1>3. T = Nat
  <2> HIDE DEF T
  <2>1. T \subseteq Nat
    BY DEF T
  <2> QED
    BY <1>1, <1>2, <2>1, Induction
<1> QED
  BY <1>3

\* The number of the month of a date, or of the variables of a loop.
MonthOf(x) == 12 * x.year + (x.month - 1)

LEMMA MonthOfFacts ==
  ASSUME NEW x, x.year \in Nat, x.month \in 1 .. 12
  PROVE  /\ MonthOf(x) \in Nat
         /\ MonthOf(x) \div 12 = x.year /\ (MonthOf(x) % 12) + 1 = x.month
         /\ \A n \in Nat : /\ (MonthOf(x) + n) \div 12 = x.year + ((x.month - 1 + n) \div 12)
                           /\ (MonthOf(x) + n) % 12 = (x.month - 1 + n) % 12
<1>1. MonthOf(x) \in Nat
  BY DEF MonthOf
<1>2. MonthOf(x) \div 12 = x.year /\ (MonthOf(x) % 12) + 1 = x.month
  BY DEF MonthOf
<1>3. ASSUME NEW n \in Nat
      PROVE  /\ (MonthOf(x) + n) \div 12 = x.year + ((x.month - 1 + n) \div 12)
             /\ (MonthOf(x) + n) % 12 = (x.month - 1 + n) % 12
  BY DEF MonthOf
<1> QED
  BY <1>1, <1>2, <1>3


-----------------------------------------------------------------------------
(* Monthly and annual cycles *)

LEMMA MonthlyCycle ==
  ASSUME NEW a \in RealDate, NEW c \in {"monthly", "annual"}, NEW k \in Nat
  PROVE  /\ k * StepMonths(c) \in Nat
         /\ MonthOf(a) + k * StepMonths(c) \in Nat
         /\ CycleDateAt(a, c, k) = MonthAt(MonthOf(a) + k * StepMonths(c), a.day)
<1>1. a.year \in Nat /\ a.month \in 1 .. 12
  BY DEF RealDate
<1>2. StepMonths(c) \in {1, 12} /\ ~CountsDays(c)
  BY DEF StepMonths, CountsDays
<1>3. k * StepMonths(c) \in Nat
  BY <1>2
<1> DEFINE n == k * StepMonths(c)
<1>4. CycleDateAt(a, c, k)
        = TruncateToMonthEnd(a.year + ((a.month - 1 + n) \div 12), ((a.month - 1 + n) % 12) + 1, a.day)
  BY <1>2 DEF CycleDateAt
<1> HIDE DEF n
<1>5. n \in Nat
  BY <1>3 DEF n
<1>9. MonthOf(a) \in Nat
  BY <1>1, MonthOfFacts
<1>6. MonthOf(a) \in Nat /\ MonthOf(a) + n \in Nat
  BY <1>5, <1>9
<1>7. /\ (MonthOf(a) + n) \div 12 = a.year + ((a.month - 1 + n) \div 12)
      /\ (MonthOf(a) + n) % 12 = (a.month - 1 + n) % 12
  BY <1>1, <1>5, MonthOfFacts
<1>8. CycleDateAt(a, c, k) = MonthAt(MonthOf(a) + n, a.day)
  BY <1>4, <1>7 DEF MonthAt
<1> QED
  BY <1>3, <1>6, <1>8 DEF n

LEMMA MonthlyCyclesLater ==
  ASSUME NEW a \in RealDate, NEW c \in {"monthly", "annual"},
         NEW j \in Nat, NEW k \in Nat, j < k
  PROVE  /\ CycleDateAt(a, c, j) \in RealDate
         /\ DayNumber(CycleDateAt(a, c, j)) \in Int /\ DayNumber(CycleDateAt(a, c, k)) \in Int
         /\ DayNumber(CycleDateAt(a, c, j)) < DayNumber(CycleDateAt(a, c, k))
<1>1. a.day \in 1 .. 31 /\ a.year \in Nat /\ a.month \in 1 .. 12
  BY DEF RealDate
<1> DEFINE m == MonthOf(a) + j * StepMonths(c)
           n == MonthOf(a) + k * StepMonths(c)
<1>2. m \in Nat /\ n \in Nat
  BY MonthlyCycle
<1>3. m < n
  <2>1. MonthOf(a) \in Nat
    BY <1>1, MonthOfFacts
  <2>2. CASE c = "monthly"
    BY <2>1, <2>2 DEF StepMonths
  <2>3. CASE c = "annual"
    BY <2>1, <2>3 DEF StepMonths
  <2> QED
    BY <2>2, <2>3
<1>4. CycleDateAt(a, c, j) = MonthAt(m, a.day) /\ CycleDateAt(a, c, k) = MonthAt(n, a.day)
  BY MonthlyCycle
<1> HIDE DEF m, n
<1>5. MonthAt(m, a.day) \in RealDate /\ MonthAt(n, a.day) \in RealDate
  BY <1>1, <1>2, MonthAtFacts
<1>6. DayNumber(MonthAt(m, a.day)) \in Int /\ DayNumber(MonthAt(n, a.day)) \in Int
  BY <1>5, DayOfYear
<1>7. DayNumber(MonthAt(m, a.day)) < DayNumber(MonthAt(n, a.day))
  BY <1>1, <1>2, <1>3, MonthsLater
<1> QED
  BY <1>4, <1>5, <1>6, <1>7

-----------------------------------------------------------------------------
(* The search for a cycle *)

\* The loop of nextCycleDate and currentCycleDate, as what it returns from each
\* of its states: k steps after x is the first candidate not before from.
IsFirstCandidate(x, day, step, from, k) ==
    /\ k \in Nat
    /\ DayNumber(MonthAt(MonthOf(x) + k * step, day)) >= from
    /\ \A j \in Nat : j < k => DayNumber(MonthAt(MonthOf(x) + j * step, day)) < from

LEMMA FirstCandidateExists ==
  ASSUME NEW x, x.year \in Nat, x.month \in 1 .. 12, NEW day \in 1 .. 31,
         NEW step \in {1, 12}, NEW from \in Int
  PROVE  \E k : IsFirstCandidate(x, day, step, from, k)
<1> DEFINE m == MonthOf(x)
           T == {k \in Nat : DayNumber(MonthAt(m + k * step, day)) >= from}
<1>1. m \in Nat
  BY MonthOfFacts
<1> HIDE DEF m
<1>2. ASSUME NEW k \in Nat
      PROVE  /\ k * step \in Nat /\ k * step >= k /\ m + k * step \in Nat
             /\ MonthAt(m + k * step, day) \in RealDate
             /\ DayNumber(MonthAt(m + k * step, day)) \in Int
  <2>1. k * step \in Nat /\ k * step >= k /\ m + k * step \in Nat
    BY <1>1
  <2>2. MonthAt(m + k * step, day) \in RealDate
    BY <2>1, MonthAtFacts
  <2> QED
    BY <2>1, <2>2, DayOfYear
<1>3. \E k \in Nat : k \in T
  <2> DEFINE n == DayNumber(MonthAt(m, day))
             k == IF from > n THEN from - n ELSE 0
  <2>1. n \in Int
    <3>1. MonthAt(m, day) \in RealDate
      BY <1>1, MonthAtFacts
    <3> QED
      BY <3>1, DayOfYear
  <2>2. k \in Nat /\ n + k >= from
    BY <2>1
  <2> HIDE DEF k
  <2>3. /\ k * step \in Nat /\ k * step >= k
        /\ DayNumber(MonthAt(m + k * step, day)) \in Int
    BY <1>2, <2>2
  <2>4. DayNumber(MonthAt(m + k * step, day)) >= n + k * step
    BY <1>1, <2>3, MonthsReach
  <2> HIDE DEF n
  <2>5. DayNumber(MonthAt(m + k * step, day)) >= from
    BY <2>1, <2>2, <2>3, <2>4
  <2> QED
    BY <2>2, <2>5
<1>4. T \subseteq Nat /\ T # {}
  BY <1>3
<1>5. PICK k \in T : \A j \in T : k <= j
  <2> HIDE DEF T
  <2> QED
    BY <1>4, LeastElement
<1>6. ASSUME NEW j \in Nat, j < k
      PROVE  DayNumber(MonthAt(m + j * step, day)) < from
  <2>1. j \notin T
    BY <1>4, <1>5, <1>6
  <2> QED
    BY <1>2, <2>1
<1> QED
  BY <1>5, <1>6 DEF IsFirstCandidate, m

LEMMA FirstCandidateUnique ==
  ASSUME NEW x, NEW day, NEW step, NEW from \in Int, NEW j, NEW k,
         \A n \in Nat : DayNumber(MonthAt(MonthOf(x) + n * step, day)) \in Int,
         IsFirstCandidate(x, day, step, from, j), IsFirstCandidate(x, day, step, from, k)
  PROVE  j = k
  BY DEF IsFirstCandidate


\* The states of the loop.
LEMMA LoopStateFacts ==
  ASSUME NEW x \in LoopState, NEW day \in 1 .. 31, NEW step \in {1, 12}
  PROVE  LET candidate == TruncateToMonthEnd(x.at.year, x.at.month, day)
             y == [at |-> AdvanceMonth(x.at, step), latest |-> candidate]
         IN  /\ x.at.year \in Nat /\ x.at.month \in 1 .. 12
             /\ MonthOf(x.at) \in Nat
             /\ candidate = MonthAt(MonthOf(x.at), day)
             /\ y \in LoopState
             /\ MonthOf(y.at) = MonthOf(x.at) + step
             /\ y.latest = candidate
<1> DEFINE candidate == TruncateToMonthEnd(x.at.year, x.at.month, day)
           y == [at |-> AdvanceMonth(x.at, step), latest |-> candidate]
<1>1. x.at.year \in Nat /\ x.at.month \in 1 .. 12
  BY DEF LoopState
<1>2. /\ MonthOf(x.at) \in Nat
      /\ MonthOf(x.at) \div 12 = x.at.year /\ (MonthOf(x.at) % 12) + 1 = x.at.month
  BY <1>1, MonthOfFacts
<1>3. candidate = MonthAt(MonthOf(x.at), day)
  BY <1>2 DEF MonthAt
<1>4. candidate \in [year : Nat, month : 0 .. 12, day : 0 .. 31]
  <2>1. candidate \in RealDate
    BY <1>2, <1>3, MonthAtFacts
  <2> HIDE DEF candidate
  <2>2. candidate \in [year : Nat, month : 1 .. 12, day : 1 .. 31]
    BY <2>1 DEF RealDate
  <2> QED
    BY <2>2
<1> DEFINE u == AdvanceMonth(x.at, step)
<1>5. u = [year |-> x.at.year + ((x.at.month + step - 1) \div 12),
           month |-> ((x.at.month + step - 1) % 12) + 1]
  BY DEF AdvanceMonth
<1>6. /\ x.at.year + ((x.at.month + step - 1) \div 12) \in Nat
      /\ ((x.at.month + step - 1) % 12) + 1 \in 1 .. 12
  BY <1>1
<1>7. u \in [year : Nat, month : 1 .. 12]
  BY <1>5, <1>6
<1>8. MonthOf(u) = MonthOf(x.at) + step
  <2>1. MonthOf(u) = 12 * (x.at.year + ((x.at.month + step - 1) \div 12))
                        + ((x.at.month + step - 1) % 12)
    <3>1. /\ u.year = x.at.year + ((x.at.month + step - 1) \div 12)
          /\ u.month = ((x.at.month + step - 1) % 12) + 1
      BY <1>5
    <3> HIDE DEF u
    <3>2. MonthOf(u) = 12 * (x.at.year + ((x.at.month + step - 1) \div 12))
                        + ((((x.at.month + step - 1) % 12) + 1) - 1)
      BY <3>1 DEF MonthOf
    <3> QED
      BY <1>1, <3>2
  <2>2. MonthOf(x.at) = 12 * x.at.year + (x.at.month - 1)
    BY DEF MonthOf
  <2> HIDE DEF u
  <2> QED
    BY <1>1, <2>1, <2>2
<1> HIDE DEF candidate, u
<1>9. y \in LoopState /\ y.at = u /\ y.latest = candidate
  BY <1>4, <1>7 DEF LoopState, u
<1> QED
  BY <1>1, <1>2, <1>3, <1>8, <1>9 DEF candidate

\* One more step of the loop is one step less to the first candidate.
LEMMA FirstCandidateNext ==
  ASSUME NEW x, NEW y, NEW day \in 1 .. 31, NEW step \in {1, 12}, NEW from \in Int,
         x.year \in Nat, x.month \in 1 .. 12,
         MonthOf(y) = MonthOf(x) + step,
         NEW k, IsFirstCandidate(x, day, step, from, k)
  PROVE  /\ k = 0 <=> DayNumber(MonthAt(MonthOf(x), day)) >= from
         /\ k # 0 => k - 1 \in Nat /\ IsFirstCandidate(y, day, step, from, k - 1)
<1> DEFINE m == MonthOf(x)
<1>1. m \in Nat
  BY MonthOfFacts
<1>2. DayNumber(MonthAt(m, day)) \in Int
  <2>1. MonthAt(m, day) \in RealDate
    BY <1>1, MonthAtFacts
  <2> QED
    BY <2>1, DayOfYear
<1> HIDE DEF m
<1>3. m + 0 * step = m
  BY <1>1
<1>4. k \in Nat /\ DayNumber(MonthAt(m + k * step, day)) >= from
  BY DEF IsFirstCandidate, m
<1>5. \A j \in Nat : j < k => DayNumber(MonthAt(m + j * step, day)) < from
  BY DEF IsFirstCandidate, m
<1>6. k = 0 <=> DayNumber(MonthAt(m, day)) >= from
  <2>1. k = 0 => DayNumber(MonthAt(m, day)) >= from
    BY <1>3, <1>4
  <2>2. k # 0 => DayNumber(MonthAt(m, day)) < from
    BY <1>3, <1>4, <1>5
  <2> QED
    BY <1>2, <2>1, <2>2
<1>7. ASSUME k # 0
      PROVE  k - 1 \in Nat /\ IsFirstCandidate(y, day, step, from, k - 1)
  <2>1. k - 1 \in Nat
    BY <1>4, <1>7
  <2>2. \A j \in Nat : j + 1 \in Nat /\ MonthOf(y) + j * step = m + (j + 1) * step
    BY <1>1 DEF m
  <2>3. DayNumber(MonthAt(MonthOf(y) + (k - 1) * step, day)) >= from
    <3>1. (k - 1) + 1 = k
      BY <1>4
    <3> QED
      BY <1>4, <2>1, <2>2, <3>1
  <2>4. ASSUME NEW j \in Nat, j < k - 1
        PROVE  DayNumber(MonthAt(MonthOf(y) + j * step, day)) < from
    <3>1. j + 1 \in Nat /\ j + 1 < k
      BY <1>4, <2>4
    <3> QED
      BY <1>5, <2>2, <3>1
  <2> QED
    BY <2>1, <2>3, <2>4 DEF IsFirstCandidate
<1> QED
  BY <1>6, <1>7 DEF m


LEMMA SearchFacts ==
  ASSUME NEW a \in RealDate, NEW c \in {"monthly", "annual"}, NEW from \in Int,
         NEW k, IsFirstCandidate(a, a.day, StepMonths(c), from, k)
  PROVE  Search(a, c, from) =
            [candidate |-> CycleDateAt(a, c, k),
             latest |-> IF k = 0 THEN NoDate ELSE CycleDateAt(a, c, k - 1)]
<1> DEFINE S == LoopState
           day == a.day
           step == StepMonths(c)
           Candidate(x) == TruncateToMonthEnd(x.at.year, x.at.month, day)
           done == {x \in S : DayNumber(Candidate(x)) >= from}
           next == [x \in S |-> [at |-> AdvanceMonth(x.at, step), latest |-> Candidate(x)]]
           result == [x \in S |-> [candidate |-> Candidate(x), latest |-> x.latest]]
           rank == [x \in S |-> CHOOSE n : IsFirstCandidate(x.at, day, step, from, n)]
           g == [x \in S |-> [candidate |-> MonthAt(MonthOf(x.at) + rank[x] * step, day),
                              latest |-> IF rank[x] = 0 THEN x.latest
                                         ELSE MonthAt(MonthOf(x.at) + (rank[x] - 1) * step, day)]]
           D(f) == [x \in S |-> IF DayNumber(Candidate(x)) >= from
                                THEN [candidate |-> Candidate(x), latest |-> x.latest]
                                ELSE f[[at |-> AdvanceMonth(x.at, step), latest |-> Candidate(x)]]]
           loop == CHOOSE f : f = D(f)
           start == [at |-> [year |-> a.year, month |-> a.month], latest |-> NoDate]
<1>0. Search(a, c, from) = loop[start]
  BY DEF Search
<1>1. day \in 1 .. 31 /\ step \in {1, 12} /\ a.year \in Nat /\ a.month \in 1 .. 12
  BY DEF RealDate, StepMonths
<1>2. ASSUME NEW x \in S
      PROVE  /\ x.at.year \in Nat /\ x.at.month \in 1 .. 12 /\ MonthOf(x.at) \in Nat
             /\ Candidate(x) = MonthAt(MonthOf(x.at), day)
             /\ next[x] \in S
             /\ MonthOf(next[x].at) = MonthOf(x.at) + step
             /\ next[x].latest = Candidate(x)
             /\ IsFirstCandidate(x.at, day, step, from, rank[x])
             /\ rank[x] \in Nat
  <2>1. /\ x.at.year \in Nat /\ x.at.month \in 1 .. 12 /\ MonthOf(x.at) \in Nat
        /\ Candidate(x) = MonthAt(MonthOf(x.at), day)
        /\ next[x] \in S
        /\ MonthOf(next[x].at) = MonthOf(x.at) + step
        /\ next[x].latest = Candidate(x)
    BY <1>1, LoopStateFacts
  <2> HIDE DEF next, Candidate
  <2>2. \E n : IsFirstCandidate(x.at, day, step, from, n)
    BY <1>1, <2>1, FirstCandidateExists
  <2>3. IsFirstCandidate(x.at, day, step, from, rank[x])
    BY <2>2
  <2> HIDE DEF rank
  <2>4. rank[x] \in Nat
    BY <2>3 DEF IsFirstCandidate
  <2> QED
    BY <2>1, <2>3, <2>4
<1>3. ASSUME NEW x \in S, NEW n, IsFirstCandidate(x.at, day, step, from, n)
      PROVE  rank[x] = n
  <2> HIDE DEF rank, day, step, S
  <2>1. \A j \in Nat : DayNumber(MonthAt(MonthOf(x.at) + j * step, day)) \in Int
    <3> SUFFICES ASSUME NEW j \in Nat
                 PROVE  DayNumber(MonthAt(MonthOf(x.at) + j * step, day)) \in Int
      OBVIOUS
    <3>0. MonthOf(x.at) \in Nat
      BY <1>2
    <3>1. MonthOf(x.at) + j * step \in Nat
      BY <1>1, <3>0
    <3>2. MonthAt(MonthOf(x.at) + j * step, day) \in RealDate
      BY <1>1, <3>1, MonthAtFacts
    <3> QED
      BY <3>2, DayOfYear
  <2>2. IsFirstCandidate(x.at, day, step, from, rank[x])
    BY <1>2
  <2> QED
    BY <1>3, <2>1, <2>2, FirstCandidateUnique
<1>4. ASSUME NEW x \in S
      PROVE  /\ rank[x] = 0 <=> x \in done
             /\ rank[x] # 0 => rank[next[x]] = rank[x] - 1
  <2>1. /\ x.at.year \in Nat /\ x.at.month \in 1 .. 12
        /\ MonthOf(next[x].at) = MonthOf(x.at) + step
        /\ IsFirstCandidate(x.at, day, step, from, rank[x])
        /\ next[x] \in S
        /\ Candidate(x) = MonthAt(MonthOf(x.at), day)
    BY <1>2
  <2>2. x \in done <=> DayNumber(MonthAt(MonthOf(x.at), day)) >= from
    BY <2>1
  <2> HIDE DEF rank, next, day, step, S, done, Candidate
  <2>3. /\ rank[x] = 0 <=> DayNumber(MonthAt(MonthOf(x.at), day)) >= from
        /\ rank[x] # 0 => IsFirstCandidate(next[x].at, day, step, from, rank[x] - 1)
    <3> DEFINE u == x.at
               v == next[x].at
               n == rank[x]
    <3>1. /\ u.year \in Nat /\ u.month \in 1 .. 12 /\ MonthOf(v) = MonthOf(u) + step
          /\ IsFirstCandidate(u, day, step, from, n)
      BY <2>1
    <3> HIDE DEF u, v, n
    <3>2. day \in 1 .. 31 /\ step \in {1, 12} /\ from \in Int
      BY <1>1
    <3>3. /\ n = 0 <=> DayNumber(MonthAt(MonthOf(u), day)) >= from
          /\ n # 0 => IsFirstCandidate(v, day, step, from, n - 1)
      BY ONLY <3>1, <3>2, FirstCandidateNext
    <3> QED
      BY <3>3 DEF u, v, n
  <2>4. rank[x] # 0 => rank[next[x]] = rank[x] - 1
    BY <1>3, <2>1, <2>3
  <2> QED
    BY <2>2, <2>3, <2>4
<1>5. LoopEnds(S, done, next, rank)
  <2>1. next \in [S -> S] /\ rank \in [S -> Nat]
    BY <1>2
  <2>2. \A x \in S \ done : rank[next[x]] < rank[x]
    <3> HIDE DEF rank, next, done
    <3> QED
      BY <1>2, <1>4
  <2> HIDE DEF S, done, next, rank
  <2> QED
    BY <2>1, <2>2 DEF LoopEnds
<1>6. IsLoop(g, S, done, next, result)
  <2>1. ASSUME NEW x \in S, x \in done
        PROVE  g[x] = result[x]
    <3>1. rank[x] = 0 /\ MonthOf(x.at) \in Nat /\ Candidate(x) = MonthAt(MonthOf(x.at), day)
      BY <1>2, <1>4, <2>1
    <3>2. MonthOf(x.at) + 0 * step = MonthOf(x.at)
      BY <1>1, <3>1
    <3> HIDE DEF rank, step, day, S, Candidate
    <3> QED
      BY <3>1, <3>2
  <2>2. ASSUME NEW x \in S, x \notin done
        PROVE  g[x] = g[next[x]]
    <3> DEFINE y == next[x]
    <3>1. /\ rank[x] # 0 /\ rank[y] = rank[x] - 1 /\ rank[x] \in Nat /\ y \in S
          /\ MonthOf(x.at) \in Nat /\ MonthOf(y.at) = MonthOf(x.at) + step
          /\ y.latest = MonthAt(MonthOf(x.at), day)
      BY <1>2, <1>4, <2>2
    <3> HIDE DEF rank, step, day, S, y
    <3>2. /\ MonthOf(y.at) + rank[y] * step = MonthOf(x.at) + rank[x] * step
          /\ MonthOf(y.at) + (rank[y] - 1) * step = MonthOf(x.at) + (rank[x] - 1) * step
          /\ (rank[x] - 1 = 0 => MonthOf(x.at) + (rank[x] - 1) * step = MonthOf(x.at))
      BY <1>1, <3>1
    <3>3. g[x] = g[y]
      BY <3>1, <3>2
    <3> QED
      BY <3>3 DEF y
  <2> HIDE DEF next, done, result, rank
  <2> QED
    BY <2>1, <2>2 DEF IsLoop
<1>7. IsLoop(loop, S, done, next, result)
  <2>1. \A f : D(f) = [x \in S |-> IF x \in done THEN result[x] ELSE f[next[x]]]
    OBVIOUS
  <2>2. g = D(g)
    BY <1>6, <2>1 DEF IsLoop
  <2> HIDE DEF D, g
  <2>3. loop = D(loop)
    BY <2>2
  <2> QED
    BY <2>1, <2>3 DEF IsLoop
<1>8. loop = g
  <2> HIDE DEF S, done, next, result, rank, loop, g
  <2> QED
    BY <1>5, <1>6, <1>7, LoopIsUnique
<1>9. start \in S /\ MonthOf(start.at) = MonthOf(a) /\ start.latest = NoDate
  BY <1>1 DEF LoopState, NoDate, MonthOf
<1>10. rank[start] = k
  <2>1. IsFirstCandidate(start.at, day, step, from, k)
    BY <1>9 DEF IsFirstCandidate
  <2> HIDE DEF rank, day, step, start
  <2> QED
    BY <1>3, <1>9, <2>1
<1>11. k \in Nat /\ (k # 0 => k - 1 \in Nat)
  BY DEF IsFirstCandidate
<1>12. /\ CycleDateAt(a, c, k) = MonthAt(MonthOf(a) + k * step, day)
       /\ k # 0 => CycleDateAt(a, c, k - 1) = MonthAt(MonthOf(a) + (k - 1) * step, day)
  BY <1>11, MonthlyCycle
<1>13. loop[start] = [candidate |-> MonthAt(MonthOf(start.at) + rank[start] * step, day),
                     latest |-> IF rank[start] = 0 THEN start.latest
                                ELSE MonthAt(MonthOf(start.at) + (rank[start] - 1) * step, day)]
  <2> HIDE DEF rank, day, step, start, loop, S
  <2> QED
    BY <1>8, <1>9
<1> HIDE DEF rank, day, step, start, loop
<1> QED
  BY <1>0, <1>9, <1>10, <1>12, <1>13


-----------------------------------------------------------------------------
(* The cycles of a walk *)

LEMMA YearsApart ==
  ASSUME NEW y \in Nat, NEW k \in Nat
  PROVE  DaysBeforeYear(y + k) >= DaysBeforeYear(y) + 365 * k
<1> DEFINE T == {n \in Nat : DaysBeforeYear(y + n) >= DaysBeforeYear(y) + 365 * n}
<1>1. 0 \in T
  <2>1. DaysBeforeYear(y) \in Int /\ y + 0 = y
    BY YearFacts
  <2> QED
    BY <2>1
<1>2. ASSUME NEW n \in T
      PROVE  n + 1 \in T
  <2>1. y + n \in Nat /\ y + (n + 1) = (y + n) + 1 /\ n \in Nat
    OBVIOUS
  <2>2. /\ DaysBeforeYear(y + n) \in Int
        /\ DaysBeforeYear((y + n) + 1) >= DaysBeforeYear(y + n) + 365
    BY <2>1, YearFacts
  <2>3. DaysBeforeYear(y) \in Int
    BY YearFacts
  <2>4. DaysBeforeYear((y + n) + 1) \in Int
    <3>1. (y + n) + 1 \in Nat
      BY <2>1
    <3> QED
      BY <3>1, YearFacts
  <2> QED
    BY <2>1, <2>2, <2>3, <2>4
<1>3. T = Nat
  <2> HIDE DEF T
  <2>1. T \subseteq Nat
    BY DEF T
  <2> QED
    BY <1>1, <1>2, <2>1, Induction
<1> QED
  BY <1>3

LEMMA YearsOrdered ==
  ASSUME NEW y \in Nat, NEW z \in Nat, y <= z
  PROVE  /\ DaysBeforeYear(y) \in Int /\ DaysBeforeYear(z) \in Int
         /\ DaysBeforeYear(y) + 365 * (z - y) <= DaysBeforeYear(z)
         /\ DaysBeforeYear(y) <= DaysBeforeYear(z)
<1>1. z - y \in Nat /\ y + (z - y) = z
  OBVIOUS
<1>2. DaysBeforeYear(y) \in Int /\ DaysBeforeYear(z) \in Int
  BY YearFacts
<1>3. DaysBeforeYear(y) + 365 * (z - y) <= DaysBeforeYear(z)
  BY <1>1, YearsApart
<1> QED
  BY <1>1, <1>2, <1>3

LEMMA YearOfDate ==
  ASSUME NEW d \in RealDate, NEW y \in Nat, DayNumber(d) <= DaysBeforeYear(y)
  PROVE  d.year < y
<1>1. d.year \in Nat
  BY DEF RealDate
<1>2. DayNumber(d) \in Int /\ DaysBeforeYear(d.year) < DayNumber(d)
  BY DayOfYear
<1>3. DaysBeforeYear(d.year) \in Int /\ DaysBeforeYear(y) \in Int
  BY <1>1, YearFacts
<1> SUFFICES ASSUME y <= d.year
             PROVE  FALSE
  BY <1>1
<1>4. DaysBeforeYear(y) <= DaysBeforeYear(d.year)
  BY <1>1, YearsOrdered
<1> QED
  BY <1>2, <1>3, <1>4

\* An anchor is a date, of a year after the first.
LEMMA AnchorFacts ==
  ASSUME NEW a \in Anchors, NEW c \in Cadences
  PROVE  /\ a \in RealDate /\ a.year \in Years /\ a.year \in Nat /\ a.month \in 1 .. 12
         /\ Cycles[c] \in Nat
         /\ FirstYear < a.year /\ a.year + YearsAhead(c, Cycles[c] + 1) < LastYear
         /\ DayNumber(a) \in Int /\ DaysBeforeYear(FirstYear) + 365 < DayNumber(a)
<1>1. /\ a \in Date /\ Parses(a) /\ Cycles[c] \in Nat
      /\ FirstYear < a.year /\ a.year + YearsAhead(c, Cycles[c] + 1) < LastYear
  BY CalendarAssumption
<1>2. /\ a \in [year : Nat, month : 1 .. 12, day : 1 .. 31] /\ a.year \in Years
      /\ a.year \in Nat /\ a.month \in 1 .. 12
  BY <1>1, YearBounds DEF Date, Years
<1>3. a \in RealDate
  BY <1>1, <1>2 DEF RealDate
<1>4. DayNumber(a) \in Int /\ DaysBeforeYear(a.year) < DayNumber(a)
  BY <1>3, DayOfYear
<1>5. DaysBeforeYear(FirstYear) + 365 <= DaysBeforeYear(a.year)
  <2>1. /\ DaysBeforeYear(FirstYear) \in Int /\ DaysBeforeYear(a.year) \in Int
        /\ DaysBeforeYear(FirstYear) + 365 * (a.year - FirstYear) <= DaysBeforeYear(a.year)
    BY <1>1, <1>2, YearBounds, YearsOrdered
  <2>2. 365 * (a.year - FirstYear) >= 365
    BY <1>1, <1>2, YearBounds
  <2> QED
    BY <1>2, <2>1, <2>2, YearBounds
<1>6. DaysBeforeYear(FirstYear) \in Int /\ DaysBeforeYear(a.year) \in Int
  BY <1>2, YearBounds, YearFacts
<1> QED
  BY <1>1, <1>2, <1>3, <1>4, <1>5, <1>6

\* Its cycles fall on dates, before the last year.
LEMMA WalkDates ==
  ASSUME NEW a \in Anchors, NEW c \in Cadences, NEW k \in 0 .. (Cycles[c] + 1)
  PROVE  /\ CycleDateAt(a, c, k) \in RealDate
         /\ CycleDateAt(a, c, k).year \in Years /\ CycleDateAt(a, c, k).year < LastYear
         /\ DayNumber(CycleDateAt(a, c, k)) \in Int
         /\ CountsDays(c) => DayNumber(CycleDateAt(a, c, k)) = DayNumber(a) + StepDays(c) * k
<1> DEFINE e == CycleDateAt(a, c, k)
           N == Cycles[c] + 1
<1>1. /\ a \in RealDate /\ a.year \in Nat /\ a.month \in 1 .. 12 /\ Cycles[c] \in Nat
      /\ FirstYear < a.year /\ a.year + YearsAhead(c, Cycles[c] + 1) < LastYear
      /\ DayNumber(a) \in Int /\ DaysBeforeYear(FirstYear) + 365 < DayNumber(a)
  BY AnchorFacts
<1>2. k \in Nat /\ N \in Nat /\ k <= N
  BY <1>1
<1>3. CASE CountsDays(c)
  <2> DEFINE n == StepDays(c) * k
             y == a.year + (n \div 365) + 2
  <2>1. n \in Nat /\ n <= StepDays(c) * N /\ StepDays(c) * N \in Nat
    BY <1>2 DEF StepDays
  <2>2. e = AddCalendarDays(a, n)
    BY <1>3 DEF CycleDateAt
  <2>3. YearsAhead(c, N) = ((StepDays(c) * N) \div 365) + 1
    BY <1>3 DEF YearsAhead, CountsDays
  <2> DEFINE nn == StepDays(c) * N
  <2> HIDE DEF n, nn
  <2>4. y \in Nat /\ y <= LastYear /\ y - (a.year + 1) = (n \div 365) + 1 /\ a.year + 1 <= y
    <3>1. n \in Nat /\ nn \in Nat /\ n <= nn /\ a.year + ((nn \div 365) + 1) < LastYear
      BY <1>1, <2>1, <2>3 DEF nn
    <3>2. n \div 365 <= nn \div 365 /\ n \div 365 \in Nat /\ nn \div 365 \in Nat
      BY <3>1
    <3> QED
      BY <1>1, <3>1, <3>2, YearBounds
  <2> HIDE DEF y
  <2>5. DayNumber(a) <= DaysBeforeYear(a.year + 1)
    BY <1>1, DayOfYear
  <2>6. /\ DaysBeforeYear(a.year + 1) + 365 * (y - (a.year + 1)) <= DaysBeforeYear(y)
        /\ DaysBeforeYear(y) <= DaysBeforeYear(LastYear)
        /\ DaysBeforeYear(LastYear) <= DaysBeforeYear(LastYear + 1)
        /\ DaysBeforeYear(a.year + 1) \in Int /\ DaysBeforeYear(y) \in Int
        /\ DaysBeforeYear(LastYear) \in Int /\ DaysBeforeYear(LastYear + 1) \in Int
    <3>1. a.year + 1 \in Nat /\ LastYear + 1 \in Nat /\ LastYear <= LastYear + 1
      BY <1>1, YearBounds
    <3>2. /\ DaysBeforeYear(a.year + 1) + 365 * (y - (a.year + 1)) <= DaysBeforeYear(y)
          /\ DaysBeforeYear(a.year + 1) \in Int /\ DaysBeforeYear(y) \in Int
      BY <2>4, <3>1, YearsOrdered
    <3>3. DaysBeforeYear(y) <= DaysBeforeYear(LastYear)
      BY <2>4, YearBounds, YearsOrdered
    <3>4. /\ DaysBeforeYear(LastYear) <= DaysBeforeYear(LastYear + 1)
          /\ DaysBeforeYear(LastYear) \in Int /\ DaysBeforeYear(LastYear + 1) \in Int
      BY <3>1, YearBounds, YearsOrdered
    <3> QED
      BY <3>2, <3>3, <3>4
  <2>7. 365 * (y - (a.year + 1)) >= n /\ 365 * (y - (a.year + 1)) \in Int
    BY <2>1, <2>4
  <2>8. DayNumber(a) + n <= DaysBeforeYear(LastYear) /\ DayNumber(a) + n \in Days
    <3>1. DaysBeforeYear(FirstYear) \in Int
      BY YearBounds, YearFacts
    <3> QED
      BY <1>1, <2>1, <2>5, <2>6, <2>7, <3>1 DEF Days
  <2>9. e \in RealDate /\ e.year \in Years /\ DayNumber(e) = DayNumber(a) + n
    <3> HIDE DEF e
    <3> QED
      BY <1>1, <2>1, <2>2, <2>8, DaysAdded
  <2>10. e.year < LastYear
    <3> HIDE DEF e
    <3> QED
      BY <2>8, <2>9, YearBounds, YearOfDate
  <2> QED
    BY <1>1, <2>1, <2>9, <2>10 DEF n
<1>4. CASE ~CountsDays(c)
  <2>1. c \in {"monthly", "annual"}
    BY <1>4 DEF CountsDays, Cadences
  <2> DEFINE n == k * StepMonths(c)
             m == MonthOf(a) + n
  <2>2. n \in Nat /\ m \in Nat /\ e = MonthAt(m, a.day)
    BY <1>1, <1>2, <2>1, MonthlyCycle
  <2>3. m \div 12 = a.year + ((a.month - 1 + n) \div 12)
    <3> HIDE DEF n
    <3> QED
      BY <1>1, <2>2, MonthOfFacts
  <2>4. a.year + ((a.month - 1 + n) \div 12) < LastYear
    <3>1. CASE c = "annual"
      <4>1. n = 12 * k /\ YearsAhead(c, N) = N
        BY <1>2, <3>1 DEF StepMonths, YearsAhead
      <4>2. (a.month - 1 + 12 * k) \div 12 = k
        BY <1>1, <1>2
      <4> QED
        BY <1>1, <1>2, <4>1, <4>2, YearBounds
    <3>2. CASE c = "monthly"
      <4>1. n = k /\ YearsAhead(c, N) = (N \div 12) + 1
        BY <1>2, <3>2 DEF StepMonths, YearsAhead
      <4>2. (a.month - 1 + k) \div 12 <= (N \div 12) + 1
        BY <1>1, <1>2
      <4> HIDE DEF N, n
      <4>3. (a.month - 1 + k) \div 12 \in Int /\ (N \div 12) + 1 \in Int
        BY <1>1, <1>2
      <4>4. a.year + ((N \div 12) + 1) < LastYear
        BY <1>1, <4>1 DEF N
      <4> QED
        BY <1>1, <4>1, <4>2, <4>3, <4>4, YearBounds
    <3> QED
      BY <2>1, <3>1, <3>2
  <2>5. e \in RealDate /\ e.year = m \div 12
    <3>1. a.day \in 1 .. 31
      BY <1>1 DEF RealDate
    <3> HIDE DEF m, e
    <3> QED
      BY <2>2, <3>1, MonthAtFacts
  <2> HIDE DEF e, m, n
  <2>6. e.year < LastYear /\ e.year \in Nat /\ a.year <= e.year
    <3>1. (a.month - 1 + n) \div 12 \in Nat
      BY <1>1, <2>2
    <3> QED
      BY <1>1, <2>3, <2>4, <2>5, <3>1
  <2>7. e.year \in Years
    BY <1>1, <2>6, YearBounds DEF Years
  <2>8. DayNumber(e) \in Int
    BY <2>5, DayOfYear
  <2> QED
    BY <1>4, <2>5, <2>6, <2>7, <2>8 DEF e
<1> QED
  BY <1>3, <1>4


LEMMA FirstCycleIsAnchor ==
  ASSUME NEW a \in Anchors, NEW c \in Cadences
  PROVE  CycleDateAt(a, c, 0) = a
<1>1. /\ a \in RealDate /\ a.year \in Years /\ a.year \in Nat /\ a.month \in 1 .. 12
      /\ DayNumber(a) \in Int
  BY AnchorFacts
<1>2. CASE CountsDays(c)
  <2>1. CycleDateAt(a, c, 0) = AddCalendarDays(a, StepDays(c) * 0) /\ StepDays(c) * 0 = 0
    BY <1>2 DEF CycleDateAt, StepDays
  <2>2. AddCalendarDays(a, 0) = DateOf(DayNumber(a))
    BY <1>1 DEF AddCalendarDays
  <2> QED
    BY <1>1, <2>1, <2>2, DayOfDate
<1>3. CASE ~CountsDays(c)
  <2>1. CycleDateAt(a, c, 0) = TruncateToMonthEnd(a.year, a.month, a.day)
    <3>1. 0 * StepMonths(c) = 0
      BY DEF StepMonths
    <3>2. a.year + ((a.month - 1 + 0) \div 12) = a.year /\ ((a.month - 1 + 0) % 12) + 1 = a.month
      BY <1>1
    <3> QED
      BY <1>3, <3>1, <3>2 DEF CycleDateAt
  <2>2. /\ a.day <= DaysInMonth(a.year, a.month)
        /\ a = [year |-> a.year, month |-> a.month, day |-> a.day]
    BY <1>1 DEF RealDate, Parses
  <2> QED
    BY <2>1, <2>2 DEF TruncateToMonthEnd
<1> QED
  BY <1>2, <1>3

\* Each cycle comes after the one before.
LEMMA WalkLater ==
  ASSUME NEW a \in Anchors, NEW c \in Cadences,
         NEW j \in Nat, NEW k \in Nat, j < k, k <= Cycles[c] + 1
  PROVE  DayNumber(CycleDateAt(a, c, j)) < DayNumber(CycleDateAt(a, c, k))
<1>1. a \in RealDate /\ DayNumber(a) \in Int /\ Cycles[c] \in Nat
  BY AnchorFacts
<1>2. j \in 0 .. (Cycles[c] + 1) /\ k \in 0 .. (Cycles[c] + 1)
  BY <1>1
<1>3. CASE CountsDays(c)
  <2>1. /\ DayNumber(CycleDateAt(a, c, j)) = DayNumber(a) + StepDays(c) * j
        /\ DayNumber(CycleDateAt(a, c, k)) = DayNumber(a) + StepDays(c) * k
    BY <1>2, <1>3, WalkDates
  <2>2. StepDays(c) * j < StepDays(c) * k /\ StepDays(c) * j \in Int /\ StepDays(c) * k \in Int
    BY DEF StepDays
  <2> QED
    BY <1>1, <2>1, <2>2
<1>4. CASE ~CountsDays(c)
  <2>1. c \in {"monthly", "annual"}
    BY <1>4 DEF CountsDays, Cadences
  <2> QED
    BY <1>1, <2>1, MonthlyCyclesLater
<1> QED
  BY <1>3, <1>4

\* Cycles that count months are four weeks apart, at least.
LEMMA MonthsApart ==
  ASSUME NEW m \in Nat, NEW day \in 1 .. 31
  PROVE  DayNumber(MonthAt(m + 1, day)) >= DayNumber(MonthAt(m, day)) + 28
<1> DEFINE d == MonthAt(m, day)
           e == MonthAt(m + 1, day)
           y == m \div 12
           i == (m % 12) + 1
<1>1. y \in Nat /\ i \in 1 .. 12 /\ m + 1 \in Nat
  OBVIOUS
<1>2. \/ i < 12 /\ (m + 1) \div 12 = y /\ ((m + 1) % 12) + 1 = i + 1
      \/ i = 12 /\ (m + 1) \div 12 = y + 1 /\ ((m + 1) % 12) + 1 = 1
  OBVIOUS
<1>3. /\ d \in RealDate /\ d.year = y /\ d.month = i
      /\ d.day = day \/ (d.day < day /\ d.day = DaysInMonth(y, i))
  BY MonthAtFacts
<1>4. /\ e \in RealDate /\ e.year = (m + 1) \div 12 /\ e.month = ((m + 1) % 12) + 1
      /\ \/ e.day = day
         \/ e.day < day /\ e.day = DaysInMonth((m + 1) \div 12, ((m + 1) % 12) + 1)
  BY <1>1, MonthAtFacts
<1> HIDE DEF d, e, y, i
<1>5. /\ d.day \in 1 .. DaysInMonth(y, i) /\ e.day \in Nat
      /\ DaysInMonth(y, i) \in 28 .. 31
      /\ DaysBeforeMonth(y, i + 1) = DaysBeforeMonth(y, i) + DaysInMonth(y, i)
      /\ DaysBeforeMonth(y, i) \in Nat
  <2>1. d.day \in 1 .. DaysInMonth(y, i)
    BY <1>3 DEF RealDate, Parses
  <2>2. e.day \in Nat
    BY <1>4 DEF RealDate
  <2> QED
    BY <1>1, <2>1, <2>2, MonthFacts
<1>6. /\ DaysBeforeYear(y) \in Int /\ DayNumber(d) = DaysBeforeYear(y) + DaysBeforeMonth(y, i) + d.day
  BY <1>1, <1>3, YearFacts DEF DayNumber
<1>7. DayNumber(e) = DaysBeforeYear(y) + DaysBeforeMonth(y, i + 1) + e.day
  <2>1. CASE i < 12
    BY <1>2, <1>4, <2>1 DEF DayNumber
  <2>2. CASE i = 12
    <3>1. e.year = y + 1 /\ e.month = 1 /\ y + 1 \in Nat
      BY <1>1, <1>2, <1>4, <2>2
    <3>2. DaysBeforeYear(y + 1) = DaysBeforeYear(y) + DaysBeforeMonth(y, 13)
      BY <1>1, YearFacts
    <3>3. DaysBeforeMonth(y + 1, 1) = 0
      BY <3>1, YearFacts
    <3>4. DayNumber(e) = DaysBeforeYear(y) + DaysBeforeMonth(y, 13) + 0 + e.day
      BY <3>1, <3>2, <3>3 DEF DayNumber
    <3>5. i + 1 = 13 /\ DaysBeforeMonth(y, 13) \in {365, 366}
      BY <1>1, <2>2, YearFacts
    <3> QED
      BY <1>5, <1>6, <3>4, <3>5
  <2> QED
    BY <1>1, <2>1, <2>2
<1>8. e.day = day \/ (e.day < day /\ e.day >= 28)
  <2>1. CASE e.day = day
    BY <2>1
  <2>2. CASE e.day < day /\ e.day = DaysInMonth((m + 1) \div 12, ((m + 1) % 12) + 1)
    <3>1. (m + 1) \div 12 \in Nat /\ ((m + 1) % 12) + 1 \in 1 .. 12
      OBVIOUS
    <3>2. DaysInMonth((m + 1) \div 12, ((m + 1) % 12) + 1) \in 28 .. 31
      BY <3>1, MonthFacts
    <3> QED
      BY <2>2, <3>2
  <2> QED
    BY <1>4, <2>1, <2>2
<1>9. DayNumber(e) >= DayNumber(d) + 28
  BY <1>3, <1>5, <1>6, <1>7, <1>8
<1> QED
  BY <1>9 DEF d, e

\* A week apart, at least, unless they are daily.
LEMMA WalkApart ==
  ASSUME NEW a \in Anchors, NEW c \in Cadences \ {"daily"}, NEW k \in 0 .. Cycles[c]
  PROVE  DayNumber(CycleDateAt(a, c, k)) + 6 < DayNumber(CycleDateAt(a, c, k + 1))
<1>1. /\ a \in RealDate /\ DayNumber(a) \in Int /\ Cycles[c] \in Nat
      /\ a.year \in Nat /\ a.month \in 1 .. 12 /\ a.day \in 1 .. 31
  BY AnchorFacts DEF RealDate
<1>2. k \in Nat /\ k + 1 \in Nat /\ k \in 0 .. (Cycles[c] + 1) /\ k + 1 \in 0 .. (Cycles[c] + 1)
  BY <1>1
<1>3. CASE c = "weekly"
  <2>1. /\ DayNumber(CycleDateAt(a, c, k)) = DayNumber(a) + StepDays(c) * k
        /\ DayNumber(CycleDateAt(a, c, k + 1)) = DayNumber(a) + StepDays(c) * (k + 1)
    BY <1>2, <1>3, WalkDates DEF CountsDays
  <2>2. StepDays(c) = 7
    BY <1>3 DEF StepDays
  <2> QED
    BY <1>1, <1>2, <2>1, <2>2
<1>4. CASE c \in {"monthly", "annual"}
  <2> DEFINE m == MonthOf(a) + k * StepMonths(c)
             n == MonthOf(a) + (k + 1) * StepMonths(c)
  <2>1. m \in Nat /\ n \in Nat
    BY <1>1, <1>2, <1>4, MonthlyCycle
  <2>2. CycleDateAt(a, c, k) = MonthAt(m, a.day) /\ CycleDateAt(a, c, k + 1) = MonthAt(n, a.day)
    BY <1>1, <1>2, <1>4, MonthlyCycle
  <2>3. m + 1 <= n
    <3>1. MonthOf(a) \in Nat
      BY <1>1, MonthOfFacts
    <3>2. StepMonths(c) \in {1, 12}
      BY DEF StepMonths
    <3> QED
      BY <1>2, <3>1, <3>2
  <2> HIDE DEF m, n
  <2>4. DayNumber(MonthAt(m + 1, a.day)) >= DayNumber(MonthAt(m, a.day)) + 28
    BY <1>1, <2>1, MonthsApart
  <2>5. DayNumber(MonthAt(n, a.day)) >= DayNumber(MonthAt(m + 1, a.day))
    <3>1. CASE m + 1 = n
      <4>1. MonthAt(n, a.day) \in RealDate
        BY <1>1, <2>1, MonthAtFacts
      <4> QED
        BY <3>1, <4>1, DayOfYear
    <3>2. CASE m + 1 < n
      <4>0. m + 1 \in Nat
        BY <2>1
      <4>1. DayNumber(MonthAt(m + 1, a.day)) < DayNumber(MonthAt(n, a.day))
        BY <1>1, <2>1, <3>2, <4>0, MonthsLater
      <4>2. MonthAt(n, a.day) \in RealDate /\ MonthAt(m + 1, a.day) \in RealDate
        BY <1>1, <2>1, <4>0, MonthAtFacts
      <4>3. DayNumber(MonthAt(n, a.day)) \in Int /\ DayNumber(MonthAt(m + 1, a.day)) \in Int
        BY <4>2, DayOfYear
      <4> QED
        BY <4>1, <4>3
    <3> QED
      BY <2>1, <2>3, <3>1, <3>2
  <2>6. /\ DayNumber(MonthAt(m, a.day)) \in Int /\ DayNumber(MonthAt(n, a.day)) \in Int
        /\ DayNumber(MonthAt(m + 1, a.day)) \in Int
    <3>0. m + 1 \in Nat
      BY <2>1
    <3>1. /\ MonthAt(m, a.day) \in RealDate /\ MonthAt(n, a.day) \in RealDate
          /\ MonthAt(m + 1, a.day) \in RealDate
      BY <1>1, <2>1, <3>0, MonthAtFacts
    <3> QED
      BY <3>1, DayOfYear
  <2> QED
    BY <2>2, <2>4, <2>5, <2>6
<1> QED
  BY <1>3, <1>4 DEF Cadences


-----------------------------------------------------------------------------
(* What the two searches find *)

LEMMA FirstMonthlyCycle ==
  ASSUME NEW a \in RealDate, NEW c \in {"monthly", "annual"}, NEW from \in Int, NEW k \in Nat,
         DayNumber(CycleDateAt(a, c, k)) >= from,
         k # 0 => DayNumber(CycleDateAt(a, c, k - 1)) < from
  PROVE  IsFirstCandidate(a, a.day, StepMonths(c), from, k)
<1>1. ASSUME NEW j \in Nat, j < k
      PROVE  DayNumber(CycleDateAt(a, c, j)) < from
  <2>1. k # 0 /\ k - 1 \in Nat /\ j <= k - 1 /\ k - 1 < k
    BY <1>1
  <2>2. DayNumber(CycleDateAt(a, c, k - 1)) < from /\ DayNumber(CycleDateAt(a, c, k - 1)) \in Int
    BY <2>1, MonthlyCyclesLater
  <2>3. CASE j = k - 1
    BY <2>2, <2>3
  <2>4. CASE j < k - 1
    <3>1. /\ DayNumber(CycleDateAt(a, c, j)) < DayNumber(CycleDateAt(a, c, k - 1))
          /\ DayNumber(CycleDateAt(a, c, j)) \in Int
      BY <2>1, <2>4, MonthlyCyclesLater
    <3> QED
      BY <2>2, <3>1
  <2> QED
    BY <2>1, <2>3, <2>4
<1>2. \A j \in Nat : CycleDateAt(a, c, j) = MonthAt(MonthOf(a) + j * StepMonths(c), a.day)
  BY MonthlyCycle
<1> QED
  BY <1>1, <1>2 DEF IsFirstCandidate

\* nextCycleDate finds the cycle between the one before today and the one not
\* before today.
LEMMA NextCycleIs ==
  ASSUME NEW a \in Anchors, NEW c \in Cadences, NEW t, DayNumber(t) \in Int,
         NEW k \in 0 .. Cycles[c],
         DayNumber(t) <= DayNumber(CycleDateAt(a, c, k)),
         k # 0 => DayNumber(CycleDateAt(a, c, k - 1)) < DayNumber(t)
  PROVE  NextCycleDate(a, c, t) = CycleDateAt(a, c, k)
<1>1. a \in RealDate /\ DayNumber(a) \in Int /\ Cycles[c] \in Nat
  BY AnchorFacts
<1>2. k \in Nat /\ k \in 0 .. (Cycles[c] + 1) /\ (k # 0 => k - 1 \in Nat /\ k - 1 \in 0 .. (Cycles[c] + 1))
  BY <1>1
<1>3. CycleDateAt(a, c, 0) = a
  BY FirstCycleIsAnchor
<1>4. k # 0 => DayNumber(a) < DayNumber(t)
  <2> SUFFICES ASSUME k # 0
               PROVE  DayNumber(a) < DayNumber(t)
    OBVIOUS
  <2>1. DayNumber(CycleDateAt(a, c, k - 1)) \in Int
    BY <1>2, WalkDates
  <2>2. CASE k - 1 = 0
    BY <1>3, <2>2
  <2>3. CASE k - 1 # 0
    <3>1. 0 < k - 1 /\ k - 1 <= Cycles[c] + 1
      BY <1>1, <1>2, <2>3
    <3>2. DayNumber(CycleDateAt(a, c, 0)) < DayNumber(CycleDateAt(a, c, k - 1))
      BY <1>2, <3>1, WalkLater
    <3> QED
      BY <1>1, <1>3, <2>1, <3>2
  <2> QED
    BY <2>2, <2>3
<1>5. CASE k = 0
  <2>1. DayNumber(t) <= DayNumber(a)
    BY <1>3, <1>5
  <2> QED
    BY <1>3, <1>5, <2>1 DEF NextCycleDate
<1>6. CASE k # 0 /\ CountsDays(c)
  <2>1. /\ DayNumber(CycleDateAt(a, c, k)) = DayNumber(a) + StepDays(c) * k
        /\ DayNumber(CycleDateAt(a, c, k - 1)) = DayNumber(a) + StepDays(c) * (k - 1)
    BY <1>2, <1>6, WalkDates
  <2>2. StepDays(c) \in {1, 7}
    BY DEF StepDays
  <2> DEFINE n == DayNumber(t) - DayNumber(a)
  <2>3. n \in Int /\ n <= StepDays(c) * k /\ StepDays(c) * (k - 1) < n
    BY <1>1, <1>2, <1>6, <2>1, <2>2
  <2>4. Ceil(n, StepDays(c)) = k
    <3> HIDE DEF n
    <3>1. CASE StepDays(c) = 1
      BY <1>2, <2>3, <3>1 DEF Ceil
    <3>2. CASE StepDays(c) = 7
      BY <1>2, <2>3, <3>2 DEF Ceil
    <3> QED
      BY <2>2, <3>1, <3>2
  <2>5. NextCycleDate(a, c, t) = AddCalendarDays(a, StepDays(c) * k)
    BY <1>1, <1>4, <1>6, <2>4 DEF NextCycleDate
  <2> QED
    BY <1>6, <2>5 DEF CycleDateAt
<1>7. CASE k # 0 /\ ~CountsDays(c)
  <2>1. c \in {"monthly", "annual"}
    BY <1>7 DEF CountsDays, Cadences
  <2>2. DayNumber(CycleDateAt(a, c, k)) \in Int
    BY <1>2, WalkDates
  <2>3. DayNumber(CycleDateAt(a, c, k)) >= DayNumber(t)
    BY <2>2
  <2>4. IsFirstCandidate(a, a.day, StepMonths(c), DayNumber(t), k)
    BY <1>1, <1>2, <2>1, <2>3, FirstMonthlyCycle
  <2> DEFINE from == DayNumber(t)
             latest == IF k = 0 THEN NoDate ELSE CycleDateAt(a, c, k - 1)
  <2>6. from \in Int /\ IsFirstCandidate(a, a.day, StepMonths(c), from, k)
    BY <2>4
  <2> HIDE DEF from
  <2>8. a \in RealDate
    BY <1>1
  <2>9. Search(a, c, from) = [candidate |-> CycleDateAt(a, c, k),
                              latest |-> IF k = 0 THEN NoDate ELSE CycleDateAt(a, c, k - 1)]
    BY ONLY <2>1, <2>6, <2>8, SearchFacts
  <2>7. Search(a, c, from) = [candidate |-> CycleDateAt(a, c, k), latest |-> latest]
    BY <2>9
  <2> HIDE DEF latest
  <2>5. Search(a, c, DayNumber(t)).candidate = CycleDateAt(a, c, k)
    BY <2>7 DEF from
  <2> QED
    BY <1>1, <1>4, <1>7, <2>5 DEF NextCycleDate
<1> QED
  BY <1>5, <1>6, <1>7

\* currentCycleDate finds the cycle that today is in.
LEMMA CurrentCycleIs ==
  ASSUME NEW a \in Anchors, NEW c \in Cadences, NEW t, DayNumber(t) \in Int,
         NEW k \in 0 .. Cycles[c],
         DayNumber(CycleDateAt(a, c, k)) <= DayNumber(t),
         DayNumber(t) < DayNumber(CycleDateAt(a, c, k + 1))
  PROVE  CurrentCycleDate(a, c, t) = CycleDateAt(a, c, k)
<1>1. a \in RealDate /\ DayNumber(a) \in Int /\ Cycles[c] \in Nat
  BY AnchorFacts
<1>2. /\ k \in Nat /\ k + 1 \in Nat /\ k \in 0 .. (Cycles[c] + 1) /\ k + 1 \in 0 .. (Cycles[c] + 1)
      /\ k + 1 # 0 /\ (k + 1) - 1 = k
  BY <1>1
<1>3. DayNumber(CycleDateAt(a, c, k)) \in Int /\ DayNumber(CycleDateAt(a, c, k + 1)) \in Int
  BY <1>2, WalkDates
<1>4. ~(DayNumber(t) < DayNumber(a))
  <2>1. CycleDateAt(a, c, 0) = a
    BY FirstCycleIsAnchor
  <2>2. CASE k = 0
    BY <1>1, <2>1, <2>2
  <2>3. CASE 0 < k
    <3>1. DayNumber(CycleDateAt(a, c, 0)) < DayNumber(CycleDateAt(a, c, k))
      BY <1>1, <1>2, <2>3, WalkLater
    <3> QED
      BY <1>1, <1>3, <2>1, <3>1
  <2> QED
    BY <1>2, <2>2, <2>3
<1>5. CASE CountsDays(c)
  <2>1. /\ DayNumber(CycleDateAt(a, c, k)) = DayNumber(a) + StepDays(c) * k
        /\ DayNumber(CycleDateAt(a, c, k + 1)) = DayNumber(a) + StepDays(c) * (k + 1)
    BY <1>2, <1>5, WalkDates
  <2>2. StepDays(c) \in {1, 7}
    BY DEF StepDays
  <2> DEFINE n == DayNumber(t) - DayNumber(a)
  <2>3. n \in Int /\ StepDays(c) * k <= n /\ n < StepDays(c) * (k + 1)
    BY <1>1, <1>2, <2>1, <2>2
  <2>4. n \div StepDays(c) = k
    <3> HIDE DEF n
    <3>1. CASE StepDays(c) = 1
      BY <1>2, <2>3, <3>1
    <3>2. CASE StepDays(c) = 7
      BY <1>2, <2>3, <3>2
    <3> QED
      BY <2>2, <3>1, <3>2
  <2>5. CurrentCycleDate(a, c, t) = AddCalendarDays(a, StepDays(c) * k)
    BY <1>4, <1>5, <2>4 DEF CurrentCycleDate
  <2> QED
    BY <1>5, <2>5 DEF CycleDateAt
<1>6. CASE ~CountsDays(c)
  <2>1. c \in {"monthly", "annual"}
    BY <1>6 DEF CountsDays, Cadences
  <2>2. /\ DayNumber(t) + 1 \in Int
        /\ DayNumber(CycleDateAt(a, c, k + 1)) >= DayNumber(t) + 1
        /\ DayNumber(CycleDateAt(a, c, k)) < DayNumber(t) + 1
    BY <1>3
  <2>3. IsFirstCandidate(a, a.day, StepMonths(c), DayNumber(t) + 1, k + 1)
    BY <1>1, <1>2, <2>1, <2>2, FirstMonthlyCycle
  <2> DEFINE from == DayNumber(t) + 1
             n == k + 1
  <2>5. /\ from \in Int /\ IsFirstCandidate(a, a.day, StepMonths(c), from, n)
        /\ n # 0 /\ n - 1 = k
    BY <1>2, <2>2, <2>3
  <2> HIDE DEF from, n
  <2>6. Search(a, c, from) = [candidate |-> CycleDateAt(a, c, n),
                              latest |-> IF n = 0 THEN NoDate ELSE CycleDateAt(a, c, n - 1)]
    BY <1>1, <2>1, <2>5, SearchFacts
  <2>4. Search(a, c, DayNumber(t) + 1).latest = CycleDateAt(a, c, k)
    BY <2>5, <2>6 DEF from
  <2> QED
    BY <1>4, <1>6, <2>4 DEF CurrentCycleDate
<1> QED
  BY <1>5, <1>6

\* There are such cycles, up to the last of the walk.
LEMMA NextCycleExists ==
  ASSUME NEW a \in Anchors, NEW c \in Cadences, NEW n \in Int,
         n <= DayNumber(CycleDateAt(a, c, Cycles[c]))
  PROVE  \E k \in 0 .. Cycles[c] :
            /\ n <= DayNumber(CycleDateAt(a, c, k))
            /\ k # 0 => DayNumber(CycleDateAt(a, c, k - 1)) < n
<1> DEFINE N == Cycles[c]
           T == {k \in 0 .. N : n <= DayNumber(CycleDateAt(a, c, k))}
<1>1. N \in Nat
  BY AnchorFacts
<1>2. T \subseteq Nat /\ N \in T
  BY <1>1
<1>3. PICK k \in T : \A j \in T : k <= j
  <2> HIDE DEF T
  <2> QED
    BY <1>2, LeastElement
<1>4. k \in 0 .. N /\ k \in Nat /\ n <= DayNumber(CycleDateAt(a, c, k))
  BY <1>1
<1>5. ASSUME k # 0
      PROVE  DayNumber(CycleDateAt(a, c, k - 1)) < n
  <2>1. k - 1 \in 0 .. N /\ k - 1 \in 0 .. (N + 1) /\ ~(k <= k - 1)
    BY <1>1, <1>4, <1>5
  <2>2. DayNumber(CycleDateAt(a, c, k - 1)) \in Int
    BY <2>1, WalkDates
  <2>3. k - 1 \notin T
    BY <1>3, <2>1
  <2> QED
    BY <2>1, <2>2, <2>3
<1> QED
  BY <1>4, <1>5

LEMMA CurrentCycleExists ==
  ASSUME NEW a \in Anchors, NEW c \in Cadences, NEW n \in Int,
         DayNumber(a) <= n, n <= DayNumber(CycleDateAt(a, c, Cycles[c]))
  PROVE  \E k \in 0 .. Cycles[c] :
            /\ DayNumber(CycleDateAt(a, c, k)) <= n
            /\ n < DayNumber(CycleDateAt(a, c, k + 1))
<1> DEFINE N == Cycles[c]
           T == {k \in 0 .. (N + 1) : n < DayNumber(CycleDateAt(a, c, k))}
<1>1. N \in Nat /\ DayNumber(a) \in Int /\ CycleDateAt(a, c, 0) = a
  BY AnchorFacts, FirstCycleIsAnchor
<1>2. T \subseteq Nat /\ N + 1 \in T
  <2>1. /\ DayNumber(CycleDateAt(a, c, N)) \in Int /\ DayNumber(CycleDateAt(a, c, N + 1)) \in Int
    BY <1>1, WalkDates
  <2>2. DayNumber(CycleDateAt(a, c, N)) < DayNumber(CycleDateAt(a, c, N + 1))
    <3>1. N < N + 1 /\ N + 1 \in Nat /\ N + 1 <= Cycles[c] + 1
      BY <1>1
    <3> QED
      BY <1>1, <3>1, WalkLater
  <2> QED
    BY <1>1, <2>1, <2>2
<1>3. PICK k \in T : \A j \in T : k <= j
  <2> HIDE DEF T
  <2> QED
    BY <1>2, LeastElement
<1>4. k \in 0 .. (N + 1) /\ k \in Nat /\ n < DayNumber(CycleDateAt(a, c, k))
  BY <1>1
<1>5. k # 0
  BY <1>1, <1>4
<1>6. k - 1 \in 0 .. N /\ k - 1 \in 0 .. (N + 1) /\ ~(k <= k - 1) /\ (k - 1) + 1 = k
  BY <1>1, <1>4, <1>5
<1>7. DayNumber(CycleDateAt(a, c, k - 1)) <= n
  <2>1. DayNumber(CycleDateAt(a, c, k - 1)) \in Int
    BY <1>6, WalkDates
  <2>2. k - 1 \notin T
    BY <1>3, <1>6
  <2> QED
    BY <1>6, <2>1, <2>2
<1> QED
  BY <1>4, <1>6, <1>7


-----------------------------------------------------------------------------
(* The walk *)

\* The days of the walk are dates, from two days before the anchor up to the last
\* cycle.
CalendarIInv ==
    /\ anchor \in Anchors /\ cadence \in Cadences
    /\ today \in RealDate /\ today.year \in Years
    /\ DayNumber(anchor) - 2 <= DayNumber(today)
    /\ DayNumber(today) <= DayNumber(Nominal(Cycles[cadence]))

LEMMA CalendarIInvInit ==
  ASSUME CalendarInit
  PROVE  CalendarIInv
<1> DEFINE N == Cycles[cadence]
<1>1. anchor \in Anchors /\ cadence \in Cadences /\ today = AddCalendarDays(anchor, -2)
  BY DEF CalendarInit
<1>2. /\ anchor \in RealDate /\ anchor.year \in Years /\ DayNumber(anchor) \in Int /\ N \in Nat
      /\ DaysBeforeYear(FirstYear) + 365 < DayNumber(anchor)
  BY <1>1, AnchorFacts
<1>3. DayNumber(anchor) - 2 \in Days
  <2>1. DayNumber(anchor) \in Days
    BY <1>2, DayOfDate
  <2>2. DaysBeforeYear(FirstYear) \in Int /\ DaysBeforeYear(LastYear + 1) \in Int
    BY YearBounds, YearFacts
  <2> QED
    BY <1>2, <2>1, <2>2 DEF Days
<1>4. today \in RealDate /\ today.year \in Years /\ DayNumber(today) = DayNumber(anchor) - 2
  <2>1. DayNumber(anchor) + (-2) = DayNumber(anchor) - 2 /\ -2 \in Int
    BY <1>2
  <2>2. DayNumber(anchor) + (-2) \in Days
    BY <1>3, <2>1
  <2> QED
    BY <1>1, <1>2, <2>1, <2>2, DaysAdded
<1>5. DayNumber(anchor) <= DayNumber(Nominal(N))
  <2>1. Nominal(0) = anchor
    BY <1>1, FirstCycleIsAnchor DEF Nominal
  <2>2. CASE N = 0
    BY <1>2, <2>1, <2>2
  <2>3. CASE 0 < N
    <3>1. N <= Cycles[cadence] + 1 /\ N \in 0 .. (Cycles[cadence] + 1)
      BY <1>2
    <3>2. DayNumber(CycleDateAt(anchor, cadence, 0)) < DayNumber(CycleDateAt(anchor, cadence, N))
      BY <1>1, <1>2, <2>3, <3>1, WalkLater
    <3>3. DayNumber(CycleDateAt(anchor, cadence, N)) \in Int
      BY <1>1, <3>1, WalkDates
    <3> QED
      BY <1>2, <2>1, <3>2, <3>3 DEF Nominal
  <2> QED
    BY <1>2, <2>2, <2>3
<1>6. DayNumber(Nominal(N)) \in Int
  <2>1. N \in 0 .. (Cycles[cadence] + 1)
    BY <1>2
  <2> QED
    BY <1>1, <2>1, WalkDates DEF Nominal
<1> QED
  BY <1>1, <1>2, <1>4, <1>5, <1>6 DEF CalendarIInv

LEMMA CalendarIInvStep ==
  ASSUME CalendarIInv, [DayPasses]_calendarVars
  PROVE  CalendarIInv'
<1> DEFINE last == CycleDateAt(anchor, cadence, Cycles[cadence])
<1>1. /\ anchor \in Anchors /\ cadence \in Cadences
      /\ today \in RealDate /\ today.year \in Years
      /\ DayNumber(anchor) - 2 <= DayNumber(today) /\ DayNumber(today) <= DayNumber(last)
  BY DEF CalendarIInv, Nominal
<1>2. last \in RealDate /\ last.year \in Years /\ DayNumber(anchor) \in Int
  <2>1. Cycles[cadence] \in 0 .. (Cycles[cadence] + 1) /\ DayNumber(anchor) \in Int
    BY <1>1, AnchorFacts
  <2> QED
    BY <1>1, <2>1, WalkDates
<1>3. CASE DayPasses
  <2>1. /\ Before(today, last) /\ today' = AddCalendarDays(today, 1)
        /\ anchor' = anchor /\ cadence' = cadence
    BY <1>3 DEF DayPasses
  <2> HIDE DEF last
  <2>2. DayNumber(today) < DayNumber(last)
    BY <1>1, <1>2, <2>1, BeforeIsEarlier
  <2>3. DayNumber(today) \in Days /\ DayNumber(last) \in Days
    BY <1>1, <1>2, DayOfDate
  <2>4. /\ DayNumber(today) \in Int /\ DayNumber(last) \in Int
        /\ DaysBeforeYear(FirstYear) \in Int /\ DaysBeforeYear(LastYear + 1) \in Int
    <3>1. DaysBeforeYear(FirstYear) \in Int /\ DaysBeforeYear(LastYear + 1) \in Int
      BY YearBounds, YearFacts
    <3> QED
      BY <2>3, <3>1 DEF Days
  <2>5. DayNumber(today) + 1 \in Days
    BY <2>2, <2>3, <2>4 DEF Days
  <2>6. /\ AddCalendarDays(today, 1) \in RealDate /\ AddCalendarDays(today, 1).year \in Years
        /\ DayNumber(AddCalendarDays(today, 1)) = DayNumber(today) + 1
    BY <1>1, <2>5, DaysAdded
  <2>7. /\ DayNumber(anchor) - 2 <= DayNumber(AddCalendarDays(today, 1))
        /\ DayNumber(AddCalendarDays(today, 1)) <= DayNumber(last)
    BY <1>1, <1>2, <2>2, <2>4, <2>6
  <2>8. Nominal(Cycles[cadence])' = last
    BY <2>1 DEF last, Nominal
  <2>9. /\ anchor' \in Anchors /\ cadence' \in Cadences
        /\ today' \in RealDate /\ today.year' \in Years
        /\ DayNumber(anchor') - 2 <= DayNumber(today') /\ DayNumber(today') <= DayNumber(last)
    BY <1>1, <2>1, <2>6, <2>7
  <2> QED
    BY <2>8, <2>9 DEF CalendarIInv
<1>4. CASE UNCHANGED calendarVars
  BY <1>4 DEF CalendarIInv, calendarVars, Nominal
<1> QED
  BY <1>3, <1>4

\* The days of the walk are the dates between the anchor and the last cycle.
THEOREM CalendarInvariant == CalendarSpec => []CalendarIInv
<1>1. CalendarInit => CalendarIInv
  BY CalendarIInvInit
<1>2. CalendarIInv /\ [DayPasses]_calendarVars => CalendarIInv'
  BY CalendarIInvStep
<1> QED
  BY <1>1, <1>2, PTL DEF CalendarSpec


\* What the walk is about: the last cycle is not past, and the years suffice.
LEMMA WalkFacts ==
  ASSUME CalendarIInv
  PROVE  /\ anchor \in Anchors /\ cadence \in Cadences /\ Cycles[cadence] \in Nat
         /\ anchor \in RealDate /\ DayNumber(anchor) \in Int
         /\ today \in RealDate /\ today.year \in Years /\ today.year < LastYear
         /\ DayNumber(today) \in Int
         /\ DayNumber(today) <= DayNumber(CycleDateAt(anchor, cadence, Cycles[cadence]))
<1> DEFINE last == CycleDateAt(anchor, cadence, Cycles[cadence])
<1>1. /\ anchor \in Anchors /\ cadence \in Cadences
      /\ today \in RealDate /\ today.year \in Years
      /\ DayNumber(today) <= DayNumber(last)
  BY DEF CalendarIInv, Nominal
<1>2. anchor \in RealDate /\ DayNumber(anchor) \in Int /\ Cycles[cadence] \in Nat
  BY <1>1, AnchorFacts
<1>3. last \in RealDate /\ last.year < LastYear
  <2>1. Cycles[cadence] \in 0 .. (Cycles[cadence] + 1)
    BY <1>2
  <2> QED
    BY <1>1, <2>1, WalkDates
<1>4. DayNumber(today) \in Int
  BY <1>1, DayOfYear
<1>5. today.year <= last.year
  <2> HIDE DEF last
  <2>1. today = last \/ Before(today, last)
    BY <1>1, <1>3, BeforeIsEarlier DEF NotAfter
  <2>2. today.year \in Nat /\ last.year \in Nat
    BY <1>1, <1>3 DEF RealDate
  <2> QED
    BY <2>1, <2>2 DEF Before
<1>6. today.year < LastYear
  <2>1. today.year \in Nat /\ last.year \in Nat
    BY <1>1, <1>3 DEF RealDate
  <2> HIDE DEF last
  <2> QED
    BY <1>3, <1>5, <2>1, YearBounds
<1> QED
  BY <1>1, <1>2, <1>4, <1>6

LEMMA NextBusinessDayIs ==
  ASSUME NEW span \in 0 .. MaxLookaheadDays, BusinessDayWithin(span),
         NEW d \in RealDate, d.year \in Years, d.year < LastYear
  PROVE  \E n \in 0 .. span :
            /\ IsFirstBusinessDay(d, n)
            /\ NextBusinessDay(d) = AddCalendarDays(d, n)
            /\ NextBusinessDay(d) \in RealDate
            /\ DayNumber(NextBusinessDay(d)) = DayNumber(d) + n
<1>1. d \in Date /\ Parses(d)
  <2>1. /\ d \in [year : Nat, month : 1 .. 12, day : 1 .. 31] /\ Parses(d)
    BY DEF RealDate
  <2> QED
    BY <2>1 DEF Date
<1>2. PICK n \in 0 .. span : /\ DayNumber(d) + n \in Days
                             /\ IsBusinessDay(AddCalendarDays(d, n))
  BY <1>1 DEF BusinessDayWithin
<1>3. span \in Nat /\ span <= MaxLookaheadDays /\ MaxLookaheadDays \in Nat
  BY DEF MaxLookaheadDays
<1>4. n \in 0 .. MaxLookaheadDays /\ n \in Nat /\ n <= span
  BY <1>3
<1>5. PICK m \in 0 .. n : IsFirstBusinessDay(d, m)
  BY <1>2, <1>4, FirstBusinessDay
<1>6. m \in 0 .. span /\ m \in Nat /\ m <= n /\ m \in Int
  BY <1>3, <1>4
<1>7. DayNumber(d) + m \in Days
  <2>1. DayNumber(d) \in Days
    BY DayOfDate
  <2>2. DaysBeforeYear(FirstYear) \in Int /\ DaysBeforeYear(LastYear + 1) \in Int
    BY YearBounds, YearFacts
  <2> QED
    BY <1>2, <1>4, <1>6, <2>1, <2>2 DEF Days
<1>8. NextBusinessDay(d) = AddCalendarDays(d, m)
  BY <1>5, NextBusinessDayFacts
<1>9. /\ AddCalendarDays(d, m) \in RealDate
      /\ DayNumber(AddCalendarDays(d, m)) = DayNumber(d) + m
  BY <1>6, <1>7, DaysAdded
<1> QED
  BY <1>5, <1>6, <1>8, <1>9

-----------------------------------------------------------------------------
(* The theorems *)

\* CyclesAdvance for every anchor, cadence and number of cycles.
THEOREM CyclesAdvanceAlways == CalendarSpec => []CyclesAdvance
<1>1. CalendarIInv => CyclesAdvance
  <2> SUFFICES ASSUME CalendarIInv, NEW k \in Indices
               PROVE  /\ k > 0 => Before(Nominal(k - 1), Nominal(k))
                      /\ ~CountsDays(cadence) =>
                            \/ Nominal(k).day = anchor.day
                            \/ /\ Nominal(k).day < anchor.day
                               /\ Nominal(k).day = DaysInMonth(Nominal(k).year, Nominal(k).month)
    BY DEF CyclesAdvance
  <2>1. /\ anchor \in Anchors /\ cadence \in Cadences /\ Cycles[cadence] \in Nat
        /\ anchor \in RealDate
    BY WalkFacts
  <2>2. k \in Nat /\ k <= Cycles[cadence] /\ k \in 0 .. (Cycles[cadence] + 1)
    BY <2>1 DEF Indices
  <2>3. ASSUME k > 0
        PROVE  Before(Nominal(k - 1), Nominal(k))
    <3>1. /\ k - 1 \in Nat /\ k - 1 < k /\ k <= Cycles[cadence] + 1
          /\ k - 1 \in 0 .. (Cycles[cadence] + 1)
      BY <2>1, <2>2, <2>3
    <3>2. DayNumber(Nominal(k - 1)) < DayNumber(Nominal(k))
      BY <2>1, <2>2, <3>1, WalkLater DEF Nominal
    <3>3. Nominal(k - 1) \in RealDate /\ Nominal(k) \in RealDate
      BY <2>1, <2>2, <3>1, WalkDates DEF Nominal
    <3> QED
      BY <3>2, <3>3, BeforeIsEarlier
  <2>4. ASSUME ~CountsDays(cadence)
        PROVE  \/ Nominal(k).day = anchor.day
               \/ /\ Nominal(k).day < anchor.day
                  /\ Nominal(k).day = DaysInMonth(Nominal(k).year, Nominal(k).month)
    <3>1. cadence \in {"monthly", "annual"}
      BY <2>1, <2>4 DEF CountsDays, Cadences
    <3> DEFINE m == MonthOf(anchor) + k * StepMonths(cadence)
               d == MonthAt(m, anchor.day)
    <3>2. m \in Nat /\ Nominal(k) = d
      BY <2>1, <2>2, <3>1, MonthlyCycle DEF Nominal
    <3> HIDE DEF m
    <3>3. anchor.day \in 1 .. 31
      BY <2>1 DEF RealDate
    <3>4. /\ d.year = m \div 12 /\ d.month = (m % 12) + 1
          /\ \/ d.day = anchor.day
             \/ d.day < anchor.day /\ d.day = DaysInMonth(m \div 12, (m % 12) + 1)
      BY <3>2, <3>3, MonthAtFacts
    <3> HIDE DEF d
    <3> QED
      BY <3>2, <3>4
  <2> QED
    BY <2>3, <2>4
<1> QED
  BY <1>1, CalendarInvariant, PTL

\* CurrentIsTheLastCycle: the search of currentCycleDate and the count of cycleDateAt
\* name the same cycle.
THEOREM CurrentCycleAlways == CalendarSpec => []CurrentIsTheLastCycle
<1>1. CalendarIInv => CurrentIsTheLastCycle
  <2> SUFFICES ASSUME CalendarIInv
               PROVE  CurrentIsTheLastCycle
    OBVIOUS
  <2>1. /\ anchor \in Anchors /\ cadence \in Cadences /\ Cycles[cadence] \in Nat
        /\ anchor \in RealDate /\ DayNumber(anchor) \in Int
        /\ today \in RealDate /\ DayNumber(today) \in Int
        /\ DayNumber(today) <= DayNumber(CycleDateAt(anchor, cadence, Cycles[cadence]))
    BY WalkFacts
  <2>2. Before(today, anchor) <=> DayNumber(today) < DayNumber(anchor)
    BY <2>1, BeforeIsEarlier
  <2>3. CASE Before(today, anchor)
    BY <2>2, <2>3 DEF CurrentIsTheLastCycle, CurrentCycleDate
  <2>4. CASE ~Before(today, anchor)
    <3>1. DayNumber(anchor) <= DayNumber(today)
      BY <2>1, <2>2, <2>4
    <3>2. PICK k \in 0 .. Cycles[cadence] :
             /\ DayNumber(Nominal(k)) <= DayNumber(today)
             /\ DayNumber(today) < DayNumber(Nominal(k + 1))
      BY <2>1, <3>1, CurrentCycleExists DEF Nominal
    <3>3. k \in 0 .. (Cycles[cadence] + 1) /\ k + 1 \in 0 .. (Cycles[cadence] + 1)
      BY <2>1
    <3>4. Nominal(k) \in RealDate /\ Nominal(k + 1) \in RealDate
      BY <2>1, <3>3, WalkDates DEF Nominal
    <3>5. NotAfter(Nominal(k), today) /\ Before(today, Nominal(k + 1))
      BY <2>1, <3>2, <3>4, BeforeIsEarlier
    <3>6. CurrentCycleDate(anchor, cadence, today) = Nominal(k)
      BY <2>1, <3>2, CurrentCycleIs DEF Nominal
    <3> QED
      BY <2>4, <3>5, <3>6 DEF CurrentIsTheLastCycle, Indices
  <2> QED
    BY <2>3, <2>4
<1> QED
  BY <1>1, CalendarInvariant, PTL

\* NextIsTheFirstCycle: nextCycleDate finds the first cycle from the day on.
THEOREM NextCycleAlways == CalendarSpec => []NextIsTheFirstCycle
<1>1. CalendarIInv => NextIsTheFirstCycle
  <2> SUFFICES ASSUME CalendarIInv
               PROVE  NextIsTheFirstCycle
    OBVIOUS
  <2>1. /\ anchor \in Anchors /\ cadence \in Cadences /\ Cycles[cadence] \in Nat
        /\ today \in RealDate /\ DayNumber(today) \in Int
        /\ DayNumber(today) <= DayNumber(CycleDateAt(anchor, cadence, Cycles[cadence]))
    BY WalkFacts
  <2>2. PICK k \in 0 .. Cycles[cadence] :
           /\ DayNumber(today) <= DayNumber(Nominal(k))
           /\ k # 0 => DayNumber(Nominal(k - 1)) < DayNumber(today)
    BY <2>1, NextCycleExists DEF Nominal
  <2>3. k \in 0 .. (Cycles[cadence] + 1) /\ (k > 0 => k # 0 /\ k - 1 \in 0 .. (Cycles[cadence] + 1))
    BY <2>1
  <2>4. Nominal(k) \in RealDate /\ (k > 0 => Nominal(k - 1) \in RealDate)
    BY <2>1, <2>3, WalkDates DEF Nominal
  <2>5. NotAfter(today, Nominal(k))
    BY <2>1, <2>2, <2>4, BeforeIsEarlier
  <2>6. k > 0 => Before(Nominal(k - 1), today)
    BY <2>1, <2>2, <2>3, <2>4, BeforeIsEarlier
  <2>7. NextCycleDate(anchor, cadence, today) = Nominal(k)
    BY <2>1, <2>2, NextCycleIs DEF Nominal
  <2> QED
    BY <2>5, <2>6, <2>7 DEF NextIsTheFirstCycle, Indices
<1> QED
  BY <1>1, CalendarInvariant, PTL

\* CalendarTypeOK, as long as the holidays leave a business day within the
\* lookahead of nextBusinessDay, which throws when they do not.
THEOREM CalendarTypes ==
  ASSUME BusinessDayWithin(MaxLookaheadDays)
  PROVE  CalendarSpec => []CalendarTypeOK
<1>1. CalendarIInv => CalendarTypeOK
  <2> SUFFICES ASSUME CalendarIInv
               PROVE  CalendarTypeOK
    OBVIOUS
  <2>1. /\ anchor \in Anchors /\ cadence \in Cadences /\ Cycles[cadence] \in Nat
        /\ anchor \in RealDate /\ DayNumber(anchor) \in Int
        /\ today \in RealDate /\ today.year \in Years /\ today.year < LastYear
        /\ DayNumber(today) \in Int
        /\ DayNumber(today) <= DayNumber(CycleDateAt(anchor, cadence, Cycles[cadence]))
    BY WalkFacts
  <2>2. anchor \in Date
    BY <2>1, CalendarAssumption
  <2>3. Parses(NextBusinessDay(today))
    <3>1. MaxLookaheadDays \in 0 .. MaxLookaheadDays
      BY DEF MaxLookaheadDays
    <3>2. NextBusinessDay(today) \in RealDate
      BY <2>1, <3>1, NextBusinessDayIs
    <3> QED
      BY <3>2 DEF RealDate
  <2>4. Parses(NextCycleDate(anchor, cadence, today))
    <3>1. PICK k \in 0 .. Cycles[cadence] :
             /\ DayNumber(today) <= DayNumber(CycleDateAt(anchor, cadence, k))
             /\ k # 0 => DayNumber(CycleDateAt(anchor, cadence, k - 1)) < DayNumber(today)
      BY <2>1, NextCycleExists
    <3>2. NextCycleDate(anchor, cadence, today) = CycleDateAt(anchor, cadence, k)
      BY <2>1, <3>1, NextCycleIs
    <3>3. k \in 0 .. (Cycles[cadence] + 1)
      BY <2>1
    <3>4. CycleDateAt(anchor, cadence, k) \in RealDate
      BY <2>1, <3>3, WalkDates
    <3> QED
      BY <3>2, <3>4 DEF RealDate
  <2>5. ASSUME ~Before(today, anchor)
        PROVE  Parses(CurrentCycleDate(anchor, cadence, today))
    <3>1. DayNumber(anchor) <= DayNumber(today)
      BY <2>1, <2>5, BeforeIsEarlier
    <3>2. PICK k \in 0 .. Cycles[cadence] :
             /\ DayNumber(CycleDateAt(anchor, cadence, k)) <= DayNumber(today)
             /\ DayNumber(today) < DayNumber(CycleDateAt(anchor, cadence, k + 1))
      BY <2>1, <3>1, CurrentCycleExists
    <3>3. CurrentCycleDate(anchor, cadence, today) = CycleDateAt(anchor, cadence, k)
      BY <2>1, <3>2, CurrentCycleIs
    <3>4. k \in 0 .. (Cycles[cadence] + 1)
      BY <2>1
    <3>5. CycleDateAt(anchor, cadence, k) \in RealDate
      BY <2>1, <3>4, WalkDates
    <3> QED
      BY <3>3, <3>5 DEF RealDate
  <2> QED
    BY <2>1, <2>2, <2>3, <2>4, <2>5 DEF CalendarTypeOK, RealDate
<1> QED
  BY <1>1, CalendarInvariant, PTL

\* ChargedOnItsDay, as long as no more than six days in a row are without business:
\* weekly cycles that fall into a longer run would be shifted into the next one.
THEOREM ChargedOnItsDayAlways ==
  ASSUME BusinessDayWithin(6)
  PROVE  CalendarSpec => []ChargedOnItsDay
<1>1. CalendarIInv => ChargedOnItsDay
  <2> SUFFICES ASSUME CalendarIInv, NEW k \in Indices, today = NextBusinessDay(Nominal(k))
               PROVE  /\ IsBusinessDay(today)
                      /\ \A n \in 0 .. (DayNumber(today) - DayNumber(Nominal(k)) - 1) :
                             ~IsBusinessDay(AddCalendarDays(Nominal(k), n))
                      /\ cadence # "daily" =>
                             CurrentCycleDate(anchor, cadence, today) = Nominal(k)
    BY DEF ChargedOnItsDay
  <2> DEFINE d == Nominal(k)
  <2>1. /\ anchor \in Anchors /\ cadence \in Cadences /\ Cycles[cadence] \in Nat
        /\ DayNumber(today) \in Int
    BY WalkFacts
  <2>2. k \in 0 .. Cycles[cadence] /\ k \in 0 .. (Cycles[cadence] + 1)
        /\ k + 1 \in 0 .. (Cycles[cadence] + 1)
    BY <2>1 DEF Indices
  <2>3. d \in RealDate /\ d.year \in Years /\ d.year < LastYear /\ DayNumber(d) \in Int
    BY <2>1, <2>2, WalkDates DEF Nominal
  <2>4. PICK n \in 0 .. 6 : /\ IsFirstBusinessDay(d, n)
                            /\ NextBusinessDay(d) = AddCalendarDays(d, n)
                            /\ DayNumber(NextBusinessDay(d)) = DayNumber(d) + n
    <3>1. 6 \in 0 .. MaxLookaheadDays
      BY DEF MaxLookaheadDays
    <3> HIDE DEF d
    <3> QED
      BY <2>3, <3>1, NextBusinessDayIs
  <2>5. DayNumber(today) - DayNumber(d) - 1 = n - 1
    BY <2>3, <2>4
  <2>6. /\ IsBusinessDay(today)
        /\ \A i \in 0 .. (n - 1) : ~IsBusinessDay(AddCalendarDays(d, i))
    BY <2>4 DEF IsFirstBusinessDay
  <2>7. ASSUME cadence # "daily"
        PROVE  CurrentCycleDate(anchor, cadence, today) = Nominal(k)
    <3>1. DayNumber(d) + 6 < DayNumber(Nominal(k + 1))
      BY <2>1, <2>2, <2>7, WalkApart DEF Nominal
    <3>2. DayNumber(Nominal(k + 1)) \in Int
      BY <2>1, <2>2, WalkDates DEF Nominal
    <3>3. DayNumber(d) <= DayNumber(today) /\ DayNumber(today) < DayNumber(Nominal(k + 1))
      BY <2>3, <2>4, <3>1, <3>2
    <3> QED
      BY <2>1, <2>2, <3>3, CurrentCycleIs DEF Nominal
  <2> QED
    BY <2>5, <2>6, <2>7
<1> QED
  BY <1>1, CalendarInvariant, PTL
=============================================================================
