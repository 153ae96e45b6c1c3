---------------------------- MODULE BrowseProofs ----------------------------
(***************************************************************************)
(* Theorems about the calendar of Period, in every year and however an     *)
(* instant is measured, and about Browse and its HeaderCache, which extend *)
(* and instantiate it.                                                     *)
(*                                                                         *)
(* The calendar.  A day is in one year because years grow (YearsGrow), and *)
(* the year is among those that MonthOf tries because a year has 365 days  *)
(* or 366.  The recursion of available_periods is solved by MonthAt, which *)
(* counts months through.                                                  *)
(*                                                                         *)
(* The cache.  What stands behind a key in the order was used since that   *)
(* key was (ByUse), so the first keys, which put pops, are the oldest.     *)
(*                                                                         *)
(* The browses.  Messages that came for a month are of that month ever     *)
(* after (ListedStays), so what a worker has collected and what the cache  *)
(* keeps stay right while mail comes and goes (BrowseInv).                 *)
(*                                                                         *)
(* The pages.  As long as nothing changes, what a browse has been given is *)
(* the first part of the listing, newest first, with either provider's way *)
(* of going on (GivenTo); so what it ends with is the newest of what there *)
(* is (FoundTheNewest).  What is kept of a whole month leaves nothing out  *)
(* that was there when it was listed (KeptWhole).                          *)
(***************************************************************************)
EXTENDS Browse, SelectionProofs

LEMMA DaysAreWhole ==
    ASSUME NEW year \in Nat, NEW month \in 1 .. 12
    PROVE  /\ DaysBefore(year) \in Int
           /\ DaysInYear(year, month) \in Int
           /\ monthrange(year, month) \in 28 .. 31
  <1>1. DaysBefore(year) \in Int
    BY DEF DaysBefore
  <1>2. DaysInYear(year, month) \in Int
    BY DEF DaysInYear
  <1>3. monthrange(year, month) \in 28 .. 31
    BY DEF monthrange
  <1> QED
    BY <1>1, <1>2, <1>3

(* A year has as many days before the next as its months have. *)
LEMMA YearsMeet ==
    ASSUME NEW year \in Nat, year > 0
    PROVE  DaysBefore(year + 1) = DaysBefore(year) + 365 + (IF IsLeap(year) THEN 1 ELSE 0)
  <1>1. year \div 4 = (year - 1) \div 4 + (IF year % 4 = 0 THEN 1 ELSE 0)
    OBVIOUS
  <1>2. year \div 100 = (year - 1) \div 100 + (IF year % 100 = 0 THEN 1 ELSE 0)
    OBVIOUS
  <1>3. year \div 400 = (year - 1) \div 400 + (IF year % 400 = 0 THEN 1 ELSE 0)
    OBVIOUS
  <1>4. (year % 400 = 0 => year % 100 = 0) /\ (year % 100 = 0 => year % 4 = 0)
    OBVIOUS
  <1> QED
    BY <1>1, <1>2, <1>3, <1>4 DEF DaysBefore, IsLeap

(* Within a year, the days of a month end where the next month begins. *)
LEMMA MonthsOfAYearMeet ==
    ASSUME NEW year \in Nat, NEW month \in 1 .. 11
    PROVE  DaysInYear(year, month) + monthrange(year, month) = DaysInYear(year, month + 1)
  BY DEF DaysInYear, monthrange

(* The last instant of a day and the first of the next. *)
LEMMA DaysMeet ==
    ASSUME NEW days \in Int
    PROVE  days * DayTicks + (DayTicks - 1) + 1 = (days + 1) * DayTicks + 0
  BY TicksAssumption

(* The half-open bounds of a month end exactly where those of the next     *)
(* begin, over leap years, centuries and the turn of the year: a message   *)
(* falls through no gap between two reports and into no two of them        *)
(* (month_bounds: "Return [start, end) for a month").                       *)
THEOREM MonthsMeet ==
    ASSUME NEW year \in Nat, year > 1, NEW month \in 1 .. 12
    PROVE  month_bounds(Preceding(Month(year, month))).end
             = month_bounds(Month(year, month)).start
  <1> DEFINE p == Preceding(Month(year, month))
             days == DaysBefore(p.year) + DaysInYear(p.year, p.month)
                     + monthrange(p.year, p.month) - 1
  <1>1. p.year \in Nat /\ p.month \in 1 .. 12
    BY DEF Preceding, Month
  <1>2. days + 1 = DaysBefore(year) + DaysInYear(year, month) + 1 - 1
    <2>1. CASE month = 1
      <3>1. p.year = year - 1 /\ p.month = 12
        BY <2>1 DEF Preceding, Month
      <3>2. DaysInYear(year - 1, 12) + monthrange(year - 1, 12)
              = 365 + (IF IsLeap(year - 1) THEN 1 ELSE 0)
        BY DEF DaysInYear, monthrange
      <3>3. DaysInYear(year, 1) = 0
        BY DEF DaysInYear
      <3>4. DaysBefore(year) = DaysBefore(year - 1) + 365 + (IF IsLeap(year - 1) THEN 1 ELSE 0)
        BY YearsMeet
      <3>5. /\ DaysBefore(year - 1) \in Int
            /\ DaysInYear(year - 1, 12) \in Int /\ monthrange(year - 1, 12) \in Int
        BY DaysAreWhole
      <3> QED
        BY <2>1, <3>1, <3>2, <3>3, <3>4, <3>5
    <2>2. CASE month # 1
      <3>1. p.year = year /\ p.month = month - 1 /\ month - 1 \in 1 .. 11
        BY <2>2 DEF Preceding, Month
      <3>2. DaysInYear(year, month - 1) + monthrange(year, month - 1) = DaysInYear(year, month)
        BY <3>1, MonthsOfAYearMeet
      <3>3. /\ DaysBefore(year) \in Int /\ DaysInYear(year, month) \in Int
            /\ DaysInYear(year, month - 1) \in Int /\ monthrange(year, month - 1) \in Int
        BY <3>1, DaysAreWhole
      <3> QED
        BY <3>1, <3>2, <3>3
    <2> QED
      BY <2>1, <2>2
  <1>3. days \in Int
    BY <1>1, DaysAreWhole
  <1>4. month_bounds(p).end = days * DayTicks + (DayTicks - 1) + 1
    BY DEF month_bounds, datetime
  <1>5. month_bounds(Month(year, month)).start
          = (DaysBefore(year) + DaysInYear(year, month) + 1 - 1) * DayTicks + 0
    BY DEF month_bounds, datetime, Month
  <1> QED
    BY <1>2, <1>3, <1>4, <1>5, DaysMeet
-----------------------------------------------------------------------------
(* Which month an instant is in.                                           *)

(* Years do not overlap, and have 365 days or 366.                         *)
LEMMA YearsGrow ==
    ASSUME NEW year \in Nat \ {0}
    PROVE  /\ DaysBefore(year) \in 365 * (year - 1) .. 366 * (year - 1)
           /\ \A later \in Nat : year < later => DaysBefore(year + 1) <= DaysBefore(later)
  BY DEF DaysBefore

(* Nor do the months of a year.                                            *)
LEMMA MonthsGrow ==
    ASSUME NEW year \in Nat, NEW month \in 1 .. 11, NEW later \in 1 .. 12, month < later
    PROVE  DaysInYear(year, month + 1) <= DaysInYear(year, later)
  BY DEF DaysInYear

(* Every day is in one year, and the search of MonthOf comes upon it.      *)
Years(day) == day \div 366 .. day \div 365 + 1
IsYearOf(y, day) == DaysBefore(y) <= day /\ day < DaysBefore(y + 1)

LEMMA YearOfDay ==
    ASSUME NEW day \in Nat
    PROVE  /\ \E y \in Years(day) : y \in Nat \ {0} /\ IsYearOf(y, day)
           /\ \A y, z \in Nat \ {0} : IsYearOf(y, day) /\ IsYearOf(z, day) => y = z
           /\ \A y \in Nat \ {0} : IsYearOf(y, day) => y \in Years(day)
           /\ \A y \in Years(day) : IsYearOf(y, day) => y \in Nat \ {0}
  <1>1. \A y \in Nat \ {0} : DaysBefore(y) \in Int /\ DaysBefore(y + 1) \in Int
    BY DEF DaysBefore
  <1>2. \A y \in Nat \ {0} : IsYearOf(y, day) => y \in Years(day)
    <2>1. SUFFICES ASSUME NEW y \in Nat \ {0}, IsYearOf(y, day)
                   PROVE  y \in Years(day)
      OBVIOUS
    <2>2. 365 * (y - 1) <= day /\ day < 366 * y
      <3>1. DaysBefore(y) >= 365 * (y - 1)
        BY YearsGrow
      <3>2. DaysBefore(y + 1) <= 366 * y
        BY YearsGrow
      <3> QED
        BY <1>1, <2>1, <3>1, <3>2 DEF IsYearOf
    <2> QED
      BY <2>2 DEF Years
  <1>3. \A y \in Years(day) : IsYearOf(y, day) => y \in Nat \ {0}
    <2>1. SUFFICES ASSUME NEW y \in Years(day), IsYearOf(y, day), y = 0
                   PROVE  FALSE
      BY DEF Years
    <2>2. DaysBefore(1) = 0
      BY DEF DaysBefore
    <2> QED
      BY <2>1, <2>2 DEF IsYearOf
  <1>4. \E y \in Nat \ {0} : IsYearOf(y, day)
    <2> DEFINE S == {y \in Nat \ {0} : day < DaysBefore(y + 1)}
    <2>1. day + 1 \in S
      <3>1. DaysBefore(day + 2) >= 365 * (day + 1)
        BY YearsGrow
      <3> QED
        BY <3>1, <1>1
    <2>2. PICK y \in S : \A z \in S : y <= z
      BY <2>1, NatMin
    <2>3. CASE y = 1
      BY <2>2, <2>3 DEF IsYearOf, DaysBefore
    <2>4. CASE y # 1
      <3>1. y - 1 \in Nat \ {0} /\ y - 1 \notin S
        BY <2>2, <2>4
      <3>2. DaysBefore(y) <= day
        BY <3>1, <1>1
      <3> QED
        BY <2>2, <3>2 DEF IsYearOf
    <2> QED
      BY <2>3, <2>4
  <1>5. \A y, z \in Nat \ {0} : IsYearOf(y, day) /\ IsYearOf(z, day) => ~(y < z)
    <2>1. SUFFICES ASSUME NEW y \in Nat \ {0}, NEW z \in Nat \ {0},
                          IsYearOf(y, day), IsYearOf(z, day), y < z
                   PROVE  FALSE
      OBVIOUS
    <2>2. DaysBefore(y + 1) <= DaysBefore(z)
      BY <2>1, YearsGrow
    <2> QED
      BY <1>1, <2>1, <2>2 DEF IsYearOf
  <1> QED
    BY <1>2, <1>3, <1>4, <1>5

IsMonthOf(m, year, day) ==
    /\ DaysBefore(year) + DaysInYear(year, m) <= day
    /\ m < 12 => day < DaysBefore(year) + DaysInYear(year, m + 1)

LEMMA MonthOfDay ==
    ASSUME NEW day \in Nat, NEW year \in Nat \ {0}, IsYearOf(year, day)
    PROVE  /\ \E m \in 1 .. 12 : IsMonthOf(m, year, day)
           /\ \A m, n \in 1 .. 12 : IsMonthOf(m, year, day) /\ IsMonthOf(n, year, day) => m = n
  <1>1. DaysBefore(year) \in Int
    BY DEF DaysBefore
  <1>2. \A m \in 1 .. 12 : DaysInYear(year, m) \in Int
    BY DaysAreWhole
  <1>3. DaysInYear(year, 1) = 0
    BY DEF DaysInYear
  <1>4. \E m \in 1 .. 12 : IsMonthOf(m, year, day)
    <2> DEFINE S == {m \in 1 .. 12 : m < 12 => day < DaysBefore(year) + DaysInYear(year, m + 1)}
    <2>1. 12 \in S
      OBVIOUS
    <2>2. PICK m \in S : \A n \in S : m <= n
      BY <2>1, NatMin
    <2>3. DaysBefore(year) + DaysInYear(year, m) <= day
      <3>1. CASE m = 1
        BY <1>1, <1>3, <3>1 DEF IsYearOf
      <3>2. CASE m # 1
        <4>1. m - 1 \in 1 .. 11 /\ m - 1 \notin S
          BY <2>2, <3>2
        <4> QED
          BY <1>1, <1>2, <4>1
      <3> QED
        BY <3>1, <3>2
    <2> QED
      BY <2>2, <2>3 DEF IsMonthOf
  <1>5. \A m, n \in 1 .. 12 :
            IsMonthOf(m, year, day) /\ IsMonthOf(n, year, day) => ~(m < n)
    <2>1. SUFFICES ASSUME NEW m \in 1 .. 12, NEW n \in 1 .. 12,
                          IsMonthOf(m, year, day), IsMonthOf(n, year, day), m < n
                   PROVE  FALSE
      OBVIOUS
    <2>2. m \in 1 .. 11
      BY <2>1
    <2>3. DaysInYear(year, m + 1) <= DaysInYear(year, n)
      BY <2>1, <2>2, MonthsGrow
    <2>4. DaysInYear(year, m + 1) \in Int /\ DaysInYear(year, n) \in Int
      BY <1>2, <2>2
    <2> QED
      BY <1>1, <2>1, <2>2, <2>3, <2>4 DEF IsMonthOf
  <1> QED
    BY <1>4, <1>5

(* MonthOf is the one month of the one year that the day is in.            *)
LEMMA MonthOfIsTheMonth ==
    ASSUME NEW instant \in Nat
    PROVE  LET day == instant \div DayTicks IN
           \E year \in Nat \ {0}, month \in 1 .. 12 :
               /\ IsYearOf(year, day) /\ IsMonthOf(month, year, day)
               /\ MonthOf(instant) = Month(year, month)
  <1> DEFINE day == instant \div DayTicks
             isYear(y) == IsYearOf(y, day)
             year == CHOOSE y \in Years(day) : isYear(y)
             isMonth(m) == IsMonthOf(m, year, day)
             month == CHOOSE m \in 1 .. 12 : isMonth(m)
  <1>1. day \in Nat
    BY TicksAssumption
  <1>2. MonthOf(instant) = Month(year, month)
    BY DEF MonthOf, Years, IsYearOf, IsMonthOf
  <1> HIDE DEF day
  <1>3. year \in Nat \ {0} /\ isYear(year)
    BY <1>1, YearOfDay
  <1> HIDE DEF year
  <1>4. month \in 1 .. 12 /\ isMonth(month)
    BY <1>1, <1>3, MonthOfDay
  <1> HIDE DEF month
  <1> QED
    BY <1>2, <1>3, <1>4 DEF day

LEMMA TicksOfDays ==
    ASSUME NEW instant \in Nat, NEW days \in Int
    PROVE  days * DayTicks <= instant <=> days <= instant \div DayTicks
  <1> DEFINE day == instant \div DayTicks
             tick == instant % DayTicks
  <1>1. day \in Int /\ tick \in 0 .. DayTicks - 1 /\ instant = day * DayTicks + tick
    BY TicksAssumption
  <1> HIDE DEF day, tick
  <1>2. CASE days <= day
    <2>1. days * DayTicks <= day * DayTicks
      BY <1>1, <1>2, TicksAssumption
    <2> QED
      BY <1>1, <1>2, <2>1, TicksAssumption DEF day
  <1>3. CASE days > day
    <2>1. days * DayTicks >= (day + 1) * DayTicks
      BY <1>1, <1>3, TicksAssumption
    <2>2. (day + 1) * DayTicks = day * DayTicks + DayTicks
      BY <1>1, TicksAssumption
    <2>3. days * DayTicks \in Int /\ day * DayTicks \in Int
      BY <1>1, TicksAssumption
    <2> QED
      BY <1>1, <1>3, <2>1, <2>2, <2>3, TicksAssumption DEF day
  <1> QED
    BY <1>1, <1>2, <1>3

LEMMA DaysOfMonth ==
    ASSUME NEW day \in Nat, NEW year \in Nat \ {0}, NEW month \in 1 .. 12
    PROVE  LET first == DaysBefore(year) + DaysInYear(year, month) IN
           IsYearOf(year, day) /\ IsMonthOf(month, year, day)
             <=> first <= day /\ day < first + monthrange(year, month)
  <1>1. /\ DaysBefore(year) \in Int /\ DaysBefore(year + 1) \in Int
        /\ DaysInYear(year, month) \in Int /\ monthrange(year, month) \in Int
    BY DaysAreWhole
  <1>2. DaysInYear(year, month) >= 0
    BY DEF DaysInYear
  <1>3. DaysBefore(year + 1) = DaysBefore(year) + 365 + (IF IsLeap(year) THEN 1 ELSE 0)
    BY YearsMeet
  <1>4. DaysInYear(year, 12) + monthrange(year, 12) = 365 + (IF IsLeap(year) THEN 1 ELSE 0)
    BY DEF DaysInYear, monthrange
  <1>5. CASE month = 12
    BY <1>1, <1>2, <1>3, <1>4, <1>5 DEF IsYearOf, IsMonthOf
  <1>6. CASE month \in 1 .. 11
    <2>1. DaysInYear(year, month) + monthrange(year, month) = DaysInYear(year, month + 1)
      BY <1>6, MonthsOfAYearMeet
    <2>2. DaysInYear(year, month + 1) <= 365
      BY <1>6 DEF DaysInYear
    <2> QED
      BY <1>1, <1>2, <1>3, <1>6, <2>1, <2>2 DEF IsYearOf, IsMonthOf
  <1> QED
    BY <1>5, <1>6

(* A month's bounds hold the instants of that month and no others: what    *)
(* a provider is asked for by date is what a message of the month is, in   *)
(* every year and at every resolution of the clock (month_bounds).         *)
THEOREM BoundsHoldTheMonth ==
    ASSUME NEW instant \in Nat, NEW year \in Nat \ {0}, NEW month \in 1 .. 12
    PROVE  LET bounds == month_bounds(Month(year, month)) IN
           bounds.start <= instant /\ instant < bounds.end
             <=> MonthOf(instant) = Month(year, month)
  <1> DEFINE day == instant \div DayTicks
             first == DaysBefore(year) + DaysInYear(year, month)
             days == monthrange(year, month)
             bounds == month_bounds(Month(year, month))
  <1>1. day \in Nat
    BY TicksAssumption
  <1>2. first \in Int /\ days \in Int
    BY DaysAreWhole
  <1>3. bounds.start = first * DayTicks /\ bounds.end = (first + days) * DayTicks
    <2>1. /\ bounds.start = (first + 1 - 1) * DayTicks + 0
          /\ bounds.end = (first + days - 1) * DayTicks + (DayTicks - 1) + 1
      BY DEF month_bounds, datetime, Month
    <2> HIDE DEF first, days, bounds
    <2>2. first + 1 - 1 = first /\ (first + days - 1) + 1 = first + days /\ first + days - 1 \in Int
      BY <1>2
    <2>3. first * DayTicks \in Int /\ (first + days) * DayTicks \in Int
      BY <1>2, TicksAssumption
    <2>4. bounds.end = (first + days) * DayTicks + 0
      BY <2>1, <2>2, DaysMeet
    <2> QED
      BY <2>1, <2>2, <2>3, <2>4
  <1>4. bounds.start <= instant /\ instant < bounds.end
          <=> first <= day /\ day < first + days
    <2> HIDE DEF bounds, first, days
    <2>1. first * DayTicks <= instant <=> first <= day
      BY <1>2, TicksOfDays
    <2>2. (first + days) * DayTicks <= instant <=> first + days <= day
      BY <1>2, TicksOfDays
    <2>3. (first + days) * DayTicks \in Int
      BY <1>2, TicksAssumption
    <2> QED
      BY <1>1, <1>2, <1>3, <2>1, <2>2, <2>3
  <1>5. first <= day /\ day < first + days
          <=> IsYearOf(year, day) /\ IsMonthOf(month, year, day)
    BY <1>1, DaysOfMonth
  <1>6. PICK y \in Nat \ {0}, m \in 1 .. 12 :
            /\ IsYearOf(y, day) /\ IsMonthOf(m, y, day)
            /\ MonthOf(instant) = Month(y, m)
    BY MonthOfIsTheMonth
  <1>7. IsYearOf(year, day) /\ IsMonthOf(month, year, day) <=> y = year /\ m = month
    <2>1. IsYearOf(year, day) => year = y
      BY <1>1, <1>6, YearOfDay
    <2>2. IsMonthOf(month, y, day) => month = m
      BY <1>1, <1>6, MonthOfDay
    <2> QED
      BY <1>6, <2>1, <2>2
  <1>8. Month(y, m) = Month(year, month) <=> y = year /\ m = month
    BY DEF Month
  <1> QED
    BY <1>4, <1>5, <1>6, <1>7, <1>8

-----------------------------------------------------------------------------
(* The window.                                                             *)

LEMMA MonthIndex ==
    ASSUME NEW instant \in Nat
    PROVE  /\ MonthOf(instant).year \in Nat \ {0} /\ MonthOf(instant).month \in 1 .. 12
           /\ MonthOf(instant) = Month(MonthOf(instant).year, MonthOf(instant).month)
  BY MonthOfIsTheMonth DEF Month

(* The month with an index. *)
MonthAt(n) == Month((n - 1) \div 12, ((n - 1) % 12) + 1)

LEMMA MonthAtIndex ==
    ASSUME NEW p \in [year : Int, month : 1 .. 12]
    PROVE  /\ MonthAt(Index(p)) = p
           /\ Preceding(p) = MonthAt(Index(p) - 1)
  <1>1. p = Month(p.year, p.month) /\ p.year \in Int /\ p.month \in 1 .. 12
    BY DEF Month
  <1>2. (12 * p.year + p.month - 1) \div 12 = p.year
    BY <1>1
  <1>3. (12 * p.year + p.month - 1) % 12 = p.month - 1
    BY <1>1
  <1>4. CASE p.month = 1
    <2>1. (12 * p.year + p.month - 1 - 1) \div 12 = p.year - 1
      BY <1>1, <1>4
    <2>2. (12 * p.year + p.month - 1 - 1) % 12 = 11
      BY <1>1, <1>4
    <2> QED
      BY <1>1, <1>2, <1>3, <1>4, <2>1, <2>2 DEF MonthAt, Index, Preceding, Month
  <1>5. CASE p.month # 1
    <2>1. (12 * p.year + p.month - 1 - 1) \div 12 = p.year
      BY <1>1, <1>5
    <2>2. (12 * p.year + p.month - 1 - 1) % 12 = p.month - 2
      BY <1>1, <1>5
    <2> QED
      BY <1>1, <1>2, <1>3, <1>5, <2>1, <2>2 DEF MonthAt, Index, Preceding, Month
  <1> QED
    BY <1>4, <1>5

LEMMA IndexOfMonthAt ==
    ASSUME NEW n \in Int
    PROVE  MonthAt(n) \in [year : Int, month : 1 .. 12] /\ Index(MonthAt(n)) = n
  <1> DEFINE year == (n - 1) \div 12
             month == (n - 1) % 12
  <1>1. year \in Int /\ month \in 0 .. 11
    OBVIOUS
  <1>2. n - 1 = 12 * year + month
    OBVIOUS
  <1>3. MonthAt(n) = Month(year, month + 1)
    BY DEF MonthAt
  <1> HIDE DEF year, month
  <1> QED
    BY <1>1, <1>2, <1>3 DEF Index, Month

(* available_periods counts the months back from the current one.          *)
LEMMA PeriodsCountBack ==
    ASSUME NEW window \in Nat, NEW now \in Nat
    PROVE  \A i \in 1 .. window :
               available_periods(window, now)[i] = MonthAt(Index(MonthOf(now)) - i + 1)
  <1> DEFINE current == MonthOf(now)
             top == Index(current)
             At == [i \in 1 .. window |-> MonthAt(top - i + 1)]
             back[i \in 1 .. window] ==
                 IF i = 1 THEN current ELSE Preceding(back[i - 1])
  <1>1. current \in [year : Int, month : 1 .. 12]
    BY MonthIndex DEF Month
  <1>2. top \in Int
    BY <1>1 DEF Index
  <1>3. available_periods(window, now) = back
    BY DEF available_periods
  <1> HIDE DEF top
  <1>4. At = [i \in 1 .. window |-> IF i = 1 THEN current ELSE Preceding(At[i - 1])]
    <2>1. SUFFICES ASSUME NEW i \in 1 .. window
                   PROVE  At[i] = IF i = 1 THEN current ELSE Preceding(At[i - 1])
      BY Zenon
    <2>2. CASE i = 1
      BY <1>1, <1>2, <2>2, MonthAtIndex DEF top
    <2>3. CASE i # 1
      <3>1. At[i - 1] = MonthAt(top - (i - 1) + 1)
        BY <2>3
      <3>2. At[i - 1] \in [year : Int, month : 1 .. 12]
            /\ Index(At[i - 1]) = top - (i - 1) + 1
        BY <1>2, <3>1, IndexOfMonthAt
      <3>3. Preceding(At[i - 1]) = MonthAt(Index(At[i - 1]) - 1)
        BY <3>2, MonthAtIndex
      <3>4. Index(At[i - 1]) - 1 = top - i + 1
        BY <1>2, <3>2
      <3> QED
        BY <2>3, <3>3, <3>4
    <2> QED
      BY <2>2, <2>3
  <1>5. back = [i \in 1 .. window |-> IF i = 1 THEN current ELSE Preceding(back[i - 1])]
    BY <1>4
  <1> HIDE DEF back, At, current
  <1>6. \A i \in 1 .. window : back[i] = At[i]
    <2> DEFINE S == {i \in 1 .. window : back[i] # At[i]}
    <2>1. SUFFICES ASSUME S # {} PROVE FALSE
      OBVIOUS
    <2>2. PICK i \in S : \A j \in S : i <= j
      <3>1. S \in SUBSET Nat
        OBVIOUS
      <3> QED
        BY <2>1, <3>1, NatMin
    <2>3. i # 1 => i - 1 \in 1 .. window /\ back[i - 1] = At[i - 1]
      BY <2>2
    <2> QED
      BY <1>4, <1>5, <2>2, <2>3
  <1> QED
    BY <1>3, <1>6 DEF At, top, current

(* The months that may be asked for are the last `window` ones, and no     *)
(* other text that parses is taken for one of them (clamp_period).         *)
THEOREM WindowHoldsTheLast ==
    ASSUME NEW window \in Nat, NEW now \in Nat, NEW p \in [year : Int, month : Int]
    PROVE  clamp_period(p, window, now)
             <=> /\ p.month \in 1 .. 12
                 /\ Index(MonthOf(now)) - Index(p) \in 0 .. window - 1
  <1> DEFINE top == Index(MonthOf(now))
  <1>1. top \in Int
    BY MonthIndex DEF Index
  <1> HIDE DEF top
  <1>2. CASE p.month \notin 1 .. 12
    BY <1>2 DEF clamp_period
  <1>3. CASE p.month \in 1 .. 12
    <2>1. p \in [year : Int, month : 1 .. 12] /\ Index(p) \in Int
      BY <1>3 DEF Index
    <2>2. clamp_period(p, window, now) <=> \E i \in 1 .. window : MonthAt(top - i + 1) = p
      BY <1>3, PeriodsCountBack DEF clamp_period, top
    <2>3. \A i \in 1 .. window : MonthAt(top - i + 1) = p <=> top - i + 1 = Index(p)
      BY <1>1, <2>1, MonthAtIndex, IndexOfMonthAt
    <2>4. (\E i \in 1 .. window : top - i + 1 = Index(p))
            <=> top - Index(p) \in 0 .. window - 1
      <3>1. ASSUME top - Index(p) \in 0 .. window - 1
            PROVE  \E i \in 1 .. window : top - i + 1 = Index(p)
        <4>1. /\ top - Index(p) + 1 \in 1 .. window
              /\ top - (top - Index(p) + 1) + 1 = Index(p)
          BY <1>1, <2>1, <3>1
        <4> QED
          BY <4>1
      <3> QED
        BY <1>1, <2>1, <3>1
    <2> QED
      BY <1>3, <2>2, <2>3, <2>4 DEF top
  <1> QED
    BY <1>2, <1>3

-----------------------------------------------------------------------------
(* Browse and its clock.                                                   *)

Clocked == clock \in Nat /\ site \in Sites

LEMMA StepClocked ==
    ASSUME Clocked, [Next]_vars
    PROVE  Clocked'
  <1>1. site' = site /\ (clock' = clock \/ clock' = clock + 1)
    <2>1. CASE UNCHANGED vars
      BY <2>1 DEF vars, cacheVars, mailVars
    <2>2. ASSUME NEW w \in Workers, NewRequest(w)
          PROVE  site' = site /\ clock' = clock
      BY <2>2 DEF NewRequest, report_page, cmd_messages_list, cmd_report_add,
                  report_add_item, Begin, cacheVars, mailVars
    <2>3. ASSUME NEW w \in Workers, Step(w)
          PROVE  site' = site /\ clock' = clock
      <3>1. CASE FromCache(w)
        BY <3>1 DEF FromCache, Cache!Hit, mailVars
      <3>2. CASE Miss(w)
        BY <3>2 DEF Miss, Cache!GetExpired, Cache!Drop, cacheVars, mailVars
      <3>3. CASE GetPage(w) \/ GetHeader(w) \/ Throttled(w) \/ ProviderFails(w)
        BY <3>3 DEF GetPage, GetHeader, Throttled, ProviderFails, cacheVars, mailVars
      <3>4. CASE Finish(w)
        BY <3>4 DEF Finish, Store, Cache!Put, cacheVars, mailVars
      <3> QED
        BY <2>3, <3>1, <3>2, <3>3, <3>4 DEF Step
    <2>4. ASSUME NEW m \in Messages, Arrive(m) \/ Leave(m)
          PROVE  site' = site /\ clock' = clock
      BY <2>4 DEF Arrive, Leave, Change, cacheVars
    <2>5. ASSUME NEW a \in Accounts, invalidate_account(a)
          PROVE  site' = site /\ clock' = clock
      BY <2>5 DEF invalidate_account, Cache!invalidate_account, Cache!Drop, mailVars
    <2>6. CASE Tick
      BY <2>6 DEF Tick, Cache!Tick, mailVars
    <2> QED
      BY <2>1, <2>2, <2>3, <2>4, <2>5, <2>6 DEF Next
  <1> QED
    BY <1>1 DEF Clocked

(* Whenever somebody browses, in the turn of a month or of a year too, the *)
(* months they may ask for are the last of the window as it is just then   *)
(* (clamp_period, available_periods).                                      *)
THEOREM WindowIsRight == Spec => []WindowIsTheLastMonths
  <1>1. Init => Clocked
    BY DEF Init, Clocked, Cache!Init
  <1>2. Clocked /\ [Next]_vars => Clocked'
    BY StepClocked
  <1>3. Clocked => WindowIsTheLastMonths
    <2>1. SUFFICES ASSUME Clocked, NEW p \in Periods
                   PROVE  clamp_period(p, Window, Now) <=> InWindow(p)
      BY DEF WindowIsTheLastMonths
    <2>2. Now \in Nat /\ Window \in Nat /\ p \in [year : Int, month : Int]
      BY <2>1, BrowseAssumption DEF Clocked, Now
    <2>3. clamp_period(p, Window, Now)
            <=> p.month \in 1 .. 12 /\ Index(MonthOf(Now)) - Index(p) \in 0 .. Window - 1
      BY <2>2, WindowHoldsTheLast
    <2> QED
      BY <2>3 DEF InWindow
  <1> QED
    BY <1>1, <1>2, <1>3, PTL DEF Spec

(* Graph lists a message for a month just when it came in that month, in   *)
(* UTC: the instants in the query leave out nothing of it and let in       *)
(* nothing else (month_bounds, and search of graph.py).                    *)
THEOREM ListedByMonth ==
    ASSUME site.provider = "graph", NEW m \in Messages, mail[m].at \in Nat,
           NEW p \in Periods, p.month \in 1 .. 12
    PROVE  InMonth(m, p) <=> MonthOf(mail[m].at) = p
  <1> DEFINE at == mail[m].at
             bounds == month_bounds(Month(p.year, p.month))
  <1>1. p \in [year : Nat \ {0}, month : Nat]
    BY BrowseAssumption
  <1>2. p = Month(p.year, p.month) /\ p.year \in Nat \ {0}
    BY <1>1 DEF Month
  <1>3. Shift = 0
    BY DEF Shift
  <1>4. bounds.start <= at /\ at < bounds.end <=> MonthOf(at) = p
    BY <1>2, BoundsHoldTheMonth
  <1>5. Bounds[p] = bounds
    BY <1>2 DEF Bounds
  <1>6. bounds.start \in Int /\ bounds.end \in Int
    <2>1. /\ DaysBefore(p.year) \in Int /\ DaysInYear(p.year, p.month) \in Int
          /\ monthrange(p.year, p.month) \in Int
      BY <1>2, DaysAreWhole
    <2> QED
      BY <2>1, <1>2, TicksAssumption DEF month_bounds, datetime, Month
  <1>7. InMonth(m, p) <=> bounds.start + Shift <= at /\ at < bounds.end + Shift
    BY <1>5 DEF InMonth
  <1> HIDE DEF bounds
  <1> QED
    BY <1>3, <1>4, <1>6, <1>7

-----------------------------------------------------------------------------
(* The dictionary of the cache: its order o lists the held keys H once     *)
(* each, and what stands behind a key was used since that key was.         *)
Enumerates(o, H) ==
    /\ o \in Seq(H)
    /\ \A k \in H : \E i \in 1 .. Len(o) : o[i] = k
    /\ \A i, j \in 1 .. Len(o) : o[i] = o[j] => i = j

Moved(o, H, k) == Append(Select(o, H \ {k}), k)
Popped(o, n) == SubSeq(o, n + 1, Len(o))

AfterUse(s, k, G) == [j \in G |-> IF j = k THEN {} ELSE (s[j] \cup {k}) \cap G]
Within(s, G) == [j \in G |-> s[j] \cap G]

Latest(o, k, s) ==
    /\ Len(o) \in Nat \ {0} /\ o[Len(o)] = k
    /\ \A i, j \in 1 .. Len(o) :
           i < j => o[i] # k /\ (o[j] = k \/ o[j] \in s[o[i]])

ByUse(o, s) == \A i, j \in 1 .. Len(o) : i < j => o[j] \in s[o[i]]

LEMMA SeqWithin ==
    ASSUME NEW T, NEW G, NEW t \in Seq(T), \A i \in 1 .. Len(t) : t[i] \in G
    PROVE  t \in Seq(G)
  OBVIOUS

LEMMA EnumerationCounts ==
    ASSUME NEW H, NEW o, Enumerates(o, H)
    PROVE  IsFiniteSet(H) /\ Cardinality(H) = Len(o)
  <1>1. Len(o) \in Nat /\ o \in [1 .. Len(o) -> H]
    BY DEF Enumerates
  <1>2. o \in Bijection(1 .. Len(o), H)
    <2>1. o \in Injection(1 .. Len(o), H)
      BY <1>1 DEF Enumerates, Injection, IsInjective
    <2>2. o \in Surjection(1 .. Len(o), H)
      BY <1>1 DEF Enumerates, Surjection
    <2> QED
      BY <2>1, <2>2 DEF Bijection
  <1>3. ExistsBijection(1 .. Len(o), H)
    BY <1>2 DEF ExistsBijection
  <1>4. IsFiniteSet(1 .. Len(o)) /\ Cardinality(1 .. Len(o)) = Len(o)
    BY <1>1, FS_Interval
  <1> QED
    BY <1>3, <1>4, FS_Bijection

LEMMA DropKeeps ==
    ASSUME NEW H, NEW o, Enumerates(o, H), NEW s, ByUse(o, s), NEW K
    PROVE  LET G == H \ K
               t == Select(o, G) IN
           /\ Enumerates(t, G)
           /\ ByUse(t, [k \in G |-> s[k] \ K])
           /\ Len(t) <= Len(o)
           /\ ByUse(t, s)
  <1> DEFINE G == H \ K
             t == Select(o, G)
  <1>1. o \in Seq(H) /\ Len(o) \in Nat
    BY DEF Enumerates
  <1>2. t \in Seq(H) /\ Selects(t, o, Len(o), G)
    BY <1>1, SelectFacts
  <1> HIDE DEF t
  <1>3. \A i \in 1 .. Len(t) : t[i] \in G
    BY <1>2 DEF Selects
  <1>4. t \in Seq(G)
    BY <1>2, <1>3
  <1>5. ASSUME NEW k \in G PROVE \E i \in 1 .. Len(t) : t[i] = k
    <2>1. PICK a \in 1 .. Len(o) : o[a] = k
      BY DEF Enumerates
    <2> QED
      BY <1>2, <1>5, <2>1 DEF Selects
  <1>6. \A i, j \in 1 .. Len(t) : i < j => t[i] # t[j] /\ t[j] \in s[t[i]]
    <2>1. SUFFICES ASSUME NEW i \in 1 .. Len(t), NEW j \in 1 .. Len(t), i < j
                   PROVE  t[i] # t[j] /\ t[j] \in s[t[i]]
      OBVIOUS
    <2>2. PICK a \in 1 .. Len(o), b \in 1 .. Len(o) : a < b /\ t[i] = o[a] /\ t[j] = o[b]
      BY <1>2, <2>1 DEF Selects
    <2>3. a # b
      BY <1>1, <2>2
    <2> QED
      BY <2>2, <2>3 DEF Enumerates, ByUse
  <1>7. Enumerates(t, G)
    <2>1. \A i, j \in 1 .. Len(t) : t[i] = t[j] => i = j
      <3>1. \A i, j \in 1 .. Len(t) : i < j \/ j < i \/ i = j
        BY <1>2
      <3> QED
        BY <1>6, <3>1
    <2> QED
      BY <1>4, <1>5, <2>1 DEF Enumerates
  <1>8. ByUse(t, [k \in G |-> s[k] \ K])
    BY <1>3, <1>6 DEF ByUse
  <1> QED
    BY <1>2, <1>6, <1>7, <1>8 DEF ByUse, Selects, t

LEMMA MoveKeeps ==
    ASSUME NEW H, NEW o, Enumerates(o, H), NEW s, ByUse(o, s), NEW k
    PROVE  LET t == Moved(o, H, k)
               G == H \cup {k} IN
           /\ Enumerates(t, G)
           /\ ByUse(t, AfterUse(s, k, G))
           /\ Latest(t, k, s)
  <1> DEFINE c == Select(o, H \ {k})
             t == Moved(o, H, k)
             G == H \cup {k}
             n == Len(c)
  <1>0. t = Append(c, k)
    BY DEF Moved
  <1>1. Enumerates(c, H \ {k}) /\ ByUse(c, s)
    BY DropKeeps
  <1> HIDE DEF c, t
  <1>2. c \in Seq(H \ {k}) /\ n \in Nat
    BY <1>1 DEF Enumerates
  <1>3. /\ t \in Seq(G) /\ Len(t) = n + 1 /\ t[n + 1] = k
        /\ \A i \in 1 .. n : t[i] = c[i] /\ c[i] \in H \ {k}
    <2>1. c \in Seq(G)
      BY <1>2
    <2> QED
      BY <1>0, <1>2, <2>1
  <1>4. \A i \in 1 .. n + 1 : i \in 1 .. n \/ i = n + 1
    BY <1>2
  <1>5. \A i, j \in 1 .. Len(t) : i < j =>
            t[i] # k /\ t[i] \in H /\ (t[j] = k \/ t[j] \in s[t[i]]) /\ t[i] # t[j]
    <2>1. SUFFICES ASSUME NEW i \in 1 .. Len(t), NEW j \in 1 .. Len(t), i < j
                   PROVE  t[i] # k /\ t[i] \in H /\ (t[j] = k \/ t[j] \in s[t[i]]) /\ t[i] # t[j]
      OBVIOUS
    <2>2. i \in 1 .. n /\ i # j
      BY <1>2, <1>3, <2>1
    <2>3. CASE j = n + 1
      BY <1>3, <2>2, <2>3
    <2>4. CASE j \in 1 .. n
      BY <1>1, <1>3, <2>1, <2>2, <2>4 DEF ByUse, Enumerates
    <2> QED
      BY <1>3, <1>4, <2>3, <2>4
  <1>6. Enumerates(t, G)
    <2>1. \A i, j \in 1 .. Len(t) : t[i] = t[j] => i = j
      <3>1. \A i, j \in 1 .. Len(t) : i < j \/ j < i \/ i = j
        BY <1>2, <1>3
      <3> QED
        BY <1>5, <3>1
    <2>2. ASSUME NEW g \in G PROVE \E i \in 1 .. Len(t) : t[i] = g
      <3>1. n + 1 \in 1 .. Len(t) /\ \A i \in 1 .. n : i \in 1 .. Len(t)
        BY <1>2, <1>3
      <3>2. CASE g = k
        BY <1>3, <3>1, <3>2
      <3>3. CASE g \in H \ {k}
        BY <1>1, <1>3, <3>1, <3>3 DEF Enumerates
      <3> QED
        BY <2>2, <3>2, <3>3
    <2> QED
      BY <1>3, <2>1, <2>2 DEF Enumerates
  <1>7. ByUse(t, AfterUse(s, k, G))
    <2>1. \A i \in 1 .. Len(t) : t[i] \in G
      BY <1>3
    <2> QED
      BY <1>5, <2>1 DEF ByUse, AfterUse
  <1>8. Len(t) \in Nat \ {0} /\ t[Len(t)] = k
    BY <1>2, <1>3
  <1> QED
    BY <1>5, <1>6, <1>7, <1>8 DEF Latest, t

(* What is left of an order when its first n keys are popped.              *)
LEMMA PopKeeps ==
    ASSUME NEW H, NEW o, Enumerates(o, H), NEW s, ByUse(o, s), NEW n \in 0 .. Len(o),
           NEW t, t = Popped(o, n), NEW G, G = Range(t)
    PROVE  /\ G \subseteq H /\ Enumerates(t, G) /\ Len(t) = Len(o) - n
           /\ ByUse(t, Within(s, G))
           /\ \A g \in H \ G : \E i \in 1 .. n : g = o[i]
           /\ \A i \in n + 1 .. Len(o) : o[i] \in G
           /\ \A g \in G : \E i \in n + 1 .. Len(o) : g = o[i]
  <1> DEFINE len == Len(o)
  <1>1. o \in Seq(H) /\ len \in Nat /\ \A i \in 1 .. len : o[i] \in H
    BY DEF Enumerates
  <1>2. t \in Seq(H) /\ Len(t) = len - n /\ \A i \in 1 .. len - n : t[i] = o[n + i]
    BY <1>1 DEF Popped
  <1>3. DOMAIN t = 1 .. len - n /\ \A i \in 1 .. len - n : n + i \in 1 .. len
    BY <1>1, <1>2
  <1>4. \A i \in 1 .. len - n : t[i] \in G
    BY <1>3 DEF Range
  <1>5. \A g \in G : \E i \in 1 .. len - n : g = t[i]
    BY <1>3 DEF Range
  <1>6. t \in Seq(G)
    <2>1. \A i \in 1 .. Len(t) : t[i] \in G
      BY <1>2, <1>4
    <2>2. t \in Seq(H)
      BY <1>2
    <2> QED
      BY <2>1, <2>2, SeqWithin
  <1>7. Enumerates(t, G)
    <2>1. ASSUME NEW i \in 1 .. len - n, NEW j \in 1 .. len - n, t[i] = t[j]
          PROVE  i = j
      <3>1. n + i = n + j
        <4>1. o[n + i] = o[n + j] /\ n + i \in 1 .. Len(o) /\ n + j \in 1 .. Len(o)
          BY <1>2, <1>3, <2>1
        <4> QED
          BY <4>1 DEF Enumerates
      <3> QED
        BY <3>1
    <2> QED
      BY <1>2, <1>5, <1>6, <2>1 DEF Enumerates
  <1>8. ByUse(t, Within(s, G))
    <2>1. ASSUME NEW i \in 1 .. len - n, NEW j \in 1 .. len - n, i < j
          PROVE  t[j] \in s[t[i]]
      <3>1. n + i < n + j
        BY <2>1
      <3> QED
        BY <1>2, <1>3, <3>1 DEF ByUse
    <2> QED
      BY <1>2, <1>4, <2>1 DEF ByUse, Within
  <1>9. \A i \in n + 1 .. len : i - n \in 1 .. len - n /\ n + (i - n) = i
    BY <1>1
  <1>10. \A i \in n + 1 .. len : o[i] \in G
    BY <1>2, <1>4, <1>9
  <1>11. \A g \in G : \E i \in n + 1 .. len : g = o[i]
    <2>1. \A i \in 1 .. len - n : n + i \in n + 1 .. len
      BY <1>1
    <2> QED
      BY <1>2, <1>5, <2>1
  <1>12. \A g \in H \ G : \E i \in 1 .. n : g = o[i]
    <2>1. \A i \in 1 .. len : i \in 1 .. n \/ i \in n + 1 .. len
      BY <1>1
    <2>2. ASSUME NEW g \in H \ G PROVE \E i \in 1 .. n : g = o[i]
      <3>1. PICK i \in 1 .. len : o[i] = g
        BY DEF Enumerates
      <3> QED
        BY <1>10, <2>1, <2>2, <3>1
    <2> QED
      BY <2>2
  <1>13. G \subseteq H
    BY <1>1, <1>2, <1>3, <1>5
  <1> QED
    BY <1>2, <1>7, <1>8, <1>10, <1>11, <1>12, <1>13

-----------------------------------------------------------------------------
(* The cache.                                                              *)
CacheOK ==
    /\ clock \in 0 .. MaxTime
    /\ DOMAIN entries \subseteq Cache!CacheKey
    /\ entries \in [DOMAIN entries -> 0 .. MaxTime + Ttl]
    /\ \A k \in DOMAIN entries : entries[k] <= clock + Ttl
    /\ Enumerates(order, DOMAIN entries)
    /\ since \in [DOMAIN entries -> SUBSET DOMAIN entries]
    /\ ByUse(order, since)
    /\ Len(order) <= MaxEntries

EvictsOldest ==
    /\ Cardinality(DOMAIN entries') <= MaxEntries
    /\ \/ DOMAIN entries' \subseteq DOMAIN entries
       \/ \A gone \in DOMAIN entries \ DOMAIN entries',
             stays \in DOMAIN entries \cap DOMAIN entries' : stays \in since[gone]

LEMMA SameSelect ==
    ASSUME NEW s, NEW S
    PROVE  Cache!Select(s, S) = Select(s, S)
  <1>1. \A q : Cache!FlattenSeq(q) = FlattenSeq(q)
    BY Zenon DEF Cache!FlattenSeq, FlattenSeq
  <1> QED
    BY <1>1, Zenon DEF Cache!Select, Select

LEMMA Capacity ==
    MaxEntries \in Nat /\ MaxEntries > 0 /\ Ttl \in Nat /\ Ttl > 0 /\ Cache!enabled
  BY BrowseAssumption DEF Cache!enabled

LEMMA CacheTypes ==
    ASSUME CacheOK
    PROVE  Cache!TypeOK
  <1>1. Enumerates(order, DOMAIN entries)
    BY DEF CacheOK
  <1>2. Len(order) = Cardinality(DOMAIN entries)
    BY <1>1, EnumerationCounts
  <1>3. Cache!Cardinality(DOMAIN entries) = Cardinality(DOMAIN entries)
    BY Zenon DEF Cache!Cardinality, Cardinality
  <1>4. order \in Seq(DOMAIN entries) /\ DOMAIN order = 1 .. Len(order)
    BY <1>1 DEF Enumerates
  <1>5. \A i, j \in DOMAIN order : order[i] = order[j] => i = j
    BY <1>1, <1>4 DEF Enumerates
  <1> QED
    BY <1>2, <1>3, <1>4, <1>5 DEF CacheOK, Cache!TypeOK, Cache!Held

LEMMA KeepsWithin ==
    ASSUME CacheOK, CacheOK'
    PROVE  Cardinality(DOMAIN entries') <= MaxEntries
  <1>1. Enumerates(order', DOMAIN entries') /\ Len(order') <= MaxEntries
    BY DEF CacheOK
  <1> QED
    BY <1>1, EnumerationCounts

LEMMA CacheStays ==
    ASSUME CacheOK, UNCHANGED cacheVars
    PROVE  CacheOK' /\ EvictsOldest
  <1>1. CacheOK'
    BY DEF CacheOK, cacheVars
  <1> QED
    BY <1>1, KeepsWithin DEF EvictsOldest, cacheVars

LEMMA CacheTicks ==
    ASSUME CacheOK, Cache!Tick
    PROVE  CacheOK' /\ EvictsOldest
  <1>1. entries' = entries /\ order' = order /\ since' = since /\ clock' = clock + 1 /\ clock < MaxTime
    BY DEF Cache!Tick
  <1>2. CacheOK'
    <2>1. clock' \in 0 .. MaxTime
      BY <1>1, BrowseAssumption DEF CacheOK
    <2>2. \A k \in DOMAIN entries : entries[k] <= clock' + Ttl
      BY <1>1, Capacity DEF CacheOK
    <2> QED
      BY <1>1, <2>1, <2>2 DEF CacheOK
  <1> QED
    BY <1>1, <1>2, KeepsWithin DEF EvictsOldest

LEMMA CacheDrops ==
    ASSUME CacheOK, NEW ks, Cache!Drop(ks)
    PROVE  CacheOK' /\ EvictsOldest
  <1> DEFINE H == DOMAIN entries
             G == H \ ks
             t == Select(order, G)
             s == [k \in G |-> since[k] \ ks]
  <1>1. /\ entries' = [k \in G |-> entries[k]] /\ order' = t /\ since' = s
        /\ clock' = clock
    BY SameSelect DEF Cache!Drop, Cache!Held, Cache!Without
  <1>2. Enumerates(t, G) /\ ByUse(t, s) /\ Len(t) <= Len(order)
    <2>1. Enumerates(order, H) /\ ByUse(order, since)
      BY DEF CacheOK
    <2> QED
      BY <2>1, DropKeeps
  <1>3. DOMAIN entries' = G /\ \A k \in G : entries'[k] = entries[k]
    BY <1>1
  <1>4. s \in [G -> SUBSET G]
    BY DEF CacheOK
  <1> HIDE DEF t, s
  <1>5. Len(t) <= MaxEntries
    <2>1. Len(t) \in Nat /\ Len(order) \in Nat /\ Len(order) <= MaxEntries
      BY <1>2 DEF CacheOK, Enumerates
    <2> QED
      BY <1>2, <2>1, Capacity
  <1>6. entries' \in [G -> 0 .. MaxTime + Ttl]
    BY <1>1 DEF CacheOK
  <1>7. CacheOK'
    BY <1>1, <1>2, <1>3, <1>4, <1>5, <1>6 DEF CacheOK
  <1> QED
    BY <1>3, <1>7, KeepsWithin DEF EvictsOldest

LEMMA CacheHits ==
    ASSUME CacheOK, NEW k, Cache!Hit(k)
    PROVE  CacheOK' /\ EvictsOldest
  <1> DEFINE H == DOMAIN entries
             t == Moved(order, H, k)
             s == AfterUse(since, k, H)
  <1>1. k \in H /\ order' = t /\ since' = s /\ clock' = clock /\ entries' = entries
    BY SameSelect DEF Cache!Hit, Cache!Held, Cache!Without, Cache!MovedToEnd, Cache!Used, Moved, AfterUse
  <1>2. H \cup {k} = H
    BY <1>1
  <1>3. Enumerates(order, H) /\ ByUse(order, since) /\ Len(order) <= MaxEntries
    BY DEF CacheOK
  <1>4. Enumerates(t, H) /\ ByUse(t, s)
    BY <1>2, <1>3, MoveKeeps
  <1>5. s \in [H -> SUBSET H]
    BY DEF AfterUse
  <1> HIDE DEF t, s
  <1>6. Len(t) = Len(order)
    BY <1>3, <1>4, EnumerationCounts
  <1>7. CacheOK'
    BY <1>1, <1>3, <1>4, <1>5, <1>6 DEF CacheOK
  <1> QED
    BY <1>1, <1>7, KeepsWithin DEF EvictsOldest

LEMMA CachePuts ==
    ASSUME CacheOK, NEW k \in Cache!CacheKey, Cache!Put(k)
    PROVE  /\ CacheOK' /\ EvictsOldest
           /\ DOMAIN entries' \subseteq DOMAIN entries \cup {k}
           /\ \A j \in DOMAIN entries' :
                  entries'[j] = IF j = k THEN clock + Ttl ELSE entries[j]
  <1> DEFINE H == DOMAIN entries
             U == H \cup {k}
             o == Moved(order, H, k)
             u == AfterUse(since, k, U)
             n == IF Len(o) > MaxEntries THEN Len(o) - MaxEntries ELSE 0
             t == Popped(o, n)
             G == Range(t)
             s == AfterUse(since, k, G)
  <1>1. Enumerates(order, H) /\ ByUse(order, since) /\ Len(order) <= MaxEntries
    BY DEF CacheOK
  <1>2. /\ Enumerates(o, U) /\ ByUse(o, u) /\ Len(o) \in Nat \ {0} /\ o[Len(o)] = k
        /\ \A i, j \in 1 .. Len(o) : i < j => o[i] # k /\ (o[j] = k \/ o[j] \in since[o[i]])
    <2>1. Enumerates(o, U) /\ ByUse(o, u) /\ Latest(o, k, since)
      BY <1>1, MoveKeeps
    <2> HIDE DEF o
    <2> QED
      BY <2>1 DEF Latest
  <1>3. Cache!MovedToEnd(k) = o
    BY SameSelect DEF Cache!Held, Cache!Without, Cache!MovedToEnd, Moved
  <1> HIDE DEF o
  <1>4. o \in Seq(U) /\ Len(o) \in Nat /\ Len(o) > 0
    BY <1>2 DEF Enumerates
  <1>5. n \in 0 .. Len(o) /\ n < Len(o) /\ Len(o) - n <= MaxEntries
    BY <1>4, Capacity
  <1>6. Len(Cache!Overflow(o)) = n
    BY <1>4, Capacity DEF Cache!Overflow
  <1> HIDE DEF n
  <1>7. /\ order' = t /\ clock' = clock
        /\ entries' = [j \in G |-> IF j = k THEN clock + Ttl ELSE entries[j]]
        /\ since' = Cache!Used(k, DOMAIN entries')
    BY <1>3, <1>6 DEF Cache!Put, Popped, Range
  <1>8. /\ G \subseteq U /\ Enumerates(t, G) /\ Len(t) = Len(o) - n
        /\ ByUse(t, Within(u, G))
        /\ \A g \in U \ G : \E i \in 1 .. n : g = o[i]
        /\ \A i \in n + 1 .. Len(o) : o[i] \in G
        /\ \A g \in G : \E i \in n + 1 .. Len(o) : g = o[i]
    <2>1. t = Popped(o, n) /\ G = Range(t)
      OBVIOUS
    <2> HIDE DEF U, u, t, G
    <2> QED
      BY <1>2, <1>5, <2>1, PopKeeps
  <1> HIDE DEF t, G
  <1>9. DOMAIN entries' = G /\ since' = s
    BY <1>7 DEF Cache!Used, AfterUse
  <1>10. s = Within(u, G)
    BY <1>8 DEF AfterUse, Within
  <1>11. s \in [G -> SUBSET G]
    BY DEF AfterUse
  <1>12. G \subseteq H \cup {k}
    BY <1>8
  <1>13. \A j \in G : entries'[j] = IF j = k THEN clock + Ttl ELSE entries[j]
    BY <1>7
  <1>14. clock + Ttl \in 0 .. MaxTime + Ttl /\ clock \in 0 .. MaxTime
    BY Capacity, BrowseAssumption DEF CacheOK
  <1>15. entries' \in [G -> 0 .. MaxTime + Ttl]
    <2>1. \A j \in H : entries[j] \in 0 .. MaxTime + Ttl
      BY DEF CacheOK
    <2> QED
      BY <1>7, <1>12, <1>14, <2>1
  <1>16. \A j \in G : entries'[j] <= clock' + Ttl
    <2>1. \A j \in H : entries[j] <= clock + Ttl
      BY DEF CacheOK
    <2> QED
      BY <1>7, <1>12, <1>13, <1>14, <2>1, Capacity
  <1>17. G \subseteq Cache!CacheKey
    BY <1>12 DEF CacheOK
  <1>18. Len(t) <= MaxEntries
    BY <1>5, <1>8
  <1>19. CacheOK'
    BY <1>7, <1>8, <1>9, <1>10, <1>11, <1>14, <1>15, <1>16, <1>17, <1>18 DEF CacheOK
  <1>20. EvictsOldest
    <2>1. CASE k \in H
      BY <1>9, <1>12, <1>19, <2>1, KeepsWithin DEF EvictsOldest
    <2>2. CASE k \notin H
      <3>1. ASSUME NEW gone \in H \ G, NEW stays \in H \cap G
            PROVE  stays \in since[gone]
        <4>1. PICK i \in 1 .. n : gone = o[i]
          BY <1>8, <3>1
        <4>2. PICK j \in n + 1 .. Len(o) : stays = o[j]
          BY <1>8, <3>1
        <4>3. i \in 1 .. Len(o) /\ j \in 1 .. Len(o) /\ i < j
          BY <1>4, <1>5, <4>1, <4>2
        <4>4. stays # k
          BY <2>2, <3>1
        <4> QED
          BY <1>2, <4>1, <4>2, <4>3, <4>4
      <3> QED
        BY <1>9, <1>19, <3>1, KeepsWithin DEF EvictsOldest
    <2> QED
      BY <2>1, <2>2
  <1> QED
    BY <1>9, <1>12, <1>13, <1>19, <1>20

-----------------------------------------------------------------------------
(* The browses.  What a worker has and what the cache keeps are messages   *)
(* that came, that are listed for what is asked and, once scored and       *)
(* sorted, match it.                                                       *)
AskOK(ask) == ask \in Cache!CacheKey /\ ask.query.period.month \in 1 .. 12

ListedFor(s, q) == \A i \in 1 .. Len(s) : s[i] \in Came /\ Lists(s[i], q)
InBox(s) == \A i \in 1 .. Len(s) : s[i] \in Range(box)

Shows(s, q) ==
    /\ Len(s) <= Limit
    /\ ListedFor(s, q)
    /\ \A i \in 1 .. Len(s) : s[i] \in Matches[q.filter]
    /\ \A i, j \in 1 .. Len(s) : i < j => received_at(s[i]) >= received_at(s[j])

MailOK ==
    /\ site \in Sites
    /\ changes \in 0 .. MaxChanges[site.process]
    /\ mail \in [Messages -> Mail]
    /\ box \in Seq(Messages)
    /\ \A i \in 1 .. Len(box) : box[i] \in Came

BusyOK(r) ==
    /\ r \in Asked
    /\ AskOK(r.ask)
    /\ site.process = "web" => r.limit = Limit
    /\ r.pc = "cache" => Len(r.todo) = 0 /\ Len(r.out) = 0
    /\ r.pc = "headers" => Len(r.todo) > 0 /\ Len(r.out) < r.limit
    /\ Len(r.out) <= r.limit
    /\ ListedFor(r.todo, r.ask.query) /\ ListedFor(r.out, r.ask.query)
    /\ r.asof <= changes
    /\ r.asof = changes => InBox(r.todo) /\ InBox(r.out)

PageOK(r) == r \in Page /\ AskOK(r.ask) /\ Shows(r.shown, r.ask.query)

RequestOK(r) == BusyOK(r) \/ PageOK(r) \/ r \in Ended

\* A list was in the mailbox when its entry was put, if nothing changed.
Fresh(list, put) ==
    \A i \in 1 .. Len(list) : list[i] \in Range(box) \/ mail[list[i]].gone >= put

KeptOK(kept, k, deadline) ==
    /\ kept \in Listed
    /\ AskOK(k)
    /\ Shows(kept.list, k.query)
    /\ kept.asof # Torn => Fresh(kept.list, deadline - Ttl)

ListsOK ==
    /\ DOMAIN lists = DOMAIN entries
    /\ \A k \in DOMAIN lists : KeptOK(lists[k], k, entries[k])

RequestsOK ==
    /\ request \in [Workers -> Asked \cup Page \cup Ended]
    /\ \A w \in Workers : RequestOK(request[w])

BrowseInv == CacheOK /\ MailOK /\ ListsOK /\ RequestsOK

(* What the mailbox may do meanwhile: a message that came is listed for    *)
(* the same months ever after, and one that goes does so now.              *)
MailGrows ==
    /\ site' = site
    /\ changes <= changes'
    /\ \A m \in Came : m \in Came' /\ mail'[m].at = mail[m].at
    /\ \A m \in Came \ Range(box) : mail'[m].gone = mail[m].gone
    /\ \A m \in Range(box) :
           m \in Range(box') \/ (changes < changes' /\ mail'[m].gone = clock)

LEMMA MailStill ==
    ASSUME UNCHANGED mailVars, MailOK
    PROVE  MailGrows /\ MailOK'
  <1>1. changes \in Int
    BY BrowseAssumption DEF MailOK
  <1> QED
    BY <1>1 DEF mailVars, MailGrows, MailOK, Came

LEMMA ListedStays ==
    ASSUME MailGrows, NEW s, NEW q, ListedFor(s, q)
    PROVE  ListedFor(s, q)'
  <1>1. ASSUME NEW m \in Came, Lists(m, q)
        PROVE  m \in Came' /\ Lists(m, q)'
    <2>1. m \in Came' /\ mail'[m].at = mail[m].at /\ Shift' = Shift /\ site' = site
      BY DEF MailGrows, Shift
    <2> QED
      BY <1>1, <2>1 DEF Lists, InMonth, Bounds
  <1> QED
    BY <1>1 DEF ListedFor

LEMMA ShowsStays ==
    ASSUME MailGrows, NEW s, NEW q, Shows(s, q)
    PROVE  Shows(s, q)'
  <1>1. ListedFor(s, q)'
    BY ListedStays DEF Shows
  <1>2. \A i \in 1 .. Len(s) : received_at(s[i])' = received_at(s[i])
    <2>1. \A i \in 1 .. Len(s) : s[i] \in Came
      BY DEF Shows, ListedFor
    <2> QED
      BY <2>1 DEF MailGrows, received_at
  <1> QED
    BY <1>1, <1>2 DEF Shows

LEMMA InBoxStays ==
    ASSUME MailGrows, NEW s, InBox(s), changes' = changes, changes \in Int
    PROVE  InBox(s)'
  BY DEF InBox, MailGrows

LEMMA RequestStays ==
    ASSUME MailGrows, MailOK, MailOK', NEW r, RequestOK(r)
    PROVE  RequestOK(r)'
  <1>1. changes \in Int /\ changes' \in Int /\ changes <= changes' /\ site' = site
    BY BrowseAssumption DEF MailOK, MailGrows
  <1>2. ASSUME BusyOK(r) PROVE BusyOK(r)'
    <2>1. ListedFor(r.todo, r.ask.query)' /\ ListedFor(r.out, r.ask.query)'
      BY <1>2, ListedStays DEF BusyOK
    <2>2. r.asof \in Int /\ r.asof <= changes
      BY <1>2 DEF BusyOK, Asked
    <2>3. r.asof <= changes'
      BY <1>1, <2>2
    <2>4. ASSUME r.asof = changes' PROVE InBox(r.todo)' /\ InBox(r.out)'
      <3>1. changes' = changes /\ r.asof = changes
        BY <1>1, <2>2, <2>4
      <3>2. InBox(r.todo) /\ InBox(r.out)
        BY <1>2, <3>1 DEF BusyOK
      <3> QED
        BY <1>1, <3>1, <3>2, InBoxStays
    <2> QED
      BY <1>1, <1>2, <2>1, <2>3, <2>4 DEF BusyOK, AskOK
  <1>3. ASSUME PageOK(r) PROVE PageOK(r)'
    BY <1>3, ShowsStays DEF PageOK, AskOK
  <1> QED
    BY <1>2, <1>3 DEF RequestOK, Ended

LEMMA KeptStays ==
    ASSUME MailGrows, MailOK, MailOK', NEW kept, NEW k, NEW deadline \in Int,
           clock \in Int, deadline <= clock + Ttl, KeptOK(kept, k, deadline)
    PROVE  KeptOK(kept, k, deadline)'
  <1>1. Shows(kept.list, k.query)'
    BY ShowsStays DEF KeptOK
  <1>2. ASSUME Fresh(kept.list, deadline - Ttl) PROVE Fresh(kept.list, deadline - Ttl)'
    <2>1. SUFFICES ASSUME NEW i \in 1 .. Len(kept.list)
                   PROVE  \/ kept.list[i] \in Range(box')
                          \/ mail'[kept.list[i]].gone >= deadline - Ttl
      BY DEF Fresh
    <2>2. kept.list[i] \in Came
      BY DEF KeptOK, Shows, ListedFor
    <2>3. CASE kept.list[i] \in Range(box)
      <3>1. clock >= deadline - Ttl
        BY Capacity
      <3> QED
        BY <2>3, <3>1 DEF MailGrows
    <2>4. CASE kept.list[i] \notin Range(box)
      BY <1>2, <2>2, <2>4 DEF MailGrows, Fresh
    <2> QED
      BY <2>3, <2>4
  <1> QED
    BY <1>1, <1>2 DEF KeptOK, AskOK

-----------------------------------------------------------------------------
(* The lists.                                                              *)
LEMMA SelectShows ==
    ASSUME NEW s \in Seq(Messages), NEW q, Shows(s, q), NEW S
    PROVE  Select(s, S) \in Seq(Messages) /\ Shows(Select(s, S), q)
  <1> DEFINE t == Select(s, S)
  <1>1. t \in Seq(Messages) /\ Selects(t, s, Len(s), S)
    BY SelectFacts
  <1> HIDE DEF t
  <1>2. Len(t) <= Limit
    BY <1>1, BrowseAssumption DEF Selects, Shows
  <1>3. \A i \in 1 .. Len(t) : \E a \in 1 .. Len(s) : t[i] = s[a]
    BY <1>1 DEF Selects
  <1>4. ListedFor(t, q) /\ \A i \in 1 .. Len(t) : t[i] \in Matches[q.filter]
    BY <1>3 DEF Shows, ListedFor
  <1>5. \A i, j \in 1 .. Len(t) : i < j => received_at(t[i]) >= received_at(t[j])
    <2>1. SUFFICES ASSUME NEW i \in 1 .. Len(t), NEW j \in 1 .. Len(t), i < j
                   PROVE  received_at(t[i]) >= received_at(t[j])
      OBVIOUS
    <2>2. PICK a \in 1 .. Len(s), b \in 1 .. Len(s) : a < b /\ t[i] = s[a] /\ t[j] = s[b]
      BY <1>1, <2>1 DEF Selects
    <2> QED
      BY <2>2 DEF Shows
  <1> QED
    BY <1>1, <1>2, <1>4, <1>5 DEF Shows, t

LEMMA SortedFacts ==
    ASSUME MailOK, NEW s \in Seq(Messages)
    PROVE  /\ Sorted(s) \in Seq(Messages) /\ Len(Sorted(s)) = Len(s)
           /\ \A i \in 1 .. Len(s) : \E a \in 1 .. Len(s) : Sorted(s)[i] = s[a]
           /\ \A a \in 1 .. Len(s) : \E i \in 1 .. Len(s) : s[a] = Sorted(s)[i]
           /\ \A i, j \in 1 .. Len(s) :
                  i < j => received_at(Sorted(s)[i]) >= received_at(Sorted(s)[j])
  <1> DEFINE n == Len(s)
             D == DOMAIN s
             Before(i, j) ==
                 \/ received_at(s[i]) > received_at(s[j])
                 \/ received_at(s[i]) = received_at(s[j]) /\ i < j
             InPlace(p) == \A i, j \in D : i < j => Before(p[i], p[j])
             places == CHOOSE p \in [D -> D] : InPlace(p)
             pos == [i \in D |-> 0 - received_at(s[i])]
  <1>1. n \in Nat /\ D = 1 .. n /\ \A i \in D : s[i] \in Messages
    OBVIOUS
  <1>2. \A m \in Messages : received_at(m) \in Int
    BY BrowseAssumption DEF MailOK, Mail, received_at
  <1>3. Sorted(s) = [i \in D |-> s[places[i]]]
    BY DEF Sorted
  <1>a. pos \in [D -> Int] /\ \A i, j \in D : Precedes(pos, i, j) <=> Before(i, j)
    <2>1. pos \in [D -> Int]
      BY <1>1, <1>2
    <2> QED
      BY <1>1, <1>2, <2>1 DEF Precedes
  <1> HIDE DEF pos, Before
  <1>b. /\ \E p \in [1 .. n -> D] : InOrder(p, pos)
        /\ \A p \in [1 .. n -> D] : InOrder(p, pos) => \A a \in D : p[Place(D, pos, a)] = a
        /\ \A a \in D : Place(D, pos, a) \in 1 .. n
    <2>1. IsFiniteSet(D) /\ Cardinality(D) = n /\ D \in SUBSET Nat
      <3>1. IsFiniteSet(1 .. n) /\ Cardinality(1 .. n) = n
        BY <1>1, FS_Interval
      <3> QED
        BY <1>1, <3>1
    <2> QED
      BY <1>a, <2>1, OrderPlaces, PlacesNumber
  <1>4. \E p \in [D -> D] : InPlace(p)
    <2>1. PICK p \in [1 .. n -> D] : InOrder(p, pos)
      BY <1>b
    <2>2. p \in [D -> D] /\ \A i \in D : p[i] \in D
      BY <1>1, <2>1
    <2>3. InPlace(p)
      BY <1>a, <2>1, <2>2 DEF InOrder
    <2> QED
      BY <2>2, <2>3
  <1> HIDE DEF InPlace
  <1>5. places \in [D -> D] /\ InPlace(places)
    BY <1>4
  <1> HIDE DEF places
  <1>6. \A i \in D : places[i] \in D
    BY <1>5
  <1>7. \A i, j \in D : i < j => Before(places[i], places[j])
    BY <1>5 DEF InPlace
  <1> DEFINE t == [i \in D |-> s[places[i]]]
  <1>8. t \in Seq(Messages) /\ Len(t) = n /\ \A i \in D : t[i] = s[places[i]]
    BY <1>1, <1>6
  <1> HIDE DEF t
  <1>9. \A i, j \in D : i < j => received_at(t[i]) >= received_at(t[j])
    <2>1. SUFFICES ASSUME NEW i \in D, NEW j \in D, i < j
                   PROVE  received_at(t[i]) >= received_at(t[j])
      OBVIOUS
    <2> DEFINE a == places[i]
               b == places[j]
    <2>2. a \in D /\ b \in D /\ t[i] = s[a] /\ t[j] = s[b] /\ Before(a, b)
      BY <1>6, <1>7, <1>8, <2>1
    <2> HIDE DEF a, b
    <2> USE DEF Before
    <2>3. received_at(s[a]) \in Int /\ received_at(s[b]) \in Int
      BY <1>1, <1>2, <2>2
    <2> QED
      BY <2>2, <2>3
  <1>10. ASSUME NEW a \in D PROVE \E i \in 1 .. n : s[a] = t[i]
    <2>1. InOrder(places, pos) /\ places \in [1 .. n -> D]
      BY <1>1, <1>5, <1>6, <1>7, <1>a DEF InOrder
    <2>2. PICK i \in 1 .. n : places[i] = a
      BY <1>b, <1>10, <2>1
    <2> QED
      BY <1>1, <1>8, <2>2
  <1> QED
    BY <1>1, <1>3, <1>6, <1>8, <1>9, <1>10 DEF t

LEMMA ResultShows ==
    ASSUME MailOK, NEW r, BusyOK(r), r.limit = Limit
    PROVE  /\ Result(r) \in Seq(Messages) /\ Shows(Result(r), r.ask.query)
           /\ InBox(r.out) => InBox(Result(r))
  <1> DEFINE q == r.ask.query
             S == Matches[q.filter]
             s == Select(r.out, S)
             t == Sorted(s)
  <1>1. /\ r.out \in Seq(Messages) /\ ListedFor(r.out, q) /\ Len(r.out) <= Limit
        /\ Len(r.out) \in Nat
    BY DEF BusyOK, Asked
  <1>2. s \in Seq(Messages) /\ Selects(s, r.out, Len(r.out), S)
    BY <1>1, SelectFacts
  <1> HIDE DEF s
  <1>3. /\ t \in Seq(Messages) /\ Len(t) = Len(s)
        /\ \A i \in 1 .. Len(s) : \E a \in 1 .. Len(s) : t[i] = s[a]
        /\ \A i, j \in 1 .. Len(s) : i < j => received_at(t[i]) >= received_at(t[j])
    BY <1>2, SortedFacts
  <1>4. Result(r) = t
    BY DEF Result, s
  <1> HIDE DEF t
  <1>5. \A i \in 1 .. Len(t) : t[i] \in S /\ \E a \in 1 .. Len(r.out) : t[i] = r.out[a]
    BY <1>2, <1>3 DEF Selects
  <1>6. Len(t) <= Limit
    BY <1>1, <1>2, <1>3, BrowseAssumption DEF Selects
  <1>7. ListedFor(t, q)
    BY <1>1, <1>5 DEF ListedFor
  <1>8. Shows(t, q)
    BY <1>3, <1>5, <1>6, <1>7 DEF Shows
  <1>9. InBox(r.out) => InBox(t)
    BY <1>5 DEF InBox
  <1> QED
    BY <1>3, <1>4, <1>8, <1>9

LEMMA RestFacts ==
    ASSUME MailOK, NEW r, r.cursor \in Nat
    PROVE  /\ Rest(r) \in Seq(Messages)
           /\ ListedFor(Rest(r), r.ask.query) /\ InBox(Rest(r))
  <1> DEFINE q == r.ask.query
             S == {m \in Messages : Lists(m, q)}
             back == Reverse(box)
             all == Select(back, S)
             newer == {m \in Messages : mail[m].nth < r.cursor}
  <1>1. box \in Seq(Messages) /\ Len(box) \in Nat
    BY DEF MailOK
  <1>2. /\ back \in Seq(Messages) /\ Len(back) = Len(box)
        /\ \A i \in 1 .. Len(box) : back[i] = box[Len(box) - i + 1]
    BY <1>1 DEF Reverse
  <1>3. \A i \in 1 .. Len(back) : back[i] \in Came /\ back[i] \in Range(box)
    <2>1. \A i \in 1 .. Len(box) : box[i] \in Came /\ box[i] \in Range(box)
      BY <1>1 DEF MailOK, Range
    <2>2. \A i \in 1 .. Len(box) : Len(box) - i + 1 \in 1 .. Len(box)
      BY <1>1
    <2> QED
      BY <1>2, <2>1, <2>2
  <1> HIDE DEF back
  <1>4. all \in Seq(Messages) /\ Selects(all, back, Len(back), S)
    BY <1>2, SelectFacts
  <1> HIDE DEF all
  <1>5. \A i \in 1 .. Len(all) : all[i] \in Came /\ all[i] \in Range(box) /\ Lists(all[i], q)
    BY <1>3, <1>4 DEF Selects
  <1>6. CASE site.provider = "graph"
    <2>1. Rest(r) = SubSeq(all, r.cursor + 1, Len(all))
      BY <1>6 DEF Rest, all, back
    <2>2. /\ Rest(r) \in Seq(Messages)
          /\ \A i \in 1 .. Len(Rest(r)) : \E a \in 1 .. Len(all) : Rest(r)[i] = all[a]
      <3> DEFINE t == SubSeq(all, r.cursor + 1, Len(all))
      <3>1. t \in Seq(Messages)
        BY <1>4
      <3>2. Len(t) = IF r.cursor + 1 <= Len(all) THEN Len(all) - r.cursor ELSE 0
        BY <1>4
      <3>3. ASSUME NEW i \in 1 .. Len(t)
            PROVE  t[i] = all[r.cursor + i] /\ r.cursor + i \in 1 .. Len(all)
        <4>1. r.cursor + i \in 1 .. Len(all) /\ i \in 1 .. Len(all) - (r.cursor + 1) + 1
          BY <1>4, <3>2
        <4>2. t[i] = all[r.cursor + 1 + i - 1]
          BY <1>4, <4>1
        <4> QED
          BY <4>1, <4>2
      <3> QED
        BY <2>1, <3>1, <3>3
    <2> QED
      BY <1>5, <2>2 DEF ListedFor, InBox
  <1>7. CASE site.provider # "graph"
    <2>1. Rest(r) = Select(all, newer)
      BY <1>7 DEF Rest, all, back
    <2>2. Rest(r) \in Seq(Messages) /\ Selects(Rest(r), all, Len(all), newer)
      BY <1>4, <2>1, SelectFacts
    <2>3. \A i \in 1 .. Len(Rest(r)) : \E a \in 1 .. Len(all) : Rest(r)[i] = all[a]
      BY <2>2 DEF Selects
    <2> QED
      BY <1>5, <2>2, <2>3 DEF ListedFor, InBox
  <1> QED
    BY <1>6, <1>7

-----------------------------------------------------------------------------
(* The steps of one worker.                                                *)
LEMMA OneRequest ==
    ASSUME MailOK, RequestsOK, UNCHANGED mailVars, NEW w \in Workers, NEW r,
           RequestOK(r), request' = [request EXCEPT ![w] = r]
    PROVE  RequestsOK'
  <1>1. MailGrows /\ MailOK'
    BY MailStill
  <1>2. r \in Asked \cup Page \cup Ended
    BY DEF RequestOK, BusyOK, PageOK
  <1>3. \A v \in Workers : request'[v] = IF v = w THEN r ELSE request[v]
    BY DEF RequestsOK
  <1>4. \A v \in Workers : RequestOK(request'[v])
    BY <1>3 DEF RequestsOK
  <1>5. \A x : RequestOK(x) => RequestOK(x)'
    BY <1>1, RequestStays
  <1>6. \A v \in Workers : RequestOK(request[v])'
    <2> SUFFICES ASSUME NEW v \in Workers PROVE RequestOK(request[v])'
      OBVIOUS
    <2>1. PICK x : x = request'[v]
      OBVIOUS
    <2>2. RequestOK(x)'
      BY <1>4, <1>5, <2>1
    <2> QED
      BY <2>1, <2>2
  <1> QED
    BY <1>2, <1>6 DEF RequestsOK

LEMMA ListsStay ==
    ASSUME MailOK, ListsOK, UNCHANGED mailVars, DOMAIN entries' \subseteq DOMAIN entries,
           \A k \in DOMAIN entries' : entries'[k] = entries[k] /\ lists'[k] = lists[k],
           DOMAIN lists' = DOMAIN entries', CacheOK
    PROVE  ListsOK'
  <1>1. MailGrows /\ MailOK'
    BY MailStill
  <1>2. clock \in Int /\ \A k \in DOMAIN entries : entries[k] \in Int /\ entries[k] <= clock + Ttl
    BY Capacity, BrowseAssumption DEF CacheOK
  <1>3. ASSUME NEW k \in DOMAIN entries'
        PROVE  KeptOK(lists[k], k, entries[k])'
    <2>1. PICK kept, deadline : kept = lists[k] /\ deadline = entries[k]
      OBVIOUS
    <2>2. KeptOK(kept, k, deadline)
      BY <1>3, <2>1 DEF ListsOK
    <2>3. KeptOK(kept, k, deadline)'
      BY <1>1, <1>2, <1>3, <2>1, <2>2, KeptStays
    <2>4. kept = lists'[k] /\ deadline = entries'[k]
      BY <1>3, <2>1
    <2> QED
      BY <2>3, <2>4
  <1> QED
    BY <1>3 DEF ListsOK

LEMMA Sited ==
    ASSUME MailOK
    PROVE  /\ site \in [provider : {"graph", "gmail"}, origin : Nat,
                        process : {"web", "command"}]
           /\ MaxChanges[site.process] \in Nat /\ changes \in Nat
  BY BrowseAssumption DEF MailOK

LEMMA BeginKeeps ==
    ASSUME BrowseInv, NEW w \in Workers, NEW ask \in Cache!CacheKey,
           NEW find \in Messages \cup {None}, NEW limit \in Nat,
           site.process = "web" => limit = Limit, Begin(w, ask, find, limit)
    PROVE  BrowseInv' /\ EvictsOldest
  <1> DEFINE r == [pc |-> "cache", ask |-> ask, find |-> find, limit |-> limit,
                   cursor |-> Start, more |-> TRUE, todo |-> <<>>, out |-> <<>>,
                   tries |-> 0, asof |-> 0]
  <1>1. request' = [request EXCEPT ![w] = r] /\ UNCHANGED <<cacheVars, lists, mailVars>>
    BY DEF Begin
  <1>2. ask.query.period.month \in 1 .. 12
    BY DEF Begin, clamp_period
  <1>3. Start \in Nat
    BY Sited DEF Start, BrowseInv
  <1>4. r \in Asked
    BY <1>3, BrowseAssumption DEF Asked
  <1>5. BusyOK(r)
    <2>1. /\ r.pc = "cache" /\ r.ask = ask /\ r.limit = limit /\ Len(r.todo) = 0
          /\ Len(r.out) = 0 /\ r.asof = 0
      OBVIOUS
    <2> HIDE DEF r
    <2> QED
      BY <1>2, <1>4, <2>1, Sited DEF BusyOK, AskOK, ListedFor, InBox, BrowseInv
  <1> HIDE DEF r
  <1>6. RequestsOK'
    BY <1>1, <1>5, OneRequest DEF BrowseInv, RequestOK
  <1>7. CacheOK' /\ EvictsOldest
    BY <1>1, CacheStays DEF BrowseInv
  <1>8. ListsOK'
    BY <1>1, ListsStay DEF BrowseInv, ListsOK, cacheVars
  <1> QED
    BY <1>1, <1>6, <1>7, <1>8, MailStill DEF BrowseInv

LEMMA NewRequestKeeps ==
    ASSUME BrowseInv, NEW w \in Workers, NewRequest(w)
    PROVE  BrowseInv' /\ EvictsOldest
  <1>1. Limit \in Nat /\ CliLimits \subseteq Nat /\ NoFilter \in Filters
    BY BrowseAssumption
  <1>2. \A a \in Accounts, p \in Periods, f \in Filters : Ask(a, p, f) \in Cache!CacheKey
    BY DEF Ask, Cache!CacheKey, Query
  <1>3. ASSUME NEW a \in Accounts, NEW p \in Periods, NEW f \in Filters, report_page(w, a, p, f)
        PROVE  BrowseInv' /\ EvictsOldest
    BY <1>1, <1>2, <1>3, BeginKeeps DEF report_page
  <1>4. ASSUME NEW a \in Accounts, NEW p \in Periods, NEW f \in Filters, NEW limit \in CliLimits,
               cmd_messages_list(w, a, p, f, limit)
        PROVE  BrowseInv' /\ EvictsOldest
    BY <1>1, <1>2, <1>4, BeginKeeps DEF cmd_messages_list
  <1>5. ASSUME NEW a \in Accounts, NEW p \in Periods, NEW m \in Messages,
               cmd_report_add(w, a, p, m)
        PROVE  BrowseInv' /\ EvictsOldest
    BY <1>1, <1>2, <1>5, BeginKeeps DEF cmd_report_add
  <1>6. ASSUME NEW m \in Messages, report_add_item(w, m)
        PROVE  BrowseInv' /\ EvictsOldest
    <2> DEFINE ask == request[w].ask
               whole == [ask EXCEPT !.query.filter = NoFilter]
    <2>1. Begin(w, whole, m, Limit) /\ request[w].pc = "page"
      BY <1>6 DEF report_add_item
    <2>2. ask \in Cache!CacheKey
      <3>1. RequestOK(request[w])
        BY DEF BrowseInv, RequestsOK
      <3> QED
        BY <2>1, <3>1 DEF RequestOK, BusyOK, PageOK, AskOK, Ended
    <2>3. whole \in Cache!CacheKey
      BY <1>1, <2>2 DEF Cache!CacheKey, Query
    <2> HIDE DEF whole
    <2> QED
      BY <1>1, <2>1, <2>3, BeginKeeps
  <1> QED
    BY <1>3, <1>4, <1>5, <1>6 DEF NewRequest

LEMMA AnswerKeeps ==
    ASSUME MailOK, RequestsOK, UNCHANGED mailVars, NEW w \in Workers, NEW r, AskOK(r.ask),
           NEW list \in Seq(Messages),
           site.process = "web" => Shows(list, r.ask.query), Answer(w, r, list)
    PROVE  RequestsOK'
  <1>1. ASSUME NEW R, R \in Ended \/ PageOK(R), Set(w, R)
        PROVE  RequestsOK'
    BY <1>1, OneRequest DEF Set, RequestOK
  <1>2. CASE r.find # None
    <2>1. PICK R : R = [pc |-> IF r.find \in Range(list) THEN "ended" ELSE "missing"]
      OBVIOUS
    <2>2. R \in Ended
      BY <2>1 DEF Ended
    <2>3. Set(w, R)
      BY <1>2, <2>1 DEF Answer
    <2> QED
      BY <1>1, <2>2, <2>3
  <1>3. CASE r.find = None /\ site.process = "command"
    <2>1. PICK R : R = [pc |-> "ended"]
      OBVIOUS
    <2>2. R \in Ended
      BY <2>1 DEF Ended
    <2>3. Set(w, R)
      BY <1>3, <2>1 DEF Answer
    <2> QED
      BY <1>1, <2>2, <2>3
  <1>4. CASE r.find = None /\ site.process # "command"
    <2>1. PICK only \in BOOLEAN :
              Set(w, [pc |-> "page", ask |-> r.ask, shown |-> View(list, only)])
      BY <1>4 DEF Answer
    <2>2. Shows(list, r.ask.query)
      BY <1>4, Sited
    <2>3. View(list, only) \in Seq(Messages) /\ Shows(View(list, only), r.ask.query)
      BY <2>2, SelectShows DEF View
    <2>4. PICK shown : shown = View(list, only)
      OBVIOUS
    <2>5. PICK R : R = [pc |-> "page", ask |-> r.ask, shown |-> shown]
      OBVIOUS
    <2>6. R \in Page /\ R.ask = r.ask /\ R.shown = shown
      BY <2>3, <2>4, <2>5 DEF Page, AskOK
    <2>7. PageOK(R)
      BY <2>3, <2>4, <2>6 DEF PageOK
    <2> QED
      BY <1>1, <2>1, <2>4, <2>5, <2>7
  <1> QED
    BY <1>2, <1>3, <1>4

LEMMA Begun ==
    ASSUME BrowseInv, NEW w \in Workers, Busy(w)
    PROVE  BusyOK(request[w]) /\ Key(request[w]) \in Cache!CacheKey
  BY DEF BrowseInv, RequestsOK, RequestOK, PageOK, Page, Ended, Busy, BusyOK, AskOK, Key

LEMMA FromCacheKeeps ==
    ASSUME BrowseInv, NEW w \in Workers, FromCache(w)
    PROVE  BrowseInv' /\ EvictsOldest
  <1> DEFINE r == request[w]
  <1>1. BusyOK(r) /\ Key(r) = r.ask
    BY Begun DEF FromCache, Busy, Key
  <1>2. /\ Cache!Hit(Key(r)) /\ Answer(w, r, lists[Key(r)].list)
        /\ UNCHANGED <<lists, mailVars>>
    BY DEF FromCache
  <1>3. Key(r) \in DOMAIN entries /\ entries' = entries
    BY <1>2 DEF Cache!Hit, Cache!Held
  <1>4. CacheOK' /\ EvictsOldest
    BY <1>2, CacheHits DEF BrowseInv
  <1>5. KeptOK(lists[Key(r)], Key(r), entries[Key(r)])
    BY <1>3 DEF BrowseInv, ListsOK
  <1> HIDE DEF r
  <1>6. RequestsOK'
    <2>1. lists[Key(r)].list \in Seq(Messages) /\ Shows(lists[Key(r)].list, r.ask.query)
      BY <1>1, <1>5 DEF KeptOK, Listed
    <2>2. AskOK(r.ask) /\ UNCHANGED mailVars
      BY <1>1, <1>2 DEF BusyOK
    <2> QED
      BY <1>2, <2>1, <2>2, AnswerKeeps DEF BrowseInv
  <1>7. ListsOK'
    BY <1>2, <1>3, ListsStay DEF BrowseInv, ListsOK
  <1> QED
    BY <1>2, <1>4, <1>6, <1>7, MailStill DEF BrowseInv

LEMMA DropLists ==
    ASSUME CacheOK, ListsOK, NEW ks, Cache!Drop(ks), lists' = Restrict(lists, DOMAIN entries')
    PROVE  /\ DOMAIN entries' \subseteq DOMAIN entries /\ DOMAIN lists' = DOMAIN entries'
           /\ \A k \in DOMAIN entries' : entries'[k] = entries[k] /\ lists'[k] = lists[k]
  <1>1. entries' = [k \in DOMAIN entries \ ks |-> entries[k]]
    BY DEF Cache!Drop, Cache!Held
  <1> QED
    BY <1>1 DEF Restrict

LEMMA MissKeeps ==
    ASSUME BrowseInv, NEW w \in Workers, Miss(w)
    PROVE  BrowseInv' /\ EvictsOldest
  <1> DEFINE r == request[w]
  <1>1. BusyOK(r) /\ r.pc = "cache"
    BY Begun DEF Miss, Busy
  <1>2. /\ Set(w, [r EXCEPT !.pc = "listing", !.asof = changes])
        /\ UNCHANGED mailVars
        /\ \/ UNCHANGED <<cacheVars, lists>>
           \/ Cache!Drop({Key(r)}) /\ lists' = Restrict(lists, DOMAIN entries')
    BY DEF Miss, Cache!GetExpired
  <1>3. PICK R : R = [r EXCEPT !.pc = "listing", !.asof = changes]
    OBVIOUS
  <1>4. changes \in Nat
    BY Sited DEF BrowseInv
  <1> HIDE DEF r
  <1>5. R \in Asked
    BY <1>1, <1>3, <1>4 DEF BusyOK, Asked
  <1>6. /\ R.pc = "listing" /\ R.asof = changes /\ R.ask = r.ask /\ R.limit = r.limit
        /\ R.todo = r.todo /\ R.out = r.out
    BY <1>1, <1>3 DEF BusyOK, Asked
  <1>7. BusyOK(R)
    BY <1>1, <1>4, <1>5, <1>6 DEF BusyOK, InBox
  <1>8. RequestsOK'
    BY <1>2, <1>3, <1>7, OneRequest DEF BrowseInv, RequestOK, Set, r
  <1>9. CASE UNCHANGED <<cacheVars, lists>>
    BY <1>2, <1>8, <1>9, CacheStays, MailStill, ListsStay DEF BrowseInv, ListsOK, cacheVars
  <1>10. CASE Cache!Drop({Key(r)}) /\ lists' = Restrict(lists, DOMAIN entries')
    <2>1. CacheOK' /\ EvictsOldest
      BY <1>10, CacheDrops DEF BrowseInv
    <2>2. ListsOK'
      BY <1>2, <1>10, DropLists, ListsStay DEF BrowseInv
    <2> QED
      BY <1>2, <1>8, <2>1, <2>2, MailStill DEF BrowseInv
  <1> QED
    BY <1>2, <1>9, <1>10

(* A step after which only the request of a worker is another. *)
LEMMA RequestKeeps ==
    ASSUME BrowseInv, NEW w \in Workers, NEW r, RequestOK(r), Set(w, r),
           UNCHANGED <<cacheVars, lists, mailVars>>
    PROVE  BrowseInv' /\ EvictsOldest
  <1>1. CacheOK' /\ EvictsOldest
    BY CacheStays DEF BrowseInv
  <1>2. RequestsOK'
    BY OneRequest DEF BrowseInv, Set
  <1>3. ListsOK'
    BY ListsStay DEF BrowseInv, ListsOK, cacheVars
  <1> QED
    BY <1>1, <1>2, <1>3, MailStill DEF BrowseInv

LEMMA ThrottledKeeps ==
    ASSUME BrowseInv, NEW w \in Workers, Throttled(w)
    PROVE  BrowseInv' /\ EvictsOldest
  <1> DEFINE r == request[w]
  <1>1. BusyOK(r) /\ r.tries < Attempts - 1
    BY Begun DEF Throttled, Busy
  <1>2. Set(w, [r EXCEPT !.tries = @ + 1]) /\ UNCHANGED <<cacheVars, lists, mailVars>>
    BY DEF Throttled
  <1> HIDE DEF r
  <1>3. PICK R : R = [r EXCEPT !.tries = r.tries + 1]
    OBVIOUS
  <1>4. r.tries + 1 \in 0 .. Attempts - 1
    BY <1>1, BrowseAssumption DEF BusyOK, Asked
  <1>5. R \in Asked
    BY <1>1, <1>3, <1>4 DEF BusyOK, Asked
  <1>6. /\ R.pc = r.pc /\ R.asof = r.asof /\ R.ask = r.ask /\ R.limit = r.limit
        /\ R.todo = r.todo /\ R.out = r.out
    BY <1>1, <1>3 DEF BusyOK, Asked
  <1>7. BusyOK(R)
    BY <1>1, <1>5, <1>6 DEF BusyOK
  <1> QED
    BY <1>2, <1>3, <1>7, RequestKeeps DEF RequestOK

LEMMA ProviderFailsKeeps ==
    ASSUME BrowseInv, NEW w \in Workers, ProviderFails(w)
    PROVE  BrowseInv' /\ EvictsOldest
  <1>1. PICK R : R = [pc |-> "ended"]
    OBVIOUS
  <1>2. RequestOK(R)
    BY <1>1 DEF RequestOK, Ended
  <1> QED
    BY <1>1, <1>2, RequestKeeps DEF ProviderFails

LEMMA GetPageKeeps ==
    ASSUME BrowseInv, NEW w \in Workers, GetPage(w)
    PROVE  BrowseInv' /\ EvictsOldest
  <1> DEFINE r == request[w]
             left == IF site.provider = "graph" THEN r.limit ELSE r.limit - Len(r.out)
             top == Least(PageSize, left)
             rest == Rest(r)
             page == SubSeq(rest, 1, Least(top, Len(rest)))
             more == Len(rest) > top
             cursor == IF page = <<>> THEN r.cursor
                       ELSE IF site.provider = "graph"
                       THEN r.cursor + Len(page) ELSE mail[Last(page)].nth
             R == [r EXCEPT !.pc = Onward(r, page, more, r.out),
                            !.todo = page, !.more = more, !.tries = 0, !.cursor = cursor]
  <1>1. BusyOK(r) /\ Set(w, R) /\ UNCHANGED <<cacheVars, lists, mailVars>>
    BY Begun DEF GetPage, Busy
  <1> HIDE DEF r
  <1>2. /\ r \in Asked /\ r.limit \in Nat /\ Len(r.out) \in Nat /\ Len(r.out) <= r.limit
        /\ r.cursor \in Nat
    BY <1>1 DEF BusyOK, Asked
  <1>3. rest \in Seq(Messages) /\ ListedFor(rest, r.ask.query) /\ InBox(rest)
    BY <1>2, RestFacts DEF BrowseInv
  <1> HIDE DEF rest
  <1>4. top \in Nat /\ Least(top, Len(rest)) \in 0 .. Len(rest)
    BY <1>2, <1>3, BrowseAssumption DEF Least
  <1> HIDE DEF top
  <1>5. /\ page \in Seq(Messages) /\ Len(page) = Least(top, Len(rest))
        /\ \A i \in 1 .. Len(page) : page[i] = rest[i] /\ i \in 1 .. Len(rest)
    BY <1>3, <1>4
  <1>6. more \in BOOLEAN
    OBVIOUS
  <1> HIDE DEF page, more
  <1>7. ListedFor(page, r.ask.query) /\ InBox(page)
    BY <1>3, <1>5 DEF ListedFor, InBox
  <1>8. cursor \in Nat
    <2>1. Len(page) \in Nat
      BY <1>5
    <2>2. page # <<>> => mail[Last(page)].nth \in Nat
      <3>1. SUFFICES ASSUME page # <<>> PROVE Last(page) \in Messages
        BY DEF BrowseInv, MailOK, Mail
      <3> QED
        BY <1>5, <3>1 DEF Last
    <2> QED
      BY <1>2, <2>1, <2>2
  <1> HIDE DEF cursor
  <1>9. PICK pc : pc = Onward(r, page, more, r.out)
    OBVIOUS
  <1>10. /\ pc \in {"done", "headers", "listing"}
         /\ pc = "headers" => Len(page) > 0 /\ Len(r.out) < r.limit
    BY <1>2, <1>5, <1>9 DEF Onward
  <1>11. /\ R.pc = pc /\ R.todo = page /\ R.more = more /\ R.tries = 0 /\ R.cursor = cursor
         /\ R.ask = r.ask /\ R.find = r.find /\ R.limit = r.limit /\ R.out = r.out
         /\ R.asof = r.asof
    BY <1>2, <1>9 DEF Asked
  <1>12. R \in Asked
    <2>1. R = [r EXCEPT !.pc = pc, !.todo = page, !.more = more, !.tries = 0,
                        !.cursor = cursor]
      BY <1>9
    <2>2. /\ pc \in {"cache", "listing", "headers", "done"} /\ page \in Seq(Messages)
          /\ more \in BOOLEAN /\ cursor \in Nat /\ 0 \in 0 .. Attempts - 1
      BY <1>5, <1>6, <1>8, <1>10, BrowseAssumption
    <2> HIDE DEF R
    <2> QED
      BY <1>2, <2>1, <2>2 DEF Asked
  <1> HIDE DEF R
  <1>13. BusyOK(R)
    BY <1>1, <1>7, <1>10, <1>11, <1>12 DEF BusyOK
  <1> QED
    BY <1>1, <1>13, RequestKeeps DEF RequestOK

LEMMA GetHeaderKeeps ==
    ASSUME BrowseInv, NEW w \in Workers, GetHeader(w)
    PROVE  BrowseInv' /\ EvictsOldest
  <1> DEFINE r == request[w]
             m == Head(r.todo)
             todo == Tail(r.todo)
             counts == site.provider = "gmail" \/ m \in Matches[r.ask.query.filter]
             out == IF counts THEN Append(r.out, m) ELSE r.out
             R == [r EXCEPT !.pc = Onward(r, todo, r.more, out),
                            !.todo = todo, !.out = out, !.tries = 0]
  <1>1. BusyOK(r) /\ r.pc = "headers" /\ Set(w, R) /\ UNCHANGED <<cacheVars, lists, mailVars>>
    BY Begun DEF GetHeader, Busy
  <1> HIDE DEF r
  <1>2. /\ r \in Asked /\ r.limit \in Nat /\ r.out \in Seq(Messages) /\ r.todo \in Seq(Messages)
        /\ Len(r.todo) > 0 /\ Len(r.out) < r.limit
        /\ ListedFor(r.todo, r.ask.query) /\ ListedFor(r.out, r.ask.query)
    BY <1>1 DEF BusyOK, Asked
  <1>3. m = r.todo[1] /\ m \in Messages /\ 1 \in 1 .. Len(r.todo)
    BY <1>2
  <1>4. /\ todo \in Seq(Messages)
        /\ \A i \in 1 .. Len(todo) : todo[i] = r.todo[i + 1] /\ i + 1 \in 1 .. Len(r.todo)
    BY <1>2
  <1> HIDE DEF m, todo
  <1>5. /\ out \in Seq(Messages) /\ Len(out) <= r.limit
        /\ \A i \in 1 .. Len(out) : out[i] = m \/ \E a \in 1 .. Len(r.out) : out[i] = r.out[a]
    <2>1. CASE counts
      <3>1. /\ Append(r.out, m) \in Seq(Messages) /\ Len(Append(r.out, m)) = Len(r.out) + 1
            /\ Append(r.out, m)[Len(r.out) + 1] = m
            /\ \A i \in 1 .. Len(r.out) : Append(r.out, m)[i] = r.out[i]
        BY <1>2, <1>3
      <3>2. \A i \in 1 .. Len(r.out) + 1 : i \in 1 .. Len(r.out) \/ i = Len(r.out) + 1
        BY <1>2
      <3>3. out = Append(r.out, m)
        BY <2>1
      <3>4. Len(r.out) + 1 <= r.limit
        BY <1>2
      <3> HIDE DEF out
      <3> QED
        BY <3>1, <3>2, <3>3, <3>4
    <2>2. CASE ~counts
      BY <1>2, <2>2
    <2> QED
      BY <2>1, <2>2
  <1> HIDE DEF out
  <1>6. ListedFor(todo, r.ask.query) /\ ListedFor(out, r.ask.query)
    BY <1>2, <1>3, <1>4, <1>5 DEF ListedFor
  <1>7. r.asof = changes => InBox(todo) /\ InBox(out)
    <2>1. SUFFICES ASSUME r.asof = changes PROVE InBox(todo) /\ InBox(out)
      OBVIOUS
    <2>2. InBox(r.todo) /\ InBox(r.out)
      BY <1>1, <2>1 DEF BusyOK
    <2> QED
      BY <1>3, <1>4, <1>5, <2>2 DEF InBox
  <1>8. PICK pc : pc = Onward(r, todo, r.more, out)
    OBVIOUS
  <1>9. /\ pc \in {"done", "headers", "listing"}
        /\ pc = "headers" => Len(todo) > 0 /\ Len(out) < r.limit
    BY <1>2, <1>4, <1>5, <1>8 DEF Onward
  <1>10. /\ R.pc = pc /\ R.todo = todo /\ R.out = out /\ R.ask = r.ask /\ R.limit = r.limit
         /\ R.asof = r.asof
    BY <1>2, <1>8 DEF Asked
  <1>11. R \in Asked
    <2>1. R = [r EXCEPT !.pc = pc, !.todo = todo, !.out = out, !.tries = 0]
      BY <1>8
    <2>2. /\ pc \in {"cache", "listing", "headers", "done"} /\ todo \in Seq(Messages)
          /\ out \in Seq(Messages) /\ 0 \in 0 .. Attempts - 1
      BY <1>4, <1>5, <1>9, BrowseAssumption
    <2> HIDE DEF R
    <2> QED
      BY <1>2, <2>1, <2>2 DEF Asked
  <1> HIDE DEF R
  <1>12. BusyOK(R)
    BY <1>1, <1>5, <1>6, <1>7, <1>9, <1>10, <1>11 DEF BusyOK
  <1> QED
    BY <1>1, <1>12, RequestKeeps DEF RequestOK

LEMMA FinishKeeps ==
    ASSUME BrowseInv, NEW w \in Workers, Finish(w)
    PROVE  BrowseInv' /\ EvictsOldest
  <1> DEFINE r == request[w]
             listed == [list |-> Result(r), asof |-> IF r.asof = changes THEN changes ELSE Torn]
  <1>1. BusyOK(r) /\ Key(r) \in Cache!CacheKey
    BY Begun DEF Finish, Busy
  <1>2. Store(r, listed) /\ Answer(w, r, Result(r)) /\ UNCHANGED mailVars
    BY DEF Finish
  <1> HIDE DEF r
  <1>3. changes \in Nat /\ site.process \in {"web", "command"}
    BY Sited DEF BrowseInv
  <1>4. Result(r) \in Seq(Messages)
    <2>1. r.out \in Seq(Messages)
      BY <1>1 DEF BusyOK, Asked
    <2>2. Select(r.out, Matches[r.ask.query.filter]) \in Seq(Messages)
      BY <2>1, SelectFacts
    <2> QED
      BY <2>2, SortedFacts DEF Result, BrowseInv
  <1>5. site.process = "web" =>
            /\ Shows(Result(r), r.ask.query)
            /\ InBox(r.out) => InBox(Result(r))
    <2>1. site.process = "web" => r.limit = Limit
      BY <1>1 DEF BusyOK
    <2> QED
      BY <1>1, <2>1, ResultShows DEF BrowseInv
  <1>6. RequestsOK'
    BY <1>1, <1>2, <1>4, <1>5, AnswerKeeps DEF BrowseInv, BusyOK
  <1>7. MailOK' /\ MailGrows
    BY <1>2, MailStill DEF BrowseInv
  <1>8. CASE site.process = "command"
    <2>1. UNCHANGED <<cacheVars, lists>>
      BY <1>2, <1>8 DEF Store
    <2>2. CacheOK' /\ EvictsOldest
      BY <2>1, CacheStays DEF BrowseInv
    <2>3. ListsOK'
      BY <1>2, <2>1, ListsStay DEF BrowseInv, ListsOK, cacheVars
    <2> QED
      BY <1>6, <1>7, <2>2, <2>3 DEF BrowseInv
  <1>9. CASE site.process = "web"
    <2>1. /\ Cache!Put(Key(r))
          /\ lists' = [k \in DOMAIN entries' |-> IF k = Key(r) THEN listed ELSE lists[k]]
      BY <1>2, <1>9 DEF Store
    <2>2. /\ CacheOK' /\ EvictsOldest
          /\ DOMAIN entries' \subseteq DOMAIN entries \cup {Key(r)}
          /\ \A j \in DOMAIN entries' :
                 entries'[j] = IF j = Key(r) THEN clock + Ttl ELSE entries[j]
      BY <1>1, <2>1, CachePuts DEF BrowseInv
    <2>3. clock \in Int /\ Ttl \in Int
      BY Capacity, BrowseAssumption DEF BrowseInv, CacheOK
    <2>4. KeptOK(listed, Key(r), clock + Ttl)
      <3>1. /\ listed.list = Result(r)
            /\ listed.asof \in {changes, Torn} /\ (listed.asof # Torn => r.asof = changes)
        OBVIOUS
      <3>2. listed \in Listed
        BY <1>3, <1>4 DEF Listed
      <3>3. AskOK(Key(r)) /\ Shows(Result(r), Key(r).query)
        BY <1>1, <1>5, <1>9 DEF BusyOK, Key
      <3>4. r.asof = changes => InBox(Result(r))
        BY <1>1, <1>5, <1>9 DEF BusyOK
      <3>5. PICK deadline : deadline = clock + Ttl
        OBVIOUS
      <3>6. InBox(Result(r)) => Fresh(Result(r), deadline - Ttl)
        BY DEF InBox, Fresh
      <3> HIDE DEF listed
      <3>7. listed.asof # Torn => Fresh(listed.list, deadline - Ttl)
        BY <3>1, <3>4, <3>6
      <3>8. Shows(listed.list, Key(r).query)
        BY <3>1, <3>3, Zenon
      <3>9. KeptOK(listed, Key(r), deadline)
        BY <3>2, <3>3, <3>7, <3>8 DEF KeptOK
      <3> QED
        BY <3>5, <3>9
    <2> HIDE DEF listed
    <2>5. ASSUME NEW k \in DOMAIN entries' PROVE KeptOK(lists[k], k, entries[k])'
      <3>1. PICK kept, deadline : kept = lists'[k] /\ deadline = entries'[k]
        OBVIOUS
      <3>2. KeptOK(kept, k, deadline) /\ deadline \in Int /\ deadline <= clock + Ttl
        <4>1. CASE k = Key(r)
          BY <2>1, <2>2, <2>3, <2>4, <2>5, <3>1, <4>1
        <4>2. CASE k # Key(r)
          <5>1. k \in DOMAIN entries /\ kept = lists[k] /\ deadline = entries[k]
            BY <2>1, <2>2, <2>5, <3>1, <4>2
          <5> QED
            BY <5>1, BrowseAssumption DEF BrowseInv, ListsOK, CacheOK
        <4> QED
          BY <4>1, <4>2
      <3>3. KeptOK(kept, k, deadline)'
        BY <1>7, <2>3, <3>2, KeptStays DEF BrowseInv
      <3> QED
        BY <3>1, <3>3
    <2>6. ListsOK'
      BY <2>1, <2>5 DEF ListsOK
    <2> QED
      BY <1>6, <1>7, <2>2, <2>6 DEF BrowseInv
  <1> QED
    BY <1>3, <1>8, <1>9

-----------------------------------------------------------------------------
(* The mailbox and the clock.                                              *)
LEMMA MailChanges ==
    ASSUME BrowseInv, MailGrows, MailOK', UNCHANGED <<cacheVars, lists, request>>
    PROVE  BrowseInv' /\ EvictsOldest
  <1>1. CacheOK' /\ EvictsOldest
    BY CacheStays DEF BrowseInv
  <1>2. ListsOK'
    <2>1. clock \in Int /\ \A k \in DOMAIN entries : entries[k] \in Int /\ entries[k] <= clock + Ttl
      BY Capacity, BrowseAssumption DEF BrowseInv, CacheOK
    <2>2. ASSUME NEW k \in DOMAIN entries PROVE KeptOK(lists[k], k, entries[k])'
      <3>1. PICK kept, deadline : kept = lists[k] /\ deadline = entries[k]
        OBVIOUS
      <3>2. KeptOK(kept, k, deadline)
        BY <2>2, <3>1 DEF BrowseInv, ListsOK
      <3>3. KeptOK(kept, k, deadline)'
        BY <2>1, <2>2, <3>1, <3>2, KeptStays DEF BrowseInv
      <3>4. kept = lists'[k] /\ deadline = entries'[k]
        BY <3>1 DEF cacheVars
      <3> QED
        BY <3>3, <3>4
    <2> QED
      BY <2>2 DEF BrowseInv, ListsOK, cacheVars
  <1>3. RequestsOK'
    <2>1. ASSUME NEW v \in Workers PROVE RequestOK(request[v])'
      <3>1. PICK r : r = request[v]
        OBVIOUS
      <3>2. RequestOK(r)'
        BY <3>1, RequestStays DEF BrowseInv, RequestsOK
      <3>3. r = request'[v]
        BY <3>1
      <3> QED
        BY <3>2, <3>3
    <2> QED
      BY <2>1 DEF BrowseInv, RequestsOK
  <1> QED
    BY <1>1, <1>2, <1>3 DEF BrowseInv

LEMMA ArriveKeeps ==
    ASSUME BrowseInv, NEW m \in Messages, Arrive(m)
    PROVE  BrowseInv' /\ EvictsOldest
  <1>1. /\ m \notin Came /\ box' = Append(box, m)
        /\ mail' = [mail EXCEPT ![m] = [nth |-> changes + 1, at |-> Now, gone |-> 0]]
        /\ changes < MaxChanges[site.process] /\ changes' = changes + 1
        /\ site' = site /\ UNCHANGED <<cacheVars, lists, request>>
    BY DEF Arrive, Change
  <1>2. /\ changes \in Nat /\ MaxChanges[site.process] \in Nat /\ site.origin \in Nat
        /\ clock \in 0 .. MaxTime /\ MaxTime \in Nat
    BY Sited, BrowseAssumption DEF BrowseInv, CacheOK
  <1>3. Now \in Nat
    BY <1>2 DEF Now
  <1>4. mail \in [Messages -> Mail] /\ box \in Seq(Messages) /\ Len(box) \in Nat
    BY DEF BrowseInv, MailOK
  <1>5. mail' \in [Messages -> Mail]
    BY <1>1, <1>2, <1>3, <1>4 DEF Mail
  <1>6. \A x \in Messages \ {m} : mail'[x] = mail[x]
    BY <1>1, <1>4
  <1>7. mail'[m].nth = changes + 1
    BY <1>1, <1>4
  <1>8. m \in Came' /\ \A x \in Came : x \in Came' /\ mail'[x] = mail[x]
    <2>1. m \in Came'
      BY <1>2, <1>7 DEF Came
    <2> QED
      BY <1>1, <1>6, <2>1 DEF Came
  <1>9. /\ box' \in Seq(Messages) /\ Len(box') = Len(box) + 1 /\ box'[Len(box) + 1] = m
        /\ \A i \in 1 .. Len(box) : box'[i] = box[i]
    BY <1>1, <1>4
  <1>10. \A i \in 1 .. Len(box) + 1 : i \in 1 .. Len(box) \/ i = Len(box) + 1
    BY <1>4
  <1>11. MailOK'
    <2>1. \A i \in 1 .. Len(box') : box'[i] \in Came'
      BY <1>8, <1>9, <1>10 DEF BrowseInv, MailOK
    <2>2. changes' \in 0 .. MaxChanges[site.process]
      BY <1>1, <1>2
    <2> QED
      BY <1>1, <1>5, <1>9, <2>1, <2>2 DEF BrowseInv, MailOK
  <1>12. \A x \in Range(box) : x \in Range(box')
    <2>1. DOMAIN box = 1 .. Len(box) /\ DOMAIN box' = 1 .. Len(box) + 1
      BY <1>4, <1>9
    <2>2. \A i \in 1 .. Len(box) : i \in 1 .. Len(box) + 1
      BY <1>4
    <2> QED
      BY <1>9, <2>1, <2>2 DEF Range
  <1>13. MailGrows
    BY <1>1, <1>2, <1>8, <1>12 DEF MailGrows
  <1> QED
    BY <1>1, <1>11, <1>13, MailChanges

LEMMA LeaveKeeps ==
    ASSUME BrowseInv, NEW m \in Messages, Leave(m)
    PROVE  BrowseInv' /\ EvictsOldest
  <1>1. /\ m \in Range(box) /\ box' = Select(box, Messages \ {m})
        /\ mail' = [mail EXCEPT ![m].gone = clock]
        /\ changes < MaxChanges[site.process] /\ changes' = changes + 1
        /\ site' = site /\ UNCHANGED <<cacheVars, lists, request>>
    BY DEF Leave, Change
  <1>2. /\ changes \in Nat /\ MaxChanges[site.process] \in Nat
        /\ clock \in 0 .. MaxTime /\ MaxTime \in Nat
    BY Sited, BrowseAssumption DEF BrowseInv, CacheOK
  <1>3. mail \in [Messages -> Mail] /\ box \in Seq(Messages) /\ Len(box) \in Nat
    BY DEF BrowseInv, MailOK
  <1>4. mail' \in [Messages -> Mail]
    BY <1>1, <1>2, <1>3 DEF Mail
  <1>5. \A x \in Messages : /\ mail'[x].nth = mail[x].nth /\ mail'[x].at = mail[x].at
                            /\ mail'[x].gone = IF x = m THEN clock ELSE mail[x].gone
    BY <1>1, <1>3 DEF Mail
  <1>6. \A x \in Came : x \in Came' /\ mail'[x].at = mail[x].at
    BY <1>5 DEF Came
  <1>7. box' \in Seq(Messages) /\ Selects(box', box, Len(box), Messages \ {m})
    BY <1>1, <1>3, SelectFacts
  <1>8. MailOK'
    <2>1. \A i \in 1 .. Len(box') : box'[i] \in Came'
      BY <1>6, <1>7 DEF BrowseInv, MailOK, Selects
    <2>2. changes' \in 0 .. MaxChanges[site.process]
      BY <1>1, <1>2
    <2> QED
      BY <1>1, <1>4, <1>7, <2>1, <2>2 DEF BrowseInv, MailOK
  <1>9. \A x \in Range(box) : x \in Messages /\ (x \in Range(box') \/ x = m)
    <2>1. DOMAIN box = 1 .. Len(box) /\ DOMAIN box' = 1 .. Len(box')
      BY <1>3, <1>7
    <2>2. SUFFICES ASSUME NEW i \in 1 .. Len(box)
                   PROVE  box[i] \in Messages /\ (box[i] \in Range(box') \/ box[i] = m)
      BY <2>1 DEF Range
    <2>3. box[i] \in Messages
      BY <1>3
    <2>4. box[i] # m => \E j \in 1 .. Len(box') : box'[j] = box[i]
      BY <1>7, <2>3 DEF Selects
    <2> QED
      BY <2>1, <2>3, <2>4 DEF Range
  <1>10. MailGrows
    <2>1. \A x \in Came \ Range(box) : mail'[x].gone = mail[x].gone
      BY <1>1, <1>5 DEF Came
    <2>2. \A x \in Range(box) :
              x \in Range(box') \/ (changes < changes' /\ mail'[x].gone = clock)
      <3>1. changes < changes'
        BY <1>1, <1>2
      <3>2. mail'[m].gone = clock
        BY <1>5
      <3> QED
        BY <1>9, <3>1, <3>2, Zenon
    <2>3. changes <= changes'
      BY <1>1, <1>2
    <2> QED
      BY <1>1, <1>6, <2>1, <2>2, <2>3 DEF MailGrows
  <1> QED
    BY <1>1, <1>8, <1>10, MailChanges

LEMMA InvalidateKeeps ==
    ASSUME BrowseInv, NEW a \in Accounts, invalidate_account(a)
    PROVE  BrowseInv' /\ EvictsOldest
  <1>1. PICK ks : Cache!Drop(ks)
    BY DEF invalidate_account, Cache!invalidate_account
  <1>2. lists' = Restrict(lists, DOMAIN entries') /\ UNCHANGED mailVars /\ request' = request
    BY DEF invalidate_account
  <1>3. CacheOK' /\ EvictsOldest
    BY <1>1, CacheDrops DEF BrowseInv
  <1>4. ListsOK'
    BY <1>1, <1>2, DropLists, ListsStay DEF BrowseInv
  <1>5. RequestsOK'
    <2>1. ASSUME NEW v \in Workers PROVE RequestOK(request[v])'
      <3>1. PICK r : r = request[v]
        OBVIOUS
      <3>2. RequestOK(r)'
        BY <1>2, <3>1, MailStill, RequestStays DEF BrowseInv, RequestsOK
      <3>3. r = request'[v]
        BY <1>2, <3>1
      <3> QED
        BY <3>2, <3>3
    <2> QED
      BY <1>2, <2>1 DEF BrowseInv, RequestsOK
  <1> QED
    BY <1>2, <1>3, <1>4, <1>5, MailStill DEF BrowseInv

LEMMA TickKeeps ==
    ASSUME BrowseInv, Tick
    PROVE  BrowseInv' /\ EvictsOldest
  <1>1. Cache!Tick /\ UNCHANGED <<lists, mailVars, request>>
    BY DEF Tick
  <1>2. CacheOK' /\ EvictsOldest
    BY <1>1, CacheTicks DEF BrowseInv
  <1>3. entries' = entries
    BY <1>1 DEF Cache!Tick
  <1>4. ListsOK'
    BY <1>1, <1>3, ListsStay DEF BrowseInv, ListsOK
  <1>5. RequestsOK'
    <2>1. ASSUME NEW v \in Workers PROVE RequestOK(request[v])'
      <3>1. PICK r : r = request[v]
        OBVIOUS
      <3>2. RequestOK(r)'
        BY <1>1, <3>1, MailStill, RequestStays DEF BrowseInv, RequestsOK
      <3>3. r = request'[v]
        BY <1>1, <3>1
      <3> QED
        BY <3>2, <3>3
    <2> QED
      BY <1>1, <2>1 DEF BrowseInv, RequestsOK
  <1> QED
    BY <1>1, <1>2, <1>4, <1>5, MailStill DEF BrowseInv

-----------------------------------------------------------------------------
LEMMA BrowseInit == Init => BrowseInv
  <1> SUFFICES ASSUME Init PROVE BrowseInv
    OBVIOUS
  <1>1. /\ clock = 0 /\ entries = [k \in {} |-> 0] /\ order = <<>> /\ since = [k \in {} |-> {}]
        /\ lists = [k \in {} |-> None] /\ site \in Sites /\ box = <<>> /\ changes = 0
        /\ mail = [m \in Messages |-> NoMail]
        /\ request = [w \in Workers |-> [pc |-> "ended"]]
    BY DEF Init, Cache!Init
  <1>2. CacheOK
    <2>1. DOMAIN entries = {} /\ Len(order) = 0 /\ order \in Seq({})
      BY <1>1
    <2>2. clock \in 0 .. MaxTime /\ 0 <= MaxEntries
      BY <1>1, BrowseAssumption
    <2> QED
      BY <1>1, <2>1, <2>2 DEF CacheOK, Enumerates, ByUse
  <1>3. MailOK
    <2>1. mail \in [Messages -> Mail]
      BY <1>1, BrowseAssumption DEF NoMail, Mail
    <2>2. 0 \in 0 .. MaxChanges[site.process]
      BY <1>1, BrowseAssumption
    <2> QED
      BY <1>1, <2>1, <2>2 DEF MailOK
  <1>4. ListsOK
    BY <1>1 DEF ListsOK
  <1>5. RequestsOK
    BY <1>1 DEF RequestsOK, RequestOK, Ended
  <1> QED
    BY <1>2, <1>3, <1>4, <1>5 DEF BrowseInv

LEMMA BrowseNext ==
    ASSUME BrowseInv, [Next]_vars
    PROVE  BrowseInv' /\ EvictsOldest
  <1>1. ASSUME NEW w \in Workers, Step(w)
        PROVE  BrowseInv' /\ EvictsOldest
    BY <1>1, FromCacheKeeps, MissKeeps, ProviderFailsKeeps, ThrottledKeeps, GetPageKeeps,
       GetHeaderKeeps, FinishKeeps DEF Step
  <1>2. CASE UNCHANGED vars
    BY <1>2, MailStill, MailChanges DEF vars, BrowseInv
  <1> QED
    BY <1>1, <1>2, NewRequestKeeps, ArriveKeeps, LeaveKeeps, InvalidateKeeps, TickKeeps DEF Next

(* What a worker asks, has found and shows, what the cache holds and what  *)
(* the mailbox holds are what TypeOK says, the cache's own included: each  *)
(* key stands in the order once, whatever is used, expires, is put again   *)
(* or overflows (cache.py, browse.py).                                     *)
THEOREM BrowseTypes == Spec => []TypeOK
  <1>1. BrowseInv => TypeOK
    BY CacheTypes DEF BrowseInv, TypeOK, MailOK, ListsOK, KeptOK, RequestsOK
  <1> QED
    BY <1>1, BrowseInit, BrowseNext, PTL DEF Spec

(* The cache stays within its bound, and what putting an entry makes it    *)
(* give up was used before everything else that stays (HeaderCache.put,    *)
(* get and invalidate_account).                                            *)
THEOREM EvictionIsRight == Spec => EvictsLeastRecentlyUsed
  <1>1. BrowseInv /\ [Next]_vars =>
          [/\ Cache!Cardinality(Cache!Held') <= (IF Cache!enabled THEN MaxEntries ELSE 0)
           /\ \/ Cache!Held' \subseteq Cache!Held
              \/ \A gone \in Cache!Held \ Cache!Held', stays \in Cache!Held \cap Cache!Held' :
                   stays \in since[gone]]_(Cache!vars)
    <2>1. \A S : Cache!Cardinality(S) = Cardinality(S)
      BY Zenon DEF Cache!Cardinality, Cardinality
    <2> QED
      BY <2>1, BrowseNext, Capacity DEF EvictsOldest, Cache!Held
  <1> QED
    BY <1>1, BrowseInit, BrowseNext, PTL
    DEF Spec, EvictsLeastRecentlyUsed, Cache!EvictsLeastRecentlyUsed

-----------------------------------------------------------------------------
(* Whatever happens while it is browsed, and whoever filled the cache, a   *)
(* page has what was asked for: messages that match its filter, newest     *)
(* first, no more than the limit, and with Graph of the month, in UTC      *)
(* (browse.py, search of graph.py).                                        *)
THEOREM PagesAreRight == Spec => []PagesShowWhatWasAsked
  <1>1. ASSUME BrowseInv PROVE PagesShowWhatWasAsked
    <2>1. SUFFICES ASSUME NEW w \in Workers, request[w].pc = "page"
                   PROVE  LET shown == request[w].shown q == request[w].ask.query IN
                          /\ Len(shown) <= Limit
                          /\ \A m \in Range(shown) :
                                /\ m \in Matches[q.filter]
                                /\ site.provider = "graph" => MonthOf(mail[m].at) = q.period
                          /\ \A i, j \in DOMAIN shown :
                                i < j => received_at(shown[i]) >= received_at(shown[j])
      BY DEF PagesShowWhatWasAsked
    <2> DEFINE shown == request[w].shown
               q == request[w].ask.query
    <2>2. PageOK(request[w])
      BY <1>1, <2>1 DEF BrowseInv, RequestsOK, RequestOK, BusyOK, Asked, Ended
    <2>3. shown \in Seq(Messages) /\ Shows(shown, q) /\ q.period \in Periods
          /\ q.period.month \in 1 .. 12
      BY <2>2 DEF PageOK, Page, AskOK, Cache!CacheKey, Query
    <2> HIDE DEF shown, q
    <2>4. DOMAIN shown = 1 .. Len(shown)
      BY <2>3
    <2>5. MailOK /\ clock \in Nat
      BY <1>1, BrowseAssumption DEF BrowseInv, CacheOK
    <2>6. ASSUME NEW m \in Range(shown)
          PROVE  /\ m \in Matches[q.filter]
                 /\ site.provider = "graph" => MonthOf(mail[m].at) = q.period
      <3>1. m \in Came /\ Lists(m, q) /\ m \in Matches[q.filter]
        BY <2>3, <2>4 DEF Range, Shows, ListedFor
      <3>2. m \in Messages /\ InMonth(m, q.period)
        BY <3>1 DEF Came, Lists
      <3>3. mail[m].at \in Nat
        BY <2>5, <3>2 DEF MailOK, Mail
      <3> QED
        BY <2>3, <3>1, <3>2, <3>3, ListedByMonth
    <2>7. /\ Len(shown) <= Limit
          /\ \A i, j \in DOMAIN shown :
                 i < j => received_at(shown[i]) >= received_at(shown[j])
      BY <2>3, <2>4 DEF Shows
    <2> QED
      BY <2>6, <2>7 DEF shown, q
  <1> QED
    BY <1>1, BrowseInit, BrowseNext, PTL DEF Spec

LEMMA OthersWait ==
    ASSUME RequestsOK, NEW w \in Workers, NEW v \in Workers, v # w, NewRequest(v) \/ Step(v)
    PROVE  request'[w] = request[w]
  <1>1. ASSUME NEW R, request' = [request EXCEPT ![v] = R]
        PROVE  request'[w] = request[w]
    BY <1>1 DEF RequestsOK
  <1>2. CASE NewRequest(v)
    BY <1>1, <1>2 DEF NewRequest, report_page, cmd_messages_list, cmd_report_add,
                      report_add_item, Begin
  <1>3. ASSUME NEW r, NEW list, Answer(v, r, list)
        PROVE  request'[w] = request[w]
    <2>1. CASE r.find # None
      BY <1>1, <1>3, <2>1 DEF Answer, Set
    <2>2. CASE r.find = None /\ site.process = "command"
      BY <1>1, <1>3, <2>2 DEF Answer, Set
    <2>3. CASE r.find = None /\ site.process # "command"
      <3>1. PICK only \in BOOLEAN :
                Set(v, [pc |-> "page", ask |-> r.ask, shown |-> View(list, only)])
        BY <1>3, <2>3 DEF Answer
      <3> QED
        BY <1>1, <3>1 DEF Set
    <2> QED
      BY <2>1, <2>2, <2>3
  <1>4. CASE Step(v)
    <2>1. CASE FromCache(v)
      BY <1>3, <2>1 DEF FromCache
    <2>2. CASE Miss(v)
      BY <1>1, <2>2 DEF Miss, Set
    <2>3. CASE ProviderFails(v) \/ Throttled(v)
      BY <1>1, <2>3 DEF ProviderFails, Throttled, Set
    <2>4. CASE GetPage(v)
      BY <1>1, <2>4 DEF GetPage, Set
    <2>5. CASE GetHeader(v)
      BY <1>1, <2>5 DEF GetHeader, Set
    <2>6. CASE Finish(v)
      BY <1>3, <2>6 DEF Finish
    <2> QED
      BY <1>4, <2>1, <2>2, <2>3, <2>4, <2>5, <2>6 DEF Step
  <1> QED
    BY <1>2, <1>4

(* What asks the cache and is shown a page was answered from the cache. *)
LEMMA AnsweredFromCache ==
    ASSUME BrowseInv, [Next]_vars, NEW w \in Workers,
           request[w].pc = "cache", request'[w].pc = "page"
    PROVE  FromCache(w) /\ request[w].find = None /\ site.process # "command"
  <1>1. request' # request
    OBVIOUS
  <1>2. PICK v \in Workers : NewRequest(v) \/ Step(v)
    BY <1>1 DEF Next, Arrive, Leave, Change, invalidate_account, Tick, vars
  <1>3. v = w
    BY <1>2, OthersWait DEF BrowseInv
  <1>4. ~NewRequest(w)
    BY DEF NewRequest, report_page, cmd_messages_list, cmd_report_add, report_add_item,
           Begin, Busy
  <1>5. BusyOK(request[w]) /\ request \in [Workers -> Asked \cup Page \cup Ended]
    BY Begun DEF Busy, BrowseInv, RequestsOK
  <1>6. ~Miss(w)
    <2>1. SUFFICES ASSUME Miss(w) PROVE FALSE
      OBVIOUS
    <2>2. request'[w] = [request[w] EXCEPT !.pc = "listing", !.asof = changes]
      BY <1>5, <2>1 DEF Miss, Set
    <2>3. request[w] \in Asked
      BY <1>5 DEF BusyOK
    <2>4. request'[w].pc = "listing"
      BY <2>2, <2>3 DEF Asked
    <2> QED
      BY <2>4
  <1>7. FromCache(w)
    BY <1>2, <1>3, <1>4, <1>6 DEF Step, ProviderFails, Throttled, GetPage, GetHeader, Finish
  <1>8. Answer(w, request[w], lists[Key(request[w])].list)
    BY <1>7 DEF FromCache
  <1>9. request[w].find = None /\ site.process # "command"
    <2>1. ASSUME NEW R, Set(w, R), R.pc \in {"ended", "missing"} PROVE FALSE
      BY <1>5, <2>1 DEF Set
    <2> QED
      BY <1>8, <2>1 DEF Answer
  <1> QED
    BY <1>7, <1>9

(* A message that went while nobody was listing it is on no page once an   *)
(* entry's life has passed: a deadline is set by put and by nothing else,  *)
(* and an entry is not used from its deadline on (HeaderCache.get).        *)
THEOREM GoneIsRight == Spec => GoneIsForgotten
  <1>1. ASSUME BrowseInv, [Next]_vars, NEW w \in Workers,
               request[w].pc = "cache", request'[w].pc = "page",
               lists[Key(request[w])].asof # Torn
        PROVE  \A m \in Range(request'[w].shown) \ Range(box) : clock - mail[m].gone < Ttl
    <2> DEFINE r == request[w]
               kept == lists[Key(r)]
               deadline == entries[Key(r)]
    <2>1. FromCache(w) /\ r.find = None /\ site.process # "command"
      BY <1>1, AnsweredFromCache
    <2>2. /\ Key(r) \in DOMAIN entries /\ ~(deadline <= clock)
          /\ Answer(w, r, kept.list)
      BY <2>1 DEF FromCache, Cache!Hit, Cache!Held, Cache!Expired
    <2>3. KeptOK(kept, Key(r), deadline)
      BY <1>1, <2>2 DEF BrowseInv, ListsOK
    <2>4. PICK only \in BOOLEAN :
              Set(w, [pc |-> "page", ask |-> r.ask, shown |-> View(kept.list, only)])
      BY <2>1, <2>2 DEF Answer
    <2>5. request'[w].shown = View(kept.list, only)
      BY <1>1, <2>4 DEF Set, BrowseInv, RequestsOK
    <2>6. kept.list \in Seq(Messages) /\ Fresh(kept.list, deadline - Ttl)
          /\ ListedFor(kept.list, Key(r).query)
      BY <1>1, <2>3 DEF KeptOK, Listed, Shows
    <2>7. deadline \in Int /\ clock \in Int /\ Ttl \in Int
      BY <1>1, <2>2, Capacity, BrowseAssumption DEF BrowseInv, CacheOK
    <2>8. \A m \in Messages : mail[m].gone \in Int
      BY <1>1, BrowseAssumption DEF BrowseInv, MailOK, Mail
    <2> HIDE DEF r, kept, deadline
    <2>9. ASSUME NEW m \in Range(request'[w].shown)
          PROVE  \E i \in 1 .. Len(kept.list) : m = kept.list[i]
      <3> DEFINE shown == View(kept.list, only)
      <3>1. /\ shown \in Seq(Messages)
            /\ \A j \in 1 .. Len(shown) : \E i \in 1 .. Len(kept.list) : shown[j] = kept.list[i]
        <4>1. CASE only
          <5>1. PICK S : shown = Select(kept.list, S)
            BY <4>1 DEF View
          <5>2. shown \in Seq(Messages) /\ Selects(shown, kept.list, Len(kept.list), S)
            BY <2>6, <5>1, SelectFacts
          <5> HIDE DEF shown
          <5> QED
            BY <5>2 DEF Selects
        <4>2. CASE ~only
          BY <2>6, <4>2 DEF View
        <4> QED
          BY <4>1, <4>2
      <3> HIDE DEF shown
      <3>2. DOMAIN shown = 1 .. Len(shown)
        BY <3>1
      <3> QED
        BY <2>5, <2>9, <3>1, <3>2 DEF Range, shown
    <2>10. ASSUME NEW m \in Range(request'[w].shown) \ Range(box)
           PROVE  clock - mail[m].gone < Ttl
      <3>1. PICK i \in 1 .. Len(kept.list) : m = kept.list[i]
        BY <2>9, <2>10
      <3>2. m \in Messages /\ mail[m].gone >= deadline - Ttl
        BY <2>6, <2>10, <3>1 DEF Fresh
      <3> QED
        BY <2>2, <2>7, <2>8, <3>2
    <2> QED
      BY <2>10
  <1>2. BrowseInv /\ [Next]_vars =>
          [\A w \in Workers :
             request[w].pc = "cache" /\ request'[w].pc = "page"
             /\ lists[Key(request[w])].asof # Torn
             => \A m \in Range(request'[w].shown) \ Range(box) :
                   clock - mail[m].gone < Ttl]_vars
    BY <1>1
  <1> QED
    BY <1>2, BrowseInit, BrowseNext, PTL DEF Spec, GoneIsForgotten

-----------------------------------------------------------------------------
(* What there is to list.                                                 *)

(* What the provider lists for a query, newest first.                      *)
Listing(q) == Select(Reverse(box), {m \in Messages : Lists(m, q)})

(* The mailbox is in the order of arrival. *)
BoxOK ==
    /\ \A i \in 1 .. Len(box) : mail[box[i]].nth \in 1 .. changes
    /\ \A i, j \in 1 .. Len(box) : i < j => mail[box[i]].nth < mail[box[j]].nth

(* Newest first; and all of one list is in another. *)
Falling(s) == \A i, j \in 1 .. Len(s) : i < j => mail[s[j]].nth < mail[s[i]].nth
HeldBy(s, t) == \A i \in 1 .. Len(s) : \E j \in 1 .. Len(t) : s[i] = t[j]

(* s is the listing for q. *)
ListsAll(s, q) ==
    /\ s \in Seq(Messages)
    /\ \A i \in 1 .. Len(s) :
           s[i] \in Range(box) /\ Lists(s[i], q) /\ mail[s[i]].nth \in 1 .. changes
    /\ Falling(s)
    /\ \A m \in Range(box) : Lists(m, q) => \E i \in 1 .. Len(s) : s[i] = m

(* Two lists of the same messages, both newest first, agree as far as the  *)
(* shorter one goes.                                                       *)
LEMMA FallingAgree ==
    ASSUME MailOK, NEW s \in Seq(Messages), NEW t \in Seq(Messages),
           Falling(s), Falling(t), HeldBy(s, t), HeldBy(t, s)
    PROVE  \A n \in 1 .. Len(s) : n \in 1 .. Len(t) /\ s[n] = t[n]
  <1> DEFINE Agree(n) == n \in 1 .. Len(t) /\ s[n] = t[n]
             B == {n \in Nat : n \in 1 .. Len(s) /\ ~Agree(n)}
  <1>0. Len(s) \in Nat /\ Len(t) \in Nat
    OBVIOUS
  <1>1. SUFFICES ASSUME NEW x \in 1 .. Len(s), ~Agree(x) PROVE FALSE
    OBVIOUS
  <1>2. PICK n \in B : \A m \in B : n <= m
    <2>1. x \in B /\ B \in SUBSET Nat
      BY <1>0, <1>1
    <2> HIDE DEF B
    <2> QED
      BY <2>1, NatMin
  <1>3. n \in 1 .. Len(s) /\ ~Agree(n) /\ n \in Nat
    BY <1>2
  <1>4. ASSUME NEW k \in 1 .. n - 1 PROVE k \in 1 .. Len(s) /\ Agree(k)
    <2>1. k \in 1 .. Len(s) /\ k \in Nat /\ k < n
      BY <1>0, <1>3, <1>4
    <2> QED
      BY <1>2, <1>3, <2>1
  <1>5. \A m \in Messages : mail[m].nth \in Int
    BY DEF MailOK, Mail
  <1>6. PICK k \in 1 .. Len(t) : s[n] = t[k]
    BY <1>3 DEF HeldBy
  <1>7. k >= n /\ n \in 1 .. Len(t)
    <2>1. ASSUME k < n PROVE FALSE
      <3>1. k \in 1 .. n - 1
        BY <1>0, <1>3, <2>1
      <3>2. k \in 1 .. Len(s) /\ s[k] = s[n]
        BY <1>4, <1>6, <3>1
      <3>3. mail[s[n]].nth < mail[s[k]].nth
        BY <1>3, <2>1, <3>2 DEF Falling
      <3>4. mail[s[n]].nth \in Int
        BY <1>3, <1>5
      <3> QED
        BY <3>2, <3>3, <3>4
    <2> QED
      BY <1>0, <1>3, <2>1
  <1>8. PICK l \in 1 .. Len(s) : t[n] = s[l]
    BY <1>7 DEF HeldBy
  <1>9. mail[t[n]].nth \in Int /\ mail[s[n]].nth \in Int
    BY <1>3, <1>5, <1>7
  <1>10. CASE l < n
    <2>1. l \in 1 .. n - 1
      BY <1>0, <1>3, <1>10
    <2>2. l \in 1 .. Len(t) /\ t[l] = t[n]
      BY <1>4, <1>8, <2>1
    <2>3. mail[t[n]].nth < mail[t[l]].nth
      BY <1>7, <1>10, <2>2 DEF Falling
    <2> QED
      BY <1>9, <2>2, <2>3
  <1>11. CASE l > n
    <2>1. mail[s[l]].nth < mail[s[n]].nth
      BY <1>3, <1>11 DEF Falling
    <2>2. k = n \/ mail[t[k]].nth < mail[t[n]].nth
      BY <1>0, <1>3, <1>7 DEF Falling
    <2> QED
      BY <1>6, <1>8, <1>9, <2>1, <2>2
  <1>12. CASE l = n
    BY <1>3, <1>7, <1>8, <1>12
  <1> QED
    BY <1>0, <1>3, <1>10, <1>11, <1>12

LEMMA SameOrder ==
    ASSUME MailOK, NEW s \in Seq(Messages), NEW t \in Seq(Messages),
           Falling(s), Falling(t), HeldBy(s, t), HeldBy(t, s)
    PROVE  Len(s) = Len(t) /\ \A i \in 1 .. Len(s) : s[i] = t[i]
  <1>1. \A n \in 1 .. Len(s) : n \in 1 .. Len(t) /\ s[n] = t[n]
    BY FallingAgree
  <1>2. \A n \in 1 .. Len(t) : n \in 1 .. Len(s)
    BY FallingAgree
  <1>3. Len(s) \in Nat /\ Len(t) \in Nat
    OBVIOUS
  <1>4. Len(s) <= Len(t)
    BY <1>1, <1>3
  <1>5. Len(t) <= Len(s)
    BY <1>2, <1>3
  <1> QED
    BY <1>1, <1>3, <1>4, <1>5

LEMMA ListingFacts ==
    ASSUME MailOK, BoxOK, NEW q
    PROVE  ListsAll(Listing(q), q)
  <1> DEFINE S == {m \in Messages : Lists(m, q)}
             back == Reverse(box)
             n == Len(box)
             s == Select(back, S)
  <1>1. box \in Seq(Messages) /\ n \in Nat /\ \A i \in 1 .. n : n - i + 1 \in 1 .. n
    BY DEF MailOK
  <1>2. /\ back \in Seq(Messages) /\ Len(back) = n
        /\ \A i \in 1 .. n : back[i] = box[n - i + 1]
    BY <1>1 DEF Reverse
  <1> HIDE DEF back
  <1>3. \A i \in 1 .. n : back[i] \in Range(box) /\ mail[back[i]].nth \in 1 .. changes
    <2>1. \A i \in 1 .. n : box[i] \in Range(box)
      BY <1>1 DEF Range
    <2>2. \A i \in 1 .. n : mail[box[i]].nth \in 1 .. changes
      BY DEF BoxOK
    <2> QED
      BY <1>1, <1>2, <2>1, <2>2
  <1>4. \A a, b \in 1 .. n : a < b => mail[back[b]].nth < mail[back[a]].nth
    <2>1. SUFFICES ASSUME NEW a \in 1 .. n, NEW b \in 1 .. n, a < b
                   PROVE  mail[back[b]].nth < mail[back[a]].nth
      OBVIOUS
    <2>2. n - b + 1 < n - a + 1
      BY <1>1, <2>1
    <2> QED
      BY <1>1, <1>2, <2>2 DEF BoxOK
  <1>5. s \in Seq(Messages) /\ Selects(s, back, n, S)
    BY <1>2, SelectFacts
  <1>6. Listing(q) = s
    BY DEF Listing, back
  <1> HIDE DEF s
  <1>7. \A i \in 1 .. Len(s) :
            s[i] \in Range(box) /\ Lists(s[i], q) /\ mail[s[i]].nth \in 1 .. changes
    BY <1>3, <1>5 DEF Selects
  <1>8. Falling(s)
    <2>1. SUFFICES ASSUME NEW i \in 1 .. Len(s), NEW j \in 1 .. Len(s), i < j
                   PROVE  mail[s[j]].nth < mail[s[i]].nth
      BY DEF Falling
    <2>2. PICK a \in 1 .. n, b \in 1 .. n : a < b /\ s[i] = back[a] /\ s[j] = back[b]
      BY <1>5, <2>1 DEF Selects
    <2> QED
      BY <1>4, <2>2
  <1>9. ASSUME NEW m \in Range(box), Lists(m, q) PROVE \E i \in 1 .. Len(s) : s[i] = m
    <2>1. PICK i \in 1 .. n : m = box[i]
      BY <1>1, <1>9 DEF Range
    <2>2. n - (n - i + 1) + 1 = i /\ n - i + 1 \in 1 .. n
      BY <1>1
    <2>3. back[n - i + 1] = m /\ m \in S
      BY <1>1, <1>2, <1>9, <2>1, <2>2
    <2> QED
      BY <1>5, <2>2, <2>3 DEF Selects
  <1> QED
    BY <1>5, <1>6, <1>7, <1>8, <1>9 DEF ListsAll

-----------------------------------------------------------------------------
(* What a browse has been given of it.                                     *)

(* Gmail is asked for what matches; Graph for everything, of which a browse *)
(* picks what matches. *)
Counted(q) == IF site.provider = "gmail" THEN Messages ELSE Matches[q.filter]

(* The token of the next page stands behind the first g. *)
Reached(r, s, g) ==
    IF site.provider = "graph" THEN r.cursor = g
    ELSE \A i \in 1 .. Len(s) : mail[s[i]].nth < r.cursor <=> g < i

(* The first g of the listing s are given: those before the rest of the    *)
(* page are taken, and of them those that count are found.                 *)
GivenTo(r, s, g) ==
    /\ g \in 0 .. Len(s) /\ Len(r.todo) <= g
    /\ Reached(r, s, g)
    /\ \A i \in 1 .. Len(r.todo) : r.todo[i] = s[g - Len(r.todo) + i]
    /\ Selects(r.out, s, g - Len(r.todo), Counted(r.ask.query))
    /\ ~r.more => g = Len(s)
    /\ r.pc = "listing" => Len(r.todo) = 0
    /\ r.pc = "done" => Len(r.out) >= r.limit \/ (Len(r.todo) = 0 /\ g = Len(s))

(* t is what s has behind its first g. *)
Follows(t, s, g) ==
    /\ t \in Seq(Messages) /\ Len(t) = Len(s) - g
    /\ \A i \in 1 .. Len(t) : t[i] = s[g + i]

LEMMA SuffixFollows ==
    ASSUME NEW s \in Seq(Messages), NEW g \in 0 .. Len(s)
    PROVE  Follows(SubSeq(s, g + 1, Len(s)), s, g)
  <1> DEFINE t == SubSeq(s, g + 1, Len(s))
  <1>1. Len(s) \in Nat
    OBVIOUS
  <1>2. t \in Seq(Messages) /\ Len(t) = IF g + 1 <= Len(s) THEN Len(s) - g ELSE 0
    BY <1>1
  <1>3. Len(t) = Len(s) - g
    BY <1>1, <1>2
  <1>4. ASSUME NEW i \in 1 .. Len(t) PROVE t[i] = s[g + i]
    <2>1. i \in 1 .. Len(s) - (g + 1) + 1 /\ g + i = g + 1 + i - 1
      BY <1>1, <1>3, <1>4
    <2>2. t[i] = s[g + 1 + i - 1]
      BY <1>1, <2>1
    <2> QED
      BY <2>1, <2>2
  <1> QED
    BY <1>2, <1>3, <1>4 DEF Follows

(* What is behind the cursor is what the provider has not given yet,       *)
(* whether it skips a number or goes on behind a message.                  *)
LEMMA RestFollows ==
    ASSUME MailOK, BoxOK, NEW r, NEW g \in 0 .. Len(Listing(r.ask.query)),
           Reached(r, Listing(r.ask.query), g)
    PROVE  Follows(Rest(r), Listing(r.ask.query), g)
  <1>1. PICK s : s = Listing(r.ask.query)
    OBVIOUS
  <1>2. ListsAll(s, r.ask.query) /\ s \in Seq(Messages) /\ Falling(s)
    BY <1>1, ListingFacts DEF ListsAll
  <1>3. g \in 0 .. Len(s) /\ Len(s) \in Nat /\ Reached(r, s, g)
    BY <1>1, <1>2
  <1>4. PICK t : t = SubSeq(s, g + 1, Len(s))
    OBVIOUS
  <1>5. Follows(t, s, g)
    BY <1>2, <1>3, <1>4, SuffixFollows
  <1>6. CASE site.provider = "graph"
    <2>1. r.cursor = g
      BY <1>3, <1>6 DEF Reached
    <2>2. Rest(r) = t
      BY <1>1, <1>4, <1>6, <2>1 DEF Rest, Listing
    <2> QED
      BY <1>1, <1>5, <2>2
  <1>7. CASE site.provider # "graph"
    <2>1. PICK newer : newer = {m \in Messages : mail[m].nth < r.cursor}
      OBVIOUS
    <2>2. Rest(r) = Select(s, newer)
      BY <1>1, <1>7, <2>1 DEF Rest, Listing
    <2>3. PICK u : u = Select(s, newer)
      OBVIOUS
    <2>4. u \in Seq(Messages) /\ Selects(u, s, Len(s), newer)
      BY <1>2, <2>3, SelectFacts
    <2>5. \A i \in 1 .. Len(s) : s[i] \in newer <=> g < i
      BY <1>2, <1>3, <1>7, <2>1 DEF Reached
    <2>6. Falling(u)
      <3>1. SUFFICES ASSUME NEW i \in 1 .. Len(u), NEW j \in 1 .. Len(u), i < j
                     PROVE  mail[u[j]].nth < mail[u[i]].nth
        BY DEF Falling
      <3>2. PICK a \in 1 .. Len(s), b \in 1 .. Len(s) : a < b /\ u[i] = s[a] /\ u[j] = s[b]
        BY <2>4, <3>1 DEF Selects
      <3> QED
        BY <1>2, <3>2 DEF Falling
    <2>7. /\ t \in Seq(Messages) /\ Len(t) = Len(s) - g
          /\ \A i \in 1 .. Len(t) : t[i] = s[g + i] /\ g + i \in 1 .. Len(s)
      BY <1>3, <1>5 DEF Follows
    <2>8. Falling(t)
      <3>1. SUFFICES ASSUME NEW i \in 1 .. Len(t), NEW j \in 1 .. Len(t), i < j
                     PROVE  mail[t[j]].nth < mail[t[i]].nth
        BY DEF Falling
      <3>2. g + i < g + j /\ g + i \in 1 .. Len(s) /\ g + j \in 1 .. Len(s)
        BY <1>3, <2>7, <3>1
      <3> QED
        BY <1>2, <2>7, <3>2 DEF Falling
    <2>9. HeldBy(u, t)
      <3>1. SUFFICES ASSUME NEW i \in 1 .. Len(u) PROVE \E j \in 1 .. Len(t) : u[i] = t[j]
        BY DEF HeldBy
      <3>2. PICK a \in 1 .. Len(s) : u[i] = s[a]
        BY <2>4, <3>1 DEF Selects
      <3>3. g < a
        BY <2>4, <2>5, <3>2 DEF Selects
      <3>4. a - g \in 1 .. Len(t) /\ g + (a - g) = a
        BY <1>3, <2>7, <3>3
      <3>5. t[a - g] = s[a]
        BY <2>7, <3>4
      <3> QED
        BY <3>2, <3>4, <3>5
    <2>10. HeldBy(t, u)
      <3>1. SUFFICES ASSUME NEW i \in 1 .. Len(t) PROVE \E j \in 1 .. Len(u) : t[i] = u[j]
        BY DEF HeldBy
      <3>2. s[g + i] \in newer /\ g + i \in 1 .. Len(s)
        BY <1>3, <2>5, <2>7
      <3>3. PICK j \in 1 .. Len(u) : u[j] = s[g + i]
        BY <2>4, <3>2 DEF Selects
      <3> QED
        BY <2>7, <3>3
    <2>11. Len(u) = Len(t) /\ \A i \in 1 .. Len(u) : u[i] = t[i]
      BY <2>4, <2>6, <2>7, <2>8, <2>9, <2>10, SameOrder
    <2>12. Follows(u, s, g)
      BY <1>5, <2>4, <2>11 DEF Follows
    <2> QED
      BY <1>1, <2>2, <2>3, <2>12
  <1> QED
    BY <1>6, <1>7

(* One more of s is looked at. *)
LEMMA SelectsMore ==
    ASSUME NEW s \in Seq(Messages), NEW n \in 0 .. Len(s) - 1, NEW S,
           NEW t \in Seq(Messages), Selects(t, s, n, S),
           NEW m, m = s[n + 1], NEW u, u = IF m \in S THEN Append(t, m) ELSE t
    PROVE  Selects(u, s, n + 1, S)
  <1>1. Len(s) \in Nat /\ Len(t) \in Nat /\ n \in Nat /\ Len(t) <= n
    BY DEF Selects
  <1>2. \A i \in 1 .. n + 1 : i \in 1 .. n \/ i = n + 1
    BY <1>1
  <1>3. \A i \in 1 .. n : i \in 1 .. n + 1 /\ i < n + 1
    BY <1>1
  <1>4. n + 1 \in 1 .. n + 1
    BY <1>1
  <1>5. CASE m \notin S
    <2>1. u = t /\ Len(u) <= n + 1
      BY <1>1, <1>5
    <2> QED
      BY <1>2, <1>3, <1>5, <2>1 DEF Selects
  <1>6. CASE m \in S
    <2>1. n + 1 \in 1 .. Len(s)
      BY <1>1
    <2>2. m \in Messages
      BY <2>1
    <2>3. /\ Len(u) = Len(t) + 1 /\ u[Len(t) + 1] = m
          /\ \A i \in 1 .. Len(t) : u[i] = t[i]
      BY <1>6, <2>2
    <2>4. /\ \A i \in 1 .. Len(u) : i \in 1 .. Len(t) \/ i = Len(t) + 1
          /\ \A i \in 1 .. Len(t) : i \in 1 .. Len(u)
          /\ Len(t) + 1 \in 1 .. Len(u)
          /\ Len(u) <= n + 1
      BY <1>1, <2>3
    <2>5. \A i \in 1 .. Len(u) : u[i] \in S /\ \E a \in 1 .. n + 1 : u[i] = s[a]
      BY <1>3, <1>4, <1>6, <2>3, <2>4 DEF Selects
    <2>6. \A a \in 1 .. n + 1 : s[a] \in S => \E i \in 1 .. Len(u) : u[i] = s[a]
      <3>1. SUFFICES ASSUME NEW a \in 1 .. n + 1, s[a] \in S
                     PROVE  \E i \in 1 .. Len(u) : u[i] = s[a]
        OBVIOUS
      <3>2. CASE a = n + 1
        BY <2>3, <2>4, <3>2
      <3>3. CASE a \in 1 .. n
        <4>1. PICK i \in 1 .. Len(t) : t[i] = s[a]
          BY <3>1, <3>3 DEF Selects
        <4> QED
          BY <2>3, <2>4, <4>1
      <3> QED
        BY <1>2, <3>2, <3>3
    <2>7. \A i, j \in 1 .. Len(u) :
              i < j => \E a, b \in 1 .. n + 1 : a < b /\ u[i] = s[a] /\ u[j] = s[b]
      <3>1. SUFFICES ASSUME NEW i \in 1 .. Len(u), NEW j \in 1 .. Len(u), i < j
                     PROVE  \E a, b \in 1 .. n + 1 : a < b /\ u[i] = s[a] /\ u[j] = s[b]
        OBVIOUS
      <3>2. i \in 1 .. Len(t)
        BY <1>1, <2>3, <3>1
      <3>3. CASE j \in 1 .. Len(t)
        <4>1. PICK a \in 1 .. n, b \in 1 .. n : a < b /\ t[i] = s[a] /\ t[j] = s[b]
          BY <3>1, <3>2, <3>3 DEF Selects
        <4> QED
          BY <1>3, <2>3, <3>2, <3>3, <4>1
      <3>4. CASE j = Len(t) + 1
        <4>1. PICK a \in 1 .. n : t[i] = s[a]
          BY <3>2 DEF Selects
        <4>2. u[j] = s[n + 1] /\ a < n + 1 /\ a \in 1 .. n + 1
          BY <1>3, <2>3, <3>4, <4>1
        <4> QED
          BY <1>4, <2>3, <3>2, <4>1, <4>2
      <3> QED
        BY <2>4, <3>3, <3>4
    <2> QED
      BY <2>4, <2>5, <2>6, <2>7 DEF Selects
  <1> QED
    BY <1>5, <1>6

-----------------------------------------------------------------------------
(* A browse, page by page.                                                 *)

Begins(r) == r.cursor = Start /\ r.more /\ Len(r.todo) = 0 /\ Len(r.out) = 0

(* While the mailbox stays as it was at the start of a browse, the browse has   *)
(* been given the first part of the listing. *)
Progress(r) ==
    r.pc \in {"cache", "listing", "headers", "done"} =>
        /\ r.find # None => r.ask.query.filter = NoFilter
        /\ r.pc = "cache" => Begins(r)
        /\ r.pc # "cache" /\ r.asof = changes =>
               \E g \in Nat : GivenTo(r, Listing(r.ask.query), g)

LEMMA NoneLeft ==
    ASSUME NEW s, s = <<>>
    PROVE  Len(s) = 0
  OBVIOUS

(* Nothing is given to a browse that begins. *)
LEMMA NothingGiven ==
    ASSUME MailOK, BoxOK, NEW r, Begins(r), r.pc = "listing"
    PROVE  GivenTo(r, Listing(r.ask.query), 0)
  <1>1. PICK s : s = Listing(r.ask.query)
    OBVIOUS
  <1>2. s \in Seq(Messages) /\ Len(s) \in Nat /\ \A i \in 1 .. Len(s) : mail[s[i]].nth \in 1 .. changes
    BY <1>1, ListingFacts DEF ListsAll
  <1>3. changes \in 0 .. MaxChanges[site.process] /\ MaxChanges[site.process] \in Nat
    BY Sited DEF MailOK
  <1>4. Reached(r, s, 0)
    <2>1. CASE site.provider = "graph"
      BY <2>1 DEF Reached, Begins, Start
    <2>2. CASE site.provider # "graph"
      <3>1. r.cursor = MaxChanges[site.process] + 1
        BY <2>2 DEF Begins, Start
      <3>2. \A i \in 1 .. Len(s) : mail[s[i]].nth < r.cursor
        BY <1>2, <1>3, <3>1
      <3> QED
        BY <1>2, <2>2, <3>2 DEF Reached
    <2> QED
      BY <2>1, <2>2
  <1>5. Len(r.todo) = 0 /\ 0 - Len(r.todo) = 0 /\ Len(r.out) = 0 /\ r.more
    BY DEF Begins
  <1>6. Selects(r.out, s, 0, Counted(r.ask.query))
    BY <1>5 DEF Selects
  <1>7. GivenTo(r, s, 0)
    BY <1>2, <1>4, <1>5, <1>6 DEF GivenTo
  <1> QED
    BY <1>1, <1>7

(* A page is the next of what has not been given yet. *)
LEMMA PageGiven ==
    ASSUME MailOK, BoxOK, NEW r, BusyOK(r), r.pc = "listing", NEW g \in Nat,
           GivenTo(r, Listing(r.ask.query), g),
           NEW top \in Nat, NEW page, page = SubSeq(Rest(r), 1, Least(top, Len(Rest(r)))),
           NEW R, R.out = r.out, R.todo = page, R.ask = r.ask, R.limit = r.limit,
           R.more = (Len(Rest(r)) > top),
           R.pc = Onward(r, page, R.more, r.out),
           R.cursor = IF page = <<>> THEN r.cursor
                      ELSE IF site.provider = "graph"
                      THEN r.cursor + Len(page) ELSE mail[Last(page)].nth
    PROVE  \E h \in Nat : GivenTo(R, Listing(R.ask.query), h)
  <1>1. PICK s : s = Listing(r.ask.query)
    OBVIOUS
  <1>2. ListsAll(s, r.ask.query) /\ s \in Seq(Messages) /\ Falling(s) /\ Len(s) \in Nat
    BY <1>1, ListingFacts DEF ListsAll
  <1>3. GivenTo(r, s, g) /\ g \in 0 .. Len(s) /\ Reached(r, s, g)
    BY <1>1 DEF GivenTo
  <1>4. PICK rest : rest = Rest(r)
    OBVIOUS
  <1>5. Follows(rest, s, g)
    BY <1>1, <1>3, <1>4, RestFollows
  <1>6. rest \in Seq(Messages) /\ Len(rest) = Len(s) - g /\ Len(rest) \in Nat
    BY <1>2, <1>3, <1>5 DEF Follows
  <1>7. PICK k : k = Least(top, Len(rest))
    OBVIOUS
  <1>8. k \in 0 .. Len(rest) /\ k <= top /\ (Len(rest) <= top => k = Len(rest))
    BY <1>6, <1>7 DEF Least
  <1>9. /\ page \in Seq(Messages) /\ Len(page) = k
        /\ \A i \in 1 .. k : page[i] = rest[i] /\ i \in 1 .. Len(rest)
    BY <1>4, <1>6, <1>7, <1>8
  <1>10. \A i \in 1 .. k : page[i] = s[g + i]
    BY <1>5, <1>9 DEF Follows
  <1>11. g + k \in 0 .. Len(s) /\ g + k \in Nat /\ g + k - k = g
    BY <1>2, <1>3, <1>6, <1>8
  <1>12. page = <<>> <=> k = 0
    BY <1>9, EmptySeq
  <1>13. Reached(R, s, g + k)
    <2>1. CASE k = 0
      <3>1. R.cursor = r.cursor /\ g + k = g
        BY <1>12, <1>11, <2>1
      <3> QED
        BY <1>3, <3>1 DEF Reached
    <2>2. CASE k # 0 /\ site.provider = "graph"
      <3>1. R.cursor = r.cursor + k /\ r.cursor = g
        BY <1>3, <1>9, <1>12, <2>2 DEF Reached
      <3> QED
        BY <2>2, <3>1 DEF Reached
    <2>3. CASE k # 0 /\ site.provider # "graph"
      <3>1. k \in 1 .. k /\ Last(page) = page[k]
        BY <1>8, <1>9, <2>3 DEF Last
      <3>2. R.cursor = mail[s[g + k]].nth /\ g + k \in 1 .. Len(s)
        <4>1. R.cursor = mail[Last(page)].nth
          BY <1>12, <2>3
        <4>2. page[k] = s[g + k]
          BY <1>10, <3>1
        <4>3. g + k >= 1
          BY <1>8, <1>11, <2>3
        <4>4. R.cursor = mail[s[g + k]].nth
          BY <3>1, <4>1, <4>2, Zenon
        <4>5. g + k \in 1 .. Len(s)
          BY <1>2, <1>11, <4>3
        <4> QED
          BY <4>4, <4>5
      <3>3. \A i \in 1 .. Len(s) : mail[s[i]].nth \in Int
        BY <1>2 DEF ListsAll, MailOK, Mail
      <3>4. ASSUME NEW i \in 1 .. Len(s)
            PROVE  mail[s[i]].nth < mail[s[g + k]].nth <=> g + k < i
        <4>1. CASE g + k < i
          BY <1>2, <3>2, <4>1 DEF Falling
        <4>2. CASE i < g + k
          <5>1. mail[s[g + k]].nth < mail[s[i]].nth
            BY <1>2, <3>2, <4>2 DEF Falling
          <5> QED
            BY <1>11, <3>2, <3>3, <4>2, <5>1
        <4>3. CASE i = g + k
          BY <3>3, <4>3
        <4> QED
          BY <1>11, <4>1, <4>2, <4>3
      <3> QED
        BY <2>3, <3>2, <3>4 DEF Reached
    <2> QED
      BY <2>1, <2>2, <2>3
  <1>14. Selects(R.out, s, g, Counted(R.ask.query))
    <2>1. Len(r.todo) = 0 /\ g - 0 = g
      BY <1>3 DEF GivenTo
    <2> QED
      BY <1>3, <2>1 DEF GivenTo
  <1>15. ~R.more => g + k = Len(s)
    <2>1. SUFFICES ASSUME ~R.more PROVE g + k = Len(s)
      OBVIOUS
    <2>2. ~(Len(rest) > top)
      BY <1>4, <2>1
    <2>3. k = Len(rest)
      BY <1>6, <1>8, <2>2
    <2> QED
      BY <1>2, <1>3, <1>6, <2>3
  <1>16. PICK n \in Nat : n = g + k /\ n \in 0 .. Len(s) /\ n - k = g /\ k <= n /\ k \in Nat
    BY <1>3, <1>6, <1>8, <1>11
  <1>17. Len(R.todo) = k
    BY <1>9
  <1>18. R.pc = "listing" => Len(R.todo) = 0
    BY <1>12, <1>17 DEF Onward
  <1>19. R.pc = "done" => Len(R.out) >= R.limit \/ (Len(R.todo) = 0 /\ n = Len(s))
    BY <1>12, <1>15, <1>16, <1>17 DEF Onward
  <1>20. \A i \in 1 .. Len(R.todo) : R.todo[i] = s[n - Len(R.todo) + i]
    BY <1>10, <1>16, <1>17
  <1>21. Selects(R.out, s, n - Len(R.todo), Counted(R.ask.query))
    BY <1>14, <1>16, <1>17
  <1>22. n \in 0 .. Len(s) /\ Len(R.todo) <= n /\ Reached(R, s, n) /\ (~R.more => n = Len(s))
    BY <1>13, <1>15, <1>16, <1>17
  <1>23. GivenTo(R, s, n)
    BY <1>18, <1>19, <1>20, <1>21, <1>22, Zenon DEF GivenTo
  <1> QED
    BY <1>1, <1>16, <1>23

(* The next message of the page is taken. *)
LEMMA HeaderTaken ==
    ASSUME MailOK, BoxOK, NEW r, BusyOK(r), r.pc = "headers", NEW g \in Nat,
           GivenTo(r, Listing(r.ask.query), g),
           NEW m, m = Head(r.todo), NEW todo, todo = Tail(r.todo),
           NEW out, out = IF site.provider = "gmail" \/ m \in Matches[r.ask.query.filter]
                          THEN Append(r.out, m) ELSE r.out,
           NEW R, R.out = out, R.todo = todo, R.ask = r.ask, R.limit = r.limit,
           R.more = r.more, R.cursor = r.cursor, R.pc = Onward(r, todo, r.more, out)
    PROVE  GivenTo(R, Listing(R.ask.query), g)
  <1>1. PICK s : s = Listing(r.ask.query)
    OBVIOUS
  <1>2. s \in Seq(Messages) /\ Len(s) \in Nat
    BY <1>1, ListingFacts DEF ListsAll
  <1>3. GivenTo(r, s, g) /\ g \in 0 .. Len(s)
    BY <1>1 DEF GivenTo
  <1>4. /\ r.todo \in Seq(Messages) /\ r.out \in Seq(Messages) /\ Len(r.todo) > 0
        /\ Len(r.todo) \in Nat
    BY DEF BusyOK, Asked
  <1>5. m = r.todo[1] /\ m \in Messages /\ 1 \in 1 .. Len(r.todo)
    BY <1>4
  <1>6. /\ Len(todo) = Len(r.todo) - 1 /\ todo \in Seq(Messages)
        /\ \A i \in 1 .. Len(todo) : todo[i] = r.todo[i + 1] /\ i + 1 \in 1 .. Len(r.todo)
    BY <1>4
  <1>7. PICK d : d = g - Len(r.todo)
    OBVIOUS
  <1>8. d \in 0 .. Len(s) - 1 /\ g - Len(todo) = d + 1 /\ Len(todo) <= g
    BY <1>2, <1>3, <1>4, <1>6, <1>7 DEF GivenTo
  <1>9. m = s[d + 1]
    BY <1>3, <1>5, <1>7 DEF GivenTo
  <1>10. Selects(out, s, d + 1, Counted(R.ask.query))
    <2>1. PICK S : S = Counted(r.ask.query)
      OBVIOUS
    <2>2. Selects(r.out, s, d, S)
      BY <1>3, <1>7, <2>1 DEF GivenTo
    <2>3. m \in S <=> site.provider = "gmail" \/ m \in Matches[r.ask.query.filter]
      BY <1>5, <2>1 DEF Counted
    <2>4. out = IF m \in S THEN Append(r.out, m) ELSE r.out
      BY <2>3
    <2>5. Selects(out, s, d + 1, S)
      BY <1>2, <1>4, <1>8, <1>9, <2>2, <2>4, SelectsMore
    <2> QED
      BY <2>1, <2>5
  <1>11. \A i \in 1 .. Len(todo) : todo[i] = s[g - Len(todo) + i]
    <2>1. SUFFICES ASSUME NEW i \in 1 .. Len(todo) PROVE todo[i] = s[g - Len(todo) + i]
      OBVIOUS
    <2>2. todo[i] = s[g - Len(r.todo) + (i + 1)]
      BY <1>3, <1>6 DEF GivenTo
    <2>3. PICK n \in Nat : n = Len(r.todo)
      BY <1>4
    <2>4. Len(todo) = n - 1
      BY <1>6, <2>3
    <2>5. g - n + (i + 1) = g - (n - 1) + i
      BY <2>4
    <2> QED
      BY <2>2, <2>3, <2>4, <2>5
  <1>12. Reached(R, s, g)
    BY <1>3 DEF GivenTo, Reached
  <1>13. ~R.more => g = Len(s)
    BY <1>3 DEF GivenTo
  <1>14. todo = <<>> => Len(todo) = 0
    BY NoneLeft
  <1>15. R.pc = "listing" => Len(todo) = 0
    BY <1>14 DEF Onward
  <1>16. R.pc = "done" => Len(out) >= R.limit \/ (Len(todo) = 0 /\ g = Len(s))
    BY <1>13, <1>14 DEF Onward
  <1>17. GivenTo(R, s, g)
    BY <1>3, <1>8, <1>10, <1>11, <1>12, <1>13, <1>15, <1>16 DEF GivenTo
  <1> QED
    BY <1>1, <1>17

-----------------------------------------------------------------------------
(* What the cache keeps of a whole month.                                  *)

(* What is kept of a whole month leaves out nothing that was there when it *)
(* was listed, unless it has reached the limit.                            *)
KeptWhole(kept, q) ==
    q.filter = NoFilter /\ kept.asof # Torn =>
        /\ kept.asof <= changes
        /\ \/ Len(kept.list) >= Limit
           \/ \A m \in Range(box) : Lists(m, q) /\ mail[m].nth <= kept.asof =>
                  \E i \in 1 .. Len(kept.list) : kept.list[i] = m

(* What a browse and the cache rely on, so that nothing is left out. *)
WholeInv ==
    /\ BoxOK
    /\ \A w \in Workers : Progress(request[w])
    /\ \A k \in DOMAIN lists : KeptWhole(lists[k], k.query)

LEMMA ListingStays ==
    ASSUME UNCHANGED mailVars
    PROVE  /\ \A m, q : Lists(m, q)' <=> Lists(m, q)
           /\ \A q : Listing(q)' = Listing(q)
  <1>1. site' = site /\ box' = box /\ mail' = mail
    BY DEF mailVars
  <1>2. ASSUME NEW m, NEW q PROVE Lists(m, q)' <=> Lists(m, q)
    BY <1>1 DEF Lists, InMonth, Bounds, Shift
  <1>3. ASSUME NEW q PROVE Listing(q)' = Listing(q)
    <2>1. {m \in Messages : Lists(m, q)}' = {m \in Messages : Lists(m, q)}
      BY <1>2
    <2> QED
      BY <1>1, <2>1 DEF Listing
  <1> QED
    BY <1>2, <1>3

LEMMA ProgressStays ==
    ASSUME UNCHANGED mailVars, NEW r, Progress(r)
    PROVE  Progress(r)'
  <1>1. site' = site /\ box' = box /\ mail' = mail /\ changes' = changes
    BY DEF mailVars
  <1>2. \A q : Listing(q)' = Listing(q)
    BY ListingStays
  <1>3. ASSUME NEW s, NEW g, GivenTo(r, s, g) PROVE GivenTo(r, s, g)'
    <2>1. Reached(r, s, g)' <=> Reached(r, s, g)
      BY <1>1 DEF Reached
    <2>2. Counted(r.ask.query)' = Counted(r.ask.query)
      BY <1>1 DEF Counted
    <2> QED
      BY <1>3, <2>1, <2>2 DEF GivenTo
  <1>4. ASSUME NEW g \in Nat, GivenTo(r, Listing(r.ask.query), g)
        PROVE  GivenTo(r, Listing(r.ask.query), g)'
    <2>1. PICK s : s = Listing(r.ask.query)
      OBVIOUS
    <2>2. s = Listing(r.ask.query)'
      BY <1>2, <2>1
    <2>3. GivenTo(r, s, g)'
      BY <1>3, <1>4, <2>1
    <2> QED
      BY <2>2, <2>3
  <1>5. Begins(r)' <=> Begins(r)
    BY <1>1 DEF Begins, Start
  <1> QED
    BY <1>1, <1>4, <1>5 DEF Progress

LEMMA OneProgress ==
    ASSUME UNCHANGED mailVars, RequestsOK, WholeInv, NEW w \in Workers, NEW r, Progress(r),
           request' = [request EXCEPT ![w] = r]
    PROVE  BoxOK' /\ \A v \in Workers : Progress(request[v])'
  <1>1. site' = site /\ box' = box /\ mail' = mail /\ changes' = changes
    BY DEF mailVars
  <1>2. BoxOK'
    BY <1>1 DEF WholeInv, BoxOK
  <1>3. ASSUME NEW v \in Workers PROVE Progress(request[v])'
    <2>1. PICK x : x = request'[v]
      OBVIOUS
    <2>2. x = IF v = w THEN r ELSE request[v]
      BY <2>1 DEF RequestsOK
    <2>3. Progress(x)
      BY <2>2 DEF WholeInv
    <2>4. Progress(x)'
      BY <2>3, ProgressStays
    <2> QED
      BY <2>1, <2>4
  <1> QED
    BY <1>2, <1>3

(* Mail that comes is newer than what was listed, and mail that goes need  *)
(* not be there any more.                                                  *)
MailAdds ==
    /\ site' = site /\ changes <= changes'
    /\ \A m \in Range(box') :
           \/ m \in Range(box) /\ mail'[m] = mail[m]
           \/ mail'[m].nth > changes

LEMMA KeptWholeStays ==
    ASSUME MailOK, MailOK', MailAdds, NEW kept, kept \in Listed, NEW q, KeptWhole(kept, q)
    PROVE  KeptWhole(kept, q)'
  <1>1. changes \in Int /\ changes' \in Int
    BY BrowseAssumption DEF MailOK
  <1>2. SUFFICES ASSUME q.filter = NoFilter, kept.asof # Torn
                 PROVE  /\ kept.asof <= changes'
                        /\ \/ Len(kept.list) >= Limit
                           \/ \A m \in Range(box') : Lists(m, q)' /\ mail'[m].nth <= kept.asof =>
                                  \E i \in 1 .. Len(kept.list) : kept.list[i] = m
    BY DEF KeptWhole
  <1>3. kept.asof \in Int /\ kept.asof <= changes /\ kept.asof <= changes'
    BY <1>1, <1>2 DEF KeptWhole, Listed, Torn, MailAdds
  <1>4. ASSUME NEW m \in Range(box'), Lists(m, q)', mail'[m].nth <= kept.asof
        PROVE  m \in Range(box) /\ Lists(m, q) /\ mail[m].nth <= kept.asof
    <2>1. m \in Messages /\ mail'[m].nth \in Int
      <3>1. box' \in Seq(Messages) /\ mail' \in [Messages -> Mail]
        BY DEF MailOK
      <3> QED
        BY <1>4, <3>1 DEF Range, Mail
    <2>2. m \in Range(box) /\ mail'[m] = mail[m]
      BY <1>1, <1>3, <1>4, <2>1 DEF MailAdds
    <2>3. site' = site
      BY DEF MailAdds
    <2>4. Lists(m, q)
      BY <1>4, <2>2, <2>3 DEF Lists, InMonth, Bounds, Shift
    <2> QED
      BY <1>4, <2>2, <2>4
  <1> QED
    BY <1>2, <1>3, <1>4 DEF KeptWhole

-----------------------------------------------------------------------------
(* What a browse finds.                                                    *)

(* What there is to be found for a query. *)
Found(q) == {m \in Range(box) : Lists(m, q) /\ m \in Counted(q)}

Shares(s, n, m) == \E i \in 1 .. n : s[i] = m

(* A browse that is done has found the newest of what there is, in their   *)
(* order and each once.                                                    *)
LEMMA FoundTheNewest ==
    ASSUME MailOK, BoxOK, NEW r, BusyOK(r), r.pc = "done", NEW g \in Nat,
           GivenTo(r, Listing(r.ask.query), g)
    PROVE  /\ Falling(r.out)
           /\ \A m : Shares(r.out, Len(r.out), m) <=> m \in Newest(Found(r.ask.query), r.limit)
           /\ Len(r.out) >= r.limit \/ \A m \in Found(r.ask.query) : Shares(r.out, Len(r.out), m)
  <1>1. PICK s : s = Listing(r.ask.query)
    OBVIOUS
  <1>2. ListsAll(s, r.ask.query) /\ s \in Seq(Messages) /\ Falling(s) /\ Len(s) \in Nat
    BY <1>1, ListingFacts DEF ListsAll
  <1>3. PICK S : S = Counted(r.ask.query)
    OBVIOUS
  <1>4. PICK d : d = g - Len(r.todo)
    OBVIOUS
  <1>5. PICK out : out = r.out
    OBVIOUS
  <1>6. PICK n : n = Len(out)
    OBVIOUS
  <1>7. /\ out \in Seq(Messages) /\ n \in Nat /\ r.limit \in Nat /\ n <= r.limit
        /\ Len(r.todo) \in Nat
    BY <1>5, <1>6 DEF BusyOK, Asked
  <1>8. /\ d \in 0 .. Len(s) /\ Selects(out, s, d, S)
        /\ n >= r.limit \/ d = Len(s)
    <2>1. GivenTo(r, s, g)
      BY <1>1
    <2>2. g \in 0 .. Len(s) /\ Len(r.todo) <= g
      BY <2>1 DEF GivenTo
    <2>3. d \in 0 .. Len(s)
      BY <1>2, <1>4, <1>7, <2>2
    <2>4. Selects(out, s, d, S)
      BY <1>3, <1>4, <1>5, <2>1 DEF GivenTo
    <2>5. Len(r.out) >= r.limit \/ (Len(r.todo) = 0 /\ g = Len(s))
      BY <2>1 DEF GivenTo
    <2>6. n >= r.limit \/ d = Len(s)
      BY <1>4, <1>5, <1>6, <2>5
    <2> QED
      BY <2>3, <2>4, <2>6
  <1>9. \A a \in 1 .. d : a \in 1 .. Len(s)
    BY <1>2, <1>8
  <1>10. \A i \in 1 .. n : out[i] \in S /\ \E a \in 1 .. d : out[i] = s[a]
    BY <1>6, <1>8 DEF Selects
  <1>11. \A a \in 1 .. d : s[a] \in S => \E i \in 1 .. n : out[i] = s[a]
    BY <1>6, <1>8 DEF Selects
  <1>12. \A i, j \in 1 .. n : i < j => mail[out[j]].nth < mail[out[i]].nth
    <2>1. SUFFICES ASSUME NEW i \in 1 .. n, NEW j \in 1 .. n, i < j
                   PROVE  mail[out[j]].nth < mail[out[i]].nth
      OBVIOUS
    <2>2. PICK a \in 1 .. d, b \in 1 .. d : a < b /\ out[i] = s[a] /\ out[j] = s[b]
      BY <1>6, <1>8, <2>1 DEF Selects
    <2> QED
      BY <1>2, <1>9, <2>2 DEF Falling
  <1>13. \A m \in Messages : mail[m].nth \in Int
    BY DEF MailOK, Mail
  <1>14. \A i \in 1 .. n : out[i] \in Messages
    BY <1>6, <1>7
  <1>15. \A i, j \in 1 .. n : i # j => out[i] # out[j]
    <2>1. SUFFICES ASSUME NEW i \in 1 .. n, NEW j \in 1 .. n, i < j PROVE out[i] # out[j]
      BY <1>7
    <2>2. mail[out[j]].nth < mail[out[i]].nth /\ mail[out[i]].nth \in Int
      BY <1>12, <1>13, <1>14, <2>1
    <2> QED
      BY <2>2
  <1>16. PICK U : U = Found(r.ask.query)
    OBVIOUS
  <1>17. ASSUME NEW m PROVE m \in U <=> \E j \in 1 .. Len(s) : m = s[j] /\ s[j] \in S
    <2>1. \A j \in 1 .. Len(s) : s[j] \in Range(box) /\ Lists(s[j], r.ask.query)
      BY <1>2 DEF ListsAll
    <2>2. \A x \in Range(box) : Lists(x, r.ask.query) => \E j \in 1 .. Len(s) : s[j] = x
      BY <1>2 DEF ListsAll
    <2> QED
      BY <1>3, <1>16, <2>1, <2>2 DEF Found
  <1>18. IsFiniteSet(U)
    <2>1. box \in Seq(Messages) /\ Len(box) \in Nat
      BY DEF MailOK
    <2>2. Range(box) = {box[i] : i \in 1 .. Len(box)}
      BY <2>1 DEF Range
    <2>3. IsFiniteSet(1 .. Len(box))
      BY <2>1, FS_Interval
    <2>4. IsFiniteSet(Range(box))
      <3> DEFINE f == [i \in 1 .. Len(box) |-> box[i]]
      <3>1. f \in Surjection(1 .. Len(box), Range(box))
        BY <2>2 DEF Surjection
      <3> QED
        BY <2>3, <3>1, FS_Surjection
    <2>5. U \in SUBSET Range(box)
      BY <1>16 DEF Found
    <2> QED
      BY <2>4, <2>5, FS_Subset
  <1>19. \A m : {x \in U : mail[x].nth > mail[m].nth} \in SUBSET U
    OBVIOUS
  <1>20. ASSUME NEW i \in 1 .. n
         PROVE  out[i] \in Newest(U, r.limit)
    <2>1. PICK a \in 1 .. d : out[i] = s[a]
      BY <1>10
    <2>2. out[i] \in U
      BY <1>9, <1>10, <1>17, <2>1
    <2>3. PICK k \in Nat : k = i - 1 /\ k < n /\ \A l \in 1 .. k : l \in 1 .. n /\ l < i
      BY <1>7
    <2>4. ASSUME NEW x \in U, mail[x].nth > mail[out[i]].nth
          PROVE  \E l \in 1 .. k : x = out[l]
      <3>1. PICK j \in 1 .. Len(s) : x = s[j] /\ s[j] \in S
        BY <1>17, <2>4
      <3>2. j < a
        <4>1. ASSUME a < j PROVE FALSE
          <5>1. mail[s[j]].nth < mail[s[a]].nth
            BY <1>2, <1>9, <4>1 DEF Falling
          <5>2. mail[s[j]].nth \in Int /\ mail[s[a]].nth \in Int
            BY <1>2, <1>9, <1>13
          <5> QED
            BY <2>1, <2>4, <3>1, <5>1, <5>2
        <4>2. ASSUME a = j PROVE FALSE
          <5>1. mail[s[j]].nth \in Int
            BY <1>2, <1>13
          <5> QED
            BY <2>1, <2>4, <3>1, <4>2, <5>1
        <4> QED
          BY <1>2, <1>8, <4>1, <4>2
      <3>3. j \in 1 .. d
        BY <1>2, <1>8, <3>2
      <3>4. PICK l \in 1 .. n : out[l] = x
        BY <1>11, <3>1, <3>3
      <3>5. l < i
        <4>1. ASSUME i < l PROVE FALSE
          <5>1. mail[out[l]].nth < mail[out[i]].nth
            BY <1>12, <4>1
          <5>2. mail[out[l]].nth \in Int /\ mail[out[i]].nth \in Int
            BY <1>13, <1>14
          <5> QED
            BY <2>4, <3>4, <5>1, <5>2
        <4>2. ASSUME i = l PROVE FALSE
          <5>1. mail[out[i]].nth \in Int
            BY <1>13, <1>14
          <5> QED
            BY <2>4, <3>4, <4>2, <5>1
        <4> QED
          BY <1>7, <4>1, <4>2
      <3> QED
        BY <1>7, <2>3, <3>4, <3>5
    <2>5. \A l \in 1 .. k : out[l] \in U /\ mail[out[l]].nth > mail[out[i]].nth
      <3>1. SUFFICES ASSUME NEW l \in 1 .. k
                     PROVE  out[l] \in U /\ mail[out[l]].nth > mail[out[i]].nth
        OBVIOUS
      <3>2. l \in 1 .. n /\ l < i
        BY <2>3
      <3>3. PICK b \in 1 .. d : out[l] = s[b]
        BY <1>10, <3>2
      <3>4. out[l] \in U
        BY <1>9, <1>10, <1>17, <3>2, <3>3
      <3>5. mail[out[i]].nth < mail[out[l]].nth
        BY <1>12, <3>2
      <3> QED
        BY <1>13, <1>14, <3>2, <3>4, <3>5
    <2>6. {x \in U : mail[x].nth > mail[out[i]].nth} = {out[l] : l \in 1 .. k}
      BY <2>4, <2>5
    <2>7. Cardinality({out[l] : l \in 1 .. k}) = k
      <3> DEFINE f == [l \in 1 .. k |-> out[l]]
      <3>1. DOMAIN f = 1 .. k /\ \A l, j \in 1 .. k : l # j => f[l] # f[j]
        BY <1>15, <2>3
      <3>2. {f[l] : l \in 1 .. k} = {out[l] : l \in 1 .. k}
        OBVIOUS
      <3> HIDE DEF f
      <3>3. Cardinality({f[l] : l \in 1 .. k}) = k
        BY <3>1, ApartCounts
      <3> QED
        BY <3>2, <3>3
    <2>8. Cardinality({x \in U : mail[x].nth > mail[out[i]].nth}) < r.limit
      <3>1. Cardinality({x \in U : mail[x].nth > mail[out[i]].nth}) = k
        BY <2>6, <2>7, Zenon
      <3>2. k < r.limit
        BY <1>7, <2>3
      <3> QED
        BY <3>1, <3>2, Zenon
    <2> QED
      BY <2>2, <2>8 DEF Newest
  <1>21. ASSUME NEW j \in 1 .. Len(s), s[j] \in S, s[j] \in Newest(U, r.limit)
         PROVE  \E i \in 1 .. n : out[i] = s[j]
    <2>1. CASE j \in 1 .. d
      BY <1>11, <1>21, <2>1
    <2>2. CASE j \notin 1 .. d
      <3>1. d < j /\ n >= r.limit
        BY <1>2, <1>8, <2>2
      <3>2. ASSUME NEW i \in 1 .. n PROVE out[i] \in U /\ mail[out[i]].nth > mail[s[j]].nth
        <4>1. PICK a \in 1 .. d : out[i] = s[a]
          BY <1>10
        <4>2. out[i] \in U
          BY <1>9, <1>10, <1>17, <4>1
        <4>3. a < j
          BY <1>8, <3>1
        <4>4. mail[s[j]].nth < mail[s[a]].nth
          BY <1>2, <1>9, <4>3 DEF Falling
        <4>5. mail[s[j]].nth \in Int /\ mail[s[a]].nth \in Int
          BY <1>2, <1>9, <1>13
        <4> QED
          BY <4>1, <4>2, <4>4, <4>5
      <3>3. PICK T : T = {x \in U : mail[x].nth > mail[s[j]].nth}
        OBVIOUS
      <3>4. Cardinality(T) < r.limit
        BY <1>21, <3>3 DEF Newest
      <3>5. {out[i] : i \in 1 .. n} \in SUBSET T
        BY <3>2, <3>3
      <3>6. IsFiniteSet(T)
        BY <1>18, <3>3, FS_Subset
      <3>7. Cardinality({out[i] : i \in 1 .. n}) = n
        <4>1. DOMAIN out = 1 .. n
          BY <1>6, <1>7
        <4> QED
          BY <1>7, <1>15, <4>1, ApartCounts
      <3>8. n <= Cardinality(T)
        BY <3>5, <3>6, <3>7, FS_Subset
      <3>9. Cardinality(T) \in Nat
        BY <3>6, FS_CardinalityType
      <3> QED
        BY <1>7, <3>1, <3>4, <3>8, <3>9
    <2> QED
      BY <2>1, <2>2
  <1>22. ASSUME NEW m PROVE Shares(out, n, m) <=> m \in Newest(U, r.limit)
    <2>1. ASSUME Shares(out, n, m) PROVE m \in Newest(U, r.limit)
      BY <1>20, <2>1 DEF Shares
    <2>2. ASSUME m \in Newest(U, r.limit) PROVE Shares(out, n, m)
      <3>1. m \in U
        BY <2>2 DEF Newest
      <3>2. PICK j \in 1 .. Len(s) : m = s[j] /\ s[j] \in S
        BY <1>17, <3>1
      <3> QED
        BY <1>21, <2>2, <3>2 DEF Shares
    <2> QED
      BY <2>1, <2>2
  <1>23. n >= r.limit \/ \A m \in U : Shares(out, n, m)
    <2>1. SUFFICES ASSUME d = Len(s), NEW m \in U PROVE Shares(out, n, m)
      BY <1>8
    <2>2. PICK j \in 1 .. Len(s) : m = s[j] /\ s[j] \in S
      BY <1>17
    <2> QED
      BY <1>11, <2>1, <2>2 DEF Shares
  <1>24. Falling(out)
    BY <1>6, <1>12 DEF Falling
  <1> QED
    BY <1>5, <1>6, <1>16, <1>22, <1>23, <1>24

-----------------------------------------------------------------------------
(* How it answers, and how it begins.                                      *)

LEMMA FallingCounts ==
    ASSUME MailOK, NEW s \in Seq(Messages), Falling(s)
    PROVE  Cardinality({s[i] : i \in 1 .. Len(s)}) = Len(s)
  <1>1. Len(s) \in Nat /\ DOMAIN s = 1 .. Len(s)
    OBVIOUS
  <1>2. \A i \in 1 .. Len(s) : mail[s[i]].nth \in Int
    BY DEF MailOK, Mail
  <1>3. \A i, j \in 1 .. Len(s) : i # j => s[i] # s[j]
    <2>1. SUFFICES ASSUME NEW i \in 1 .. Len(s), NEW j \in 1 .. Len(s), i < j
                   PROVE  s[i] # s[j]
      BY <1>1
    <2>2. mail[s[j]].nth < mail[s[i]].nth
      BY <2>1 DEF Falling
    <2> QED
      BY <1>2, <2>2
  <1> QED
    BY <1>1, <1>3, ApartCounts

(* Narrowing and sorting lose nothing that matches, and double nothing. *)
LEMMA ResultHolds ==
    ASSUME MailOK, NEW r, r.out \in Seq(Messages), Falling(r.out)
    PROVE  /\ Result(r) \in Seq(Messages)
           /\ \A m : Shares(Result(r), Len(Result(r)), m)
                       <=> Shares(r.out, Len(r.out), m) /\ m \in Matches[r.ask.query.filter]
           /\ Cardinality({Result(r)[i] : i \in 1 .. Len(Result(r))}) = Len(Result(r))
  <1>1. PICK S : S = Matches[r.ask.query.filter]
    OBVIOUS
  <1>2. PICK s : s = Select(r.out, S)
    OBVIOUS
  <1>3. PICK t : t = Sorted(s)
    OBVIOUS
  <1>4. Result(r) = t
    BY <1>1, <1>2, <1>3 DEF Result
  <1>5. s \in Seq(Messages) /\ Selects(s, r.out, Len(r.out), S)
    BY <1>2, SelectFacts
  <1>6. /\ t \in Seq(Messages) /\ Len(t) = Len(s)
        /\ \A i \in 1 .. Len(s) : \E a \in 1 .. Len(s) : t[i] = s[a]
        /\ \A a \in 1 .. Len(s) : \E i \in 1 .. Len(s) : s[a] = t[i]
    BY <1>3, <1>5, SortedFacts
  <1>7. Falling(s)
    <2>1. SUFFICES ASSUME NEW i \in 1 .. Len(s), NEW j \in 1 .. Len(s), i < j
                   PROVE  mail[s[j]].nth < mail[s[i]].nth
      BY DEF Falling
    <2>2. PICK a \in 1 .. Len(r.out), b \in 1 .. Len(r.out) :
              a < b /\ s[i] = r.out[a] /\ s[j] = r.out[b]
      BY <1>5, <2>1 DEF Selects
    <2> QED
      BY <2>2 DEF Falling
  <1>8. Cardinality({t[i] : i \in 1 .. Len(t)}) = Len(t)
    <2>1. Cardinality({s[i] : i \in 1 .. Len(s)}) = Len(s)
      BY <1>5, <1>7, FallingCounts
    <2>2. PICK n : n = Len(s) /\ n = Len(t)
      BY <1>6
    <2>3. /\ \A i \in 1 .. n : \E a \in 1 .. n : t[i] = s[a]
          /\ \A a \in 1 .. n : \E i \in 1 .. n : s[a] = t[i]
      BY <1>6, <2>2
    <2>4. {s[i] : i \in 1 .. n} = {t[i] : i \in 1 .. n}
      BY <2>3
    <2> QED
      BY <2>1, <2>2, <2>4
  <1>9. ASSUME NEW m
        PROVE  Shares(t, Len(t), m) <=> Shares(r.out, Len(r.out), m) /\ m \in S
    <2>1. Shares(t, Len(t), m) <=> Shares(s, Len(s), m)
      BY <1>6 DEF Shares
    <2>2. Shares(s, Len(s), m) => Shares(r.out, Len(r.out), m) /\ m \in S
      BY <1>5 DEF Shares, Selects
    <2>3. ASSUME Shares(r.out, Len(r.out), m), m \in S PROVE Shares(s, Len(s), m)
      <3>1. PICK a \in 1 .. Len(r.out) : r.out[a] = m
        BY <2>3 DEF Shares
      <3>2. \A b \in 1 .. Len(r.out) : r.out[b] \in S => \E i \in 1 .. Len(s) : s[i] = r.out[b]
        BY <1>5 DEF Selects
      <3>3. \E i \in 1 .. Len(s) : s[i] = m
        BY <2>3, <3>1, <3>2
      <3> QED
        BY <3>3 DEF Shares
    <2> QED
      BY <2>1, <2>2, <2>3
  <1> QED
    BY <1>1, <1>4, <1>6, <1>8, <1>9

-----------------------------------------------------------------------------
LEMMA StillAdds ==
    ASSUME UNCHANGED mailVars, MailOK
    PROVE  MailAdds
  <1>1. changes \in Int
    BY BrowseAssumption DEF MailOK
  <1> QED
    BY <1>1 DEF MailAdds, mailVars

LEMMA AnswerEnds ==
    ASSUME BrowseInv, WholeInv, UNCHANGED mailVars, NEW w \in Workers, NEW r, NEW list,
           Answer(w, r, list)
    PROVE  BoxOK' /\ \A v \in Workers : Progress(request[v])'
  <1>1. ASSUME NEW R, R.pc \in {"ended", "missing", "page"}, Set(w, R)
        PROVE  BoxOK' /\ \A v \in Workers : Progress(request[v])'
    <2>1. Progress(R)
      BY <1>1 DEF Progress
    <2> QED
      BY <1>1, <2>1, OneProgress DEF Set, BrowseInv
  <1>2. CASE r.find # None
    BY <1>1, <1>2 DEF Answer
  <1>3. CASE r.find = None /\ site.process = "command"
    BY <1>1, <1>3 DEF Answer
  <1>4. CASE r.find = None /\ site.process # "command"
    <2>1. PICK only \in BOOLEAN :
              Set(w, [pc |-> "page", ask |-> r.ask, shown |-> View(list, only)])
      BY <1>4 DEF Answer
    <2> QED
      BY <1>1, <2>1
  <1> QED
    BY <1>2, <1>3, <1>4

LEMMA ListsKept ==
    ASSUME MailOK, MailOK', MailAdds, ListsOK, WholeInv,
           DOMAIN lists' \subseteq DOMAIN lists,
           \A k \in DOMAIN lists' : lists'[k] = lists[k]
    PROVE  \A k \in DOMAIN lists' : KeptWhole(lists[k], k.query)'
  <1>1. SUFFICES ASSUME NEW k \in DOMAIN lists' PROVE KeptWhole(lists[k], k.query)'
    OBVIOUS
  <1>2. PICK kept, q : kept = lists[k] /\ q = k.query
    OBVIOUS
  <1>3. kept \in Listed /\ KeptWhole(kept, q)
    BY <1>2 DEF ListsOK, KeptOK, WholeInv
  <1>4. KeptWhole(kept, q)'
    BY <1>3, KeptWholeStays
  <1>5. kept = lists'[k]
    BY <1>2
  <1> QED
    BY <1>2, <1>4, <1>5

(* A step of one worker that leaves the cache alone. *)
LEMMA WorkerSteps ==
    ASSUME BrowseInv, WholeInv, NEW w \in Workers, NEW r, Progress(r), Set(w, r),
           UNCHANGED <<lists, mailVars>>
    PROVE  WholeInv'
  <1>1. BoxOK' /\ \A v \in Workers : Progress(request[v])'
    BY OneProgress DEF BrowseInv, Set
  <1>2. \A k \in DOMAIN lists' : KeptWhole(lists[k], k.query)'
    BY MailStill, StillAdds, ListsKept DEF BrowseInv
  <1> QED
    BY <1>1, <1>2 DEF WholeInv

LEMMA BeginWhole ==
    ASSUME BrowseInv, WholeInv, NEW w \in Workers, NEW ask, NEW find, NEW limit,
           find # None => ask.query.filter = NoFilter, Begin(w, ask, find, limit)
    PROVE  WholeInv'
  <1>1. PICK r : r = [pc |-> "cache", ask |-> ask, find |-> find, limit |-> limit,
                      cursor |-> Start, more |-> TRUE, todo |-> <<>>, out |-> <<>>,
                      tries |-> 0, asof |-> 0]
    OBVIOUS
  <1>2. Set(w, r) /\ UNCHANGED <<lists, mailVars>>
    BY <1>1 DEF Begin, Set
  <1>3. /\ r.pc = "cache" /\ r.ask = ask /\ r.find = find /\ r.cursor = Start /\ r.more
        /\ Len(r.todo) = 0 /\ Len(r.out) = 0
    BY <1>1
  <1>4. Progress(r)
    BY <1>3 DEF Progress, Begins
  <1> QED
    BY <1>2, <1>4, WorkerSteps

LEMMA NewRequestWhole ==
    ASSUME BrowseInv, WholeInv, NEW w \in Workers, NewRequest(w)
    PROVE  WholeInv'
  <1>1. ASSUME NEW a, NEW p, NEW f, NEW limit, Begin(w, Ask(a, p, f), None, limit)
        PROVE  WholeInv'
    BY <1>1, BeginWhole
  <1>2. ASSUME NEW a, NEW p, NEW m, cmd_report_add(w, a, p, m)
        PROVE  WholeInv'
    <2>1. PICK ask : ask = Ask(a, p, NoFilter)
      OBVIOUS
    <2>2. ask.query.filter = NoFilter
      BY <2>1 DEF Ask
    <2>3. Begin(w, ask, m, Limit)
      BY <1>2, <2>1 DEF cmd_report_add
    <2> QED
      BY <2>2, <2>3, BeginWhole
  <1>3. ASSUME NEW m \in Messages, report_add_item(w, m)
        PROVE  WholeInv'
    <2>1. PICK ask : ask = [request[w].ask EXCEPT !.query.filter = NoFilter]
      OBVIOUS
    <2>2. Begin(w, ask, m, Limit) /\ request[w].pc = "page"
      BY <1>3, <2>1 DEF report_add_item
    <2>3. request[w].ask \in Cache!CacheKey
      <3>1. RequestOK(request[w])
        BY DEF BrowseInv, RequestsOK
      <3> QED
        BY <2>2, <3>1 DEF RequestOK, BusyOK, PageOK, AskOK, Ended
    <2>4. ask.query.filter = NoFilter
      BY <2>1, <2>3 DEF Cache!CacheKey, Query
    <2> QED
      BY <2>2, <2>4, BeginWhole
  <1> QED
    BY <1>1, <1>2, <1>3 DEF NewRequest, report_page, cmd_messages_list

-----------------------------------------------------------------------------
(* The steps of a browse leave nothing out.                                *)

LEMMA ProgressOf ==
    ASSUME WholeInv, NEW w \in Workers
    PROVE  Progress(request[w])
  BY DEF WholeInv

LEMMA FromCacheWhole ==
    ASSUME BrowseInv, WholeInv, NEW w \in Workers, FromCache(w)
    PROVE  WholeInv'
  <1>1. UNCHANGED <<lists, mailVars>> /\ Answer(w, request[w], lists[Key(request[w])].list)
    BY DEF FromCache
  <1>2. BoxOK' /\ \A v \in Workers : Progress(request[v])'
    BY <1>1, AnswerEnds
  <1>3. \A k \in DOMAIN lists' : KeptWhole(lists[k], k.query)'
    BY <1>1, MailStill, StillAdds, ListsKept DEF BrowseInv
  <1> QED
    BY <1>2, <1>3 DEF WholeInv

LEMMA MissWhole ==
    ASSUME BrowseInv, WholeInv, NEW w \in Workers, Miss(w)
    PROVE  WholeInv'
  <1>1. PICK r : r = request[w]
    OBVIOUS
  <1>2. r \in Asked /\ r.pc = "cache" /\ Progress(r)
    BY <1>1, Begun, ProgressOf DEF Miss, Busy, BusyOK
  <1>3. PICK R : R = [r EXCEPT !.pc = "listing", !.asof = changes]
    OBVIOUS
  <1>4. Set(w, R) /\ UNCHANGED mailVars
        /\ \/ UNCHANGED <<cacheVars, lists>>
           \/ Cache!Drop({Key(r)}) /\ lists' = Restrict(lists, DOMAIN entries')
    BY <1>1, <1>3 DEF Miss, Cache!GetExpired
  <1>5. /\ R.pc = "listing" /\ R.ask = r.ask /\ R.find = r.find /\ R.cursor = r.cursor
        /\ R.more = r.more /\ R.todo = r.todo /\ R.out = r.out
    BY <1>2, <1>3 DEF Asked
  <1>6. Begins(r) /\ (r.find # None => r.ask.query.filter = NoFilter)
    BY <1>2 DEF Progress
  <1>7. Begins(R)
    BY <1>5, <1>6 DEF Begins
  <1>8. GivenTo(R, Listing(R.ask.query), 0)
    BY <1>5, <1>7, NothingGiven DEF BrowseInv, WholeInv
  <1>9. Progress(R)
    BY <1>5, <1>6, <1>8 DEF Progress
  <1>10. BoxOK' /\ \A v \in Workers : Progress(request[v])'
    BY <1>4, <1>9, OneProgress DEF Set, BrowseInv
  <1>11. DOMAIN lists' \subseteq DOMAIN lists /\ \A k \in DOMAIN lists' : lists'[k] = lists[k]
    BY <1>4, DropLists DEF BrowseInv, ListsOK
  <1>12. \A k \in DOMAIN lists' : KeptWhole(lists[k], k.query)'
    BY <1>4, <1>11, MailStill, StillAdds, ListsKept DEF BrowseInv
  <1> QED
    BY <1>10, <1>12 DEF WholeInv

LEMMA ThrottledWhole ==
    ASSUME BrowseInv, WholeInv, NEW w \in Workers, Throttled(w)
    PROVE  WholeInv'
  <1>1. PICK r : r = request[w]
    OBVIOUS
  <1>2. r \in Asked /\ r.pc \in {"listing", "headers"} /\ Progress(r)
    BY <1>1, Begun, ProgressOf DEF Throttled, Busy, BusyOK
  <1>3. PICK R : R = [r EXCEPT !.tries = r.tries + 1]
    OBVIOUS
  <1>4. Set(w, R) /\ UNCHANGED <<lists, mailVars>>
    BY <1>1, <1>3 DEF Throttled
  <1>5. /\ R.pc = r.pc /\ R.ask = r.ask /\ R.find = r.find /\ R.cursor = r.cursor
        /\ R.more = r.more /\ R.todo = r.todo /\ R.out = r.out /\ R.asof = r.asof
        /\ R.limit = r.limit
    BY <1>2, <1>3 DEF Asked
  <1>6. \A s, g : GivenTo(r, s, g) => GivenTo(R, s, g)
    BY <1>5 DEF GivenTo, Reached
  <1>7. Progress(R)
    BY <1>2, <1>5, <1>6 DEF Progress
  <1> QED
    BY <1>4, <1>7, WorkerSteps

LEMMA ProviderFailsWhole ==
    ASSUME BrowseInv, WholeInv, NEW w \in Workers, ProviderFails(w)
    PROVE  WholeInv'
  <1>1. PICK R : R = [pc |-> "ended"]
    OBVIOUS
  <1>2. Progress(R)
    BY <1>1 DEF Progress
  <1> QED
    BY <1>1, <1>2, WorkerSteps DEF ProviderFails

LEMMA GetPageWhole ==
    ASSUME BrowseInv, WholeInv, NEW w \in Workers, GetPage(w)
    PROVE  WholeInv'
  <1> DEFINE r == request[w]
             left == IF site.provider = "graph" THEN r.limit ELSE r.limit - Len(r.out)
             top == Least(PageSize, left)
             rest == Rest(r)
             page == SubSeq(rest, 1, Least(top, Len(rest)))
             more == Len(rest) > top
             cursor == IF page = <<>> THEN r.cursor
                       ELSE IF site.provider = "graph"
                       THEN r.cursor + Len(page) ELSE mail[Last(page)].nth
             R == [r EXCEPT !.pc = Onward(r, page, more, r.out),
                            !.todo = page, !.more = more, !.tries = 0, !.cursor = cursor]
  <1>1. BusyOK(r) /\ r.pc = "listing" /\ Set(w, R) /\ UNCHANGED <<lists, mailVars>>
    BY Begun DEF GetPage, Busy
  <1>2. Progress(r)
    BY ProgressOf
  <1> HIDE DEF r
  <1>3. /\ r \in Asked /\ r.limit \in Nat /\ Len(r.out) \in Nat /\ Len(r.out) <= r.limit
    BY <1>1 DEF BusyOK, Asked
  <1>4. top \in Nat
    BY <1>3, BrowseAssumption DEF Least
  <1> HIDE DEF top
  <1>5. PICK pg : pg = page
    OBVIOUS
  <1>6. PICK mr : mr = more
    OBVIOUS
  <1>7. PICK cr : cr = cursor
    OBVIOUS
  <1>8. PICK pc : pc = Onward(r, page, more, r.out)
    OBVIOUS
  <1>9. R = [r EXCEPT !.pc = pc, !.todo = pg, !.more = mr, !.tries = 0, !.cursor = cr]
    BY <1>5, <1>6, <1>7, <1>8
  <1>10. pg = SubSeq(Rest(r), 1, Least(top, Len(Rest(r)))) /\ mr = (Len(Rest(r)) > top)
    BY <1>5, <1>6
  <1>11. cr = IF pg = <<>> THEN r.cursor
              ELSE IF site.provider = "graph" THEN r.cursor + Len(pg) ELSE mail[Last(pg)].nth
    BY <1>5, <1>7
  <1>12. pc = Onward(r, pg, mr, r.out)
    BY <1>5, <1>6, <1>8
  <1> HIDE DEF R, page, more, cursor, rest
  <1>13. /\ R.pc = pc /\ R.todo = pg /\ R.more = mr /\ R.cursor = cr /\ R.ask = r.ask
         /\ R.find = r.find /\ R.limit = r.limit /\ R.out = r.out /\ R.asof = r.asof
    BY <1>3, <1>9 DEF Asked
  <1>14. pc \in {"done", "headers", "listing"}
    BY <1>12 DEF Onward
  <1>15. r.find # None => r.ask.query.filter = NoFilter
    BY <1>1, <1>2 DEF Progress
  <1>16. ASSUME r.asof = changes
         PROVE  \E h \in Nat : GivenTo(R, Listing(R.ask.query), h)
    <2>1. PICK g \in Nat : GivenTo(r, Listing(r.ask.query), g)
      BY <1>1, <1>2, <1>16 DEF Progress
    <2>2. /\ R.more = (Len(Rest(r)) > top) /\ R.pc = Onward(r, pg, R.more, r.out)
          /\ R.cursor = IF pg = <<>> THEN r.cursor
                        ELSE IF site.provider = "graph"
                        THEN r.cursor + Len(pg) ELSE mail[Last(pg)].nth
      BY <1>10, <1>11, <1>12, <1>13
    <2> QED
      BY <1>1, <1>4, <1>10, <1>13, <2>1, <2>2, PageGiven DEF BrowseInv, WholeInv
  <1>17. Progress(R)
    BY <1>13, <1>14, <1>15, <1>16 DEF Progress
  <1> QED
    BY <1>1, <1>17, WorkerSteps

LEMMA GetHeaderWhole ==
    ASSUME BrowseInv, WholeInv, NEW w \in Workers, GetHeader(w)
    PROVE  WholeInv'
  <1> DEFINE r == request[w]
             m == Head(r.todo)
             todo == Tail(r.todo)
             out == IF site.provider = "gmail" \/ m \in Matches[r.ask.query.filter]
                    THEN Append(r.out, m) ELSE r.out
             R == [r EXCEPT !.pc = Onward(r, todo, r.more, out),
                            !.todo = todo, !.out = out, !.tries = 0]
  <1>1. BusyOK(r) /\ r.pc = "headers" /\ Set(w, R) /\ UNCHANGED <<lists, mailVars>>
    BY Begun DEF GetHeader, Busy
  <1>2. Progress(r)
    BY ProgressOf
  <1> HIDE DEF r
  <1>3. r \in Asked
    BY <1>1 DEF BusyOK
  <1>4. PICK td : td = todo
    OBVIOUS
  <1>5. PICK ot : ot = out
    OBVIOUS
  <1>6. PICK pc : pc = Onward(r, td, r.more, ot)
    OBVIOUS
  <1>7. R = [r EXCEPT !.pc = pc, !.todo = td, !.out = ot, !.tries = 0]
    BY <1>4, <1>5, <1>6
  <1>8. PICK x : x = Head(r.todo)
    OBVIOUS
  <1>9. /\ td = Tail(r.todo)
        /\ ot = IF site.provider = "gmail" \/ x \in Matches[r.ask.query.filter]
                THEN Append(r.out, x) ELSE r.out
    BY <1>4, <1>5, <1>8
  <1> HIDE DEF R, out, todo, m
  <1>10. /\ R.pc = pc /\ R.todo = td /\ R.out = ot /\ R.more = r.more /\ R.cursor = r.cursor
         /\ R.ask = r.ask /\ R.find = r.find /\ R.limit = r.limit /\ R.asof = r.asof
    BY <1>3, <1>7 DEF Asked
  <1>11. pc \in {"done", "headers", "listing"}
    BY <1>6 DEF Onward
  <1>12. r.find # None => r.ask.query.filter = NoFilter
    BY <1>1, <1>2 DEF Progress
  <1>13. ASSUME r.asof = changes
         PROVE  \E h \in Nat : GivenTo(R, Listing(R.ask.query), h)
    <2>1. PICK g \in Nat : GivenTo(r, Listing(r.ask.query), g)
      BY <1>1, <1>2, <1>13 DEF Progress
    <2>2. R.pc = Onward(r, td, r.more, ot)
      BY <1>6, <1>10
    <2>3. GivenTo(R, Listing(R.ask.query), g)
      BY <1>1, <1>8, <1>9, <1>10, <2>1, <2>2, HeaderTaken DEF BrowseInv, WholeInv
    <2> QED
      BY <2>3
  <1>14. Progress(R)
    BY <1>10, <1>11, <1>12, <1>13 DEF Progress
  <1> QED
    BY <1>1, <1>14, WorkerSteps

-----------------------------------------------------------------------------
(* The end of a browse, and what happens around it.                        *)

(* What is kept when the mailbox has not changed meanwhile is whole. *)
LEMMA ResultWhole ==
    ASSUME MailOK, BoxOK, NEW r, BusyOK(r), Progress(r), r.pc = "done", r.limit = Limit,
           NEW kept, kept.list = Result(r), kept.asof = IF r.asof = changes THEN changes ELSE Torn
    PROVE  KeptWhole(kept, r.ask.query)
  <1>1. SUFFICES ASSUME r.ask.query.filter = NoFilter, kept.asof # Torn
                 PROVE  /\ kept.asof <= changes
                        /\ \/ Len(Result(r)) >= Limit
                           \/ \A m \in Range(box) : Lists(m, r.ask.query) =>
                                  \E i \in 1 .. Len(Result(r)) : Result(r)[i] = m
    BY DEF KeptWhole
  <1>2. r.asof = changes /\ kept.asof = changes /\ changes \in Int
    BY <1>1, Sited
  <1>3. PICK g \in Nat : GivenTo(r, Listing(r.ask.query), g)
    BY <1>2 DEF Progress
  <1>4. PICK n : n = Len(r.out)
    OBVIOUS
  <1>5. PICK t : t = Result(r)
    OBVIOUS
  <1>6. r.out \in Seq(Messages) /\ n \in Nat
    BY <1>4 DEF BusyOK, Asked
  <1>7. Falling(r.out) /\ (n >= Limit \/ \A m \in Found(r.ask.query) : Shares(r.out, n, m))
    BY <1>3, <1>4, FoundTheNewest
  <1>8. /\ t \in Seq(Messages)
        /\ \A m : Shares(t, Len(t), m) <=> Shares(r.out, n, m) /\ m \in Matches[NoFilter]
        /\ Cardinality({t[i] : i \in 1 .. Len(t)}) = Len(t)
    BY <1>1, <1>4, <1>5, <1>6, <1>7, ResultHolds
  <1>9. \A m : Shares(t, Len(t), m) <=> Shares(r.out, n, m)
    <2>1. \A m : Shares(r.out, n, m) => m \in Messages
      BY <1>4, <1>6 DEF Shares
    <2>2. Matches[NoFilter] = Messages
      BY BrowseAssumption
    <2> QED
      BY <1>8, <2>1, <2>2
  <1>10. CASE n >= Limit
    <2>1. {t[i] : i \in 1 .. Len(t)} = {r.out[i] : i \in 1 .. n}
      <3>1. \A m : (\E i \in 1 .. Len(t) : t[i] = m) <=> (\E i \in 1 .. n : r.out[i] = m)
        BY <1>9 DEF Shares
      <3>2. \A m : m \in {t[i] : i \in 1 .. Len(t)} <=> \E i \in 1 .. Len(t) : t[i] = m
        OBVIOUS
      <3>3. \A m : m \in {r.out[i] : i \in 1 .. n} <=> \E i \in 1 .. n : r.out[i] = m
        OBVIOUS
      <3> QED
        BY <3>1, <3>2, <3>3
    <2>2. Cardinality({r.out[i] : i \in 1 .. n}) = n
      BY <1>4, <1>6, <1>7, FallingCounts
    <2>3. Len(t) = n
      BY <1>8, <2>1, <2>2
    <2> QED
      BY <1>2, <1>5, <1>10, <2>3
  <1>11. CASE \A m \in Found(r.ask.query) : Shares(r.out, n, m)
    <2>1. ASSUME NEW m \in Range(box), Lists(m, r.ask.query)
          PROVE  \E i \in 1 .. Len(t) : t[i] = m
      <3>1. m \in Messages
        BY <2>1 DEF MailOK, Range
      <3>2. m \in Counted(r.ask.query)
        BY <1>1, <3>1, BrowseAssumption DEF Counted
      <3>3. Shares(t, Len(t), m)
        BY <1>9, <1>11, <2>1, <3>2 DEF Found
      <3> QED
        BY <3>3 DEF Shares
    <2> QED
      BY <1>2, <1>5, <2>1
  <1> QED
    BY <1>7, <1>10, <1>11

LEMMA FinishWhole ==
    ASSUME BrowseInv, BrowseInv', WholeInv, NEW w \in Workers, Finish(w)
    PROVE  WholeInv'
  <1>1. PICK r : r = request[w]
    OBVIOUS
  <1>2. PICK listed : listed = [list |-> Result(r),
                                asof |-> IF r.asof = changes THEN changes ELSE Torn]
    OBVIOUS
  <1>3. BusyOK(r) /\ r.pc = "done" /\ Progress(r) /\ Key(r) \in Cache!CacheKey
    BY <1>1, Begun, ProgressOf DEF Finish, Busy
  <1>4. Store(r, listed) /\ Answer(w, r, Result(r)) /\ UNCHANGED mailVars
    BY <1>1, <1>2 DEF Finish
  <1>5. BoxOK' /\ \A v \in Workers : Progress(request[v])'
    BY <1>4, AnswerEnds
  <1>6. MailOK /\ MailOK' /\ MailAdds
    BY <1>4, StillAdds DEF BrowseInv
  <1>7. CASE site.process = "command"
    <2>1. UNCHANGED lists
      BY <1>4, <1>7 DEF Store
    <2>2. \A k \in DOMAIN lists' : KeptWhole(lists[k], k.query)'
      BY <1>6, <2>1, ListsKept DEF BrowseInv
    <2> QED
      BY <1>5, <2>2 DEF WholeInv
  <1>8. CASE site.process = "web"
    <2>1. /\ Cache!Put(Key(r))
          /\ lists' = [k \in DOMAIN entries' |-> IF k = Key(r) THEN listed ELSE lists[k]]
      BY <1>4, <1>8 DEF Store
    <2>2. DOMAIN entries' \subseteq DOMAIN entries \cup {Key(r)}
      BY <1>3, <2>1, CachePuts DEF BrowseInv
    <2>3. DOMAIN lists = DOMAIN entries
      BY DEF BrowseInv, ListsOK
    <2>4. r.limit = Limit
      BY <1>3, <1>8 DEF BusyOK
    <2>5. listed.list = Result(r) /\ listed.asof = IF r.asof = changes THEN changes ELSE Torn
      BY <1>2
    <2>6. KeptWhole(listed, r.ask.query)
      BY <1>3, <1>6, <2>4, <2>5, ResultWhole DEF WholeInv
    <2>7. ASSUME NEW k \in DOMAIN lists' PROVE KeptWhole(lists[k], k.query)'
      <3>1. PICK kept, q : kept = lists'[k] /\ q = k.query
        OBVIOUS
      <3>2. kept \in Listed
        BY <2>7, <3>1 DEF BrowseInv, ListsOK, KeptOK
      <3>3. KeptWhole(kept, q)
        <4>1. CASE k = Key(r)
          <5>1. kept = listed /\ q = r.ask.query
            BY <2>1, <2>7, <3>1, <4>1 DEF Key
          <5> QED
            BY <2>6, <5>1
        <4>2. CASE k # Key(r)
          <5>1. kept = lists[k] /\ k \in DOMAIN lists
            BY <2>1, <2>2, <2>3, <2>7, <3>1, <4>2
          <5> QED
            BY <3>1, <5>1 DEF WholeInv
        <4> QED
          BY <4>1, <4>2
      <3>4. KeptWhole(kept, q)'
        BY <1>6, <3>2, <3>3, KeptWholeStays
      <3> QED
        BY <3>1, <3>4
    <2> QED
      BY <1>5, <2>7 DEF WholeInv
  <1> QED
    BY <1>6, <1>7, <1>8, Sited

(* When the mailbox has changed, no browse that is under way counts on it. *)
LEMMA MailAddsWhole ==
    ASSUME BrowseInv, BrowseInv', WholeInv, MailAdds, BoxOK', changes' = changes + 1,
           UNCHANGED <<lists, request>>
    PROVE  WholeInv'
  <1>1. \A k \in DOMAIN lists' : KeptWhole(lists[k], k.query)'
    BY ListsKept DEF BrowseInv
  <1>2. site' = site /\ changes \in Nat
    BY Sited DEF MailAdds, BrowseInv
  <1>3. ASSUME NEW v \in Workers PROVE Progress(request[v])'
    <2>1. PICK r : r = request[v]
      OBVIOUS
    <2>2. Progress(r) /\ RequestOK(r)
      BY <2>1 DEF WholeInv, BrowseInv, RequestsOK
    <2>3. SUFFICES ASSUME r.pc \in {"cache", "listing", "headers", "done"}
                   PROVE  Progress(r)'
      <3>1. CASE r.pc \notin {"cache", "listing", "headers", "done"}
        <4>1. Progress(r)'
          BY <3>1 DEF Progress
        <4>2. r = request'[v]
          BY <2>1
        <4> QED
          BY <4>1, <4>2
      <3>2. r = request'[v]
        BY <2>1
      <3> QED
        BY <3>1, <3>2
    <2>4. BusyOK(r)
      BY <2>2, <2>3 DEF RequestOK, PageOK, Page, Ended
    <2>5. r.asof \in Nat /\ r.asof <= changes
      BY <2>4 DEF BusyOK, Asked
    <2>6. r.asof # changes'
      BY <1>2, <2>5
    <2>7. Begins(r)' <=> Begins(r)
      BY <1>2 DEF Begins, Start
    <2> QED
      BY <2>2, <2>3, <2>6, <2>7 DEF Progress
  <1> QED
    BY <1>1, <1>3 DEF WholeInv

LEMMA ArriveWhole ==
    ASSUME BrowseInv, BrowseInv', WholeInv, NEW m \in Messages, Arrive(m)
    PROVE  WholeInv'
  <1>1. /\ m \notin Came /\ box' = Append(box, m) /\ changes' = changes + 1
        /\ mail' = [mail EXCEPT ![m] = [nth |-> changes + 1, at |-> Now, gone |-> 0]]
        /\ UNCHANGED <<lists, site, request>>
    BY DEF Arrive, Change
  <1>2. changes \in Nat /\ box \in Seq(Messages) /\ Len(box) \in Nat
        /\ mail \in [Messages -> Mail]
    BY Sited DEF BrowseInv, MailOK
  <1>3. /\ Len(box') = Len(box) + 1 /\ box'[Len(box) + 1] = m
        /\ \A i \in 1 .. Len(box) : box'[i] = box[i]
    BY <1>1, <1>2
  <1>4. \A i \in 1 .. Len(box') : i \in 1 .. Len(box) \/ i = Len(box) + 1
    BY <1>2, <1>3
  <1>5. mail'[m].nth = changes + 1 /\ \A x \in Messages : x # m => mail'[x] = mail[x]
    BY <1>1, <1>2
  <1>6. \A i \in 1 .. Len(box) : mail'[box[i]] = mail[box[i]] /\ mail[box[i]].nth \in 1 .. changes
    <2>1. SUFFICES ASSUME NEW i \in 1 .. Len(box)
                   PROVE  mail'[box[i]] = mail[box[i]] /\ mail[box[i]].nth \in 1 .. changes
      OBVIOUS
    <2>2. box[i] \in Messages /\ box[i] \in Came
      BY <1>2 DEF BrowseInv, MailOK
    <2>3. mail[box[i]].nth \in 1 .. changes
      BY DEF WholeInv, BoxOK
    <2> QED
      BY <1>1, <1>5, <2>2, <2>3
  <1>7. BoxOK'
    <2>1. ASSUME NEW i \in 1 .. Len(box') PROVE mail'[box'[i]].nth \in 1 .. changes'
      <3>1. CASE i \in 1 .. Len(box)
        <4>1. mail'[box'[i]].nth = mail[box[i]].nth /\ mail[box[i]].nth \in 1 .. changes
          BY <1>3, <1>6, <3>1
        <4> QED
          BY <1>1, <1>2, <4>1
      <3>2. CASE i = Len(box) + 1
        BY <1>1, <1>2, <1>3, <1>5, <3>2
      <3> QED
        BY <1>4, <3>1, <3>2
    <2>2. ASSUME NEW i \in 1 .. Len(box'), NEW j \in 1 .. Len(box'), i < j
          PROVE  mail'[box'[i]].nth < mail'[box'[j]].nth
      <3>1. i \in 1 .. Len(box)
        BY <1>2, <1>3, <2>2
      <3>2. mail'[box'[i]].nth = mail[box[i]].nth /\ mail[box[i]].nth \in 1 .. changes
        BY <1>3, <1>6, <3>1
      <3>3. CASE j \in 1 .. Len(box)
        <4>1. mail'[box'[j]].nth = mail[box[j]].nth
          BY <1>3, <1>6, <3>3
        <4>2. mail[box[i]].nth < mail[box[j]].nth
          BY <2>2, <3>1, <3>3 DEF WholeInv, BoxOK
        <4> QED
          BY <3>2, <4>1, <4>2
      <3>4. CASE j = Len(box) + 1
        <4>1. mail'[box'[j]].nth = changes + 1
          BY <1>3, <1>5, <3>4
        <4> QED
          BY <1>2, <3>2, <4>1
      <3> QED
        BY <1>4, <3>3, <3>4
    <2> QED
      BY <2>1, <2>2 DEF BoxOK
  <1>8. MailAdds
    <2>1. ASSUME NEW x \in Range(box')
          PROVE  (x \in Range(box) /\ mail'[x] = mail[x]) \/ mail'[x].nth > changes
      <3>1. PICK i \in 1 .. Len(box') : x = box'[i]
        <4>1. box' \in Seq(Messages)
          BY DEF BrowseInv, MailOK
        <4> QED
          BY <2>1, <4>1 DEF Range
      <3>2. CASE i \in 1 .. Len(box)
        <4>1. x = box[i] /\ mail'[x] = mail[x]
          BY <1>3, <1>6, <3>1, <3>2
        <4>2. x \in Range(box)
          BY <1>2, <3>2, <4>1 DEF Range
        <4> QED
          BY <4>1, <4>2
      <3>3. CASE i = Len(box) + 1
        BY <1>2, <1>3, <1>5, <3>1, <3>3
      <3> QED
        BY <1>4, <3>2, <3>3
    <2> QED
      BY <1>1, <1>2, <2>1 DEF MailAdds
  <1> QED
    BY <1>1, <1>7, <1>8, MailAddsWhole

LEMMA LeaveWhole ==
    ASSUME BrowseInv, BrowseInv', WholeInv, NEW m \in Messages, Leave(m)
    PROVE  WholeInv'
  <1>1. /\ box' = Select(box, Messages \ {m}) /\ changes' = changes + 1
        /\ mail' = [mail EXCEPT ![m].gone = clock]
        /\ UNCHANGED <<lists, site, request>>
    BY DEF Leave, Change
  <1>2. changes \in Nat /\ box \in Seq(Messages) /\ mail \in [Messages -> Mail]
    BY Sited DEF BrowseInv, MailOK
  <1>3. box' \in Seq(Messages) /\ Selects(box', box, Len(box), Messages \ {m})
    BY <1>1, <1>2, SelectFacts
  <1>4. /\ \A x \in Messages : x # m => mail'[x] = mail[x]
        /\ \A x \in Messages : mail'[x].nth = mail[x].nth /\ mail[x].nth \in Nat
    BY <1>1, <1>2 DEF Mail
  <1>5. ASSUME NEW i \in 1 .. Len(box')
        PROVE  /\ \E a \in 1 .. Len(box) : box'[i] = box[a]
               /\ box'[i] \in Messages /\ mail'[box'[i]] = mail[box'[i]]
    BY <1>3, <1>4 DEF Selects
  <1>6. \A a \in 1 .. Len(box) :
            /\ mail'[box[a]].nth = mail[box[a]].nth
            /\ mail[box[a]].nth \in 1 .. changes /\ mail[box[a]].nth \in 1 .. changes + 1
    <2>1. SUFFICES ASSUME NEW a \in 1 .. Len(box)
                   PROVE  /\ mail'[box[a]].nth = mail[box[a]].nth
                          /\ mail[box[a]].nth \in 1 .. changes
                          /\ mail[box[a]].nth \in 1 .. changes + 1
      OBVIOUS
    <2>2. box[a] \in Messages
      BY <1>2
    <2>3. mail[box[a]].nth \in 1 .. changes
      BY DEF WholeInv, BoxOK
    <2> QED
      BY <1>2, <1>4, <2>2, <2>3
  <1>7. BoxOK'
    <2>1. ASSUME NEW i \in 1 .. Len(box') PROVE mail'[box'[i]].nth \in 1 .. changes'
      <3>1. PICK a \in 1 .. Len(box) : box'[i] = box[a]
        BY <1>5
      <3> QED
        BY <1>1, <1>6, <3>1
    <2>2. ASSUME NEW i \in 1 .. Len(box'), NEW j \in 1 .. Len(box'), i < j
          PROVE  mail'[box'[i]].nth < mail'[box'[j]].nth
      <3>1. PICK a \in 1 .. Len(box), b \in 1 .. Len(box) :
                a < b /\ box'[i] = box[a] /\ box'[j] = box[b]
        BY <1>3, <2>2 DEF Selects
      <3>2. mail[box[a]].nth < mail[box[b]].nth
        BY <3>1 DEF WholeInv, BoxOK
      <3> QED
        BY <1>6, <3>1, <3>2
    <2> QED
      BY <2>1, <2>2 DEF BoxOK
  <1>8. MailAdds
    <2>1. ASSUME NEW x \in Range(box') PROVE x \in Range(box) /\ mail'[x] = mail[x]
      <3>1. PICK i \in 1 .. Len(box') : x = box'[i]
        BY <1>3, <2>1 DEF Range
      <3>2. PICK a \in 1 .. Len(box) : x = box[a]
        BY <1>5, <3>1
      <3>3. x \in Range(box)
        BY <1>2, <3>2 DEF Range
      <3> QED
        BY <1>5, <3>1, <3>3
    <2>2. site' = site /\ changes <= changes'
      BY <1>1, <1>2
    <2> QED
      BY <2>1, <2>2 DEF MailAdds
  <1> QED
    BY <1>1, <1>7, <1>8, MailAddsWhole

LEMMA StillWhole ==
    ASSUME BrowseInv, WholeInv, UNCHANGED <<mailVars, request>>,
           DOMAIN lists' \subseteq DOMAIN lists,
           \A k \in DOMAIN lists' : lists'[k] = lists[k]
    PROVE  WholeInv'
  <1>1. \A k \in DOMAIN lists' : KeptWhole(lists[k], k.query)'
    BY MailStill, StillAdds, ListsKept DEF BrowseInv
  <1>2. BoxOK'
    BY DEF WholeInv, BoxOK, mailVars
  <1>3. ASSUME NEW v \in Workers PROVE Progress(request[v])'
    <2>1. PICK x : x = request[v]
      OBVIOUS
    <2>2. Progress(x)'
      BY <2>1, ProgressOf, ProgressStays
    <2>3. x = request'[v]
      BY <2>1
    <2> QED
      BY <2>2, <2>3
  <1> QED
    BY <1>1, <1>2, <1>3 DEF WholeInv

LEMMA WholeInit == Init => WholeInv
  <1> SUFFICES ASSUME Init PROVE WholeInv
    OBVIOUS
  <1>1. /\ lists = [k \in {} |-> None] /\ box = <<>>
        /\ request = [w \in Workers |-> [pc |-> "ended"]]
    BY DEF Init
  <1>2. BoxOK
    BY <1>1 DEF BoxOK
  <1>3. \A w \in Workers : Progress(request[w])
    BY <1>1 DEF Progress
  <1> QED
    BY <1>1, <1>2, <1>3 DEF WholeInv

LEMMA WholeNext ==
    ASSUME BrowseInv, BrowseInv', WholeInv, [Next]_vars
    PROVE  WholeInv'
  <1>1. ASSUME NEW w \in Workers, Step(w)
        PROVE  WholeInv'
    BY <1>1, FromCacheWhole, MissWhole, ProviderFailsWhole, ThrottledWhole, GetPageWhole,
       GetHeaderWhole, FinishWhole DEF Step
  <1>2. CASE UNCHANGED vars
    BY <1>2, StillWhole DEF vars
  <1>3. ASSUME NEW a \in Accounts, invalidate_account(a)
        PROVE  WholeInv'
    <2>1. PICK ks : Cache!Drop(ks)
      BY <1>3 DEF invalidate_account, Cache!invalidate_account
    <2>2. lists' = Restrict(lists, DOMAIN entries') /\ UNCHANGED <<mailVars, request>>
      BY <1>3 DEF invalidate_account
    <2>3. DOMAIN lists' \subseteq DOMAIN lists /\ \A k \in DOMAIN lists' : lists'[k] = lists[k]
      BY <2>1, <2>2, DropLists DEF BrowseInv, ListsOK
    <2> QED
      BY <2>2, <2>3, StillWhole
  <1>4. CASE Tick
    BY <1>4, StillWhole DEF Tick
  <1> QED
    BY <1>1, <1>2, <1>3, <1>4, NewRequestWhole, ArriveWhole, LeaveWhole DEF Next

-----------------------------------------------------------------------------
(* All pages.                                                              *)

LEMMA WouldListIs ==
    ASSUME MailOK, NEW q, NEW n
    PROVE  WouldList(DatesAsked(q.period), q.filter, n)
             = Newest(Found(q), n) \cap Matches[q.filter]
  <1>1. \A m \in Range(box) : m \in Messages
    BY DEF MailOK, Range
  <1>2. CASE site.provider = "graph"
    <2>1. DatesAsked(q.period) \cap Matches[q.filter] = Found(q)
      BY <1>2 DEF Found, Lists, Counted, DatesAsked
    <2>2. WouldList(DatesAsked(q.period), q.filter, n) = Newest(Found(q), n)
      BY <1>2, <2>1 DEF WouldList
    <2>3. \A m \in Newest(Found(q), n) : m \in Matches[q.filter]
      BY <1>2 DEF Newest, Found, Counted
    <2> QED
      BY <2>2, <2>3
  <1>3. CASE site.provider = "gmail"
    <2>1. DatesAsked(q.period) \cap FoundByGmail[q.filter] = Found(q)
      BY <1>1, <1>3 DEF Found, Lists, Counted, DatesAsked
    <2> QED
      BY <1>3, <2>1 DEF WouldList
  <1> QED
    BY <1>2, <1>3, Sited

(* A browse during which the mailbox does not change lists every message   *)
(* that the provider has for the dates it is asked and that matches, up to *)
(* the limit, and none twice: page by page, with either provider's way of  *)
(* going on, and whatever is retried (search of either connector,          *)
(* browse.py).                                                             *)
THEOREM PagesMeet == Spec => []PagingIsWhole
  <1>1. ASSUME BrowseInv, WholeInv PROVE PagingIsWhole
    <2>1. SUFFICES ASSUME NEW w \in Workers, NEW r, r = request[w],
                          r.pc = "done", r.asof = changes
                   PROVE  /\ Range(Result(r)) = WouldList(DatesAsked(r.ask.query.period),
                                                      r.ask.query.filter, r.limit)
                          /\ Len(Result(r)) = Cardinality(Range(Result(r)))
      BY DEF PagingIsWhole
    <2>2. MailOK /\ BoxOK /\ clock \in Nat
      BY <1>1, BrowseAssumption DEF BrowseInv, WholeInv, CacheOK
    <2>3. BusyOK(r) /\ Progress(r)
      BY <1>1, <2>1, Begun, ProgressOf DEF Busy
    <2>4. PICK g \in Nat : GivenTo(r, Listing(r.ask.query), g)
      BY <2>1, <2>3 DEF Progress
    <2>5. PICK t : t = Result(r)
      OBVIOUS
    <2>6. r.out \in Seq(Messages)
      BY <2>3 DEF BusyOK, Asked
    <2>7. /\ Falling(r.out)
          /\ \A m : Shares(r.out, Len(r.out), m) <=> m \in Newest(Found(r.ask.query), r.limit)
      BY <2>1, <2>2, <2>3, <2>4, FoundTheNewest
    <2>8. /\ t \in Seq(Messages)
          /\ \A m : Shares(t, Len(t), m)
                      <=> Shares(r.out, Len(r.out), m) /\ m \in Matches[r.ask.query.filter]
          /\ Cardinality({t[i] : i \in 1 .. Len(t)}) = Len(t)
      BY <2>2, <2>5, <2>6, <2>7, ResultHolds
    <2>9. Range(t) = {t[i] : i \in 1 .. Len(t)}
      <3>1. t \in Seq(Messages)
        BY <2>8
      <3>2. DOMAIN t = 1 .. Len(t)
        BY <3>1
      <3> QED
        BY <3>2 DEF Range
    <2>10. \A m : m \in Range(t) <=> Shares(t, Len(t), m)
      BY <2>9 DEF Shares
    <2>12. WouldList(DatesAsked(r.ask.query.period), r.ask.query.filter, r.limit)
             = Newest(Found(r.ask.query), r.limit) \cap Matches[r.ask.query.filter]
      BY <2>2, WouldListIs
    <2>13. Range(t) = WouldList(DatesAsked(r.ask.query.period),
                                r.ask.query.filter, r.limit)
      BY <2>7, <2>8, <2>10, <2>12
    <2> QED
      BY <2>5, <2>8, <2>9, <2>13
  <1>2. BrowseInv /\ WholeInv /\ [Next]_vars => BrowseInv' /\ WholeInv'
    BY BrowseNext, WholeNext
  <1> QED
    BY <1>1, <1>2, BrowseInit, WholeInit, PTL DEF Spec

(* With Graph, what it has for the dates asked is the month, in UTC: such  *)
(* a browse lists all of the month that matches, up to the limit.          *)
THEOREM GraphMonthsAreWhole == Spec => []GraphPagesAreWhole
  <1>1. ASSUME BrowseInv, PagingIsWhole PROVE GraphPagesAreWhole
    <2>1. SUFFICES ASSUME site.provider = "graph", NEW w \in Workers,
                          request[w].pc = "done", request[w].asof = changes
                   PROVE  Range(Result(request[w]))
                            = WouldList(OfMonth(request[w].ask.query.period),
                                        request[w].ask.query.filter, request[w].limit)
      BY DEF GraphPagesAreWhole, PagesAreWhole
    <2>2. PICK period : period = request[w].ask.query.period
      OBVIOUS
    <2>3. BusyOK(request[w]) /\ MailOK
      BY <1>1, <2>1, Begun DEF Busy, BrowseInv
    <2>4. period \in Periods /\ period.month \in 1 .. 12
      BY <2>2, <2>3 DEF BusyOK, AskOK, Cache!CacheKey, Query
    <2>5. \A m \in Range(box) : m \in Messages /\ mail[m].at \in Nat
      BY <2>3 DEF MailOK, Mail, Range
    <2>6. \A m \in Range(box) : InMonth(m, period) <=> MonthOf(mail[m].at) = period
      BY <2>1, <2>4, <2>5, ListedByMonth
    <2>7. DatesAsked(period) = OfMonth(period)
      BY <2>6 DEF DatesAsked, OfMonth
    <2> QED
      BY <1>1, <2>1, <2>2, <2>7 DEF PagingIsWhole
  <1> QED
    BY <1>1, BrowseInit, BrowseNext, PagesMeet, PTL DEF Spec

LEMMA MissingFromCache ==
    ASSUME BrowseInv, [Next]_vars, NEW w \in Workers,
           request[w].pc = "cache", request'[w].pc = "missing"
    PROVE  /\ FromCache(w) /\ request[w].find # None
           /\ request[w].find \notin Range(lists[Key(request[w])].list)
  <1>1. request' # request
    OBVIOUS
  <1>2. PICK v \in Workers : NewRequest(v) \/ Step(v)
    BY <1>1 DEF Next, Arrive, Leave, Change, invalidate_account, Tick, vars
  <1>3. v = w
    BY <1>2, OthersWait DEF BrowseInv
  <1>4. ~NewRequest(w)
    BY DEF NewRequest, report_page, cmd_messages_list, cmd_report_add, report_add_item,
           Begin, Busy
  <1>5. BusyOK(request[w]) /\ request \in [Workers -> Asked \cup Page \cup Ended]
    BY Begun DEF Busy, BrowseInv, RequestsOK
  <1>6. ~Miss(w)
    <2>1. SUFFICES ASSUME Miss(w) PROVE FALSE
      OBVIOUS
    <2>2. request'[w] = [request[w] EXCEPT !.pc = "listing", !.asof = changes]
      BY <1>5, <2>1 DEF Miss, Set
    <2>3. request[w] \in Asked
      BY <1>5 DEF BusyOK
    <2>4. request'[w].pc = "listing"
      BY <2>2, <2>3 DEF Asked
    <2> QED
      BY <2>4
  <1>7. FromCache(w)
    BY <1>2, <1>3, <1>4, <1>6 DEF Step, ProviderFails, Throttled, GetPage, GetHeader, Finish
  <1>8. Answer(w, request[w], lists[Key(request[w])].list)
    BY <1>7 DEF FromCache
  <1>9. \A R : Set(w, R) => request'[w] = R
    BY <1>5 DEF Set
  <1>10. request[w].find # None
    <2>1. ASSUME NEW R, Set(w, R), R.pc \in {"ended", "page"} PROVE FALSE
      BY <1>9, <2>1
    <2> QED
      BY <1>8, <2>1 DEF Answer
  <1>11. request[w].find \notin Range(lists[Key(request[w])].list)
    <2>1. SUFFICES ASSUME request[w].find \in Range(lists[Key(request[w])].list) PROVE FALSE
      OBVIOUS
    <2>2. Set(w, [pc |-> "ended"])
      BY <1>8, <1>10, <2>1 DEF Answer
    <2> QED
      BY <1>9, <2>2
  <1> QED
    BY <1>7, <1>10, <1>11

(* A message the provider has for the month and that an answer from the    *)
(* cache calls missing came after the month was listed, or while it was,   *)
(* or is behind the limit: no narrower browse and no receipts_only has put *)
(* something less under the key of the whole month (find_header, CacheKey, *)
(* report_add_item).                                                       *)
THEOREM MissingIsRight == Spec => MissingIsExplained
  <1>1. ASSUME BrowseInv, WholeInv, [Next]_vars, NEW w \in Workers, NEW r, r = request[w],
               NEW kept, kept = lists[Key(r)], r.pc = "cache", request'[w].pc = "missing",
               r.find \in DatesAsked(r.ask.query.period)
        PROVE  \/ mail[r.find].nth > kept.asof
               \/ kept.asof = Torn
               \/ Len(kept.list) >= Limit
    <2>1. FromCache(w) /\ r.find # None /\ r.find \notin Range(kept.list)
      BY <1>1, MissingFromCache
    <2>2. Key(r) = r.ask /\ Key(r) \in DOMAIN lists
      BY <1>1, <2>1 DEF FromCache, Cache!Hit, Cache!Held, Key, BrowseInv, ListsOK
    <2>3. KeptWhole(kept, r.ask.query)
      BY <1>1, <2>2 DEF WholeInv
    <2>4. kept.list \in Seq(Messages) /\ kept.asof \in Nat \cup {Torn}
      BY <1>1, <2>2 DEF BrowseInv, ListsOK, KeptOK, Listed
    <2>5. r.ask.query.filter = NoFilter
      BY <1>1, <2>1, ProgressOf DEF Progress
    <2>6. BusyOK(r)
      BY <1>1, Begun DEF Busy
    <2>7. r.find \in Range(box) /\ InMonth(r.find, r.ask.query.period)
      BY <1>1 DEF DatesAsked
    <2>8. r.find \in Messages /\ mail[r.find].nth \in Nat
      BY <1>1, <2>7 DEF BrowseInv, MailOK, Mail, Range
    <2>9. Lists(r.find, r.ask.query)
      BY <2>5, <2>7, <2>8, BrowseAssumption DEF Lists
    <2>10. \A i \in 1 .. Len(kept.list) : kept.list[i] # r.find
      BY <2>1, <2>4 DEF Range
    <2> QED
      BY <2>3, <2>4, <2>5, <2>7, <2>8, <2>9, <2>10 DEF KeptWhole, Torn
  <1>2. BrowseInv /\ WholeInv /\ [Next]_vars =>
          [\A w \in Workers :
             LET r == request[w] IN
             r.pc = "cache" /\ request'[w].pc = "missing" =>
             (r.find \in DatesAsked(r.ask.query.period) =>
                LET kept == lists[Key(r)] IN
                \/ mail[r.find].nth > kept.asof
                \/ kept.asof = Torn
                \/ Len(kept.list) >= Limit)]_vars
    BY <1>1
  <1>3. BrowseInv /\ WholeInv /\ [Next]_vars => BrowseInv' /\ WholeInv'
    BY BrowseNext, WholeNext
  <1> QED
    BY <1>2, <1>3, BrowseInit, WholeInit, PTL DEF Spec, MissingIsExplained
=============================================================================
