------------------------------- MODULE Period -------------------------------
(***************************************************************************)
(* Months (period.py).  A month is a year and a month of it, and an        *)
(* instant a number of ticks in UTC, DayTicks to the day, of which the     *)
(* last stands for 23:59:59.999999.  Month names and the text YYYY-MM are  *)
(* left out; a month outside 1 .. 12 is what a text may still hold.        *)
(***************************************************************************)
EXTENDS Integers

CONSTANT DayTicks

ASSUME TicksAssumption == DayTicks \in Nat \ {0}

-----------------------------------------------------------------------------
(* The proleptic Gregorian calendar of Python's datetime and calendar.     *)
IsLeap(year) == year % 4 = 0 /\ (year % 100 # 0 \/ year % 400 = 0)

monthrange(year, month) ==
    CASE month = 2 -> IF IsLeap(year) THEN 29 ELSE 28
      [] month \in {4, 6, 9, 11} -> 30
      [] OTHER -> 31

\* The days of a year before a month of it, and those before the year.
DaysInYear(year, month) ==
    <<0, 31, 59, 90, 120, 151, 181, 212, 243, 273, 304, 334>>[month]
    + (IF month > 2 /\ IsLeap(year) THEN 1 ELSE 0)
DaysBefore(year) ==
    365 * (year - 1) + (year - 1) \div 4 - (year - 1) \div 100
    + (year - 1) \div 400

datetime(year, month, day, tick) ==
    (DaysBefore(year) + DaysInYear(year, month) + day - 1) * DayTicks + tick

Month(year, month) == [year |-> year, month |-> month]

\* now.year, now.month
MonthOf(instant) ==
    LET day == instant \div DayTicks
        year == CHOOSE y \in day \div 366 .. day \div 365 + 1 :
                    DaysBefore(y) <= day /\ day < DaysBefore(y + 1)
        month == CHOOSE m \in 1 .. 12 :
            /\ DaysBefore(year) + DaysInYear(year, m) <= day
            /\ m < 12 => day < DaysBefore(year) + DaysInYear(year, m + 1)
    IN  Month(year, month)

-----------------------------------------------------------------------------
(* Mutant: every February has 28 days. *)
PlainYearBounds(p) ==
    [start |-> datetime(p.year, p.month, 1, 0),
     end |-> datetime(p.year, p.month,
                      IF p.month = 2 THEN 28 ELSE monthrange(p.year, p.month),
                      DayTicks - 1) + 1]

month_bounds(p) ==
    LET last_day == monthrange(p.year, p.month) IN
    [start |-> datetime(p.year, p.month, 1, 0),
     end |-> datetime(p.year, p.month, last_day, DayTicks - 1) + 1]

Preceding(p) == IF p.month = 1 THEN Month(p.year - 1, 12)
                ELSE Month(p.year, p.month - 1)

\* The most recent months, newest first.
available_periods(window, now) ==
    LET back[i \in 1 .. window] ==
            IF i = 1 THEN MonthOf(now) ELSE Preceding(back[i - 1])
    IN  back

(* Mutant: the year is not turned back. *)
SameYearWindow(value, window, now) ==
    LET current == MonthOf(now) IN
    /\ value.month \in 1 .. 12
    /\ \E back \in 0 .. window - 1 :
           value = Month(current.year, current.month - back)

\* parse_period and the test against the window.
clamp_period(value, window, now) ==
    /\ value.month \in 1 .. 12
    /\ \E i \in 1 .. window : available_periods(window, now)[i] = value
=============================================================================
