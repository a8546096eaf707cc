----------------------------- MODULE CivilDates -----------------------------
(***************************************************************************)
(* Dates as the program computes with them: the platform's Date, in UTC.   *)
(* A month is counted from January of FirstYear, a day from the first of   *)
(* it. An instant is twice its day, and odd later that day: the dates the  *)
(* system keeps are midnights, and no clock is read at midnight.           *)
(***************************************************************************)
EXTENDS Integers

CONSTANTS
    FirstYear,      \* January of this year is month 0
    FirstWeekday    \* what day its first is, Sunday being 0

ASSUME CivilAssumption == FirstYear \in 1901 .. 2099 /\ FirstWeekday \in 0 .. 6

YearOf(M) == FirstYear + M \div 12
IsLeap(y) == y % 4 = 0
DaysBefore == <<0, 31, 59, 90, 120, 151, 181, 212, 243, 273, 304, 334>>

\* The day month M begins on.
MonthStart(M) ==
    365 * (M \div 12) + (YearOf(M) - 1) \div 4 - (FirstYear - 1) \div 4
    + DaysBefore[(M % 12) + 1] + (IF (M % 12) > 1 /\ IsLeap(YearOf(M)) THEN 1 ELSE 0)

LengthOf(M) == MonthStart(M + 1) - MonthStart(M)

\* Date.UTC: a day outside its month rolls into the next or the one before.
UTC(M, d) == 2 * (MonthStart(M) + d - 1)
OneDay == 2

MonthAt(date) ==
    LET day == date \div 2
    IN  CHOOSE M \in (day \div 31) .. (day \div 28) :
            MonthStart(M) <= day /\ day < MonthStart(M + 1)
DayOfMonth(date) == date \div 2 - MonthStart(MonthAt(date)) + 1
YearAt(date) == MonthAt(date) \div 12

Earliest(S) == CHOOSE x \in S : \A y \in S : x <= y
Lesser(x, y) == IF x <= y THEN x ELSE y

\* Day 0 is the first of January.
Weekday(day) == (day + FirstWeekday) % 7
DayOf(instant) == instant \div 2
Midnight(day) == 2 * day
=============================================================================
