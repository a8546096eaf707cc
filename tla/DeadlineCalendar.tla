-------------------------- MODULE DeadlineCalendar --------------------------
(***************************************************************************)
(* What the calendar shows of one thing with a date on it (packages/       *)
(* modules/deadlines, and the queries of apps/api/src/calendar/adapters):  *)
(* the day it can be filed by, on the grid of a month, on the list of what *)
(* is due soon, and among what is late. Nothing is stored: each view is    *)
(* read from the thing and the table of holidays, which grows as they are  *)
(* announced.                                                              *)
(***************************************************************************)
EXTENDS CivilDates, FiniteSets

CONSTANTS
    DueDays,        \* the days the thing may be due
    MayBeHolidays,  \* the days that may be announced as holidays
    FirstShown,     \* bound: the months looked at
    LastShown,
    Within          \* how many days ahead "soon" reaches

ASSUME DeadlineAssumption ==
    /\ DueDays \subseteq Nat /\ MayBeHolidays \subseteq Nat
    /\ FirstShown \in Nat /\ LastShown \in Nat /\ FirstShown < LastShown
    /\ Within \in Nat

VARIABLES
    thing,          \* [kind, dueOn]; a project's due_at is a midnight
    isDone,         \* a project finished, a document superseded
    holidays,       \* table business_holidays
    clock           \* an instant

deadlineVars == <<thing, isDone, holidays, clock>>

Kinds == {"vat_return", "ct_return", "project", "document_expiry"}
ShownMonths == FirstShown .. LastShown
Today == DayOf(clock)

----------------------------------------------------------------------------
(* BusinessCalendar, of the holidays it was given.                         *)

IsWeekend(day) == Weekday(day) \in {6, 0}
IsBusinessDay(day, given) == ~ IsWeekend(day) /\ day \notin given

\* Thirty days are tried, and then it throws.
NextBusinessDay(day, given) ==
    Earliest({d \in day .. day + 29 : IsBusinessDay(d, given)})

----------------------------------------------------------------------------
(* The queries. A project is compared as an instant, a document as a day.  *)

HolidaysBetween(from, to) == {d \in holidays : DayOf(from) <= d /\ d < DayOf(to)}

\* deadlineSource.between: a superseded document has left the query, a finished
\* project has not.
Between(from, to) ==
    IF thing.kind = "document_expiry"
      THEN ~ isDone /\ DayOf(from) <= thing.dueOn /\ thing.dueOn < DayOf(to)
      ELSE from <= Midnight(thing.dueOn) /\ Midnight(thing.dueOn) < to

Overdue == ~ isDone /\ thing.dueOn < Today

\* toEntry: an expiry date is a fact and does not move.
MutEntry(given) ==
    LET effective == NextBusinessDay(thing.dueOn, given)
    IN  [dueOn |-> effective, moved |-> effective # thing.dueOn,
         isOverdue |-> ~ isDone /\ effective < Today]
Entry(given) ==
    LET effective == IF thing.kind = "document_expiry" THEN thing.dueOn
                                                       ELSE NextBusinessDay(thing.dueOn, given)
    IN  [dueOn |-> effective, moved |-> effective # thing.dueOn,
         isOverdue |-> ~ isDone /\ effective < Today]

----------------------------------------------------------------------------
(* The views.                                                              *)

\* month: read to a week past its end, and laid on the month's own days.
MonthEntry(M) == Entry(HolidaysBetween(UTC(M, 1), UTC(M + 1, 1) + 7 * OneDay))
OnGrid(M) ==
    /\ Between(UTC(M, 1), UTC(M + 1, 1) + 7 * OneDay)
    /\ MonthEntry(M).dueOn \in MonthStart(M) .. MonthStart(M + 1) - 1

MutSoonEntry == Entry(HolidaysBetween(clock, clock + Within * OneDay))
\* upcoming: soon, with the holidays of a week more, and late.
SoonEntry == Entry(HolidaysBetween(clock, clock + (Within + 7) * OneDay))
InSoon ==
    /\ Between(clock, clock + Within * OneDay)
    /\ ~ isDone /\ ~ SoonEntry.isOverdue
InLate == Overdue

----------------------------------------------------------------------------
Announce(day) ==
    /\ holidays' = holidays \cup {day}
    /\ UNCHANGED <<thing, isDone, clock>>

Finish ==
    /\ ~ isDone
    /\ isDone' = TRUE
    /\ UNCHANGED <<thing, holidays, clock>>

DayPasses ==
    /\ Today < MonthStart(LastShown + 1)
    /\ clock' = clock + OneDay
    /\ UNCHANGED <<thing, isDone, holidays>>

DeadlineInit ==
    /\ thing \in [kind : Kinds, dueOn : DueDays]
    /\ isDone = FALSE
    /\ holidays = {}
    /\ clock = UTC(FirstShown, 1) + 1

DeadlineNext ==
    \/ \E day \in MayBeHolidays : Announce(day)
    \/ Finish
    \/ DayPasses

----------------------------------------------------------------------------
(* Properties.                                                             *)

DeadlineTypeOK ==
    /\ thing.kind \in Kinds /\ thing.dueOn \in DueDays
    /\ isDone \in BOOLEAN
    /\ holidays \subseteq MayBeHolidays
    /\ clock % 2 = 1

\* The day it can be filed by: never before the statutory one, the authority open
\* on it and shut on every day between.
FileBy ==
    IF thing.kind = "document_expiry" THEN thing.dueOn
    ELSE CHOOSE d \in thing.dueOn .. thing.dueOn + 60 :
            /\ IsBusinessDay(d, holidays)
            /\ \A e \in thing.dueOn .. d - 1 : ~ IsBusinessDay(e, holidays)

\* Wherever it is shown with a day, the day is the one it can be filed by, though
\* each view loads only the holidays of its own window (read-calendar.ts:59, :115);
\* and it is marked late exactly when that day has gone by.
ShownOnItsDay ==
    /\ \A M \in ShownMonths : OnGrid(M) =>
         /\ MonthEntry(M).dueOn = FileBy
         /\ MonthEntry(M).isOverdue <=> ~ isDone /\ FileBy < Today
    /\ InSoon => SoonEntry.dueOn = FileBy

\* What is left to do is in sight: soon, or late, and never both, from Within days
\* before its day for as long as it is open. Short of a project on its very day:
\* "soon" begins now, and its due_at was the midnight before.
StaysInSight ==
    /\ ~ isDone /\ thing.dueOn < DayOf(clock + Within * OneDay) =>
         \/ InSoon \/ InLate
         \/ thing.kind # "document_expiry" /\ thing.dueOn = Today
    /\ ~ (InSoon /\ InLate)
    /\ isDone => ~ InSoon /\ ~ InLate

\* A thing is on the grid of the month it can be filed in, and of no other: short
\* of one moved out of its month, which the next month's window begins too late for.
OnOneGrid ==
    /\ \A M, N \in ShownMonths : OnGrid(M) /\ OnGrid(N) => M = N
    /\ (thing.kind = "document_expiry" => ~ isDone) =>
         \A M \in ShownMonths :
            /\ FileBy \in MonthStart(M) .. MonthStart(M + 1) - 1
            /\ thing.dueOn >= MonthStart(M)
            => OnGrid(M)

CalendarHolds == ShownOnItsDay /\ StaysInSight /\ OnOneGrid
=============================================================================
