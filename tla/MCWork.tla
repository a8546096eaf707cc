-------------------------------- MODULE MCWork --------------------------------
(***************************************************************************)
(* A client's work on small instances: how a recurring job comes to be     *)
(* opened, the arithmetic of the periods it is opened for, the life of one *)
(* project, and what the calendar shows of a due date. They share no state *)
(* here, since Recurrence numbers the periods and takes any job for a      *)
(* finished one; a run lets one of them move, chosen at the start.         *)
(***************************************************************************)
EXTENDS Recurrence, FilingPeriods, Project, DeadlineCalendar

VARIABLE work

\* Around the end of February 2026, a Saturday, and days before and after it.
DaysDue ==
    {MonthStart(25) + d : d \in {13, 25, 26, 27}}
    \cup {MonthStart(26) + d : d \in {0, 1, 18, 30}}
\* Next to weekends on either side of the month's end, and in the middle of each.
Announceable == {MonthStart(25) + d : d \in {15, 26}} \cup {MonthStart(26) + d : d \in {1, 30}}

Init ==
    /\ work \in {"coming round", "periods", "one project", "due dates"}
    /\ RecurrenceInit
    /\ FilingInit
    /\ ProjectInit
    /\ DeadlineInit
    /\ work # "coming round" => ~ oneByOne
    /\ work # "periods" => cycle.recurrence = "monthly"
    /\ work # "one project" => ~ alone
    /\ work # "due dates" => thing.kind = "project" /\ thing.dueOn = MonthStart(25) + 13

Next ==
    /\ UNCHANGED work
    /\ \/ /\ work = "coming round" /\ RecurrenceNext
          /\ UNCHANGED <<filingVars, projectVars, deadlineVars>>
       \/ /\ work = "periods" /\ FilingNext
          /\ UNCHANGED <<recurrenceVars, projectVars, deadlineVars>>
       \/ /\ work = "one project" /\ ProjectNext
          /\ UNCHANGED <<recurrenceVars, filingVars, deadlineVars>>
       \/ /\ work = "due dates" /\ DeadlineNext
          /\ UNCHANGED <<recurrenceVars, filingVars, projectVars>>

Spec ==
    /\ Init
    /\ [][Next]_<<work, recurrenceVars, filingVars, projectVars, deadlineVars>>
    /\ \A w \in Sweepers :
         WF_recurrenceVars(/\ work = "coming round"
                           /\ StartSweep(w) \/ SweepGoesOn(w)
                           /\ UNCHANGED <<filingVars, projectVars, deadlineVars>>)

\* The sweep and the hand open the same periods, in time and with the dates the
\* law names (tax-period.ts, recurrence.ts); and the calendar shows a due date on
\* its day, on one month's grid, and in a list until it is met (read-calendar.ts).
DatesHold ==
    /\ work = "periods" => FilingTypeOK /\ PeriodsHold
    /\ work = "due dates" => DeadlineTypeOK /\ CalendarHolds
=============================================================================
