---------------------------- MODULE FilingPeriods ----------------------------
(***************************************************************************)
(* The periods a client files for (packages/modules: clients/domain/       *)
(* tax-period.ts, projects/application/recurrence.ts): the worker's sweep  *)
(* opens the period that closed last, and a person may carry on to the     *)
(* next one before it closes. Each works the period out its own way, so    *)
(* both must come to the same label and the same due date.                 *)
(*                                                                         *)
(* A label is the month a period ends in, or the year a financial year     *)
(* ends in.                                                                *)
(***************************************************************************)
EXTENDS CivilDates, FiniteSets

CONSTANTS
    FirstMonth,     \* bound: the months in which things happen
    LastMonth,
    MaxGap,         \* bound on the days between two sweeps
    MaxByHand       \* bound on the periods carried on to by hand

ASSUME FilingAssumption ==
    /\ FirstMonth \in Nat /\ FirstMonth >= 24
    /\ LastMonth \in Nat /\ FirstMonth < LastMonth
    /\ MaxGap \in Nat /\ MaxByHand \in Nat

VARIABLES
    \* what the clients table holds
    cycle,          \* [recurrence, frequency, endMonth]
    now,            \* an instant
    sweptAt,        \* when the sweep last ran
    opened          \* projects: [key, dueAt, byHand]

filingVars == <<cycle, now, sweptAt, opened>>

----------------------------------------------------------------------------
(* The client's own cycles.                                                *)

Cycles ==
    [recurrence : {"monthly"}, frequency : {"none"}, endMonth : {1}]
    \cup [recurrence : {"per_vat_period"}, frequency : {"monthly", "quarterly"}, endMonth : 1 .. 12]
    \cup [recurrence : {"per_financial_year"}, frequency : {"none"}, endMonth : 1 .. 12]

\* VatPeriods.endMonths: any month a quarter ends gives the others.
MutEndsInMonth(M) == cycle.frequency = "monthly" \/ (M + 1) % 3 = 0
EndsInMonth(M) == cycle.frequency = "monthly" \/ (M + 1 - cycle.endMonth) % 3 = 0

\* periodContaining.
VatPeriod(date) ==
    LET e == Earliest({M \in MonthAt(date) .. MonthAt(date) + 2 : EndsInMonth(M)})
        length == IF cycle.frequency = "monthly" THEN 1 ELSE 3
    IN  [start |-> UTC(e - length + 1, 1), end |-> UTC(e + 1, 0), key |-> e]

\* yearEndFor: a date on the last day itself, past its midnight, is in the next year.
YearEndFor(date) ==
    LET candidate == UTC(12 * YearAt(date) + cycle.endMonth, 0)
    IN  IF date <= candidate THEN candidate ELSE UTC(12 * (YearAt(date) + 1) + cycle.endMonth, 0)
YearKey(date) == YearAt(YearEndFor(date))

VatReturnDueDate(end) == UTC(MonthAt(end) + 1, 28)

MutCorporateTaxDueDate(end) == UTC(MonthAt(end) + 9, DayOfMonth(end))
CorporateTaxDueDate(end) ==
    LET M == MonthAt(end) + 9 IN UTC(M, Lesser(DayOfMonth(end), LengthOf(M)))

----------------------------------------------------------------------------
(* Two ways to a period.                                                   *)

\* The period that contains the month before, still open though it may be.
MutClosedVatPeriod == VatPeriod(UTC(MonthAt(now) - 1, 1))

\* Stepping back from the period running now.
ClosedVatPeriod == VatPeriod(VatPeriod(now).start - OneDay)

\* The same day of the month, a year before the end of the year running now.
ClosedYearEnd ==
    LET running == YearEndFor(now) IN UTC(MonthAt(running) - 12, DayOfMonth(running))

\* periodFor: what the sweep opens.
ClosedPeriod ==
    CASE cycle.recurrence = "monthly" ->
           [key |-> MonthAt(now) - 1, end |-> UTC(MonthAt(now), 0), dueAt |-> UTC(MonthAt(now), 20)]
      [] cycle.recurrence = "per_vat_period" ->
           [key |-> ClosedVatPeriod.key, end |-> ClosedVatPeriod.end,
            dueAt |-> VatReturnDueDate(ClosedVatPeriod.end)]
      [] cycle.recurrence = "per_financial_year" ->
           [key |-> YearKey(ClosedYearEnd), end |-> ClosedYearEnd,
            dueAt |-> CorporateTaxDueDate(ClosedYearEnd)]

\* nextPeriod finds the period of a label by stepping back from today, so a
\* label of one still to come is not found; a month's label is arithmetic.
Labelled(key) ==
    CASE cycle.recurrence = "monthly" -> TRUE
      [] cycle.recurrence = "per_vat_period" -> EndsInMonth(key) /\ key <= VatPeriod(now).key
      [] cycle.recurrence = "per_financial_year" -> key <= YearKey(now)

\* A month's bookkeeping due in the month itself.
MutNextMonth(key) == [key |-> key + 1, dueAt |-> UTC(key + 1, 20)]
NextMonth(key) == [key |-> key + 1, dueAt |-> UTC(key + 2, 20)]

\* The day after a VAT period is in the next one; the end of the next year is
\* asked for on the first of its month.
NextPeriod(key) ==
    CASE cycle.recurrence = "monthly" -> NextMonth(key)
      [] cycle.recurrence = "per_vat_period" ->
           LET next == VatPeriod(UTC(key + 1, 1)) IN [key |-> next.key, dueAt |-> VatReturnDueDate(next.end)]
      [] cycle.recurrence = "per_financial_year" ->
           LET end == YearEndFor(UTC(12 * (key + 1) + cycle.endMonth - 1, 1))
           IN  [key |-> YearKey(end), dueAt |-> CorporateTaxDueDate(end)]

----------------------------------------------------------------------------
Keys == {p.key : p \in opened}

Sweep ==
    /\ sweptAt' = now
    /\ opened' = IF ClosedPeriod.end < now /\ ClosedPeriod.key \notin Keys
                   THEN opened \cup {[key |-> ClosedPeriod.key, dueAt |-> ClosedPeriod.dueAt, byHand |-> FALSE]}
                   ELSE opened
    /\ UNCHANGED <<cycle, now>>

CarryOnByHand ==
    /\ Cardinality({p \in opened : p.byHand}) < MaxByHand
    /\ \E p \in opened :
        /\ Labelled(p.key)
        /\ NextPeriod(p.key).key \notin Keys
        /\ opened' = opened \cup {[key |-> NextPeriod(p.key).key, dueAt |-> NextPeriod(p.key).dueAt, byHand |-> TRUE]}
    /\ UNCHANGED <<cycle, now, sweptAt>>

\* The days on which something may be different, at some hour past midnight.
Instants ==
    {UTC(M, d) + 1 : M \in FirstMonth .. LastMonth, d \in {1, 15}}
    \cup {UTC(M + 1, 0) + 1 : M \in FirstMonth .. LastMonth}

\* A sweep that fails is tried again, and the worker may be down for a while.
TimePasses ==
    /\ \E later \in Instants :
        /\ now < later
        /\ later - sweptAt <= 2 * MaxGap
        /\ now' = later
    /\ UNCHANGED <<cycle, sweptAt, opened>>

FilingInit ==
    /\ cycle \in Cycles
    /\ now = Earliest(Instants)
    /\ sweptAt = now
    /\ opened = {}

FilingNext == Sweep \/ CarryOnByHand \/ TimePasses

FilingSpec == FilingInit /\ [][FilingNext]_filingVars

----------------------------------------------------------------------------
(* Properties.                                                             *)

\* The last day of a period by its label, and whether there is such a period.
LastDayOf(key) ==
    IF cycle.recurrence = "per_financial_year" THEN UTC(12 * key + cycle.endMonth, 0)
                                               ELSE UTC(key + 1, 0)
IsPeriod(key) == cycle.recurrence = "per_vat_period" => EndsInMonth(key)

\* The type invariant: every label is of a period, every due date a midnight.
FilingTypeOK ==
    /\ cycle \in Cycles /\ now \in Instants
    /\ sweptAt \in Instants
    /\ \A p \in opened : IsPeriod(p.key) /\ p.dueAt % 2 = 0 /\ p.byHand \in BOOLEAN

\* A period carried on to by hand has the due date the sweep gives it once it has
\* closed (recurrence.ts nextPeriod: "the same key and due date the sweep would give
\* that period once it closed"), so that the two are one project and not two.
HandAgreesWithSweep ==
    \A p \in opened : p.byHand /\ p.key = ClosedPeriod.key => p.dueAt = ClosedPeriod.dueAt

\* Every period that closed while the sweeps went on has been opened, and the
\* sweep opened none that still ran: short of a financial year's last day, which
\* yearEndFor takes for the first of the next one.
ClosedAreOpened ==
    /\ \A key \in 0 .. LastMonth :
         /\ IsPeriod(key)
         /\ Earliest(Instants) < LastDayOf(key) /\ LastDayOf(key) + OneDay < sweptAt
         => key \in Keys
    /\ \A p \in opened :
         ~ p.byHand => LastDayOf(p.key) + (IF cycle.recurrence = "per_financial_year" THEN 0 ELSE OneDay) < sweptAt

\* The periods follow each other without a gap: today is in one, and the day
\* before it starts is the last of another (tax-period.ts).
PeriodsFollow ==
    LET running == VatPeriod(now)
        before == VatPeriod(running.start - OneDay)
    IN  cycle.recurrence = "per_vat_period" =>
            /\ running.start <= now /\ now < running.end + OneDay
            /\ before.end + OneDay = running.start /\ before.key < running.key
            /\ running.key % 3 = (cycle.endMonth - 1) % 3 \/ cycle.frequency = "monthly"

\* A return is due in the month the law names, whatever the length of the months
\* between: the next for VAT, the ninth for corporation tax (deadline.ts).
DueInItsMonth ==
    \A p \in opened :
        LET M == MonthAt(LastDayOf(p.key))
        IN  MonthAt(p.dueAt) = IF cycle.recurrence = "per_financial_year" THEN M + 9 ELSE M + 1

\* The sweep and the hand open the same periods, all of them and in time. Short
\* of a financial year that ends in February: the sweep steps a year back from
\* the 29th of February to the 1st of March.
PeriodsHold ==
    \/ cycle.recurrence = "per_financial_year" /\ cycle.endMonth = 2
    \/ HandAgreesWithSweep /\ ClosedAreOpened /\ PeriodsFollow /\ DueInItsMonth
=============================================================================
