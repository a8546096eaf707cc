---------------------------- MODULE WorkingHours ----------------------------
(***************************************************************************)
(* When somebody is expected to work, and the time that is asked about     *)
(* because it was not then (packages/modules/time-tracking working-hours,  *)
(* the staff form and the timer pages of apps/web).                        *)
(*                                                                         *)
(* Instants are counted in parts of a day from midnight of a day in UTC,   *)
(* days from 1 January 1970. Working hours are wall-clock times in Dubai,  *)
(* Ahead parts before UTC; the clock the person reads is Dubai's.          *)
(*                                                                         *)
(* One person, and the last entry recorded for them. What becomes of a     *)
(* questioned entry is Billing's; the timer itself is Timer's.             *)
(***************************************************************************)
EXTENDS Integers, FiniteSets

CONSTANTS
    Parts,      \* parts of a day
    Ahead,      \* how far Dubai's clock is ahead of UTC
    Usual,      \* the hours of somebody nobody wrote any down for
    Typable,    \* what managers type into the form of hours
    FirstDay, LastDay,  \* days of the instants considered
    Longest,    \* bound on the length of an entry
    TooLong,    \* IMPLAUSIBLE_HOURS
    NoHours, NoEntry, NoOwn

Span == [from : Int, to : Int]
Week == [from : Int, to : Int, days : SUBSET Int, own : [1 .. 7 -> Span \cup {NoOwn}]]

\* The hours nobody wrote down are the working week's, the same on every day.
ASSUME HoursAssumption ==
    /\ Parts \in Nat \ {0} /\ Ahead \in 0 .. Parts
    /\ FirstDay \in Nat /\ LastDay \in Nat
    /\ TooLong \in Nat /\ Longest \in Nat
    /\ Typable \subseteq Week /\ Usual \in Week
    /\ 0 <= Usual.from /\ Usual.from < Usual.to /\ Usual.to <= Parts
    /\ Usual.days = 1 .. 5 /\ \A d \in 1 .. 7 : Usual.own[d] = NoOwn

VARIABLES
    hours,      \* user_working_hours: [from, to, days, own], or NoHours
    \* the last entry, or NoEntry: [from, to, source, reason, said (the start that
    \* was typed, which the form says it recorded)]
    entry

hoursVars == <<hours, entry>>

Instants == FirstDay * Parts .. ((LastDay + 1) * Parts - 1)

-----------------------------------------------------------------------------
(* The rules.                                                              *)

MutWall(t) == t

\* The wall clock in Dubai at an instant.
Wall(t) == t + Ahead
LocalDay(t) == Wall(t) \div Parts
LocalTime(t) == Wall(t) % Parts

\* Sunday as getUTCDay numbers it.
MutWeekday(day) == (day + 4) % 7

\* 1 January 1970 was a Thursday; getUTCDay numbers Sunday 0, the hours 7.
Weekday(day) ==
    LET js == (day + 4) % 7
    IN  IF js = 0 THEN 7 ELSE js

InDay(span) == span.from < span.to /\ span.from >= 0 /\ span.to <= Parts

\* Hours of a day off mean nothing and are dropped before anything is asked.
Tidied(h) == [h EXCEPT !.own = [d \in 1 .. 7 |-> IF d \in h.days THEN h.own[d] ELSE NoOwn]]

\* Days with hours of their own are not looked at.
MutAcceptable(h) == InDay(h) /\ h.days # {} /\ h.days \subseteq 1 .. 7

Acceptable(h) ==
    /\ InDay(h)
    /\ h.days # {} /\ h.days \subseteq 1 .. 7
    /\ \A d \in h.days : h.own[d] # NoOwn => InDay(h.own[d])

\* The row is judged again when it is read: one the domain rejects is the default.
InForce ==
    IF hours # NoHours /\ Acceptable(Tidied(hours)) THEN Tidied(hours) ELSE Usual

Covers(h, t) ==
    LET weekday == Weekday(LocalDay(t))
        own == h.own[weekday]
    IN  /\ weekday \in h.days
        /\ IF own = NoOwn
           THEN LocalTime(t) >= h.from /\ LocalTime(t) < h.to
           ELSE LocalTime(t) >= own.from /\ LocalTime(t) < own.to

\* The check this once was: both ends inside working hours, and the night between.
MutQuestions(h, a, b) == ~ Covers(h, a) \/ ~ Covers(h, b)

\* Either end outside the working day, or ends on two days.
Questions(h, a, b) == ~ Covers(h, a) \/ ~ Covers(h, b) \/ LocalDay(a) # LocalDay(b)

\* Why an entry of the timer is in doubt, if it is.
Reason(a, b, abandoned) ==
    CASE abandoned -> "abandoned"
      [] ~ abandoned /\ Questions(InForce, a, b) -> "after_hours"
      [] OTHER -> IF b - a > TooLong THEN "implausible" ELSE "none"

MutInDubai(typed) == typed

\* The wall-clock time somebody typed, read on the clock they were reading.
InDubai(typed) == typed - Ahead

-----------------------------------------------------------------------------
(* The requests.                                                           *)

\* The form and the domain both drop the hours of days off; the form refuses a
\* week without days, the domain a day that does not end after it starts.
SetHours(h) ==
    /\ Acceptable(Tidied(h))
    /\ hours' = Tidied(h)
    /\ UNCHANGED entry

\* A span of no length records nothing.
StopTimer(a, b, abandoned) ==
    /\ b > a
    /\ entry' = [from |-> a, to |-> b, source |-> "timer",
                 reason |-> Reason(a, b, abandoned), said |-> NoEntry]
    /\ UNCHANGED hours

\* Work not yet done is refused; whatever the hour, time typed is not asked about.
ByHand(from, to, now) ==
    /\ to > from
    /\ InDubai(to) <= now
    /\ entry' = [from |-> InDubai(from), to |-> InDubai(to), source |-> "manual",
                 reason |-> "none", said |-> from]
    /\ UNCHANGED hours

HoursInit == hours = NoHours /\ entry = NoEntry

\* The hours change before or after; an entry, once recorded, stays as it was judged.
HoursNext ==
    \/ \E h \in Typable : SetHours(h)
    \/ /\ entry = NoEntry
       /\ \E a \in Instants : \E b \in a .. a + Longest : \E abandoned \in BOOLEAN :
              StopTimer(a, b, abandoned)
    \/ /\ entry = NoEntry
       /\ \E typed \in Instants : \E length \in {1, Longest} : \E now \in {LastDay * Parts} :
              ByHand(typed, typed + length, now)

HoursSpec == HoursInit /\ [][HoursNext]_hoursVars

-----------------------------------------------------------------------------
(* The pages.                                                              *)

\* The form of a person's hours fills in what it was given, or its own default.
FormDefault == [from |-> Usual.from, to |-> Usual.to, days |-> 1 .. 5, own |-> [d \in 1 .. 7 |-> NoOwn]]
Shown == IF hours = NoHours THEN FormDefault ELSE hours

\* Today's list takes the entries of Dubai's day.
Today(e) == LocalDay(e.from)

\* The timesheet takes what began between two midnights in UTC, and puts an
\* entry on the row of the day its instant is written with.
SheetTakes(e, first, last) == e.from >= first * Parts /\ e.from < (last + 1) * Parts
MutSheetRow(e) == Wall(e.from) \div Parts
SheetRow(e) == e.from \div Parts

-----------------------------------------------------------------------------
(* What must hold.                                                         *)

\* Counted the other way: the days of the calendar, each with its name, and of
\* each worked day every part worked.
NameOf(day) == ((day + 3) % 7) + 1
WorkedOn(h, day) ==
    IF NameOf(day) \notin h.days THEN {}
    ELSE LET span == IF h.own[NameOf(day)] = NoOwn THEN h ELSE h.own[NameOf(day)]
         IN  {day * Parts + part : part \in span.from .. span.to - 1}
WorkedInstants(h) == UNION {WorkedOn(h, day) : day \in FirstDay - 2 .. LastDay + 2}

\* Type, and a day that ends after it starts on every day of its own.
HoursTypeOK ==
    /\ hours # NoHours =>
          /\ hours.days \subseteq 1 .. 7 /\ hours.days # {}
          /\ 0 <= hours.from /\ hours.from < hours.to /\ hours.to <= Parts
          /\ \A d \in 1 .. 7 : hours.own[d] # NoOwn =>
                d \in hours.days /\ hours.own[d].from < hours.own[d].to
    /\ entry # NoEntry => entry.from < entry.to /\ entry.source \in {"timer", "manual"}

\* Time the timer recorded and nobody is asked about lies wholly within the hours
\* in force when it stopped, is of one sitting and of one day; and nobody is
\* asked about time within them and of one day.
JudgedByTheHours ==
    [][entry' # entry /\ entry'.source = "timer" =>
        LET span == {t + Ahead : t \in entry'.from .. entry'.to}
            worked == WorkedInstants(Shown)
        IN  /\ entry'.reason = "none" => span \subseteq worked /\ Cardinality(span) - 1 <= TooLong
            /\ entry'.reason = "after_hours" =>
                   \/ ~ (span \subseteq worked)
                   \/ \E day \in FirstDay .. LastDay + 2 : day * Parts - 1 \in span /\ day * Parts \in span
       ]_hoursVars

\* What the page shows as somebody's hours is what their time is judged by.
HoursShown == Shown = InForce

\* Time typed is kept as it was typed, on the clock of who typed it: the day the
\* form confirms is the day of today's list.
TypedIsKept ==
    entry # NoEntry /\ entry.source = "manual" =>
        /\ entry.said \div Parts = (entry.from + Ahead) \div Parts
        /\ entry.said % Parts = (entry.from + Ahead) % Parts

\* Every entry a timesheet adds up is on one of its rows. Its row is today's list's
\* only for what began after UTC's midnight: the day is UTC's there, Dubai's here.
SheetAddsUp ==
    entry # NoEntry =>
        /\ \A first, last \in FirstDay .. LastDay :
               SheetTakes(entry, first, last) => SheetRow(entry) \in first .. last
        /\ SheetRow(entry) = Today(entry) \/ (entry.from % Parts) + Ahead >= Parts

\* The hours of the practice: the four above.
HoursHold ==
    /\ [](HoursTypeOK /\ HoursShown /\ TypedIsKept /\ SheetAddsUp)
    /\ JudgedByTheHours
=============================================================================
