------------------------------ MODULE DailySweep ------------------------------
(***************************************************************************)
(* The worker's daily job (apps/worker/src/handlers: daily.ts,             *)
(* document-expiry.ts, escalations.ts, alerts.ts, notify-escalation.ts):   *)
(* each morning's run warns of a document about to expire, puts on the     *)
(* queue the rungs of the ladder that chases a project which waits, and    *)
(* puts on the queue the next morning's run.                               *)
(*                                                                         *)
(* The queue is what JobDelivery says of it: one live job per key, run at  *)
(* least once, by two workers at once if a lease lapses. A day begins at   *)
(* the hour of the run. The recurrence between the warning and the ladder  *)
(* is module Recurrence; here it is one of the steps that may throw.       *)
(***************************************************************************)
EXTENDS Integers, FiniteSets

CONSTANTS
    Workers,
    Stages,         \* the rungs of the project's ladder
    DueDay,         \* the day each is due: counted from created_at, or back from due_at
    Audience,       \* the active users a rung is told to
    MarkDay,        \* the day the document has a warning's number of days left
    CatchUp,        \* how many days later the warning is still looked for
    MaxAttempts,    \* of a job
    MaxFaults,      \* bound on the runs that throw and the workers that die
    FinalDay,       \* bound on the calendar
    NoRun           \* a worker with no job in hand

ASSUME DailySweepAssumption ==
    /\ DueDay \in [Stages -> Nat]
    /\ IsFiniteSet(Stages)
    /\ MarkDay \in Nat /\ CatchUp \in Nat
    /\ MaxAttempts \in Nat \ {0} /\ MaxFaults \in Nat /\ FinalDay \in Nat \ {0}

VARIABLES
    day,
    faults,
    up,             \* the workers that have booted
    awaited,        \* projects.state of the one project: what it waits for
    \* the queue
    morning,        \* the job of each morning: absent, live, completed or failed
    rung,           \* the job of each rung
    attempts,       \* of each rung's job and each morning's
    \* raised_alerts and notifications
    warned,         \* the document's warning
    raised,         \* the rungs
    told,           \* <<rung, user>>
    sweptOn,        \* the days whose run came to its end
    \* each worker
    run             \* the job in hand, how far it is, its attempt, its "today"

queueVars == <<morning, rung, attempts>>
alertVars == <<warned, raised, told>>
dailyVars == <<day, faults, up, awaited, queueVars, alertVars, sweptOn, run>>

Days == 1 .. FinalDay
Mornings == 1 .. FinalDay + 1
JobStates == {"absent", "live", "completed", "failed"}
Waits == {"awaiting_documents", "waiting_for_client", "moving"}
DailySteps == {"expiry", "ladder", "next", "end"}
RungSteps == {"look", "raise", "tell", "end"}

Runs ==
    [kind : {"morning"}, of : Mornings, step : DailySteps, attempt : 1 .. MaxAttempts, today : Days]
    \cup [kind : {"rung"}, of : Stages, step : RungSteps, attempt : 1 .. MaxAttempts]

ASSUME NoRunAssumption == NoRun \notin Runs

Running(w, kind, step) ==
    /\ run[w] # NoRun
    /\ run[w].kind = kind /\ run[w].step = step

GoTo(w, step) == run' = [run EXCEPT ![w].step = step]

MutNextDailyRun(d) == d

\* nextDailyRun: strictly after, so a run never asks for its own morning again.
NextDailyRun(d) == d + 1

\* enqueue under the key of the date: nothing while such a job is live.
ScheduleNext(d) ==
    /\ morning' = [morning EXCEPT ![NextDailyRun(d)] = "live"]
    /\ attempts' = IF morning[NextDailyRun(d)] = "live" THEN attempts
                   ELSE [attempts EXCEPT ![NextDailyRun(d)] = 0]
    /\ UNCHANGED rung

----------------------------------------------------------------------------
(* The queue and the workers.                                              *)

\* A worker boots: the next morning's run is put on the queue.
Boot(w) ==
    /\ w \notin up
    /\ up' = up \cup {w}
    /\ ScheduleNext(day)
    /\ UNCHANGED <<day, faults, awaited, alertVars, sweptOn, run>>

Attempt(j) == IF attempts[j] < MaxAttempts THEN attempts[j] + 1 ELSE MaxAttempts

\* A claim is an attempt.
Claim(w, j, first) ==
    /\ w \in up /\ run[w] = NoRun
    /\ attempts' = [attempts EXCEPT ![j] = Attempt(j)]
    /\ run' = [run EXCEPT ![w] = first]
    /\ UNCHANGED <<day, faults, up, awaited, morning, rung, alertVars, sweptOn>>

MutClaimMorning(w, d) ==
    /\ morning[d] = "live"
    /\ Claim(w, d, [kind |-> "morning", of |-> d, step |-> "expiry",
                    attempt |-> Attempt(d), today |-> day])

\* The handler's "today" is the moment it starts.
ClaimMorning(w, d) ==
    /\ morning[d] = "live" /\ d <= day
    /\ Claim(w, d, [kind |-> "morning", of |-> d, step |-> "expiry",
                    attempt |-> Attempt(d), today |-> day])

ClaimRung(w, s) ==
    /\ rung[s] = "live" /\ DueDay[s] <= day
    /\ Claim(w, s, [kind |-> "rung", of |-> s, step |-> "look", attempt |-> Attempt(s)])

\* The outcome of the job in hand, unless it has one.
Outcome(w, outcome) ==
    LET settled(state) == IF state[run[w].of] = "live"
                            THEN [state EXCEPT ![run[w].of] = outcome] ELSE state
    IN IF run[w].kind = "morning"
         THEN morning' = settled(morning) /\ UNCHANGED rung
         ELSE rung' = settled(rung) /\ UNCHANGED morning

Complete(w) ==
    /\ run[w] # NoRun /\ run[w].step = "end"
    /\ Outcome(w, "completed")
    /\ run' = [run EXCEPT ![w] = NoRun]
    /\ UNCHANGED <<day, faults, up, awaited, attempts, alertVars, sweptOn>>

\* A step throws: the job goes back for another attempt, or has had them all.
Fails(w) ==
    /\ run[w] # NoRun
    /\ faults < MaxFaults
    /\ faults' = faults + 1
    /\ IF run[w].attempt >= MaxAttempts
         THEN Outcome(w, "failed")
         ELSE UNCHANGED <<morning, rung>>
    /\ run' = [run EXCEPT ![w] = NoRun]
    /\ UNCHANGED <<day, up, awaited, attempts, alertVars, sweptOn>>

\* A worker dies: its job stays live and its lease lapses.
WorkerDies(w) ==
    /\ w \in up
    /\ faults < MaxFaults
    /\ faults' = faults + 1
    /\ up' = up \ {w}
    /\ run' = [run EXCEPT ![w] = NoRun]
    /\ UNCHANGED <<day, awaited, queueVars, alertVars, sweptOn>>

----------------------------------------------------------------------------
(* The morning's run.                                                      *)

MutDueForWarning(today) == today = MarkDay

\* Each offset asks which documents had the number of days left, that many days ago.
DueForWarning(today) == \E offset \in 0 .. CatchUp : today - offset = MarkDay

WarnOfExpiry(w) ==
    /\ Running(w, "morning", "expiry")
    /\ warned' = (warned \/ DueForWarning(run[w].today))
    /\ GoTo(w, "ladder")
    /\ UNCHANGED <<day, faults, up, awaited, queueVars, raised, told, sweptOn>>

\* The states whose projects are chased, in scheduleEscalations and again in
\* fireEscalation.
Chased == {"awaiting_documents", "waiting_for_client"}

\* scheduleEscalations: every rung whose moment has not passed. On its own day a
\* rung may be before or after the run. One that is live already stays as it is.
ScheduleLadder(w) ==
    /\ Running(w, "morning", "ladder")
    /\ \E ahead \in SUBSET {s \in Stages : run[w].today <= DueDay[s]} :
        /\ {s \in Stages : run[w].today < DueDay[s]} \subseteq ahead
        /\ LET queued == {s \in ahead : awaited \in Chased /\ rung[s] # "live"} IN
            /\ rung' = [s \in Stages |-> IF s \in queued THEN "live" ELSE rung[s]]
            /\ attempts' = [j \in DOMAIN attempts |-> IF j \in queued THEN 0 ELSE attempts[j]]
    /\ GoTo(w, "next")
    /\ UNCHANGED <<day, faults, up, awaited, morning, alertVars, sweptOn>>

ScheduleMorning(w) ==
    /\ Running(w, "morning", "next")
    /\ ScheduleNext(run[w].today)
    /\ sweptOn' = sweptOn \cup {run[w].today}
    /\ GoTo(w, "end")
    /\ UNCHANGED <<day, faults, up, awaited, alertVars>>

----------------------------------------------------------------------------
(* A rung: fireEscalation.                                                 *)

MutStillChased == {"awaiting_documents"}

StillChased == Chased

\* The project is read again: it may have moved on since the rung was queued.
Look(w) ==
    /\ Running(w, "rung", "look")
    /\ GoTo(w, IF awaited \in StillChased THEN "raise" ELSE "end")
    /\ UNCHANGED <<day, faults, up, awaited, queueVars, alertVars, sweptOn>>

\* The alert log says whether it is new, and only a new one is told.
RaiseAlert(w) ==
    /\ Running(w, "rung", "raise")
    /\ raised' = raised \cup {run[w].of}
    /\ GoTo(w, IF run[w].of \in raised THEN "end" ELSE "tell")
    /\ UNCHANGED <<day, faults, up, awaited, queueVars, warned, told, sweptOn>>

Untold(s) == {u \in Audience : <<s, u>> \notin told}

MutToldAll(s, u) == TRUE

\* Whether u is the last of the people to tell.
ToldAll(s, u) == Untold(s) \subseteq {u}

Tell(w) ==
    /\ Running(w, "rung", "tell")
    /\ \E u \in Untold(run[w].of) :
        /\ told' = told \cup {<<run[w].of, u>>}
        /\ GoTo(w, IF ToldAll(run[w].of, u) THEN "end" ELSE "tell")
    /\ UNCHANGED <<day, faults, up, awaited, queueVars, warned, raised, sweptOn>>

----------------------------------------------------------------------------
ProjectMoves ==
    /\ awaited' \in Waits \ {awaited}
    /\ UNCHANGED <<day, faults, up, queueVars, alertVars, sweptOn, run>>

DayPasses ==
    /\ day < FinalDay
    /\ day' = day + 1
    /\ UNCHANGED <<faults, up, awaited, queueVars, alertVars, sweptOn, run>>

DailyInit ==
    /\ day = 1
    /\ faults = 0
    /\ up = {}
    /\ awaited \in Waits
    /\ morning = [d \in Mornings |-> "absent"]
    /\ rung = [s \in Stages |-> "absent"]
    /\ attempts = [j \in Mornings \cup Stages |-> 0]
    /\ warned = FALSE /\ raised = {} /\ told = {}
    /\ sweptOn = {}
    /\ run = [w \in Workers |-> NoRun]

WorkerStep(w) ==
    \/ Boot(w)
    \/ \E d \in Mornings : ClaimMorning(w, d)
    \/ \E s \in Stages : ClaimRung(w, s)
    \/ WarnOfExpiry(w) \/ ScheduleLadder(w) \/ ScheduleMorning(w)
    \/ Look(w) \/ RaiseAlert(w) \/ Tell(w)
    \/ Complete(w)

DailyNext ==
    \/ \E w \in Workers : WorkerStep(w) \/ Fails(w) \/ WorkerDies(w)
    \/ ProjectMoves \/ DayPasses

\* A worker that died is started again, and takes what is runnable; days pass.
DailySpec ==
    /\ DailyInit
    /\ [][DailyNext]_dailyVars
    /\ \A w \in Workers : WF_dailyVars(WorkerStep(w))
    /\ WF_dailyVars(DayPasses)

----------------------------------------------------------------------------
(* Properties.                                                             *)

\* The type invariant: a run is of a job that has been on the queue and is due,
\* it started on a day that has come, and only a worker that is up has one.
DailyTypeOK ==
    /\ day \in Days /\ faults \in 0 .. MaxFaults /\ up \subseteq Workers /\ awaited \in Waits
    /\ morning \in [Mornings -> JobStates] /\ rung \in [Stages -> JobStates]
    /\ attempts \in [Mornings \cup Stages -> 0 .. MaxAttempts]
    /\ warned \in BOOLEAN /\ raised \subseteq Stages /\ told \subseteq raised \X Audience
    /\ sweptOn \subseteq 1 .. day
    /\ \A w \in Workers : run[w] # NoRun =>
        /\ w \in up /\ run[w] \in Runs
        /\ run[w].kind = "morning" =>
             /\ run[w].of <= run[w].today /\ run[w].today <= day
             /\ morning[run[w].of] # "absent"
        /\ run[w].kind = "rung" =>
             DueDay[run[w].of] <= day /\ rung[run[w].of] # "absent"

\* A rung whose alert is raised was told to everybody it is for, is being told, or
\* was cut short by a fault: no retry tells the rest, since the alert is no longer new.
ToldUnlessCutShort ==
    Cardinality({s \in raised : Untold(s) # {}}) <=
        faults + Cardinality({w \in Workers : Running(w, "rung", "tell")})

\* The warning is raised if a run came to its end on any day of the window, and on
\* no other condition (document-expiry.ts: a missed run still catches up).
WarnedWithinWindow ==
    sweptOn \cap (MarkDay .. MarkDay + CatchUp) # {} => warned

\* A rung on the queue is in the end raised, if the project comes to wait for good
\* before it is due, in whichever of the two ways, or it has failed.
WaitingIsChased ==
    \A s \in Stages :
        [](rung[s] = "live" /\ day < DueDay[s] /\ [](awaited \in Chased)
            => <>(s \in raised \/ rung[s] = "failed"))

\* The mornings go on to the end of the calendar, or one has used up its attempts.
MorningsGoOn ==
    <>(morning[FinalDay + 1] = "live" \/ \E d \in Mornings : morning[d] = "failed")

\* Warnings and rungs reach whom they are for, once, after a lost day or a retry.
AlertsReach == ToldUnlessCutShort /\ WarnedWithinWindow

\* Once a worker has booted, a morning's run is on the queue until one has used up
\* its attempts (daily.ts: it re-enqueues itself at the end): dying, running twice,
\* running late and skipping days do not break the chain.
ChainUnbroken == up # {} => \E d \in Mornings : morning[d] \in {"live", "failed"}

\* What the mornings promise at any moment.
MorningsHold == DailyTypeOK /\ AlertsReach /\ ChainUnbroken
=============================================================================
