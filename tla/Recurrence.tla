------------------------------ MODULE Recurrence ------------------------------
(***************************************************************************)
(* Work that comes round again (packages/modules/projects, recurrence.ts,  *)
(* continue-work.ts, start-project.ts): the worker's sweep opens the       *)
(* period that has just closed for every client engaged for the service,   *)
(* and people open periods by hand, carry a finished one on to the next,   *)
(* and stop or resume the repeating.                                       *)
(*                                                                         *)
(* One service. An engagement is the n-th row of client_services for its   *)
(* client, and only the last can be live. Any job may be a finished one:   *)
(* the job's own life is module Project. The sweep and a start by hand     *)
(* write on the bare connection, statement by statement; carrying on,      *)
(* stopping and resuming are a transaction each.                           *)
(***************************************************************************)
EXTENDS Integers, FiniteSets

CONSTANTS
    Clients,
    Returning,      \* the clients who may stop and be engaged a second time: a bound
    LastPeriod,     \* bound on the periods, numbered in order
    Sweepers,       \* daily sweeps under way at once
    People,         \* requests being served at once
    MaxDeaths,      \* bound on the processes that die
    Nothing         \* no job in hand

ASSUME RecurrenceAssumption ==
    /\ Returning \subseteq Clients
    /\ LastPeriod \in Nat \ {0}
    /\ MaxDeaths \in Nat
    /\ IsFiniteSet(Clients)
    /\ Sweepers \cap People = {}
    /\ Nothing \notin Clients \X Nat \X Nat

VARIABLES
    closed,         \* the last period that has closed
    oneByOne,       \* TRUE: no two of the actors are ever at work together
    restarted,      \* clients engaged anew by a start by hand
    deaths,
    \* tables client_services and projects
    begun,          \* how many engagements each client has had
    engaged,        \* the clients whose last engagement is live
    jobs,           \* <<client, engagement, period>>
    papered,        \* the jobs whose requirements and tasks are written
    \* each actor
    doing,
    inHand,         \* the job it is about, its period yet to be opened
    toSweep,        \* what is left of the engagements a sweep has loaded
    sweptPeriod     \* the period it opens, worked out when it started

recurrenceTables == <<begun, engaged, jobs, papered>>
actorVars == <<doing, inHand, toSweep, sweptPeriod>>
recurrenceVars == <<closed, oneByOne, restarted, deaths, recurrenceTables, actorVars>>

Periods == 1 .. LastPeriod
\* How many rows of client_services a client may come to have.
Engagements(c) == IF c \in Returning THEN 2 ELSE 1

Jobs == UNION {{c} \X (1 .. Engagements(c)) \X Periods : c \in Clients}
Actors == Sweepers \cup People
Doings == {"idle", "sweeping", "found", "opening", "papers",
           "starting", "subscribing", "carrying", "stopping", "resuming"}

Client(job) == job[1]
Engagement(job) == job[2]
Period(job) == job[3]

\* Asked per engagement, as the unique index is.
MutExistsForPeriod(c, n, p) == <<c, n, p>> \in jobs

\* Asked of the service, not of the client.
MutExistsForAnybody(c, n, p) == \E job \in jobs : Period(job) = p

\* existsForPeriod: across every engagement the client has had for the service.
ExistsForPeriod(c, n, p) == \E job \in jobs : Client(job) = c /\ Period(job) = p

MayBegin(a) ==
    /\ doing[a] = "idle"
    /\ oneByOne => \A b \in Actors : doing[b] = "idle"

Turn(a, what, job) ==
    /\ doing' = [doing EXCEPT ![a] = what]
    /\ inHand' = [inHand EXCEPT ![a] = job]

Done(a) == Turn(a, "idle", Nothing)

\* The memory of a sweep that is over.
Forget(a) ==
    /\ toSweep' = [toSweep EXCEPT ![a] = {}]
    /\ sweptPeriod' = [sweptPeriod EXCEPT ![a] = 1]

----------------------------------------------------------------------------
(* The job row is one statement; its requirements and tasks are others.    *)

\* The requirements and tasks are left for later by everybody.
MutInsertJob(a, next) ==
    \/ /\ inHand[a] \in jobs
       /\ UNCHANGED <<jobs, papered>>
       /\ Done(a)
    \/ /\ inHand[a] \notin jobs
       /\ jobs' = jobs \cup {inHand[a]}
       /\ UNCHANGED papered
       /\ Turn(a, next, IF next = "papers" THEN inHand[a] ELSE Nothing)

\* save, first statement: the unique index refuses an engagement's second job
\* for the period, and the refusal is thrown.
InsertJob(a, next) ==
    \/ /\ inHand[a] \in jobs
       /\ UNCHANGED <<jobs, papered>>
       /\ Done(a)
    \/ /\ inHand[a] \notin jobs
       /\ jobs' = jobs \cup {inHand[a]}
       /\ papered' = IF next = "papers" THEN papered ELSE papered \cup {inHand[a]}
       /\ Turn(a, next, IF next = "papers" THEN inHand[a] ELSE Nothing)

\* save, the statements after it; a sweep goes on to its next client.
WritePapers(a) ==
    /\ doing[a] = "papers"
    /\ papered' = papered \cup {inHand[a]}
    /\ Turn(a, IF a \in Sweepers THEN "sweeping" ELSE "idle", Nothing)
    /\ UNCHANGED <<closed, oneByOne, restarted, deaths, begun, engaged, jobs, toSweep, sweptPeriod>>

----------------------------------------------------------------------------
(* The sweep.                                                              *)

\* allActive, and the period that closed last as of now.
StartSweep(w) ==
    /\ MayBegin(w)
    /\ Turn(w, "sweeping", Nothing)
    /\ toSweep' = [toSweep EXCEPT ![w] = {<<c, begun[c]>> : c \in engaged}]
    /\ sweptPeriod' = [sweptPeriod EXCEPT ![w] = closed]
    /\ UNCHANGED <<closed, oneByOne, restarted, deaths, recurrenceTables>>

\* One engagement of the list: opened already, or about to be.
SweepClient(w) ==
    /\ doing[w] = "sweeping"
    /\ \E e \in toSweep[w] :
        /\ toSweep' = [toSweep EXCEPT ![w] = @ \ {e}]
        /\ IF ExistsForPeriod(e[1], e[2], sweptPeriod[w])
             THEN UNCHANGED <<doing, inHand>>
             ELSE Turn(w, "found", <<e[1], e[2], sweptPeriod[w]>>)
    /\ UNCHANGED <<closed, oneByOne, restarted, deaths, recurrenceTables, sweptPeriod>>

\* A refused insert throws out of the whole sweep; the job is tried again.
SweepOpens(w) ==
    /\ doing[w] = "found"
    /\ InsertJob(w, "papers")
    /\ IF inHand[w] \in jobs THEN Forget(w) ELSE UNCHANGED <<toSweep, sweptPeriod>>
    /\ UNCHANGED <<closed, oneByOne, restarted, deaths, begun, engaged>>

SweepEnds(w) ==
    /\ doing[w] = "sweeping" /\ toSweep[w] = {}
    /\ Done(w) /\ Forget(w)
    /\ UNCHANGED <<closed, oneByOne, restarted, deaths, recurrenceTables>>

----------------------------------------------------------------------------
(* A period opened by hand: StartProject.execute.                          *)

\* The period is looked for only under a live engagement.
ReadToStart(h, c, p) ==
    /\ MayBegin(h)
    /\ c \in engaged => ~ ExistsForPeriod(c, begun[c], p)
    /\ Turn(h, "starting", <<c, begun[c], p>>)
    /\ UNCHANGED <<closed, oneByOne, restarted, deaths, recurrenceTables, toSweep, sweptPeriod>>

\* activeFor a second time: the engagement the job will hang on, or none.
FindEngagement(h) ==
    /\ doing[h] = "starting"
    /\ LET who == Client(inHand[h]) IN
        IF who \in engaged
          THEN Turn(h, "opening", <<who, begun[who], Period(inHand[h])>>)
          ELSE Turn(h, "subscribing", inHand[h])
    /\ UNCHANGED <<closed, oneByOne, restarted, deaths, recurrenceTables, toSweep, sweptPeriod>>

\* An ended row is made live again.
MutEngageClient(c) ==
    /\ c \notin engaged
    /\ engaged' = engaged \cup {c}
    /\ UNCHANGED begun

\* subscribe: a second live row is refused by client_services_live_idx.
EngageClient(c) ==
    /\ c \notin engaged
    /\ begun[c] < Engagements(c)
    /\ begun' = [begun EXCEPT ![c] = @ + 1]
    /\ engaged' = engaged \cup {c}

Subscribe(h) ==
    /\ doing[h] = "subscribing"
    /\ LET who == Client(inHand[h]) IN
        \/ /\ EngageClient(who)
           /\ restarted' = IF begun[who] > 0 THEN restarted \cup {who} ELSE restarted
           /\ Turn(h, "opening", <<who, begun[who] + 1, Period(inHand[h])>>)
        \/ /\ who \in engaged
           /\ Done(h)
           /\ UNCHANGED <<restarted, begun, engaged>>
    /\ UNCHANGED <<closed, oneByOne, deaths, jobs, papered, toSweep, sweptPeriod>>

PersonOpens(h) ==
    /\ doing[h] = "opening"
    /\ InsertJob(h, "papers")
    /\ UNCHANGED <<closed, oneByOne, restarted, deaths, begun, engaged, toSweep, sweptPeriod>>

----------------------------------------------------------------------------
(* What follows a finished job: ContinueWork.                              *)

\* openNext: the period after the finished one, under the finished one's
\* engagement, whether or not that still runs.
ReadToCarryOn(h) ==
    /\ MayBegin(h)
    /\ \E job \in jobs :
        /\ Period(job) < LastPeriod
        /\ ~ ExistsForPeriod(Client(job), Engagement(job), Period(job) + 1)
        /\ Turn(h, "carrying", <<Client(job), Engagement(job), Period(job) + 1>>)
    /\ UNCHANGED <<closed, oneByOne, restarted, deaths, recurrenceTables, toSweep, sweptPeriod>>

\* The job and its papers commit together.
CarryOn(h) ==
    /\ doing[h] = "carrying"
    /\ InsertJob(h, "idle")
    /\ UNCHANGED <<closed, oneByOne, restarted, deaths, begun, engaged, toSweep, sweptPeriod>>

\* toggle: from a finished job of the client's, live or not.
ReadToToggle(h) ==
    /\ MayBegin(h)
    /\ \E job \in jobs :
        Turn(h, IF Client(job) \in engaged THEN "stopping" ELSE "resuming",
             <<Client(job), begun[Client(job)], Period(job)>>)
    /\ UNCHANGED <<closed, oneByOne, restarted, deaths, recurrenceTables, toSweep, sweptPeriod>>

\* end() writes the row it was given, whatever has become of it.
Stop(h) ==
    /\ doing[h] = "stopping"
    /\ engaged' = IF begun[Client(inHand[h])] = Engagement(inHand[h])
                    THEN engaged \ {Client(inHand[h])} ELSE engaged
    /\ Done(h)
    /\ UNCHANGED <<closed, oneByOne, restarted, deaths, begun, jobs, papered, toSweep, sweptPeriod>>

Resume(h) ==
    /\ doing[h] = "resuming"
    /\ \/ EngageClient(Client(inHand[h]))
       \/ Client(inHand[h]) \in engaged /\ UNCHANGED <<begun, engaged>>
    /\ Done(h)
    /\ UNCHANGED <<closed, oneByOne, restarted, deaths, jobs, papered, toSweep, sweptPeriod>>

----------------------------------------------------------------------------
\* The process dies: what it had written on the bare connection stays.
Dies(a) ==
    /\ doing[a] # "idle"
    /\ deaths < MaxDeaths
    /\ deaths' = deaths + 1
    /\ Done(a)
    /\ Forget(a)
    /\ UNCHANGED <<closed, oneByOne, restarted, recurrenceTables>>

PeriodCloses ==
    /\ closed < LastPeriod
    /\ closed' = closed + 1
    /\ UNCHANGED <<oneByOne, restarted, deaths, recurrenceTables, actorVars>>

RecurrenceInit ==
    /\ closed = 1
    /\ oneByOne \in BOOLEAN
    /\ restarted = {}
    /\ deaths = 0
    /\ engaged = {}
    /\ begun = [c \in Clients |-> 0]
    /\ jobs = {} /\ papered = {}
    /\ doing = [a \in Actors |-> "idle"]
    /\ inHand = [a \in Actors |-> Nothing]
    /\ toSweep = [a \in Actors |-> {}]
    /\ sweptPeriod = [a \in Actors |-> 1]

SweepGoesOn(w) == SweepClient(w) \/ SweepOpens(w) \/ WritePapers(w) \/ SweepEnds(w)

PersonStep(h) ==
    \/ \E c \in Clients, p \in Periods : ReadToStart(h, c, p)
    \/ FindEngagement(h) \/ Subscribe(h) \/ PersonOpens(h) \/ WritePapers(h)
    \/ ReadToCarryOn(h) \/ CarryOn(h)
    \/ ReadToToggle(h) \/ Stop(h) \/ Resume(h)

RecurrenceNext ==
    \/ \E w \in Sweepers : StartSweep(w) \/ SweepGoesOn(w)
    \/ \E h \in People : PersonStep(h)
    \/ \E a \in Actors : Dies(a)
    \/ PeriodCloses

\* The daily job runs to its end, and the next one starts.
RecurrenceSpec ==
    /\ RecurrenceInit
    /\ [][RecurrenceNext]_recurrenceVars
    /\ \A w \in Sweepers : WF_recurrenceVars(StartSweep(w) \/ SweepGoesOn(w))

----------------------------------------------------------------------------
(* Properties.                                                             *)

\* The type invariant: an engagement is live only where it has begun, a sweep
\* has in hand only engagements that exist, and papers belong to a job.
RecurrenceTypeOK ==
    /\ closed \in Periods /\ oneByOne \in BOOLEAN
    /\ restarted \subseteq Clients /\ deaths \in 0 .. MaxDeaths
    /\ \A c \in Clients : begun[c] \in 0 .. Engagements(c)
    /\ engaged \subseteq {c \in Clients : begun[c] > 0}
    /\ jobs \subseteq {job \in Jobs : Engagement(job) <= begun[Client(job)]}
    /\ papered \subseteq jobs
    /\ doing \in [Actors -> Doings]
    /\ \A a \in Actors :
        /\ doing[a] \in {"idle", "sweeping"} <=> inHand[a] = Nothing
        /\ doing[a] \in {"found", "opening", "papers", "carrying"} =>
             inHand[a] \in Jobs /\ Engagement(inHand[a]) <= begun[Client(inHand[a])]
        /\ toSweep[a] \subseteq UNION {{c} \X (1 .. begun[c]) : c \in Clients}
        /\ sweptPeriod[a] \in Periods

\* A client's period has one job, under whichever engagement (project.repository.ts
\* existsForPeriod): the sweep run twice, carried on by hand, stopped and resumed.
\* Short of two actors at once, and of a start by hand that engages anew a client
\* who had stopped: StartProject looks for the period only under a live engagement.
OnePerPeriod ==
    oneByOne =>
        \A job, other \in jobs :
            /\ Client(job) = Client(other) /\ Period(job) = Period(other)
            /\ Client(job) \notin restarted
            => job = other

\* A job without its papers is one somebody is writing, or one whose writer died:
\* nobody fills it in later, since existsForPeriod answers that it is there.
PapersUnlessDied ==
    Cardinality(jobs \ papered) <=
        deaths + Cardinality({a \in Actors : doing[a] = "papers"})

\* A client who stays engaged has a job for the last period that closes, whatever
\* is opened, stopped or refused by hand while the sweeps run, and however often
\* a refused insert throws one out (recurrence.ts sweep).
EngagedIsOpened ==
    oneByOne \/ \A c \in Clients, p \in Periods :
        <>[](closed = p /\ c \in engaged) => <>(\E job \in jobs : Client(job) = c /\ Period(job) = p)

\* A recurring job is opened once, and whole unless its writer died.
RecurrenceHolds == RecurrenceTypeOK /\ OnePerPeriod /\ PapersUnlessDied
=============================================================================
