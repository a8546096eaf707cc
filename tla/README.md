# Verification of AMC System

AMC System is the practice management system of a consultancy: client files,
projects and their deadlines, time tracking, hourly and fixed-fee billing,
WhatsApp conversations, notifications. It is a modular monolith in TypeScript
over one Postgres database, run as several processes: the HTTP API (any number
of requests in flight), one or more workers, and browsers, some of them offline.
This directory holds TLA+ specifications of that code, the TLC models that check
them and the TLAPS proofs about them.

Nearly every hazard of this system has one shape. An operation reads a row,
decides in TypeScript over the copy it read, and writes the whole row back, in
a READ COMMITTED transaction or in none. What keeps two such operations apart is
never a lock taken for the purpose; it is a constraint, a trigger, a unique
index, a `WHERE` clause or a lease, and where none of those is there nothing
does. The models therefore keep reads and writes as separate steps and let
everything interleave between them, and they keep every constraint and trigger
of the migrations that can refuse a write.

Contents: 1 inventory; 2 modules, runs and plan; 3 how the models read the code;
4 queue; 5 billing; 6 sending and settling (outbox, settlement, quotation);
7 timer; 8 work and dates; 9 mornings, people and rights; 10 clients; 11 the
firm's lists and papers; 12 pages, records and figures; 13 what is proved;
14 what is only checked, and why; 15 where the code does something else than it
says; 16 what is not modelled.

## 1. Inventory

Paths are relative to the repository root. *State* is what survives between
steps, *hard* is what a test would hardly reach, *correct* is what the component
must guarantee.

### Infrastructure

- **Job queue** (`packages/queue`, migration 0004). State: table `jobs` (run_at,
  claim, lease, attempts, outcome); per worker a runner with the batch it
  claimed. Operations: enqueue, claim, complete, fail, releaseExpiredClaims; the
  runner's loop, start and stop. Called by producers (API transactions and
  handlers) and by the runner; calls the handlers. Hard: leases that lapse under
  a running handler, crashes between claim and outcome, writes by id from
  workers that lost their claim, errors in `fail` itself. Correct: one final
  outcome per job, a live job per natural key, no loss, no two runs inside a
  lease. *Modules* `JobQueue`, `JobDelivery`.
- **Outbox** (`packages/modules/audit`, `apps/worker/src/outbox-publisher.ts`,
  migration 0003). State: `audit_log`, `outbox` rows; the batch in a publisher's
  hands. Operations: the unit of work's commit, pending, drain, markPublished,
  markFailed. Hard: two publishers over one table, a crash before the batch is
  marked, one failing event among others. Correct: an event is published only
  after every subscriber took it, every committed event is delivered in the end.
  *Module* `Outbox`.
- **Kernel** (`packages/kernel`): Money, Duration, Rate, Result, Clock, phone
  numbers. Pure. Correct: rounding per ADR-0003, no lost fils or seconds. The
  rounding of money is in `Figures`.
- **Database migrator**, **storage**, **HTTP kit**, **contracts**: see section 16.

### Business modules (`packages/modules`)

- **Billing.** State: time entries as billing sees them (approved, billable,
  which statement line), statements and their lines, invoices, payments,
  document numbers, quotations. Operations: GenerateStatement,
  ReleaseFromStatement, revise / restore / approve, RaiseInvoice, SettleInvoice,
  sweepOverdue, the quotation lifecycle, the reports. Reads time entries of
  *time-tracking* and projects of *projects*. Hard: two of any of these at once;
  one figure worked out in five places. Correct: no second of work and no fixed
  fee reaches two live statements, one statement becomes one invoice, an
  invoice's settlement follows its payments, the client's offer is the one in
  the system. *Modules* `Billing`, `Settlement`, `Quotation`, `Figures`.
- **Time tracking.** State: one running timer per person, time entries, working
  hours. Operations: start, stop, hold, resume, beat; create, confirm, approve,
  discard; time by hand; the browser's offline queue. Hard: two devices of one
  person, a crash between two statements (there is no transaction), late calls,
  two clocks. Correct: a span of time is recorded once, not lost, and entries of
  one person do not overlap. *Modules* `Timer`, `WorkingHours`; approving and
  confirming are in `Billing`.
- **Projects.** State: the 7-state lifecycle with its tasks, assignments,
  service templates, recurring work. Operations: start, tasks, attach and detach,
  move, remove, the recurrence sweep, continuing work, naming people. Hard:
  whole-aggregate saves, check-then-insert. *Modules* `Project`, `Recurrence`,
  `FilingPeriods`, `Team`.
- **Deadlines and the daily sweep** (`packages/modules/deadlines`,
  `apps/worker/src/handlers`). State: alerts, notifications, the chain of daily
  jobs. Operations: the sweep, the escalation ladder, expiry warnings, the
  calendar's queries. Hard: a chain that carries itself, a crash between an alert
  and the telling of it, dates at the edges of months. *Modules* `DailySweep`,
  `DeadlineCalendar`, `CivilDates`.
- **Notifications.** State: one row per person and subject. Operations: raise,
  email, markRead, markAllRead. Hard: the mail's save over a read mark. *Module*
  `Outbox`.
- **WhatsApp.** State: a conversation per phone number (who is handling it, the
  24-hour window, opt-out), messages with delivery status. Operations: receiving
  with the bot's decision, sending as a person or by template, delivery receipts,
  take over, hand back, opt out. Hard: redelivered and reordered webhooks, staff
  and bot at once. *Modules* `Conversation`, `Receipts`.
- **Clients.** State: leads, clients, documents with supersession, files and
  folders, credentials, rates, tax periods, contact log. Operations: lead capture
  to conversion, document receipt and replacement, the details form, the vault,
  the folder, the log. Hard: two conversions of one lead, two replacements of
  one document, forms that age. *Modules* `Enquiry`, `ClientPapers`,
  `ClientRecord`, `ClientFolders`, `ContactLog`, `PaperList`, `Classification`.
- **Identity.** State: users with a lockout counter, sessions, password resets,
  role permissions. Operations: sign-in, two-factor, staff and role management,
  resets. Hard: counters and flags written from a copy read earlier, a memory of
  rights in each process. *Modules* `Staff`, `RoleChoices`.
- **Catalogue, letters, branches, campaigns, lists.** State: rows a manager
  edits. Hard: forms over rows that change, retired rows. *Module* `Settings`.
- **Audit**: see the outbox.

### Applications

- **API** (`apps/api`): wiring and adapters; the adapters of billing, timer,
  calendar, assignments and classification carry logic and are modelled with the
  parts they serve.
- **Worker** (`apps/worker`): the queue runner, the outbox loop, job handlers.
- **Web** (`apps/web`): React screens. Their own state is the offline timer queue
  (`Timer`), forms and caches that age (`ClientRecord`, `Settings`, `ContactLog`,
  `PaperList`, `ClientFolders`) and what a page offers of what it last heard
  (`Screens`).

## 2. Modules, runs and plan

The order was that of what a mistake costs: first what loses or repeats work for
every other part (the queue), then money, then what tells people, then time, then
the rest of the practice.

| Module | Models | Run | Proofs |
|---|---|---|---|
| `JobQueue`, `JobDelivery` | the queue and its runners; what the queue promises | `JobQueue_contended`, `JobQueue_punctual` | `JobQueueProofs` |
| `Billing` | recorded hours to an invoice | `Racing`, `Records`, `Billing_fee_twice` | `BillingProofs` |
| `Outbox` | events, their delivery, notifications and their email | `Outbox_shared` | `OutboxProofs` |
| `Settlement` | payments, the overdue sweep | `Outbox_shared` | `WorkProofs` |
| `Quotation` | the offer, its link, its email | `Outbox_shared` | `WorkProofs` |
| `Timer` | one person's timer with the browser's offline queue | `Timer_replayed` | `TimerProofs` |
| `Recurrence` | work that comes round again | `Work` | `WorkProofs` |
| `Project` | the life of one project | `Work` | `WorkProofs` |
| `CivilDates`, `FilingPeriods`, `DeadlineCalendar` | dates, filing periods, the calendar | `Work` | |
| `DailySweep` | the chain of daily jobs, the ladder, warnings | `Office` | `IdentityProofs` |
| `Staff` | sign-in, sessions, lockout, links, people managed | `Office` | `IdentityProofs` |
| `RoleChoices` | what a role may do, kept in memory | `Office` | `IdentityProofs` |
| `Conversation`, `Receipts` | a client's number on WhatsApp | `Clients` | `OutboxProofs` |
| `Enquiry` | leads and the clients they become | `Clients` | `ClientsProofs` |
| `ClientPapers` | documents and what replaces them | `Clients` | `ClientsProofs` |
| `PaperList` | the list a client's papers are sent from | `Records` | `ClientsProofs` |
| `Settings` | services, branches, letters, campaigns, options, staff forms | `Firm` | `FirmProofs` |
| `Classification` | branch, salesperson, performer carried forward | `Firm` | `FirmProofs` |
| `ContactLog` | what was said to a client, with proof | `Firm` | `FirmProofs` |
| `Team` | who is on a job | `Firm` | `FirmProofs` |
| `WorkingHours` | hours, time by hand, the timesheet | `Records` | `BillingProofs` |
| `ClientRecord` | the details form, the vault | `Racing` | `ClientsProofs` |
| `ClientFolders` | the client's folder and the panel that fills it | `Records` | `ClientsProofs` |
| `Figures` | money worked out in five places | `Records`, `Figures_report` | `BillingProofs` |
| `Screens` | what the pages offer against what the server serves | `Racing` | `BillingProofs` |

The `MC...` modules give the instances. `MCRacing`, `MCRecords`, `MCOutbox`,
`MCWork`, `MCOffice`, `MCClients` and `MCFirm` put components that share no state
into one model: the first state picks the component that moves and the others
stay where they begin. The state space is the sum of the parts and not their
product, and nothing is lost by it, since no action of one component reads or
writes a variable of another. Where components do share rows they are one module
(approving time and billing it are both in `Billing`; the notification and the
outbox are both in `Outbox`).

What is left of the plan: a ledger in which every second of work is unbilled, on
a statement or invoiced, for `Billing` to implement; `DailySweep` composed with
`JobDelivery` by a refinement mapping (it states the queue's promise itself).

## 3. How the models read the code

- **A SQL statement is one step.** Postgres applies it as a whole. A transaction
  is one step only where nothing it reads can change before it commits;
  elsewhere its reads and its writes are separate steps, as they are under READ
  COMMITTED. `findById` of the statement repository, which is two SELECTs, is
  one step.
- **Constraints stay.** Unique indexes, CHECKs and triggers are guards of the
  write they can refuse; a refused write is a throw, with what the code does of
  it.
- **A copy is a variable.** What an operation read and still uses is in a
  variable of the request or worker, so that it may be out of date.
- **Overlap is a mode.** Where code is right only while two operations on one
  thing are not in flight together, and nothing in the code enforces it, a
  variable or constant says whether they are (`Guarded`, `alone`, `inOrder`,
  `singly`, `apart`, `serial`, `oneAtATime`, `inTurn`, `lone`, `alike`,
  `oneByOne`). Both cases are explored, and each property says which it is about.
  `careful` and `resolute` say the same of what people do to a form.
- **Data is abstract.** Ids are model values, timestamps are numbers of units,
  amounts are left out except in `Figures`: an invoice is the set of lines it was
  made from.
- **History.** Variables marked *history* in a module record what happened for a
  property to speak of; no guard reads them.
- **Mut...** operators are faulty variants of a definition, kept beside it to
  show that the properties can tell the difference.
- Bounds are CONSTANTS named `Max...`, `Last...` or `Racing...`; none of them is
  in a proof's way.
- A property composed of several parts (`TeamHolds`, `AccessHolds`) is one
  temporal formula: invariants under [] and action properties side by side. Its
  parts are definitions with a comment each.

## 4. JobQueue and JobDelivery

`JobQueue` is `packages/queue/src/queue.ts` and `runner.ts` with migration 0004
and the way `apps/worker` uses them. The columns of `jobs` are variables indexed
by job: `created`, `completed`, `failed`, `wait` (run_at), `claimedBy`, `lease`,
`attempts`. Each worker has `pc`, the `batch` it claimed with the attempt
numbers of its copies, the `current` job, and `until`, when the lease it was
given ends. Timestamps are relative to the present and `Tick` moves them; two
run_at of the same instant come in either order.

The actions of a worker are the runner's loop: `ReleaseExpiredClaims`, `Claim`,
`StartJob`, `HandlerReturns` or `HandlerThrows` (which may say that a retry will
not help), `Complete`, `Fail`, with `CompleteThrows` and `FailThrows` for a write
that `jobs_single_outcome` refuses. `ClaimBreaks`, `CompleteBreaks` and
`FailBreaks` are connections that break before or after the statement took
effect, `Crash` and `Stop` end a process, `Restart` starts it again. `Enqueue` is
anybody's, with the unique key.

`JobDelivery` is the promise: a job put on the queue is live until it has one
outcome, is completed only if a handler ran it to its end, is given up only after
a run that ended in an error. `JobQueue` implements it under the mapping
`statusBar`.

- `JobQueue_contended`: two jobs of one key, two workers with no bound on how
  long a handler takes, batches of two, two attempts, a lease of one unit, one
  crash or shutdown. One final outcome per job and none for no reason, one live
  job per key, the refinement, and `EventuallySettled`. A lease of one unit is
  enough for every order of lapse, claim and report; two workers are enough for
  one to overtake the other at any point; two attempts for a first and a last.
- `JobQueue_punctual`: three jobs, a crash and a broken connection, workers that
  stay within their lease (`Punctual`). No job runs in two live workers at once,
  and no job of a batch is left behind because another one failed. One attempt
  suffices, since what is at stake is who holds what.

*Fairness.* The loop of a live worker goes on and handlers end (`WF(Loop)`), the
supervisor starts a dead worker again (`WF(Restart)`), time passes (`WF(Tick)`).
Handlers have no timeout in the code: that they end is an assumption.

*Proved* for any jobs, workers, lease, batch and number of faults: types,
`OutcomesEarned` (`OutcomesExclude`, `GivenUpForAReason` and more),
`OutcomeIsFinal`, `OneLivePerKey`, the refinement and, under `Punctual`,
`NoConcurrentRun` and `NothingAbandoned`. The invariant `IInv` adds to
the type what a runner's position implies: what it holds exists and was attempted
at least as often as its copy says (`HeldOK`), it is at work on a job of its
batch (`PositionOK`), and it reports an outcome only after the run that justifies
it (`ReasonOK`). That is what makes a late report harmless. `NoConcurrentRun`
needs more, `Ownership`: the claim on a job somebody holds is the holder's and
lasts as long as the holder thinks, unless a broken connection hid that it is
complete. `NothingAbandoned` follows from the same `Ownership`: until a
connection breaks, no job a worker holds is completed (`HeldUndone`), so that
`fail()` is never refused and the loop never leaves its batch.

## 5. Billing

`Billing` is the way from recorded hours to an invoice: the three tables' columns
that matter (`approved`, `reviewed`, `on` for statement_line_id; `state`,
`carries`, `excluded`; `invoiceOf`, `billed`, `nextNumber`) and a set of requests
being served (`Clerks`), each with its copies. Every operation of
`generate-statement.ts`, `release-from-statement.ts`, `raise-invoice.ts`, of
`Statement` through `BillingController`, and of time tracking that writes the
same rows (`approve-time.ts`, `TimerService.confirm`) is two steps: the read with
its refusals (`ReadUnbilled`, `ReadToExclude`, `ReadToRestore`,
`ReadToApproveStatement`, `ReadToRelease`, `ReadToRaise`, `ReadToApprove`,
`ReadToConfirm`) and the write with its commit (`DraftStatement`, `SaveRevised`,
`SaveApproved`, `SaveReleased`, `RaiseInvoice`, `SaveEntry`). `TakeNumber` is a
step of its own, because the increment locks its row until the commit. `Abandon`
is a request that fails or a process that dies: the transaction rolls back.
Adjusting the amount of a line is taken with excluding it, which is the stronger
change. There is one client.

With `Guarded` FALSE anything races with anything. With `Guarded` TRUE two
operations on one statement are never in flight together, nor two generations,
nor a generation and a change to a time entry it may take. Nothing in the code
enforces that; it says precisely under which condition the money is right.

- `Racing`: one entry, three statements, two requests that race. What holds all
  the same (`NumbersGapless`, `HoldsWhatIsDue`): numbers without a gap, a
  cancelled statement holds no hours, only approved time is on a statement. One
  entry is what makes the requests conflict; three statements let it be released
  and billed again.
- `Records`: three entries over two months, two of them on one agreed fee, one
  flagged, three statements, two requests, `Guarded`. No hour on two invoices,
  one invoice per statement, live statements share no hours (`BilledOnce`), an
  invoice's hours stay with it (`InvoiceBacked`), time on a statement is
  read-only and an exclusion stands (`DecisionsStand`).
- `Billing_fee_twice` (one person, one request at a time) finds that an agreed fee
  is billed twice.

*Proved* for any entries, periods, statements, invoices and requests: types,
`NumbersGapless`, `CancelledHoldsNothing`, `OnlyApprovedBilled` without any
condition, and under `Guarded` the rest. The first invariant needs that whoever
has a number holds the lock and the next number (`LockOK`) and that a
cancellation has in memory at least the entries its statement still has
(`ReleaseCopyOK`). The second says that the requests are apart, that their copies
agree with the tables (`FreshEntries`, `FreshStatements`), that what a live
statement was made from is attached to it (`Attached`) and that invoiced
statements stay invoiced.

## 6. Sending and settling: Outbox, Settlement, Quotation

### Outbox

`Outbox` is an event's way from the commit of the change it describes to
somebody's inbox: `outbox` (`committed`, `published`), `OutboxPublisher.drain` in
every worker (`batch`, `delivered`, `current`), its one subscriber
`enquiryNotifier` telling the managers one by one (`left`, `person`), `Notify.send`
with the row and its email (`told`, `emailed`, `mailed`) and people reading
meanwhile (`OpenNote`, `MarkRead`, `MarkAllRead`). `attempts` and `last_error` of
the outbox are written and never read, and left out; preferences do not change
during a run. The locks of FOR UPDATE end with the SELECT: `Locked` is the batch
of a worker between the read and the reply and nothing more.

- `Outbox_shared`: two events, one of which its subscriber always fails on, two
  managers of whom one wants email, two workers, batches of two, two faults
  anywhere (a crash, a statement that fails, a save that fails after the email
  went). An event is published only with everybody told; nobody is emailed twice;
  emailed_at is true; events that can succeed are delivered and published. Two
  faults let one hit the recovery from the other.

*Fairness.* `WF(Advance(w))`: the loop goes on, calls return, a dead worker is
started again. Faults are bounded, so that in the end statements succeed.

*Proved* for any events, people, workers, batches and faults: types,
`PublishedWasTold`, `MailedOnce`, `EmailedWasMailed`. `IInv` says that what a
worker has delivered is told, and of the event it is at, whoever is not left
(`ToldOK`); that an email about to go was never sent and one worker is about to
send it, the one whose INSERT returned the row (`MailOK`); and that a copy that
says emailed is right (`OpenOK`).

### Settlement

`Settlement` is one invoice (`invoiceRow`) and its payments: `recordPayment` by
people and `sweepOverdue` by the worker, each a request that reads the row, then
the payments, decides over the copy and writes it back. The constant `Covering`
says which sets of payments come to the total. `SettlementHolds`: paid means
covered; no stored payment is taken away; and, while requests take turns, covered
means paid and off the chase list, and the day it became late is kept.

*Proved* (`InvoiceSettles`) for any payments, requests and due date. `SInv` says
that what a request has in memory is never more than was stored and never says
late what is not (`CashierOK`), and in turn is exactly the row (`InMemory`).

### Quotation

`Quotation` is one offer: drafted, edited, sent by hand or by email, sent again
with a new link, opened and answered through the link, declined or accepted by
staff, expired by whoever reads it late. The email is a job of the queue under
the quotation's key, put there by the transaction that saves the row (`job`,
`jobBy`), and delivered by the worker. `QuotationHolds`: the CHECKs are met
whatever copies race; an email written down has a job, went or failed for good;
and, in order, one answer, the client's lines are the system's, and a replaced
link stays replaced. `MailArrives` is that the email does go.

*Proved* (`OfferStandsThroughout`) for any lines, links and requests: `QInv`
relates what a request has decided to the row it decided over (`Decided`), in
order to the row there is (`InTurnOK`), and the log's events to the row (`LogOK`).

In `Outbox_shared` an invoice has three payments of which several sets cover it,
due on the second of four days, with two requests; the quotation has one line,
two links and two requests, one new link where they overlap: a second link is
what a stale one needs to be replaced by.

## 7. Timer

`Timer` is one person: what they tap and when (`taps`), the taps still in the
browser's IndexedDB (`waiting`), the loops of `replayPending` that send them
(`pc`, `todo`), and `TimerService` with the row of `running_timers` (`running`,
`start`, `seen`, `held`) and the time it records. Time comes in units and an
entry is the set of units it covers (`booked`), so that overlaps can be seen.
`worked` is what the person did, unit by unit, whatever the server knows of it.

`TapStart`, `TapStop`, `TapHold`, `TapResume` write the tap down (`Enqueue`).
`BeginDrain` reads the whole queue, `Send` sends its first tap; the service's
statements are `ReadToStop` or `NothingToStop`, `Clear`, `Record` and `Start` for
start and stop, `ReadToSave` or `Refuse`, `Save` and `Record` for hold and resume;
`Answered` and `Refused` (a 4xx) forget the tap. `Beat` is the heartbeat. `Fail`
is a process that dies between two statements, or a request or reply that is
lost: the loop stops, the tap stays queued and will be sent again.

Left out: entries typed in, several devices of one person, a device clock that
differs from the server's, a page that gives up on a request the server still
works on, and a person who leaves the timer running while not working: `worked`
says what they claim by tapping. The queries of working hours and of the
assignment between the statements write nothing the timer reads.

- `Timer_replayed`: one loop at a time, two projects, three units of time, four
  taps, one failure anywhere, a silence of more than one unit taken for
  abandonment. No time recorded twice, none recorded that was not worked, none
  lost but what the trim cuts and the span in a failed request's hands, and the
  queue empties. Four taps are a start, a hold, a resume and a switch; three
  units give each of three spans some length.

*Fairness.* `WF(Advance(d))`: pages are opened and connections come back again
and again, and requests are answered.

*Proved*: types and the CHECKs of `running_timers` with any number of loops, and
under `OneLoop` (at most one loop) `RecordedOnce`. `TInv` says that the taps are
in order (`TapsOK`), that a loop's request is the one its tap asks for
(`LoopOK`) and that the row says nothing of the future. `OInv` says that four
things follow one another in time: what is booked (`BookedOK`), the span in a
request's hands (`SpanOK`), the row (`RowAhead`) and the taps still waiting, of
which the loop has the head (`QueueOK`). Without the last the clamp could move a
tap; with it a replayed tap finds the timer where the tap left it.

Under `OneLoop` also `TimeAccountedFor`, with `AInv`. What the person was doing
between two taps follows from all the taps before, a recursion over the tap list;
the invariant has it as a witness instead: there is a sequence of moods `m`, one
after each tap, that begins with nothing, follows the taps (`Follows`), ends in
what the person does now and explains `worked` (`Tale`); and there is a first tap
waiting `f` such that the row is as tap `f - 1` left it, or as `f` leaves it if an
earlier request of `f` got that far, or cleared for a start or a stop
(`RowTells`). `HandTells` says of a request in between that its span was worked,
all of it, and with the trimmed units reaches from the row to the tap. `Missing`
are the units worked that are neither booked, nor trimmed, nor lost, nor in hand:
none of them is earlier than what the row has reached, and no step of a request
adds one.

## 8. Work and dates: Project, Recurrence, FilingPeriods, DeadlineCalendar

All in the run `Work`, one of the four in a behaviour.

**Project** is one project: its state (`ALLOWED` of `project.ts`), mandatory
papers, steps, and its removal, changed by requests that read the row, then its
documents and steps, and save the whole. `ProjectHolds`: a finished project has
its date and no other has; work starts with every paper attached, even if one was
taken off after the copy was read; a project with time on it is never removed;
every change of state is in the log; a removed project stays removed. Two papers,
one step and two requests suffice: a race needs two copies, and the gate needs a
paper that is there and one that is not. *Proved* (`ProjectStands`) for any
papers, steps and requests, with `ProjectInv`: the copy of a request that takes
its turn is what the tables say (`CopyIsTrue`).

**Recurrence** is one recurring service: engagements of clients, jobs by period,
the worker's sweep client by client, and starting, carrying on, stopping and
resuming by hand. `RecurrenceHolds`: one job per period (short of two actors at
once and of a start by hand that engages anew), and papers unless the writer died.
`EngagedIsOpened`: an engaged client has a job for the last period that closes. Two
clients, one of whom may come back, two periods, one sweeper, one person, one
death. A second client is the one the sweep reaches after an insert of the first
was refused. *Proved* (`OpenedOnceForAny`): `RecurrenceHolds` for any clients,
periods, sweepers and people, with `RecurrenceInv`. Its heart is `StillSo`, for
actors who take turns: what the check of `existsForPeriod` found is still so when
the insert comes. And `PapersOK`, with no such condition: each writer has an
unpapered job of its own in hand, and the rest were left by the dead.

**FilingPeriods** over **CivilDates** is the arithmetic of VAT quarters and
months and of financial years, worked out in three places: `tax-period.ts`, the
sweep and `nextPeriod`. `PeriodsHold`: sweep and hand open the same periods, all
that closed are opened, they follow each other, and the return is due in the
month the law names. The run goes from January 2027 to May 2028, over the end of
a leap February, with sweeps up to 28 days apart, which never skips a month, and
instants on the first, fifteenth and last days of the months, the boundary cases
of every comparison in the code. Financial years ending in February are excepted
(section 15). A period missed whole would never be opened.

**DeadlineCalendar** is what the calendar shows of one dated thing as holidays
are announced: `CalendarHolds` says it is shown on the day it can be filed, is in
sight until it is done, and is on one month's grid. Around the end of February
2026, with "soon" reaching 14 days.

`DatesHold` is the two together. *Fairness* in `EngagedIsOpened`: the daily job
runs (`WF(StartSweep \/ SweepGoesOn)`); deaths are bounded.

## 9. Mornings, people and rights: DailySweep, Staff, RoleChoices

All in the run `Office`.

**DailySweep** is the morning's job that warns of expiring documents, puts the
rungs of the ladder and the next morning on the queue, and the rungs as they are
run; the queue appears as `JobDelivery` promises it (at least once, possibly by
two workers, a live job per key). `MorningsHold`: a rung raised is told to its
audience unless a fault cut it short, a warning is raised if a run ended on any
day of its window, and once a worker has booted the chain of mornings is unbroken
unless one used up its attempts. `MorningsArrive`: the mornings go on to the end of
the calendar, and a project that waits is chased. Three days, two workers, two
attempts, one fault: the day after a lost run is the one that catches up.
*Fairness*: workers poll, and days pass. *Proved* (`MorningsForAny`): `MorningsHold`
for any of these, with `DailyInv`: how far a run has come says what it has done
(`RunOK`: past the documents it has warned, at its end the next is on the queue); a
morning that completed has a later one that is live or failed (`ChainOK`,
also when two workers run one morning and the second completes it late); and the rungs
told halfway are no more than the tellers at work and the faults (`ToldOK`).

**Staff** is who may sign in: rows of `users`, `sessions`, `password_resets`, and
requests that read, check and write whole rows. `AccessHolds`: while requests take
turns whoever was suspended, removed or given a password is out everywhere, the
wrong answer that is one too many locks, a link works once, somebody is left to
manage people (while nobody's roles change: section 15); however they overlap, a
session that may do more than present a code owes none. Two people, two sessions,
two links, lock at two wrong answers (five in the code), five requests in turn or
three overlapping. *Proved* (`AccessIsDecided`) for any of these: `AnyhowInv`
holds whatever overlaps; `CalmInv` says of requests in turn that what one knows is
still so (`Current`), that sessions and links are current, and that wrong answers
were counted (`Counts`).

**RoleChoices** is the memory each API process keeps of what a role may do, and
how a choice becomes rights: `EffectiveMatrix` starts from the defaults of
`permission.ts`, takes the ticked boxes and never gives away managing people nor
takes what has no box. `ChoicesReach`: what a process decides by is a choice that
stood no longer ago than the cache allows, and its rights are within bounds. Two
processes, two callers, a lifetime of two moments, one choice. *Proved*
(`ChoicesReachEveryone`) for any of these and any ticks: `ChoicesInv` says that
what is in memory, or was read by a request that loads, was the stored choice at
some moment since its question.

## 10. Clients: Conversation, Receipts, Enquiry, ClientPapers

All in the run `Clients`.

**Conversation** is a client's number on WhatsApp: messages Meta delivers again
and again, handlers that read the row, decide and save it after several awaits,
staff who write, take over, hand back and identify. What a message says is what
`readIntent` makes of it (`Reading`, in the order of `intent.ts`).
`ConversationHolds`: a message is decided about at most once, however often it is
delivered and whoever dies, and met with an answer or a person unless the client
opted out; STOP stands until START and a conversation a person has stays theirs,
while handlers take turns. `EveryMessageArrives`: while they do, every message is
stored in the end. **Receipts** is what Meta says became of the firm's own messages.
`ReceiptsTellTrue`: what Meta was handed is written down, nothing is shown delivered
that was not, and a status moves only forwards while receipts of one message are
not applied at once. Two messages and two deliveries: the second message is the one
that meets what the first changed. *Fairness*: Meta delivers again what was not
answered; handlers go on. *Proved* (`ConversationHoldsForAny`,
`ReceiptsTellTrueForAny`) for any messages, deliveries, staff and deaths.
`ConversationInv` says, however handlers overlap, that no two of them decide about
one message and that what one decides about is stored and was not decided about
(`HandlerOK`): the unique index on Meta's id does that, not the order of the
requests. Of handlers in turn it says that the copy agrees with the row about who
may speak (`CopyAgrees`). `ReceiptsInv` says that Meta's id is known only of a
message whose sender is done with it (`SentOK`), and that a receipt in hand is of
something that happened (`ReceiptOK`).

**Enquiry** is a lead on the board, quoted, converted or confirmed, with the
client record that is made on the way; a refusal that is returned commits what
was written before it. `EnquiryStands`: the client it points at exists and is no
other's, and ends are ends while requests take turns. Two enquiries, two people
at it, three client ids (two races and one to spare). *Proved* (`EnquiryStandsForAny`)
with `EnquiryInv`: a client made for one enquiry is on that one's row and in
copies of that one and nowhere else (`ClientIsOfOne`).

**ClientPapers** is a client's documents: bytes first, then one transaction that
supersedes and records, under a partial unique index and a deferred foreign key.
`PapersStand`: a document on record has its file, a kind once held stays current,
history stands. Four documents, two kinds, two uploads. *Proved*
(`PapersStandForAny`) with `PapersInv` (`FilesAreHeld`, `BroughtIsFresh`,
`ReplacedIsKnown`, `KindIsCurrent`).

## 11. The firm's lists and papers: Settings, Classification, ContactLog, Team

All in the run `Firm`.

**Settings**: services with steps, branches, letters, campaigns, options and staff
records, edited from forms over rows that change. `SettingsHold`: a form shows its
row, a new code is free, gaps in a letter are told, a retired row comes back only
by being restored, steps stay, nothing is overwritten; each names the exceptions
the code has (section 15). *Proved* (`SettingsHoldForAny`) for any managers, rows,
texts and facts, with `SettingsInv`: what a manager last heard, has in the form and
has sent are rows that could be stored (`HeardOK`, `EditorOK`, `RequestOK`), and a
request in turn carries the row there is (`Turn`). The steps a form keeps are
worked out by a loop (`Defined`), handled as in `Figures`.

**Classification**: branch, salesperson and performer from enquiry to invoice, by
the triggers of migration 0052 and by choice. `ClassificationHolds`: what is
chosen stands, was on the list, is carried forward, and nobody on a team is
deleted. *Proved* (`ClassificationStands`) for any branches, people and documents'
choices, with `ClassInv`.

**ContactLog**: one panel writing conversations with screenshots; every statement
on its own, processes that die, answers that are lost. `ContactHolds`: proof was
stored, is whole, is what the form showed; a conversation is written twice only if
a sending was cut off, and none is still to come. `resolute` people do not leave a
form with files chosen. *Proved* (`LogHolds`) with `LogInv`: a request nothing cut
off is the one the form waits for (`WaitsFor`), what it has done agrees with where
it stands (`RequestSound`), and two of them are of different conversations
(`TalksApart`).

**Team**: naming, taking off, joining by the timer. `TeamHolds`: one responsible,
nobody twice, hours stay with whoever worked them, nobody leaves by another being
named, whoever was named has the part. *Proved* (`TeamStands`) with `TeamInv`.

## 12. Pages, records and figures

**ClientRecord** (run `Racing`): a details form over a page that ages, the request
that empties and rewrites the references, the passwords that follow.
`RecordKept`: one login of a place in use, a password is shown only after the log
has it, a form opened before a registration does not take back the number,
references are as shown, a retired login stays known. Two clients, two people, two
uses of a form or the panel, one lost request. *Proved* (`RecordKeptForAny`) for
any clients, people, numbers, portals and losses, with `RecordInv`: what a keeper
has in hand fits the verb they are at (`InHandFits`), changes of details that take
turns are one at a time (`OneAtATime`), and no portal of a client has two logins
in use (`OneIsLive`).

**Screens** (run `Racing`): for each kind of thing, the acts its page offers, the
acts the server carries out, and what happens to it elsewhere. `ScreensHold`: a
page that is up to date is refused nothing it offers but what `RefusedAnyway`
names; everything not done with is taken further by its own page; pressing again
what was never answered is harmless but where named; what is agreed to is what was
shown. Two pages, two lines. *Proved* (`ScreensHoldForAny`) for any desks, any
lines of which there is one, and any sum owed: one lemma per kind of thing says
which acts there are and where they lead, and an old page
of what was sent or approved shows the lines it still has (`Behind`).

**Figures** (run `Records`): one client's statement, invoices and quotation, with
the rounding of each of the five places that work out money, in fils.
`FiguresHold`: screens equal the audit log, the invoice is the review, the sheets
add up, quantity times rate reaches the amount to half a hundredth of an hour, the
profitability report is the sum of the invoices. Two lines of amounts chosen so
that each rounding differs from truncation and two come to the same amount.
*Proved* (`FiguresHoldForAny`) for any lines with figures in `ReviewLine` and
`Offerable`, any number of them, any rate of VAT up to all of it and any payments.
The rounding is the least of it (`Rounded`, `RoundedHours`: half up and half away
from zero are one thing where nothing is negative). Most of the proof is about
sums: each is a loop, and what a loop has come to after `i` lines is shown by
asking for the first line at which it is otherwise (`Climb`, from `WFMin`), since
induction itself is out of reach (section 14). `FiguresInv` says that an invoice's
lines are copies of reviewed ones (`CopiedOK`), that it is paid exactly when
something was received and nothing is left (`SettledOK`), and that an offer has
only lines that may be offered.

**ClientFolders** (run `Records`): folders and files of a client, requests that
read and write in two statements, a dropped directory. `FoldersHold`: names unique
among open siblings, depth, no row without bytes, no open file or folder in a
removed one while desks take turns, a drop fails only for depth or spelling, none
is half kept. *Proved* (`FoldersHoldForAny`) for any folders, names, files, desks
and limit of depth, where tidying a name (`Cleaned`) changes nothing the second
time. `FoldersInv` needs that folders are a tree: there is a rank, one more
than the parent's and never above the limit, that leaves room for a folder about to
be made (`Ranked`), which bounds the loop of `DepthOf`; and, while desks take turns, that
the request at work has in memory what the tables say (`Fresh`).

**WorkingHours** (run `Records`): hours typed and judged again when read, what the
timer recorded and whether somebody is asked about it, time by hand, today's list
and the timesheet. `HoursHold`: the hours shown are the ones time is judged by, time
nobody was asked about is within them, time typed is kept as typed. Hour by hour
over four days around a weekend. *Proved* (`HoursHoldForAny`) for any division of
the day, any hours that can be typed and any limits, with `HoursInv` (stored hours
are acceptable and tidying them again changes nothing, `WeekOK`).

**PaperList** (run `Records`): the list of files to upload, kinds guessed and
changed, refusals, lost answers. `ListHolds`: nothing chosen vanishes among
careful people, filed as shown, once but for lost answers, the page tells the
truth. *Proved* (`ListHoldsForAny`) for any files and kinds, with `ListInv`.

## 13. What is proved

Eight modules hold the theorems. All of them are for every value of the constants,
the bounds included, from the assumptions the modules state on their constants
(`...Assumption`: that null values are none of the ids, that bounds are numbers,
that a covering set of payments still covers with one more, that figures are whole
numbers of fils and seconds) and, where a property
says so, for the mode it names (`Guarded`, `Punctual`, `OneLoop`, in turn).

Every safety proof has the same shape: an invariant `...Inv` that adds to the
property what requests have in memory in relation to the tables; a lemma that the
initial states meet it; a lemma per action, or per group of actions, that a step
keeps it; and a theorem by PTL. Action properties are proved from the invariant of
the state before the step. TLC finds every one of these invariants to hold on the
runs' instances too. What the strengthenings have in common is the
answer to one question: what does a copy in memory still say truly about the row
once others have written it? *Something monotone*, where requests race (a copy has
no payment that was not stored; a job was attempted at least as often as its copy
says), and *everything*, where they take turns. Two invariants count instead: the
jobs without papers and the rungs told halfway are bounded by those still at it and
those who died, and each step moves both sides alike. The type invariant of a module
is a part of the property its theorem states (`OutcomesEarned`, `HoldsWhatIsDue`,
`RecordsTellTrue` and `TimeAccountedFor` begin with `TypeOK`).

| Theorem | Module | What it says |
|---|---|---|
| `TypeCorrect`, `OutcomesNeverMeet`, `NeverGivenUpEarly`, `OutcomesAreEarned`, `OutcomesFinal`, `KeysOnce`, `ExclusiveRuns`, `NothingLetGo`, `Refinement` | `JobQueueProofs` | section 4 |
| `TypeCorrect`, `GaplessNumbers`, `CancellingFrees`, `BilledWasApproved`, `StatementsHoldWhatIsDue` | `BillingProofs` | with any races |
| `NothingBilledTwice`, `InvoicedOnce`, `HoursCarriedOnce`, `NothingCountedTwice`, `InvoicesBacked`, `HoursStayPut`, `ExclusionsStand`, `ReviewStands` | `BillingProofs` | under `Guarded` |
| `TypeCorrect`, `PublishedAfterTelling`, `NobodyMailedTwice`, `RecordsAreTrue`, `WhatIsRecordedIsTrue` | `OutboxProofs` | section 6 |
| `ConversationHoldsForAny`, `ReceiptsTellTrueForAny` | `OutboxProofs` | section 10 |
| `TypeCorrect`, `NothingRecordedTwice`, `TimeIsAccountedFor` | `TimerProofs` | section 7 |
| `InvoiceSettles`, `OfferStandsThroughout`, `ProjectStands`, `OpenedOnceForAny` | `WorkProofs` | sections 6, 8 |
| `ScreensHoldForAny`, `HoursHoldForAny`, `FiguresHoldForAny` | `BillingProofs` | section 12 |
| `EnquiryStandsForAny`, `PapersStandForAny`, `ListHoldsForAny`, `RecordKeptForAny`, `FoldersHoldForAny` | `ClientsProofs` | sections 10, 12 |
| `AccessIsDecided`, `ChoicesReachEveryone`, `MorningsForAny` | `IdentityProofs` | section 9 |
| `LogHolds`, `TeamStands`, `ClassificationStands`, `SettingsHoldForAny` | `FirmProofs` | section 11 |

## 14. What is only checked, and why

- *Liveness under fairness and ENABLED* are beyond the prover:
  `EventuallySettled`, `MailArrives`, `EventuallySent`, `EngagedIsOpened`,
  `MorningsArrive` and `EveryMessageArrives`.
- *What a loop computes for every input* would be induction over data, whose
  theorems take an operator as a parameter, and no prover here can instantiate one.
  `FiguresHold`, `FoldersHold` and `SettingsHold` are proved all the same, by the
  least counterexample: were the loop wrong somewhere, there would be a first place
  where it is (`WFMin` over `NatLessThanWellFounded`, which takes a set), and the
  place before it is right. For that the loops are recursive functions and not
  RECURSIVE operators.
- *Dates*: `DatesHold` is over `CivilDates`, where months and leap years are
  divisions and remainders, and every date the code searches for is a CHOOSE among
  days. The calendar's part is true of the window and the holidays given, not of
  any: a holiday that lasts longer than the window hides what is due in it. TLC
  enumerates the days of the window.

Every other property of the runs that pass is a theorem.

Runs take from a second to some two minutes on three cores. Deadlock is checked
for the queue and its workers, whose loops never end; the other configurations
say why their system may stop.

## 15. Where the code does something else than it says

### Shown by a run

- `Billing_fee_twice`: an agreed project fee is billed on every statement of a
  month in which the project was worked on.
- `Figures_report`: the hours report sums DISTINCT amounts, so that of two lines
  that came to the same amount one is left out, and charges a fee in full to each
  person who worked for it.

### Found with an earlier configuration, or read in the code

The properties of the runs leave these out by the mode or the exception they
name; none is among the runs' violations.

*Queue, outbox, timer.* `complete()` and `fail()` write by job id, whoever holds
the claim: a worker that overran its lease clears the claim of the worker that has
the job now, and the job is handed out again within that worker's lease. `claim()`
does not look at max_attempts: a job that takes its worker down every time is
attempted without limit. `fail()` may itself throw; the rest of the batch then
waits for its lease to lapse. SKIP LOCKED without a transaction does not keep two
workers from the same event; the unique notification row repairs it. Events whose
subscriber always fails fill the batch when there are as many as it holds. Reading
a notification while its email is being recorded writes emailed_at back to NULL.
The page's sync and a tap, or two tabs, replay one queue at the same time and both
record the span. A stop tapped without a connection and replayed more than an hour
later is trimmed to the last heartbeat, although the person did tap stop
(`offline-queue.ts:4-7`). `hold()` does not ask whether the timer was abandoned,
one heartbeat after the laptop wakes makes an abandoned timer fresh, and the sweep
that would find it, `stale()`, has no caller. Starting a timer over another one is
not one transaction, as migration 0011 (lines 100-102) has it.

*Billing.* `attach()` passes over an entry another statement took in the
meantime, and both carry its hours. Two requests that both read an approved
statement each raise its invoice. Approving or confirming a time entry saves the
whole row from a copy; if a statement took the entry in between, its
statement_line_id goes back to NULL, and the trigger that freezes billed time lets
it through, because that is what a release looks like to it. Flagged time reaches
an invoice without a review. Releasing a statement while it is being invoiced
frees the hours under the invoice. A draft quotation refused after its number was
taken uses the number up. `sendAgain` while the job of the first email is live
stores a new link and queues nothing (`delivery.ts:110`). A draft past its date is
stuck: the refusal says to change the date, and nothing changes it
(`quotation.ts:369-372`). Nothing refuses an overpayment, and the profitability
report sets it off against what others owe; hours rounded to hundredths times the
rate miss the amount beside them (`raise-invoice.ts:166-170`).

*Projects and dates.* A financial year ending in February: the sweep steps a year
back from the 29th to the 1st of March and opens another period than the hand
(`recurrence.ts:136` against `:190`). On a financial year's last day `yearEndFor`
answers for the next one (`tax-period.ts:111-118`). `ReadCalendar.upcoming` misses
a project due today, and a deadline moved into the next month is on no grid
(`read-calendar.ts:53-59`, `:94-103`). Starting by hand looks for the period only
under a live engagement (`start-project.ts:28`, `:74`). A writer that dies leaves a
project without papers for good. Removing a project cascades over a running timer
(0011:106). A rung run late is raised late (`escalations.ts:58-60`), a second wait
is never chased, and expiry warnings are only logged. Assigning demotes in place,
though migration 0010 says append-only; racing an unassign it answers ok to
nothing; a time entry refused by hand leaves the person on the team.

*Time.* The timesheet groups by UTC day (`read-timer.ts:57`) and today's list by
Dubai's: an entry begun between midnight and four in Dubai shows on the day before.
Time typed by hand outside the hours is not questioned; an entry that ends exactly
at closing time is. The CHECK on working days passes an empty array (0017).

*Identity.* The last manager can take the manager's role from themselves
(`identity-operations.ts:255` says otherwise of suspension), which is why
`SomebodyManages` is said while nobody's roles change. Saves of whole rows in
flight undo a suspension, a revocation or a new password. A process may remember
an old choice of rights for 30 seconds. Wrong answers that race are counted once;
after a lock lapses one wrong answer locks again. Somebody locked cannot sign out.

*WhatsApp.* Handlers that overlap undo STOP, a hand-over or an identification
(`conversation.ts:325-328`). START takes a conversation from the person who has it
(`:150-155`). The writer of `intent.ts` says that only asking to be left alone
outranks asking for a person; START is read first. After an opt-out nobody is told
of later messages. `handOver` with nobody on duty leaves the client waiting. A
receipt applied over another's copy moves a status backwards, and one that arrives
before the row has Meta's id is dropped.

*Clients.* A convert refused for an enquiry already converted still commits the
client it made (`lead-workflow.ts:228`; `:158-160` "Both writes commit together or
neither does. Half of this would be a client nobody can trace the origin of").
Confirming a quoted enquiry from the board leaves it without its client; a quoted
one with a client can never be declined (CHECK of 0035). Overlapping changes of
details save whole rows; forms send every field of a page that has aged
(`client.ts:72-74` says otherwise). Removing a folder races uploads and moves into
it, which hides files (`client-files.ts:282`); a directory with two spaces in its
name fails for ever; moving from a copy brings a removed file back; bytes stay
without a row when the process dies. Files chosen while others are being sent
vanish at the end, and a note typed for one kind is sent under another.

*The firm.* `manage-services.ts:144` says steps "can be renamed or added to, but
not removed"; blank steps are filtered after the count is checked. A late answer
closes another row's form. The staff page does not key its form: Edit on another
person keeps the first one's values and saves them onto the second
(`staff-page.tsx:97-102`). Two managers' whole-row saves undo each other. A lost
answer to an add is a second row when sent again; so is a conversation in the log,
a payment, a client, an enquiry. The staff list shows active people only
(`staff.ts:91`), so that its reinstate button is never seen.
`invoices.performed_by` is ON DELETE SET NULL, though 0056 says that the firm "has
to be able to say who did the work it billed". Cancelling the form of a
conversation keeps its files for the next one.

*Pages.* What a page offers and the server refuses all the same is
`RefusedAnyway`. Cancelling an invoice, reopening or cancelling a statement, closing
a conversation, disabling two-factor and marking a document as renewing have no
caller. A manager's list of approvals keeps ticks on entries no longer shown.

## 16. Not modelled, and why

The migrator is one sequential loop under an advisory lock. Storage is one external
call per operation. Contracts, the HTTP kit and the API's wiring have no state of
their own. The audit log's readers, and the pages that only show, are queries.
Throttles, cookies, encryption, letterheads, wording and translations are out of
the properties' reach. Left out within a modelled part: several devices of one
person (Timer), scopes and who may see which client (everywhere), changing a
client's VAT cycle (FilingPeriods), jobs without a period (Recurrence), document
dates (ClientPapers), rates and dormancy (ClientRecord). The `note` of each
component in `PROJECT.json` names the rest.
