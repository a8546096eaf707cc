-------------------------------- MODULE Timer --------------------------------
(***************************************************************************)
(* One person's timer: what they tap, the browser's queue of taps that     *)
(* survives a tunnel (offline-queue.ts) and the loops that replay it       *)
(* (replayPending), TimerService with its row of running_timers, and the   *)
(* time it records.  Time is counted in whole units; an entry is the set   *)
(* of units it covers.                                                     *)
(*                                                                         *)
(* The statements of a request are not in a transaction.  A request and    *)
(* the loop that sent it fail together: the process dies, or the network   *)
(* loses the request or the reply.                                         *)
(*                                                                         *)
(* Operators named Mut... are faulty variants of the definition that       *)
(* follows them; no behaviour of the model uses one.                       *)
(***************************************************************************)
EXTENDS Integers, Sequences, FiniteSets

CONSTANTS
    Projects,
    Drains,           \* replay loops that can be under way at once
    AbandonedAfter,   \* ABANDONED_AFTER_MINUTES
    MaxTime, MaxTaps, MaxFaults,   \* bounds
    None

ASSUME TimerAssumption ==
    /\ None \notin Projects
    /\ AbandonedAfter \in Nat
    /\ MaxTime \in Nat /\ MaxTaps \in Nat /\ MaxFaults \in Nat

VARIABLES
    now,
    doing,       \* the project the person is on
    paused,      \* the person has it on hold
    worked,      \* history: the project the person was on in each unit of time
    taps,        \* every tap so far; a tap is known by its place in here
    waiting,     \* taps still in the browser's queue
    running,     \* the project of the row of running_timers; None without a row
    start, seen, held,   \* started_at, last_seen_at, held_at
    booked,      \* <<project, time>> covered by an entry
    twice,       \* history: times covered by a second entry
    trimmed,     \* history: times cut off as abandoned
    lost,        \* history: times in the hands of a request that failed
    pc,          \* where each loop, or the request it sent, is
    todo,        \* the taps of the queue as the loop found it, less those done
    of, from, to,   \* the span a request works on
    faults

person == <<now, doing, paused, worked, taps>>
row == <<running, start, seen, held>>
record == <<booked, twice>>
span == <<of, from, to>>
vars == <<person, waiting, row, record, trimmed, lost, pc, todo, span, faults>>

NotHeld == -1

Init ==
    /\ now = 0
    /\ doing = None
    /\ paused = FALSE
    /\ worked = [t \in 0 .. MaxTime - 1 |-> None]
    /\ taps = <<>>
    /\ waiting = {}
    /\ running = None
    /\ start = 0 /\ seen = 0 /\ held = NotHeld
    /\ booked = {} /\ twice = {} /\ trimmed = {} /\ lost = {}
    /\ pc = [d \in Drains |-> "idle"]
    /\ todo = [d \in Drains |-> {}]
    /\ of = [d \in Drains |-> None]
    /\ from = [d \in Drains |-> 0]
    /\ to = [d \in Drains |-> 0]
    /\ faults = 0

-----------------------------------------------------------------------------
(* The person and the browser *)

Tick ==
    /\ now < MaxTime
    /\ now' = now + 1
    /\ worked' = [worked EXCEPT ![now] = IF paused THEN None ELSE doing]
    /\ UNCHANGED <<doing, paused, taps, waiting, row, record, trimmed, lost,
                   pc, todo, span, faults>>

\* act() writes the tap down before anything is sent.
Enqueue(action, p) ==
    /\ Len(taps) < MaxTaps
    /\ taps' = Append(taps, [action |-> action, project |-> p, at |-> now])
    /\ waiting' = waiting \cup {Len(taps) + 1}
    /\ UNCHANGED <<now, worked, row, record, trimmed, lost, pc, todo, span, faults>>

TapStart(p) ==
    /\ doing' = p
    /\ paused' = FALSE
    /\ Enqueue("start", p)

TapStop ==
    /\ doing # None
    /\ doing' = None
    /\ paused' = FALSE
    /\ Enqueue("stop", None)

TapHold ==
    /\ doing # None /\ ~paused
    /\ paused' = TRUE
    /\ UNCHANGED doing
    /\ Enqueue("hold", None)

TapResume ==
    /\ paused
    /\ paused' = FALSE
    /\ UNCHANGED doing
    /\ Enqueue("resume", None)

Goto(d, label) == pc' = [pc EXCEPT ![d] = label]

\* replayPending, called on mount, when the connection is back and by act().
BeginDrain(d) ==
    /\ pc[d] = "idle"
    /\ waiting # {}
    /\ todo' = [todo EXCEPT ![d] = waiting]
    /\ Goto(d, "sending")
    /\ UNCHANGED <<person, waiting, row, record, trimmed, lost, span, faults>>

\* Insertion order is the order things happened.
NextTap(S) == CHOOSE n \in S : \A m \in S : n <= m

Sent(d) == taps[NextTap(todo[d])]

Send(d) ==
    /\ pc[d] = "sending"
    /\ todo[d] # {}
    /\ Goto(d, Sent(d).action)
    /\ UNCHANGED <<person, waiting, row, record, trimmed, lost, todo, span, faults>>

EndDrain(d) ==
    /\ pc[d] = "sending"
    /\ todo[d] = {}
    /\ Goto(d, "idle")
    /\ UNCHANGED <<person, waiting, row, record, trimmed, lost, todo, span, faults>>

\* What the request had in memory goes with it.
Drop(d) ==
    /\ of' = [of EXCEPT ![d] = None]
    /\ from' = [from EXCEPT ![d] = 0]
    /\ to' = [to EXCEPT ![d] = 0]

\* The tap leaves the queue and the loop goes on.
Forget(d) ==
    /\ waiting' = waiting \ {NextTap(todo[d])}
    /\ todo' = [todo EXCEPT ![d] = @ \ {NextTap(@)}]
    /\ Drop(d)
    /\ Goto(d, "sending")
    /\ UNCHANGED <<person, row, record, trimmed, lost, faults>>

Answered(d) == pc[d] = "answered" /\ Forget(d)

MutRefused(d) ==
    /\ pc[d] = "refused"
    /\ todo' = [todo EXCEPT ![d] = {}]
    /\ Drop(d)
    /\ Goto(d, "idle")
    /\ UNCHANGED <<person, waiting, row, record, trimmed, lost, faults>>

\* A refusal would be refused again every time.
Refused(d) == pc[d] = "refused" /\ Forget(d)

-----------------------------------------------------------------------------
(* TimerService *)

Held == held # NotHeld

Floor == IF Held THEN held ELSE start

\* The instant of the tap, if the timer can accept it.  It is never later
\* than now: the device and the server have the same clock here.
Clamp(at) == IF at < Floor THEN Floor ELSE at

\* Whether the silence since the last heartbeat puts the time in doubt.
Abandoned(at) == ~Held /\ at - seen > AbandonedAfter

\* The end of the span that stop() reports for a running or a held timer.
EndOfSpan(at) ==
    IF Held THEN held ELSE IF Abandoned(at) THEN seen ELSE at

\* start() and stop() read the row.
ReadToStop(d) ==
    /\ pc[d] \in {"start", "stop"}
    /\ running # None
    /\ LET at == Clamp(Sent(d).at)
       IN  /\ of' = [of EXCEPT ![d] = running]
           /\ from' = [from EXCEPT ![d] = Floor]
           /\ to' = [to EXCEPT ![d] = EndOfSpan(at)]
           /\ trimmed' = IF Abandoned(at) THEN trimmed \cup seen .. at - 1 ELSE trimmed
    /\ Goto(d, "clearing")
    /\ UNCHANGED <<person, waiting, row, record, lost, todo, faults>>

\* Stopping nothing is not an error.
NothingToStop(d) ==
    /\ pc[d] \in {"start", "stop"}
    /\ running = None
    /\ Goto(d, IF pc[d] = "start" THEN "starting" ELSE "answered")
    /\ UNCHANGED <<person, waiting, row, record, trimmed, lost, todo, span, faults>>

MutClear(d) ==
    /\ pc[d] = "clearing"
    /\ Goto(d, "recording")
    /\ UNCHANGED <<person, waiting, row, record, trimmed, lost, todo, span, faults>>

\* The row is deleted, whoever's timer it holds by now.
Clear(d) ==
    /\ pc[d] = "clearing"
    /\ running' = None
    /\ start' = 0 /\ seen' = 0 /\ held' = NotHeld
    /\ Goto(d, "recording")
    /\ UNCHANGED <<person, waiting, record, trimmed, lost, todo, span, faults>>

Times(d) == from[d] .. to[d] - 1

MutRecord(d) ==
    /\ pc[d] = "recording"
    /\ booked' = IF Sent(d).action = "start" THEN booked ELSE booked \cup {of[d]} \X Times(d)
    /\ twice' = twice \cup {t \in Times(d) : \E p \in Projects : <<p, t>> \in booked}
    /\ Goto(d, IF Sent(d).action = "start" THEN "starting" ELSE "answered")
    /\ UNCHANGED <<person, waiting, row, trimmed, lost, todo, span, faults>>

\* record() writes the entry, if the span has any length.
Record(d) ==
    /\ pc[d] = "recording"
    /\ booked' = booked \cup {of[d]} \X Times(d)
    /\ twice' = twice \cup {t \in Times(d) : \E p \in Projects : <<p, t>> \in booked}
    /\ Goto(d, IF Sent(d).action = "start" THEN "starting" ELSE "answered")
    /\ UNCHANGED <<person, waiting, row, trimmed, lost, todo, span, faults>>

\* Starting replaces whatever is running by now.
Start(d) ==
    /\ pc[d] = "starting"
    /\ running' = Sent(d).project
    /\ start' = Sent(d).at
    /\ seen' = Sent(d).at
    /\ held' = NotHeld
    /\ Goto(d, "answered")
    /\ UNCHANGED <<person, waiting, record, trimmed, lost, todo, span, faults>>

\* hold() and resume() read the row: the span so far, or an empty one.
ReadToSave(d) ==
    /\ \/ pc[d] = "hold" /\ ~Held
       \/ pc[d] = "resume" /\ Held
    /\ running # None
    /\ LET at == Clamp(Sent(d).at)
       IN  /\ of' = [of EXCEPT ![d] = running]
           /\ from' = [from EXCEPT ![d] = IF Held THEN at ELSE start]
           /\ to' = [to EXCEPT ![d] = at]
    /\ Goto(d, "saving")
    /\ UNCHANGED <<person, waiting, row, record, trimmed, lost, todo, faults>>

\* No timer is running, or it is already as asked.
Refuse(d) ==
    /\ \/ pc[d] = "hold" /\ (running = None \/ Held)
       \/ pc[d] = "resume" /\ (running = None \/ ~Held)
    /\ Goto(d, "refused")
    /\ UNCHANGED <<person, waiting, row, record, trimmed, lost, todo, span, faults>>

MutSave(d) ==
    /\ pc[d] = "saving"
    /\ IF running = None THEN UNCHANGED row
       ELSE /\ UNCHANGED <<running, start>>
            /\ seen' = to[d]
            /\ held' = IF Sent(d).action = "hold" THEN to[d] ELSE NotHeld
    /\ Goto(d, IF Sent(d).action = "hold" THEN "recording" ELSE "answered")
    /\ UNCHANGED <<person, waiting, record, trimmed, lost, todo, span, faults>>

MutSaveUnseen(d) ==
    /\ pc[d] = "saving"
    /\ IF running = None THEN UNCHANGED row
       ELSE /\ start' = from[d]
            /\ held' = IF Sent(d).action = "hold" THEN to[d] ELSE NotHeld
            /\ UNCHANGED <<running, seen>>
    /\ Goto(d, IF Sent(d).action = "hold" THEN "recording" ELSE "answered")
    /\ UNCHANGED <<person, waiting, record, trimmed, lost, todo, span, faults>>

\* started_at, last_seen_at and held_at are written over the row there is by
\* now, if there is one; the project stays.
Save(d) ==
    /\ pc[d] = "saving"
    /\ IF running = None THEN UNCHANGED row
       ELSE /\ start' = from[d]
            /\ seen' = to[d]
            /\ held' = IF Sent(d).action = "hold" THEN to[d] ELSE NotHeld
            /\ UNCHANGED running
    /\ Goto(d, IF Sent(d).action = "hold" THEN "recording" ELSE "answered")
    /\ UNCHANGED <<person, waiting, record, trimmed, lost, todo, span, faults>>

\* An open page tells the server that the timer is still on screen.
Beat ==
    /\ running # None
    /\ seen' = now
    /\ UNCHANGED <<person, waiting, running, start, held, record, trimmed, lost,
                   pc, todo, span, faults>>

-----------------------------------------------------------------------------
(* Failures *)

\* The process dies between two statements, or the network loses the request
\* or the reply.  The loop stops; the taps it has not forgotten stay queued.
Fail(d) ==
    /\ pc[d] # "idle"
    /\ faults < MaxFaults
    /\ faults' = faults + 1
    /\ lost' = IF pc[d] \in {"clearing", "recording"} THEN lost \cup Times(d) ELSE lost
    /\ todo' = [todo EXCEPT ![d] = {}]
    /\ Drop(d)
    /\ Goto(d, "idle")
    /\ UNCHANGED <<person, waiting, row, record, trimmed>>

-----------------------------------------------------------------------------

\* The loop and the request it has sent go on.
Advance(d) ==
    \/ BeginDrain(d) \/ Send(d) \/ EndDrain(d) \/ Answered(d) \/ Refused(d)
    \/ ReadToStop(d) \/ NothingToStop(d) \/ Clear(d) \/ Record(d) \/ Start(d)
    \/ ReadToSave(d) \/ Refuse(d) \/ Save(d)

Next ==
    \/ Tick \/ Beat
    \/ \E p \in Projects : TapStart(p)
    \/ TapStop \/ TapHold \/ TapResume
    \/ \E d \in Drains : Advance(d) \/ Fail(d)

Spec == Init /\ [][Next]_vars

\* A page is opened, or the connection comes back, again and again, and then
\* requests are answered.
FairSpec == Spec /\ \A d \in Drains : WF_vars(Advance(d))

-----------------------------------------------------------------------------
(* Properties *)

Time == 0 .. MaxTime
Units == 0 .. MaxTime - 1
TapNumbers == 1 .. Len(taps)
Actions == {"start", "stop", "hold", "resume"}
Labels == Actions \cup {"idle", "sending", "clearing", "recording", "starting",
                        "saving", "answered", "refused"}
TapRecords == [action : Actions, project : Projects \cup {None}, at : Time]

\* Types, and the CHECKs of running_timers: the last sign of life and the hold
\* are not earlier than the start.
TypeOK ==
    /\ now \in Time
    /\ doing \in Projects \cup {None}
    /\ paused \in BOOLEAN
    /\ worked \in [Units -> Projects \cup {None}]
    /\ taps \in Seq(TapRecords)
    /\ waiting \subseteq TapNumbers
    /\ running \in Projects \cup {None}
    /\ start \in Time
    /\ seen \in Time
    /\ held \in Time \cup {NotHeld}
    /\ seen >= start
    /\ held # NotHeld => held >= start
    /\ booked \subseteq Projects \X Units
    /\ twice \subseteq Units
    /\ trimmed \subseteq Units
    /\ lost \subseteq Units
    /\ pc \in [Drains -> Labels]
    /\ todo \in [Drains -> SUBSET TapNumbers]
    /\ of \in [Drains -> Projects \cup {None}]
    /\ from \in [Drains -> Time]
    /\ to \in [Drains -> Time]
    /\ faults \in 0 .. MaxFaults

\* No moment of the person's time is recorded twice, although every tap may be
\* sent again, in part or in full.
RecordedOnce == twice = {}

\* Time is booked to a project only if the person was on it, however late the
\* taps arrive and whatever was switched, held or retried meanwhile.
BookedWasWorked == \A p \in Projects, t \in Units : <<p, t>> \in booked => worked[t] = p

Synced == waiting = {} /\ \A d \in Drains : pc[d] = "idle"

\* Once every tap is replayed, all the time the person worked is recorded or
\* being timed, except what was trimmed for want of a heartbeat and the one
\* span a request had in hand when it failed.
NothingLost ==
    Synced =>
        \A t \in 0 .. now - 1 :
            worked[t] # None =>
                \/ <<worked[t], t>> \in booked
                \/ t \in trimmed \cup lost
                \/ running = worked[t] /\ ~Held /\ start <= t

\* Once the person taps no more, the queue empties and stays empty: no refusal
\* and no failure leaves a tap in it.
EventuallySent == <>[](waiting = {})

\* The rows and the queues are well formed and the time booked is the time worked:
\* nothing else is booked, and nothing worked is missing but what was trimmed or in
\* hand when a request failed.
TimeAccountedFor == TypeOK /\ BookedWasWorked /\ NothingLost
=============================================================================
