------------------------------- MODULE Outbox -------------------------------
(***************************************************************************)
(* From a committed event to somebody's inbox: the outbox table, the drain *)
(* loop every worker process runs over it (OutboxPublisher), the one       *)
(* subscriber there is (enquiryNotifier) and the notifications it raises   *)
(* through Notify, with the people who read them meanwhile.                *)
(*                                                                         *)
(* The statements of a worker are not in a transaction: each is a step,    *)
(* and a worker may die, or lose the connection, between any two of them.  *)
(*                                                                         *)
(* Operators named Mut... are faulty variants of the definition that       *)
(* follows them; no behaviour of the model uses one.                       *)
(***************************************************************************)
EXTENDS Integers, FiniteSets

CONSTANTS
    Events,       \* the outbox rows
    OccurredAt,   \* OccurredAt[e]: occurred_at, which need not follow the commits
    People,       \* the managers
    Audience,     \* Audience[e]: whom the subscriber tells; {} if none listens
    WantEmail,    \* people who chose email as well as the inbox
    Poison,       \* events on which the subscriber throws every time
    Workers,      \* worker processes
    BatchSize,    \* OUTBOX_BATCH_SIZE
    MaxFaults,    \* bound on crashes and failed statements
    None

ASSUME OutboxAssumption ==
    /\ OccurredAt \in [Events -> Nat]
    /\ Audience \in [Events -> SUBSET People]
    /\ WantEmail \subseteq People
    /\ Poison \subseteq Events
    /\ BatchSize \in Nat \ {0}
    /\ MaxFaults \in Nat
    /\ None \notin Events \cup People

VARIABLES
    committed,    \* rows of the outbox
    published,    \* published_at is set
    told,         \* rows <<event, person>> of notifications
    emailed,      \* emailed_at is set
    read,         \* read_at is set
    mailed,       \* history: emails that went out
    mailedAgain,  \* history: emails that went out more than once
    pc,           \* where each worker is in drain()
    batch,        \* the records it has still to deliver
    delivered,    \* the ids it has delivered and not marked
    current,      \* the event its subscriber is working on
    left,         \* the managers the subscriber has still to tell
    person,       \* the one it is telling
    opened,       \* the notification a person is marking read, as markRead found it
    openedEmailed,\* people whose copy of it has emailed_at set
    faults        \* how many faults there were

noteVars == <<told, emailed, read, mailed, mailedAgain>>
readerVars == <<opened, openedEmailed>>
tellVars == <<current, left, person>>
workerVars == <<pc, batch, delivered, tellVars>>
vars == <<committed, published, noteVars, workerVars, readerVars, faults>>

-----------------------------------------------------------------------------
(* The event is written with the change it describes *)

\* UnitOfWork.run commits.
Commit(e) ==
    /\ e \notin committed
    /\ committed' = committed \cup {e}
    /\ UNCHANGED <<published, noteVars, workerVars, readerVars, faults>>

-----------------------------------------------------------------------------
(* OutboxPublisher.drain *)

Goto(w, label) == pc' = [pc EXCEPT ![w] = label]

\* FOR UPDATE holds its locks while the statement runs and no longer.
Locked == UNION {batch[w] : w \in {v \in Workers : pc[v] = "reading"}}

MutPending == {e \in (committed \ published) \ Locked : \A p \in People : <<e, p>> \notin told}

Pending == (committed \ published) \ Locked

\* The oldest of them, as many as the limit allows.
Oldest(P) ==
    {B \in SUBSET P :
        /\ Cardinality(B) <= BatchSize
        /\ \A e \in P \ B :
              /\ Cardinality(B) = BatchSize
              /\ \A d \in B : OccurredAt[d] <= OccurredAt[e]}

ReadPending(w) ==
    /\ pc[w] = "top"
    /\ \E B \in Oldest(Pending) : batch' = [batch EXCEPT ![w] = B]
    /\ Goto(w, "reading")
    /\ UNCHANGED <<committed, published, noteVars, delivered, tellVars,
                   readerVars, faults>>

HavePending(w) ==
    /\ pc[w] = "reading"
    /\ Goto(w, IF batch[w] = {} THEN "top" ELSE "delivering")
    /\ UNCHANGED <<committed, published, noteVars, batch, delivered, tellVars,
                   readerVars, faults>>

\* The subscribers of the next record, oldest first.
Deliver(w) ==
    /\ pc[w] = "delivering"
    /\ \E e \in batch[w] :
          /\ \A d \in batch[w] : OccurredAt[e] <= OccurredAt[d]
          /\ current' = [current EXCEPT ![w] = e]
          /\ left' = [left EXCEPT ![w] = Audience[e]]
    /\ Goto(w, "telling")
    /\ UNCHANGED <<committed, published, noteVars, batch, delivered, person,
                   readerVars, faults>>

\* The record is done with: taken off the batch, delivered or not.
NextRecord(w) ==
    /\ batch' = [batch EXCEPT ![w] = @ \ {current[w]}]
    /\ current' = [current EXCEPT ![w] = None]
    /\ left' = [left EXCEPT ![w] = {}]
    /\ person' = [person EXCEPT ![w] = None]
    /\ Goto(w, "delivering")

\* Every subscriber returned.
Delivered(w) ==
    /\ pc[w] = "telling"
    /\ current[w] \notin Poison
    /\ left[w] = {}
    /\ delivered' = [delivered EXCEPT ![w] = @ \cup {current[w]}]
    /\ NextRecord(w)
    /\ UNCHANGED <<committed, published, noteVars, readerVars, faults>>

\* A subscriber threw: markFailed counts the attempt, which nothing reads.
SubscriberThrows(w) ==
    /\ pc[w] = "telling"
    /\ current[w] \in Poison
    /\ Goto(w, "failing")
    /\ UNCHANGED <<committed, published, noteVars, batch, delivered, tellVars,
                   readerVars, faults>>

MutMarkFailed(w) ==
    /\ pc[w] = "failing"
    /\ delivered' = [delivered EXCEPT ![w] = @ \cup {current[w]}]
    /\ NextRecord(w)
    /\ UNCHANGED <<committed, published, noteVars, readerVars, faults>>

MarkFailed(w) ==
    /\ pc[w] = "failing"
    /\ NextRecord(w)
    /\ UNCHANGED <<committed, published, noteVars, delivered, readerVars, faults>>

MarkPublished(w) ==
    /\ pc[w] = "delivering"
    /\ batch[w] = {}
    /\ published' = published \cup delivered[w]
    /\ delivered' = [delivered EXCEPT ![w] = {}]
    /\ Goto(w, "top")
    /\ UNCHANGED <<committed, noteVars, batch, tellVars, readerVars, faults>>

-----------------------------------------------------------------------------
(* enquiryNotifier, and Notify.send for each manager *)

MutIsNew(e, p) == TRUE

\* ON CONFLICT DO NOTHING returned a row.
IsNew(e, p) == <<e, p>> \notin told

\* notifications.raise; the next is the email, if it is new and wanted.
Raise(w) ==
    /\ pc[w] = "telling"
    /\ current[w] \notin Poison
    /\ \E p \in left[w] :
          /\ told' = told \cup {<<current[w], p>>}
          /\ left' = [left EXCEPT ![w] = @ \ {p}]
          /\ IF IsNew(current[w], p) /\ p \in WantEmail
             THEN person' = [person EXCEPT ![w] = p] /\ Goto(w, "mailing")
             ELSE UNCHANGED <<person, pc>>
    /\ UNCHANGED <<committed, published, emailed, read, mailed, mailedAgain,
                   batch, delivered, current, readerVars, faults>>

MutNote(w) == <<person[w], current[w]>>

\* The row the worker's Notification object stands for.
Note(w) == <<current[w], person[w]>>

Mail(w) ==
    /\ pc[w] = "mailing"
    /\ mailed' = mailed \cup {Note(w)}
    /\ mailedAgain' = mailedAgain \cup ({Note(w)} \cap mailed)
    /\ Goto(w, "recording")
    /\ UNCHANGED <<committed, published, told, emailed, read, batch, delivered,
                   tellVars, readerVars, faults>>

MutMailFails(w) ==
    /\ pc[w] = "mailing"
    /\ Goto(w, "recording")
    /\ UNCHANGED <<committed, published, noteVars, batch, delivered, tellVars,
                   readerVars, faults>>

\* A mail server that is down is swallowed, and the next manager told.
MailFails(w) ==
    /\ pc[w] = "mailing"
    /\ person' = [person EXCEPT ![w] = None]
    /\ Goto(w, "telling")
    /\ UNCHANGED <<committed, published, noteVars, batch, delivered, current,
                   left, readerVars, faults>>

\* notifications.save writes read_at and emailed_at, both from the copy.
RecordMail(w) ==
    /\ pc[w] = "recording"
    /\ emailed' = emailed \cup {Note(w)}
    /\ read' = read \ {Note(w)}
    /\ person' = [person EXCEPT ![w] = None]
    /\ Goto(w, "telling")
    /\ UNCHANGED <<committed, published, told, mailed, mailedAgain, batch,
                   delivered, current, left, readerVars, faults>>

-----------------------------------------------------------------------------
(* ReadInbox: the people read what they were told *)

OpenNote(p) ==
    /\ opened[p] = None
    /\ \E e \in Events :
          /\ <<e, p>> \in told
          /\ opened' = [opened EXCEPT ![p] = e]
          /\ openedEmailed' = IF <<e, p>> \in emailed
                              THEN openedEmailed \cup {p} ELSE openedEmailed
    /\ UNCHANGED <<committed, published, noteVars, workerVars, faults>>

\* markRead saves its copy, emailed_at as it was when it was opened.
MarkRead(p) ==
    /\ opened[p] # None
    /\ LET note == <<opened[p], p>>
       IN  /\ read' = read \cup {note}
           /\ emailed' = IF p \in openedEmailed
                         THEN emailed \cup {note} ELSE emailed \ {note}
    /\ opened' = [opened EXCEPT ![p] = None]
    /\ openedEmailed' = openedEmailed \ {p}
    /\ UNCHANGED <<committed, published, told, mailed, mailedAgain, workerVars, faults>>

\* One statement, and it touches read_at only.
MarkAllRead(p) ==
    /\ read' = read \cup {note \in told : note[2] = p}
    /\ UNCHANGED <<committed, published, told, emailed, mailed, mailedAgain,
                   workerVars, readerVars, faults>>

-----------------------------------------------------------------------------
(* Faults *)

\* The worker has nothing in memory.
Forget(w, label) ==
    /\ batch' = [batch EXCEPT ![w] = {}]
    /\ delivered' = [delivered EXCEPT ![w] = {}]
    /\ current' = [current EXCEPT ![w] = None]
    /\ left' = [left EXCEPT ![w] = {}]
    /\ person' = [person EXCEPT ![w] = None]
    /\ Goto(w, label)

Fault == faults < MaxFaults /\ faults' = faults + 1

\* A statement inside the subscriber fails, or commits and its reply is lost:
\* the notification may or may not be there. emailIt swallows its own errors.
StatementThrows(w) ==
    /\ pc[w] = "telling"
    /\ current[w] \notin Poison
    /\ Fault
    /\ \/ told' = told
       \/ \E p \in left[w] : told' = told \cup {<<current[w], p>>}
    /\ Goto(w, "failing")
    /\ UNCHANGED <<committed, published, emailed, read, mailed, mailedAgain,
                   batch, delivered, tellVars, readerVars>>

SaveThrows(w) ==
    /\ pc[w] = "recording"
    /\ Fault
    /\ person' = [person EXCEPT ![w] = None]
    /\ Goto(w, "telling")
    /\ UNCHANGED <<committed, published, noteVars, batch, delivered, current,
                   left, readerVars>>

\* pending, markFailed or markPublished throws out of drain: the loop starts over.
DrainThrows(w) ==
    /\ \/ pc[w] \in {"reading", "failing"}
       \/ pc[w] = "delivering" /\ batch[w] = {} /\ delivered[w] # {}
    /\ Fault
    /\ Forget(w, "top")
    /\ UNCHANGED <<committed, published, noteVars, readerVars>>

\* A worker that is asked to stop leaves the loop from its top.
Crash(w) ==
    /\ pc[w] # "crashed"
    /\ Fault
    /\ Forget(w, "crashed")
    /\ UNCHANGED <<committed, published, noteVars, readerVars>>

Restart(w) ==
    /\ pc[w] = "crashed"
    /\ Goto(w, "top")
    /\ UNCHANGED <<committed, published, noteVars, batch, delivered, tellVars,
                   readerVars, faults>>

-----------------------------------------------------------------------------
Init ==
    /\ committed = {} /\ published = {}
    /\ told = {} /\ emailed = {} /\ read = {} /\ mailed = {} /\ mailedAgain = {}
    /\ pc = [w \in Workers |-> "top"]
    /\ batch = [w \in Workers |-> {}]
    /\ delivered = [w \in Workers |-> {}]
    /\ current = [w \in Workers |-> None]
    /\ left = [w \in Workers |-> {}]
    /\ person = [w \in Workers |-> None]
    /\ opened = [p \in People |-> None]
    /\ openedEmailed = {}
    /\ faults = 0

\* What a worker does next if nothing goes wrong.
Advance(w) ==
    \/ ReadPending(w) \/ HavePending(w)
    \/ Deliver(w) \/ Delivered(w)
    \/ SubscriberThrows(w) \/ MarkFailed(w)
    \/ MarkPublished(w)
    \/ Raise(w) \/ Mail(w) \/ MailFails(w) \/ RecordMail(w)
    \/ Restart(w)

Break(w) == StatementThrows(w) \/ SaveThrows(w) \/ DrainThrows(w) \/ Crash(w)

Next ==
    \/ \E e \in Events : Commit(e)
    \/ \E w \in Workers : Advance(w) \/ Break(w)
    \/ \E p \in People : OpenNote(p) \/ MarkRead(p) \/ MarkAllRead(p)

Spec == Init /\ [][Next]_vars

\* The loops go on, calls return, and a dead worker is started again.
FairSpec == Spec /\ \A w \in Workers : WF_vars(Advance(w))

-----------------------------------------------------------------------------
(* Properties *)

Labels == {"top", "reading", "delivering", "telling", "mailing", "recording",
           "failing", "crashed"}
Notes == Events \X People

\* Types of the tables and of what the workers and the readers have in memory.
TypeOK ==
    /\ committed \subseteq Events
    /\ published \subseteq committed
    /\ told \subseteq Notes
    /\ emailed \subseteq told
    /\ read \subseteq told
    /\ mailed \subseteq told
    /\ mailedAgain \subseteq mailed
    /\ pc \in [Workers -> Labels]
    /\ batch \in [Workers -> SUBSET committed]
    /\ delivered \in [Workers -> SUBSET committed]
    /\ current \in [Workers -> committed \cup {None}]
    /\ left \in [Workers -> SUBSET People]
    /\ person \in [Workers -> People \cup {None}]
    /\ opened \in [People -> Events \cup {None}]
    /\ openedEmailed \subseteq People
    /\ faults \in 0 .. MaxFaults

\* An event leaves the outbox only after everybody it was for has been told,
\* whichever workers shared it, died over it or took it twice.
PublishedWasTold == \A e \in published : \A p \in Audience[e] : <<e, p>> \in told

\* An event taken twice, or again after a crash, is not emailed twice.
MailedOnce == mailedAgain = {}

\* emailed_at says that an email went.
EmailedWasMailed == emailed \subseteq mailed

\* Every person an event is for is told in the end, and the event published, beside
\* events whose subscriber always fails as long as these do not fill a batch.
EventuallyTold ==
    \A e \in Events \ Poison :
        /\ \A p \in Audience[e] : e \in committed ~> <<e, p>> \in told
        /\ e \in committed ~> e \in published

\* The tables are well formed, and what they say of telling is so: published after
\* everybody was told, emailed after an email went, and that once.
RecordsTellTrue == TypeOK /\ PublishedWasTold /\ EmailedWasMailed /\ MailedOnce
=============================================================================
