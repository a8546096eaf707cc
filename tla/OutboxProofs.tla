---------------------------- MODULE OutboxProofs ----------------------------
(***************************************************************************)
(* Theorems about what the firm tells people: the notifications of Outbox, *)
(* for any events, people, workers, batch size and number of faults; the   *)
(* WhatsApp conversation of Conversation, for any messages, deliveries and *)
(* members of staff; the messages of Receipts and what Meta says of them.  *)
(***************************************************************************)
EXTENDS Outbox, Conversation, Receipts, TLAPS

USE OutboxAssumption

-----------------------------------------------------------------------------
(* The inductive invariant.                                                *)

Telling == {"telling", "mailing", "recording"}

\* A worker at work on an event has one, and a person it is mailing.
PositionOK ==
    \A w \in Workers :
        /\ pc[w] \in Telling \cup {"failing"} => current[w] # None
        /\ pc[w] \in {"mailing", "recording"} => person[w] # None

\* What a worker has delivered is told; of the event it is telling, whoever is
\* not left.
ToldOK ==
    \A w \in Workers :
        /\ \A e \in delivered[w] : \A p \in Audience[e] : <<e, p>> \in told
        /\ pc[w] \in Telling =>
              \A p \in Audience[current[w]] \ left[w] : <<current[w], p>> \in told

\* An email about to go was never sent, and one worker is about to send it: the
\* one whose INSERT returned the row.
MailOK ==
    \A w \in Workers :
        /\ pc[w] = "mailing" => Note(w) \in told \ mailed
        /\ pc[w] = "recording" => Note(w) \in mailed
        /\ \A v \in Workers :
              v # w /\ pc[v] = "mailing" /\ pc[w] = "mailing" => Note(v) # Note(w)

\* What a person is looking at exists, and if it says emailed, it was.
OpenOK ==
    \A p \in People :
        /\ opened[p] # None => <<opened[p], p>> \in told
        /\ p \in openedEmailed => opened[p] # None /\ <<opened[p], p>> \in mailed

IInv ==
    /\ TypeOK
    /\ PositionOK
    /\ ToldOK
    /\ MailOK
    /\ OpenOK
    /\ PublishedWasTold
    /\ MailedOnce
    /\ EmailedWasMailed

USE DEF noteVars, readerVars, tellVars, workerVars, Goto

\* It holds of empty tables and idle workers.
LEMMA InitIInv == Init => IInv
  BY DEF Init, IInv, TypeOK, Labels, PositionOK, Telling, ToldOK, MailOK, OpenOK,
         PublishedWasTold, MailedOnce, EmailedWasMailed

-----------------------------------------------------------------------------
(* Every step keeps it.                                                    *)

\* A commit.
LEMMA CommitIInv ==
    ASSUME IInv, NEW e \in Events, Commit(e)
    PROVE  IInv'
<1> USE DEF Commit
<1>1. TypeOK'
  BY DEF IInv, TypeOK
<1>2. PositionOK' /\ ToldOK' /\ OpenOK'
  BY DEF IInv, PositionOK, ToldOK, OpenOK
<1>3. MailOK'
  BY DEF IInv, MailOK, Note
<1>4. PublishedWasTold' /\ MailedOnce' /\ EmailedWasMailed'
  BY DEF IInv, PublishedWasTold, MailedOnce, EmailedWasMailed
<1> QED BY <1>1, <1>2, <1>3, <1>4 DEF IInv

\* The steps that move a worker and change no table and no person's memory: it
\* is enough that the worker's own part holds after them.
LEMMA MoveIInv ==
    ASSUME IInv, NEW w \in Workers,
           UNCHANGED <<committed, published, noteVars, readerVars>>,
           faults' \in 0 .. MaxFaults,
           pc' \in [Workers -> Labels],
           batch' \in [Workers -> SUBSET committed],
           delivered' \in [Workers -> SUBSET committed],
           current' \in [Workers -> committed \cup {None}],
           left' \in [Workers -> SUBSET People],
           person' \in [Workers -> People \cup {None}],
           \A v \in Workers \ {w} :
              /\ pc'[v] = pc[v] /\ current'[v] = current[v] /\ left'[v] = left[v]
              /\ person'[v] = person[v] /\ delivered'[v] = delivered[v],
           pc'[w] \in Telling \cup {"failing"} => current'[w] # None,
           pc'[w] \notin {"mailing", "recording"},
           \A e \in delivered'[w] : \A p \in Audience[e] : <<e, p>> \in told,
           pc'[w] = "telling" =>
              \A p \in Audience[current'[w]] \ left'[w] : <<current'[w], p>> \in told
    PROVE  IInv'
<1>1. TypeOK'
  BY DEF IInv, TypeOK
<1>2. PositionOK'
  BY DEF IInv, PositionOK
<1>3. ToldOK'
  BY DEF IInv, ToldOK, Telling
<1>4. MailOK'
  BY DEF IInv, MailOK, Note
<1>5. OpenOK' /\ PublishedWasTold' /\ MailedOnce' /\ EmailedWasMailed'
  BY DEF IInv, OpenOK, PublishedWasTold, MailedOnce, EmailedWasMailed
<1> QED BY <1>1, <1>2, <1>3, <1>4, <1>5 DEF IInv

\* Taking a batch.
LEMMA TakeIInv ==
    ASSUME IInv, NEW w \in Workers, ReadPending(w) \/ HavePending(w)
    PROVE  IInv'
<1>1. CASE ReadPending(w)
  <2>1. PICK B \in Oldest(Pending) : batch' = [batch EXCEPT ![w] = B]
    BY <1>1 DEF ReadPending
  <2>2. B \subseteq committed
    BY DEF Oldest, Pending
  <2> QED BY <1>1, <2>1, <2>2, MoveIInv
          DEF ReadPending, IInv, TypeOK, ToldOK, Telling, Labels
<1>2. CASE HavePending(w)
  BY <1>2, MoveIInv DEF HavePending, IInv, TypeOK, ToldOK, Telling, Labels
<1> QED BY <1>1, <1>2

\* Starting a record, and being done with it.
LEMMA RecordIInv ==
    ASSUME IInv, NEW w \in Workers,
           Deliver(w) \/ Delivered(w) \/ SubscriberThrows(w) \/ MarkFailed(w)
    PROVE  IInv'
<1>1. CASE Deliver(w)
  <2>1. PICK e \in batch[w] :
            /\ current' = [current EXCEPT ![w] = e]
            /\ left' = [left EXCEPT ![w] = Audience[e]]
    BY <1>1 DEF Deliver
  <2>2. e \in committed /\ e \in Events /\ Audience[e] \subseteq People
    BY DEF IInv, TypeOK
  <2> QED BY <1>1, <2>1, <2>2, MoveIInv DEF Deliver, IInv, TypeOK, ToldOK, Telling, Labels
<1>2. CASE Delivered(w)
  <2>1. current[w] \in committed /\ \A p \in Audience[current[w]] : <<current[w], p>> \in told
    BY <1>2 DEF Delivered, IInv, TypeOK, PositionOK, ToldOK, Telling
  <2> QED BY <1>2, <2>1, MoveIInv
          DEF Delivered, NextRecord, IInv, TypeOK, ToldOK, Telling, Labels
<1>3. CASE SubscriberThrows(w)
  BY <1>3, MoveIInv DEF SubscriberThrows, IInv, TypeOK, PositionOK, ToldOK, Telling, Labels
<1>4. CASE MarkFailed(w)
  BY <1>4, MoveIInv DEF MarkFailed, NextRecord, IInv, TypeOK, ToldOK, Telling, Labels
<1> QED BY <1>1, <1>2, <1>3, <1>4

\* Marking what was delivered: all of it is told.
LEMMA MarkPublishedIInv ==
    ASSUME IInv, NEW w \in Workers, MarkPublished(w)
    PROVE  IInv'
<1> USE DEF MarkPublished
<1>1. TypeOK'
  BY DEF IInv, TypeOK, Labels
<1>2. PositionOK' /\ OpenOK'
  BY DEF IInv, TypeOK, PositionOK, OpenOK, Telling
<1>3. ToldOK'
  BY DEF IInv, TypeOK, ToldOK, Telling
<1>4. MailOK'
  BY DEF IInv, TypeOK, MailOK, Note
<1>5. PublishedWasTold' /\ MailedOnce' /\ EmailedWasMailed'
  BY DEF IInv, ToldOK, PublishedWasTold, MailedOnce, EmailedWasMailed
<1> QED BY <1>1, <1>2, <1>3, <1>4, <1>5 DEF IInv

\* Telling one person: the worker that inserted the row is the only one to mail.
LEMMA RaiseIInv ==
    ASSUME IInv, NEW w \in Workers, Raise(w)
    PROVE  IInv'
<1>1. PICK p \in left[w] :
          /\ told' = told \cup {<<current[w], p>>}
          /\ left' = [left EXCEPT ![w] = @ \ {p}]
          /\ IF IsNew(current[w], p) /\ p \in WantEmail
             THEN person' = [person EXCEPT ![w] = p] /\ Goto(w, "mailing")
             ELSE UNCHANGED <<person, pc>>
  BY DEF Raise
<1>2. /\ pc[w] = "telling" /\ current[w] \in Events /\ p \in People
      /\ UNCHANGED <<committed, published, emailed, read, mailed, mailedAgain,
                      batch, delivered, current, readerVars, faults>>
  BY DEF Raise, IInv, TypeOK, PositionOK, Telling
<1>3. \/ pc' = pc /\ person' = person
      \/ /\ <<current[w], p>> \notin told
         /\ pc' = [pc EXCEPT ![w] = "mailing"] /\ person' = [person EXCEPT ![w] = p]
  BY <1>1 DEF IsNew
<1>4. TypeOK'
  <2>1. told' \subseteq Notes /\ told \subseteq told'
    BY <1>1, <1>2 DEF IInv, TypeOK, Notes
  <2>2. left' \in [Workers -> SUBSET People]
    BY <1>1 DEF IInv, TypeOK
  <2>3. pc' \in [Workers -> Labels] /\ person' \in [Workers -> People \cup {None}]
    BY <1>2, <1>3 DEF IInv, TypeOK, Labels
  <2> QED BY <2>1, <2>2, <2>3, <1>2 DEF IInv, TypeOK
<1>5. PositionOK'
  BY <1>2, <1>3 DEF IInv, TypeOK, PositionOK, Telling
<1>6. ToldOK'
  <2> SUFFICES ASSUME NEW v \in Workers, pc'[v] \in Telling,
                      NEW q \in Audience[current[v]] \ left'[v]
               PROVE  <<current[v], q>> \in told'
    BY <1>1, <1>2 DEF IInv, ToldOK
  <2>1. pc[v] \in Telling
    BY <1>2, <1>3 DEF IInv, TypeOK, Telling
  <2>2. CASE v = w /\ q = p
    BY <2>2, <1>1
  <2>3. CASE ~ (v = w /\ q = p)
    <3>1. q \notin left[v]
      BY <2>3, <1>1 DEF IInv, TypeOK
    <3> QED BY <2>1, <3>1, <1>1 DEF IInv, ToldOK
  <2> QED BY <2>2, <2>3
<1>7. MailOK'
  <2>1. CASE pc' = pc /\ person' = person
    BY <2>1, <1>1, <1>2 DEF IInv, MailOK, Note
  <2>2. CASE /\ <<current[w], p>> \notin told
             /\ pc' = [pc EXCEPT ![w] = "mailing"] /\ person' = [person EXCEPT ![w] = p]
    <3>1. /\ pc'[w] = "mailing" /\ Note(w)' = <<current[w], p>>
          /\ <<current[w], p>> \in told' \ mailed'
      BY <2>2, <1>1, <1>2 DEF Note, IInv, TypeOK
    <3>2. ASSUME NEW v \in Workers \ {w}
          PROVE  /\ pc'[v] = pc[v] /\ Note(v)' = Note(v)
                 /\ pc[v] = "mailing" => Note(v) \in told' \ mailed' /\ Note(v) # Note(w)'
                 /\ pc[v] = "recording" => Note(v) \in mailed'
      BY <3>1, <2>2, <1>1, <1>2 DEF Note, IInv, TypeOK, MailOK
    <3> QED BY <3>1, <3>2, <2>2 DEF IInv, MailOK
  <2> QED BY <2>1, <2>2, <1>3
<1>8. OpenOK' /\ PublishedWasTold' /\ MailedOnce' /\ EmailedWasMailed'
  BY <1>1, <1>2 DEF IInv, OpenOK, PublishedWasTold, MailedOnce, EmailedWasMailed
<1> QED BY <1>4, <1>5, <1>6, <1>7, <1>8 DEF IInv

\* The email goes: it had not gone before.
LEMMA MailIInv ==
    ASSUME IInv, NEW w \in Workers, Mail(w)
    PROVE  IInv'
<1> USE DEF Mail
<1>1. Note(w) \in told \ mailed
  BY DEF IInv, MailOK
<1>2. TypeOK' /\ MailedOnce'
  BY <1>1 DEF IInv, TypeOK, Labels, MailedOnce
<1>3. PositionOK'
  BY DEF IInv, TypeOK, PositionOK, Telling
<1>4. ToldOK'
  BY DEF IInv, TypeOK, ToldOK, Telling
<1>5. MailOK'
  <2>1. \A v \in Workers : Note(v)' = Note(v)
    BY DEF Note
  <2>2. pc'[w] = "recording" /\ \A v \in Workers \ {w} : pc'[v] = pc[v]
    BY DEF IInv, TypeOK
  <2>3. \A v \in Workers \ {w} : pc[v] = "mailing" => Note(v) # Note(w)
    BY DEF IInv, MailOK
  <2> QED BY <2>1, <2>2, <2>3 DEF IInv, MailOK
<1>6. OpenOK' /\ PublishedWasTold' /\ EmailedWasMailed'
  BY DEF IInv, OpenOK, PublishedWasTold, EmailedWasMailed
<1> QED BY <1>2, <1>3, <1>4, <1>5, <1>6 DEF IInv

\* The email failed, or its record did: the worker tells the next.
LEMMA NextPersonIInv ==
    ASSUME IInv, NEW w \in Workers, MailFails(w) \/ SaveThrows(w)
    PROVE  IInv'
  BY MoveIInv DEF MailFails, SaveThrows, Fault, IInv, TypeOK, PositionOK, ToldOK,
                  Telling, Labels

\* Recording an email that went.
LEMMA RecordMailIInv ==
    ASSUME IInv, NEW w \in Workers, RecordMail(w)
    PROVE  IInv'
<1> USE DEF RecordMail
<1>1. Note(w) \in mailed
  BY DEF IInv, MailOK
<1>2. TypeOK' /\ EmailedWasMailed'
  BY <1>1 DEF IInv, TypeOK, Labels, EmailedWasMailed
<1>3. PositionOK' /\ ToldOK'
  BY DEF IInv, TypeOK, PositionOK, ToldOK, Telling
<1>4. MailOK'
  BY DEF IInv, TypeOK, MailOK, Note
<1>5. OpenOK' /\ PublishedWasTold' /\ MailedOnce'
  BY DEF IInv, OpenOK, PublishedWasTold, MailedOnce
<1> QED BY <1>2, <1>3, <1>4, <1>5 DEF IInv

\* The readers: emailed_at is written from copies of what was emailed.
LEMMA ReaderIInv ==
    ASSUME IInv, NEW p \in People, OpenNote(p) \/ MarkRead(p) \/ MarkAllRead(p)
    PROVE  IInv'
<1>1. UNCHANGED <<committed, published, told, mailed, mailedAgain, workerVars, faults>>
  BY DEF OpenNote, MarkRead, MarkAllRead
<1>2. PositionOK' /\ ToldOK' /\ PublishedWasTold' /\ MailedOnce'
  BY <1>1 DEF IInv, PositionOK, ToldOK, PublishedWasTold, MailedOnce
<1>3. MailOK'
  BY <1>1 DEF IInv, MailOK, Note
<1>4. CASE OpenNote(p)
  <2>1. PICK e \in Events :
            /\ <<e, p>> \in told
            /\ opened' = [opened EXCEPT ![p] = e]
            /\ openedEmailed' = IF <<e, p>> \in emailed
                                THEN openedEmailed \cup {p} ELSE openedEmailed
    BY <1>4 DEF OpenNote
  <2>2. opened[p] = None /\ UNCHANGED <<emailed, read>>
    BY <1>4 DEF OpenNote
  <2>3. TypeOK' /\ EmailedWasMailed'
    BY <2>1, <2>2, <1>1 DEF IInv, TypeOK, EmailedWasMailed
  <2>4. OpenOK'
    BY <2>1, <2>2, <1>1 DEF IInv, TypeOK, OpenOK, EmailedWasMailed
  <2> QED BY <2>3, <2>4, <1>2, <1>3 DEF IInv
<1>5. CASE MarkRead(p)
  <2>1. <<opened[p], p>> \in told /\ (p \in openedEmailed => <<opened[p], p>> \in mailed)
    BY <1>5 DEF MarkRead, IInv, OpenOK
  <2>2. TypeOK' /\ EmailedWasMailed'
    BY <2>1, <1>1, <1>5 DEF MarkRead, IInv, TypeOK, EmailedWasMailed
  <2>3. OpenOK'
    BY <1>1, <1>5 DEF MarkRead, IInv, TypeOK, OpenOK
  <2> QED BY <2>2, <2>3, <1>2, <1>3 DEF IInv
<1>6. CASE MarkAllRead(p)
  <2>1. TypeOK' /\ EmailedWasMailed' /\ OpenOK'
    BY <1>1, <1>6 DEF MarkAllRead, IInv, TypeOK, OpenOK, EmailedWasMailed
  <2> QED BY <2>1, <1>2, <1>3 DEF IInv
<1> QED BY <1>4, <1>5, <1>6

\* A statement of the subscriber fails: at most a row more.
LEMMA StatementThrowsIInv ==
    ASSUME IInv, NEW w \in Workers, StatementThrows(w)
    PROVE  IInv'
<1>1. /\ pc[w] = "telling" /\ pc' = [pc EXCEPT ![w] = "failing"]
      /\ current[w] \in Events /\ faults' \in 0 .. MaxFaults
      /\ UNCHANGED <<committed, published, emailed, read, mailed, mailedAgain,
                      batch, delivered, tellVars, readerVars>>
  BY DEF StatementThrows, Fault, IInv, TypeOK, PositionOK, Telling
<1>2. told \subseteq told' /\ told' \subseteq Notes
  BY <1>1 DEF StatementThrows, IInv, TypeOK, Notes
<1>3. TypeOK'
  BY <1>1, <1>2 DEF IInv, TypeOK, Labels
<1>4. PositionOK' /\ ToldOK'
  BY <1>1, <1>2 DEF IInv, TypeOK, PositionOK, ToldOK, Telling
<1>5. MailOK'
  BY <1>1, <1>2 DEF IInv, TypeOK, MailOK, Note
<1>6. OpenOK' /\ PublishedWasTold' /\ MailedOnce' /\ EmailedWasMailed'
  BY <1>1, <1>2 DEF IInv, OpenOK, PublishedWasTold, MailedOnce, EmailedWasMailed
<1> QED BY <1>3, <1>4, <1>5, <1>6 DEF IInv

\* A worker that loses its memory, or starts with none.
LEMMA FaultIInv ==
    ASSUME IInv, NEW w \in Workers, DrainThrows(w) \/ Crash(w) \/ Restart(w)
    PROVE  IInv'
<1>1. CASE DrainThrows(w) \/ Crash(w)
  BY <1>1, MoveIInv DEF DrainThrows, Crash, Forget, Fault, IInv, TypeOK, Telling, Labels
<1>2. CASE Restart(w)
  BY <1>2, MoveIInv DEF Restart, IInv, TypeOK, ToldOK, Telling, Labels
<1> QED BY <1>1, <1>2

LEMMA StepIInv == IInv /\ [Next]_vars => IInv'
<1> SUFFICES ASSUME IInv, [Next]_vars PROVE IInv'
  OBVIOUS
<1>1. CASE UNCHANGED vars
  BY <1>1 DEF vars, IInv, TypeOK, PositionOK, ToldOK, MailOK, Note, OpenOK,
              PublishedWasTold, MailedOnce, EmailedWasMailed
<1>2. CASE \E e \in Events : Commit(e)
  BY <1>2, CommitIInv
<1>3. ASSUME NEW w \in Workers, Advance(w) \/ Break(w) PROVE IInv'
  BY <1>3, TakeIInv, RecordIInv, MarkPublishedIInv, RaiseIInv, MailIInv, NextPersonIInv,
     RecordMailIInv, StatementThrowsIInv, FaultIInv DEF Advance, Break
<1>4. ASSUME NEW p \in People, OpenNote(p) \/ MarkRead(p) \/ MarkAllRead(p) PROVE IInv'
  BY <1>4, ReaderIInv
<1> QED BY <1>1, <1>2, <1>3, <1>4 DEF Next

LEMMA Invariant == Spec => []IInv
  BY InitIInv, StepIInv, PTL DEF Spec

-----------------------------------------------------------------------------
\* The tables and the workers keep their types.
THEOREM TypeCorrect == Spec => []TypeOK
  BY Invariant, PTL DEF IInv

\* markPublished is reached only with everybody told, however the event got
\* there (OutboxPublisher.drain).
THEOREM PublishedAfterTelling == Spec => []PublishedWasTold
  BY Invariant, PTL DEF IInv

\* At-least-once delivery with a unique row is at-most-once email (Notify.send).
THEOREM NobodyMailedTwice == Spec => []MailedOnce
  BY Invariant, PTL DEF IInv

\* emailed_at is never set for an email that did not go (Notification.markEmailed).
THEOREM RecordsAreTrue == Spec => []EmailedWasMailed
  BY Invariant, PTL DEF IInv

\* What the outbox and the notifications record is true: published was told to
\* everybody, emailed was mailed, and nobody was mailed twice.
THEOREM WhatIsRecordedIsTrue == Spec => []RecordsTellTrue
  BY TypeCorrect, PublishedAfterTelling, NobodyMailedTwice, RecordsAreTrue, PTL
     DEF RecordsTellTrue

HIDE OutboxAssumption

-----------------------------------------------------------------------------
(* A conversation: what a handler has in memory, and who else is at work.  *)

\* However handlers overlap: a delivery has a message in hand, what it decides
\* about is stored and was not decided about, and its copy can be answered.
HandlerOK(h) ==
    /\ at[h] \in {"starting", "storing", "deciding"} => h \in Webhooks
    /\ h \in Webhooks /\ at[h] # "idle" => handles[h] \in Messages
    /\ at[h] \in {"storing", "deciding", "saving"} => copy[h].id # NoId
    /\ at[h] = "deciding" =>
          /\ handles[h] \in held /\ decided[handles[h]] = 0
          /\ copy[h].wrote /\ (copy[h].handling = "closed" => copy[h].optedOut)
          /\ \A g \in Handlers : at[g] = "deciding" /\ handles[g] = handles[h] => g = h

\* In turn: what is in memory agrees with the row about who may speak.
CopyAgrees(h) ==
    /\ at[h] = "starting" => row.id = NoId
    /\ at[h] = "storing" => copy[h] = row
    /\ at[h] = "deciding" =>
          /\ copy[h].optedOut = row.optedOut
          /\ row.handling = "human" => copy[h].handling = "human"
    /\ at[h] = "saving" =>
          /\ row.optedOut => copy[h].optedOut \/ (h \in Webhooks /\ says[h] = "start")
          /\ h \in Webhooks /\ row.handling = "human" =>
                copy[h].handling = "human" \/ says[h] \in {"stop", "start"}

HandlersInTurn ==
    /\ \A g, h \in Handlers : at[g] # "idle" /\ at[h] # "idle" => g = h
    /\ \A h \in Handlers : CopyAgrees(h)

ConversationInv ==
    /\ ConversationTypeOK /\ orderly \in BOOLEAN /\ listed \in BOOLEAN
    /\ decided \in [Messages -> {0, 1}]
    /\ \A m \in Messages \ held : decided[m] = 0
    /\ row.id = NoId => row = NoRow
    /\ \A h \in Handlers : HandlerOK(h)
    /\ orderly => HandlersInTurn

\* What the proofs use of the constants.
LEMMA Distinct ==
  /\ Webhooks \cap Members = {} /\ Nobody \notin Members /\ NoId \notin Webhooks
  /\ Accountant \in Members \cup {Nobody} /\ OnDuty \in Members \cup {Nobody}
  /\ MaxCrashes \in Nat /\ MaxActs \in Nat /\ RacingActs \in 0 .. MaxActs
  BY ConversationAssumption

\* Deliveries and members of staff are the handlers.
LEMMA EachIsHandler == (\A w \in Webhooks : w \in Handlers) /\ (\A p \in Members : p \in Handlers \ Webhooks)
  BY Distinct DEF Handlers

LEMMA ConversationStart == ConversationInit => ConversationInv
<1> SUFFICES ASSUME ConversationInit PROVE ConversationInv
  OBVIOUS
<1>1. NoRow \in Rows /\ NoRow.id = NoId /\ CheckHolds(NoRow)
  BY DEF NoRow, Rows, Handling, CheckHolds
<1> QED BY <1>1, Distinct DEF ConversationInit, ConversationInv, ConversationTypeOK, HandlerOK, HandlersInTurn,
           CopyAgrees

\* The aggregate's transitions give rows that pass the CHECK and keep the id.
LEMMA TakenOverIs ==
  ASSUME NEW c \in Rows, CheckHolds(c), NEW p \in Members \cup {Nobody}
  PROVE  /\ TakenOverIfAny(c, p) \in Rows /\ CheckHolds(TakenOverIfAny(c, p))
         /\ TakenOverIfAny(c, p).id = c.id /\ TakenOverIfAny(c, p).optedOut = c.optedOut
         /\ c.handling = "human" => TakenOverIfAny(c, p).handling = "human"
<1>1. CASE TakenOverIfAny(c, p) = c
  BY <1>1
<1>2. CASE p # Nobody /\ TakenOverIfAny(c, p) = [c EXCEPT !.handling = "human", !.assigned = p, !.streak = 0]
  BY <1>2, 0 \in 0 .. 2 DEF Rows, Handling, CheckHolds
<1> QED BY <1>1, <1>2 DEF TakenOverIfAny, TakenOver

LEMMA ChangedIs ==
  ASSUME NEW c \in Rows, CheckHolds(c)
  PROVE  /\ WithInbound(c) \in Rows /\ CheckHolds(WithInbound(c))
         /\ HandedBack(c) \in Rows /\ CheckHolds(HandedBack(c))
         /\ OptedOut(c) \in Rows /\ CheckHolds(OptedOut(c))
         /\ OptedBackIn(c) \in Rows /\ CheckHolds(OptedBackIn(c))
         /\ \A n \in 0 .. 2 : [c EXCEPT !.streak = n] \in Rows /\ CheckHolds([c EXCEPT !.streak = n])
         /\ [c EXCEPT !.matched = TRUE] \in Rows /\ CheckHolds([c EXCEPT !.matched = TRUE])
<1>1. WithInbound(c) \in Rows /\ CheckHolds(WithInbound(c))
  BY DEF WithInbound, Rows, Handling, CheckHolds
<1>2. HandedBack(c) \in Rows /\ CheckHolds(HandedBack(c))
  BY DEF HandedBack, Rows, Handling, CheckHolds
<1>3. OptedOut(c) \in Rows /\ CheckHolds(OptedOut(c))
  BY DEF OptedOut, Rows, Handling, CheckHolds
<1>4. OptedBackIn(c) \in Rows /\ CheckHolds(OptedBackIn(c))
  BY DEF OptedBackIn, Rows, Handling, CheckHolds
<1>5. \A n \in 0 .. 2 : [c EXCEPT !.streak = n] \in Rows /\ CheckHolds([c EXCEPT !.streak = n])
  BY DEF Rows, Handling, CheckHolds
<1>6. [c EXCEPT !.matched = TRUE] \in Rows /\ CheckHolds([c EXCEPT !.matched = TRUE])
  BY DEF Rows, Handling, CheckHolds
<1> QED BY <1>1, <1>2, <1>3, <1>4, <1>5, <1>6

\* What the bot may make of a message k over the conversation c.
Sound(c, k, o) ==
    /\ o.after \in Rows /\ CheckHolds(o.after) /\ o.after.id = c.id
    /\ o.replies \in BOOLEAN
    /\ c.wrote /\ (c.handling = "closed" => c.optedOut) /\ ~ o.replies /\ o.tells = Nobody =>
          (c.optedOut <=> k # "start")
    /\ c.optedOut => o.after.optedOut \/ k = "start"
    /\ c.optedOut /\ o.replies => k = "start"
    /\ c.handling = "human" =>
          /\ o.after.handling = "human" \/ k \in {"stop", "start"}
          /\ o.replies => k \in {"stop", "start"}

\* A reply from a conversation the bot has: only an opt-out can keep it quiet.
LEMMA PlainAnswer ==
  ASSUME NEW c \in Rows, CheckHolds(c), c.handling = "bot", NEW k, ~ (k = "start" /\ c.optedOut),
         NEW after \in Rows, CheckHolds(after), after.id = c.id, after.optedOut = c.optedOut,
         NEW tells
  PROVE  Sound(c, k, Outcome(after, MaySend(c), tells))
  BY DEF Sound, Outcome, MaySend, Rows, Handling

LEMMA HandOverIs ==
  ASSUME NEW c \in Rows, CheckHolds(c), c.handling = "bot", NEW k, ~ (k = "start" /\ c.optedOut),
         NEW d \in Rows, CheckHolds(d), d.id = c.id, d.optedOut = c.optedOut, MaySend(d) = MaySend(c)
  PROVE  Sound(c, k, HandOver(d))
<1>1. Picked(d) \in Members \cup {Nobody}
  BY Distinct DEF Picked
<1>2. /\ TakenOverIfAny(d, Picked(d)) \in Rows /\ CheckHolds(TakenOverIfAny(d, Picked(d)))
      /\ TakenOverIfAny(d, Picked(d)).id = c.id /\ TakenOverIfAny(d, Picked(d)).optedOut = c.optedOut
  BY <1>1, TakenOverIs
<1>3. Sound(c, k, Outcome(TakenOverIfAny(d, Picked(d)), MaySend(c), Picked(d)))
  BY <1>2, PlainAnswer
<1> QED BY <1>3 DEF HandOver

LEMMA AnswerIs ==
  ASSUME NEW c \in Rows, CheckHolds(c), c.handling = "bot", NEW k, ~ (k = "start" /\ c.optedOut)
  PROVE  Sound(c, k, Answer(c, k))
<1>1. ASSUME NEW n \in 0 .. 2
      PROVE  /\ [c EXCEPT !.streak = n] \in Rows /\ CheckHolds([c EXCEPT !.streak = n])
             /\ [c EXCEPT !.streak = n].id = c.id /\ [c EXCEPT !.streak = n].optedOut = c.optedOut
             /\ MaySend([c EXCEPT !.streak = n]) = MaySend(c)
  <2>1. [c EXCEPT !.streak = n] \in Rows /\ CheckHolds([c EXCEPT !.streak = n])
    BY ChangedIs
  <2> QED BY <2>1 DEF Rows, MaySend
<1>2. Followed(c) = [c EXCEPT !.streak = 0]
  BY DEF Followed
<1>3. Sound(c, k, HandOver(c)) /\ \A n \in 0 .. 2 : Sound(c, k, HandOver([c EXCEPT !.streak = n]))
  BY <1>1, HandOverIs
<1>4. \A n \in 0 .. 2 : Sound(c, k, Outcome([c EXCEPT !.streak = n], MaySend(c), Nobody))
  BY <1>1, PlainAnswer
<1> QED BY <1>2, <1>3, <1>4 DEF Answer

\* What decide makes of a message is sound.
LEMMA OutcomesAre ==
  ASSUME NEW c \in Rows, CheckHolds(c), NEW k, NEW o \in Outcomes(c, k)
  PROVE  Sound(c, k, o)
<1>1. CASE k = "stop"
  <2>1. OptedOut(c) \in Rows /\ CheckHolds(OptedOut(c))
    BY ChangedIs
  <2>2. OptedOut(c).id = c.id /\ OptedOut(c).optedOut
    BY DEF OptedOut, Rows
  <2>3. o = Outcome(OptedOut(c), MaySend(c), Nobody)
    BY <1>1 DEF Outcomes, HonourStop
  <2> QED BY <1>1, <2>1, <2>2, <2>3 DEF Sound, Outcome, MaySend, Rows
<1>2. CASE k = "start" /\ c.optedOut
  <2>1. OptedBackIn(c) \in Rows /\ CheckHolds(OptedBackIn(c))
    BY ChangedIs
  <2>2. OptedBackIn(c).id = c.id /\ ~ OptedBackIn(c).optedOut /\ OptedBackIn(c).handling = "bot"
        /\ OptedBackIn(c).wrote = c.wrote
    BY DEF OptedBackIn, Rows
  <2>3. o = Outcome(OptedBackIn(c), MaySend(OptedBackIn(c)), Nobody)
    BY <1>2 DEF Outcomes, HonourStart
  <2> QED BY <1>2, <2>1, <2>2, <2>3 DEF Sound, Outcome, MaySend, Rows
<1>3. CASE k # "stop" /\ ~ (k = "start" /\ c.optedOut) /\ c.handling # "bot"
  <2>1. o = Outcome(c, FALSE, c.assigned)
    BY <1>3 DEF Outcomes, BotMaySpeak
  <2> QED BY <1>3, <2>1 DEF Sound, Outcome, CheckHolds, Rows, Handling
<1>4. CASE k # "stop" /\ ~ (k = "start" /\ c.optedOut) /\ c.handling = "bot"
  <2>1. o \in TakeTheFile(c) \/ o = HandOver(c) \/ (k = "start" /\ o = Outcome(c, FALSE, Nobody))
        \/ o = Answer(c, k)
    BY <1>4 DEF Outcomes, BotMaySpeak
  <2>2. ASSUME o \in TakeTheFile(c) PROVE Sound(c, k, o)
    <3>1. PICK p \in Members \cup {Nobody} : \/ o = Outcome(TakenOverIfAny(c, p), MaySend(c), Nobody)
                                             \/ o = Outcome(Followed(c), MaySend(c), Nobody)
      BY <2>2, Distinct DEF TakeTheFile
    <3>2. /\ TakenOverIfAny(c, p) \in Rows /\ CheckHolds(TakenOverIfAny(c, p))
          /\ TakenOverIfAny(c, p).id = c.id /\ TakenOverIfAny(c, p).optedOut = c.optedOut
      BY TakenOverIs
    <3>3. Followed(c) \in Rows /\ CheckHolds(Followed(c))
      BY ChangedIs, 0 \in 0 .. 2, Zenon DEF Followed
    <3>4. Followed(c).id = c.id /\ Followed(c).optedOut = c.optedOut
      BY DEF Followed, Rows
    <3> QED BY <1>4, <3>1, <3>2, <3>3, <3>4, PlainAnswer
  <2>3. Sound(c, k, HandOver(c)) /\ Sound(c, k, Answer(c, k))
    BY <1>4, HandOverIs, AnswerIs
  <2>4. k = "start" => Sound(c, k, Outcome(c, FALSE, Nobody))
    BY <1>4 DEF Sound, Outcome, Rows, Handling
  <2> QED BY <2>1, <2>2, <2>3, <2>4
<1> QED BY <1>1, <1>2, <1>3, <1>4

\* What one handler does in its turn leaves the rest idle.
LEMMA TurnKeeps ==
  ASSUME ConversationInv, orderly, NEW h \in Handlers, at[h] # "idle" \/ \A g \in Handlers : at[g] = "idle",
         \A g \in Handlers \ {h} : at'[g] = at[g], CopyAgrees(h)'
  PROVE  HandlersInTurn'
<1>1. \A g \in Handlers \ {h} : at'[g] = "idle"
  BY DEF ConversationInv, HandlersInTurn
<1>2. \A g \in Handlers \ {h} : CopyAgrees(g)'
  BY <1>1 DEF CopyAgrees
<1> QED BY <1>1, <1>2 DEF HandlersInTurn

\* Handlers that did nothing are as they were.
LEMMA OthersKeep ==
  ASSUME ConversationInv, NEW h \in Handlers, held \subseteq held',
         \A g \in Handlers \ {h} : at'[g] = at[g] /\ copy'[g] = copy[g] /\ handles'[g] = handles[g],
         \A g \in Handlers \ {h} : at[g] = "deciding" =>
             /\ decided'[handles[g]] = decided[handles[g]]
             /\ at'[h] = "deciding" => handles'[h] # handles[g]
  PROVE  \A g \in Handlers \ {h} : HandlerOK(g)'
<1> SUFFICES ASSUME NEW g \in Handlers \ {h} PROVE HandlerOK(g)'
  OBVIOUS
<1>1. HandlerOK(g)
  BY DEF ConversationInv
<1>2. ASSUME at'[g] = "deciding"
      PROVE  \A f \in Handlers : at'[f] = "deciding" /\ handles'[f] = handles'[g] => f = g
  <2> SUFFICES ASSUME NEW f \in Handlers, at'[f] = "deciding", handles'[f] = handles'[g] PROVE f = g
    OBVIOUS
  <2>1. f # h
    BY <1>2
  <2> QED BY <1>1, <1>2, <2>1 DEF HandlerOK
<1> QED BY <1>1, <1>2 DEF HandlerOK

\* What a delivery does keeps the invariant.
LEMMA FindKeeps ==
  ASSUME ConversationInv, NEW w \in Webhooks, NEW m \in Messages, NEW k \in Kinds, MetaDelivers(w, m, k)
  PROVE  ConversationInv'
<1>1. /\ at[w] = "idle" /\ (orderly => \A g \in Handlers : at[g] = "idle")
      /\ at' = [at EXCEPT ![w] = IF row.id = NoId THEN "starting" ELSE "storing"]
      /\ copy' = [copy EXCEPT ![w] = row] /\ handles' = [handles EXCEPT ![w] = m]
      /\ says' = [says EXCEPT ![w] = k] /\ said' = [said EXCEPT ![m] = k]
      /\ UNCHANGED <<orderly, listed, row, held, did, decided, crashes, acts>>
  BY DEF MetaDelivers, FindConversation, MayStart
<1>2. w \in Handlers
  BY EachIsHandler
<1>3. ConversationTypeOK'
  BY <1>1, <1>2 DEF ConversationInv, ConversationTypeOK
<1>4. \A g \in Handlers \ {w} : at'[g] = at[g] /\ copy'[g] = copy[g] /\ handles'[g] = handles[g]
  BY <1>1 DEF ConversationInv, ConversationTypeOK
<1>5. /\ at'[w] = IF row.id = NoId THEN "starting" ELSE "storing"
      /\ copy'[w] = row /\ handles'[w] = m
  BY <1>1, <1>2 DEF ConversationInv, ConversationTypeOK
<1>6. HandlerOK(w)'
  BY <1>5 DEF HandlerOK
<1>7. \A g \in Handlers \ {w} : HandlerOK(g)'
  BY <1>1, <1>2, <1>4, <1>5, OthersKeep
<1>8. CopyAgrees(w)'
  BY <1>1, <1>5 DEF CopyAgrees
<1>9. orderly => HandlersInTurn'
  BY <1>1, <1>2, <1>4, <1>8, TurnKeeps
<1> QED BY <1>1, <1>3, <1>6, <1>7, <1>9 DEF ConversationInv

LEMMA StartKeeps ==
  ASSUME ConversationInv, NEW w \in Webhooks, StartConversation(w)
  PROVE  ConversationInv'
<1> DEFINE c == Started(w, listed)
<1>1. c \in Rows /\ CheckHolds(c) /\ c.id = w /\ c.id # NoId
      /\ c.handling = "bot" /\ ~ c.optedOut
  <2>1. listed \in BOOLEAN
    BY DEF ConversationInv
  <2>2. NoRow \in Rows /\ NoRow.handling = "bot" /\ ~ NoRow.optedOut
    BY DEF NoRow, Rows, Handling
  <2> QED BY <2>1, <2>2, Distinct DEF Started, Rows, CheckHolds
<1>2. /\ at[w] = "starting" /\ at' = [at EXCEPT ![w] = "storing"] /\ copy' = [copy EXCEPT ![w] = c]
      /\ row' = [c EXCEPT !.id = IF row.id = NoId THEN c.id ELSE row.id]
      /\ UNCHANGED <<orderly, listed, held, said, handles, says, did, decided, crashes, acts>>
  BY DEF StartConversation, Save
<1> HIDE DEF c
<1>3. /\ row' \in Rows /\ CheckHolds(row') /\ row'.id # NoId
      /\ row.id = NoId => row' = c
  <2>1. row.id \in Webhooks \cup {NoId}
    BY DEF ConversationInv, ConversationTypeOK, Rows
  <2>2. row'.id # NoId /\ row'.handling = c.handling
    BY <1>1, <1>2, <2>1 DEF Rows
  <2>3. row' \in Rows /\ CheckHolds(row')
    BY <1>1, <1>2, <2>1 DEF Rows, CheckHolds
  <2>4. row.id = NoId => row' = c
    BY <1>1, <1>2 DEF Rows
  <2> QED BY <2>2, <2>3, <2>4
<1>4. w \in Handlers
  BY EachIsHandler
<1>5. ConversationTypeOK'
  BY <1>1, <1>2, <1>3, <1>4 DEF ConversationInv, ConversationTypeOK
<1>6. \A g \in Handlers \ {w} : at'[g] = at[g] /\ copy'[g] = copy[g]
  BY <1>2 DEF ConversationInv, ConversationTypeOK
<1>7. at'[w] = "storing" /\ copy'[w] = c
  BY <1>2, <1>4 DEF ConversationInv, ConversationTypeOK
<1>8. HandlerOK(w)'
  BY <1>1, <1>2, <1>4, <1>7 DEF HandlerOK, ConversationInv
<1>9. \A g \in Handlers \ {w} : HandlerOK(g)'
  BY <1>2, <1>4, <1>6, <1>7, OthersKeep
<1>10. orderly => CopyAgrees(w)'
  BY <1>2, <1>3, <1>4, <1>7 DEF CopyAgrees, ConversationInv, HandlersInTurn
<1>11. orderly => HandlersInTurn'
  BY <1>2, <1>4, <1>6, <1>10, TurnKeeps
<1> QED BY <1>2, <1>3, <1>5, <1>8, <1>9, <1>11 DEF ConversationInv

LEMMA StoreKeeps ==
  ASSUME ConversationInv, NEW w \in Webhooks, StoreMessage(w), CanStore(w) /\ ~ AlreadyHeld(handles[w])
  PROVE  ConversationInv'
<1> DEFINE c == WithInbound(copy[w])
<1>1. c \in Rows /\ CheckHolds(c)
  BY ChangedIs, EachIsHandler DEF ConversationInv, ConversationTypeOK
<1>2. /\ c.id = copy[w].id /\ c.wrote /\ c.optedOut = copy[w].optedOut
      /\ c.handling = "closed" => c.optedOut
      /\ copy[w].handling = "human" => c.handling = "human"
  <2>1. copy[w] \in Rows
    BY EachIsHandler DEF ConversationInv, ConversationTypeOK
  <2> QED BY <2>1 DEF WithInbound, Rows, Handling
<1>3. /\ at[w] = "storing" /\ at' = [at EXCEPT ![w] = "deciding"] /\ copy' = [copy EXCEPT ![w] = c]
      /\ held' = held \cup {handles[w]} /\ handles[w] \notin held
      /\ UNCHANGED <<orderly, listed, row, said, handles, says, did, decided, crashes, acts>>
  BY DEF StoreMessage, AlreadyHeld
<1> HIDE DEF c
<1>4. w \in Handlers
  BY EachIsHandler
<1>5. handles[w] \in Messages /\ decided[handles[w]] = 0 /\ copy[w].id # NoId
  BY <1>3, <1>4 DEF ConversationInv, HandlerOK
<1>6. ConversationTypeOK'
  BY <1>1, <1>3, <1>4, <1>5 DEF ConversationInv, ConversationTypeOK
<1>7. \A g \in Handlers \ {w} : at'[g] = at[g] /\ copy'[g] = copy[g]
  BY <1>3 DEF ConversationInv, ConversationTypeOK
<1>8. at'[w] = "deciding" /\ copy'[w] = c
  BY <1>3, <1>4 DEF ConversationInv, ConversationTypeOK
<1>9. \A g \in Handlers : at[g] = "deciding" => handles[g] \in held
  BY DEF ConversationInv, HandlerOK
<1>10. HandlerOK(w)'
  BY <1>2, <1>3, <1>4, <1>5, <1>7, <1>8, <1>9 DEF HandlerOK
<1>11. \A g \in Handlers \ {w} : HandlerOK(g)'
  BY <1>3, <1>4, <1>7, <1>9, OthersKeep
<1>12. orderly => CopyAgrees(w)'
  BY <1>2, <1>3, <1>4, <1>8 DEF CopyAgrees, ConversationInv, HandlersInTurn
<1>13. orderly => HandlersInTurn'
  BY <1>3, <1>4, <1>7, <1>12, TurnKeeps
<1> QED BY <1>3, <1>6, <1>10, <1>11, <1>13 DEF ConversationInv

LEMMA DecideKeeps ==
  ASSUME ConversationInv, NEW w \in Webhooks, Decide(w)
  PROVE  ConversationInv'
<1>1. PICK o \in Outcomes(copy[w], says[w]) :
         /\ copy' = [copy EXCEPT ![w] = o.after]
         /\ did' = [did EXCEPT ![w] = IF o.replies THEN "replied"
                                     ELSE IF o.tells # Nobody THEN "told" ELSE "kept quiet"]
  BY DEF Decide
<1>2. Sound(copy[w], says[w], o)
  <2>1. copy[w] \in Rows /\ CheckHolds(copy[w])
    BY EachIsHandler DEF ConversationInv, ConversationTypeOK
  <2> QED BY <2>1, OutcomesAre
<1>3. /\ at[w] = "deciding" /\ at' = [at EXCEPT ![w] = "saving"]
      /\ decided' = [decided EXCEPT ![handles[w]] = @ + 1]
      /\ UNCHANGED <<orderly, listed, row, held, said, handles, says, crashes, acts>>
  BY DEF Decide
<1>4. w \in Handlers
  BY EachIsHandler
<1>5. handles[w] \in held /\ decided[handles[w]] = 0 /\ copy[w].id # NoId /\ handles[w] \in Messages
  BY <1>3, <1>4 DEF ConversationInv, HandlerOK
<1>6. ConversationTypeOK'
  BY <1>1, <1>2, <1>3, <1>4 DEF Sound, ConversationInv, ConversationTypeOK
<1>7. /\ decided' \in [Messages -> {0, 1}]
      /\ \A m \in Messages \ {handles[w]} : decided'[m] = decided[m]
  BY <1>3, <1>5 DEF ConversationInv
<1>8. \A g \in Handlers \ {w} : at'[g] = at[g] /\ copy'[g] = copy[g]
  BY <1>1, <1>3 DEF ConversationInv, ConversationTypeOK
<1>9. at'[w] = "saving" /\ copy'[w] = o.after
  BY <1>1, <1>3, <1>4 DEF ConversationInv, ConversationTypeOK
<1>10. HandlerOK(w)'
  BY <1>2, <1>3, <1>4, <1>5, <1>9 DEF HandlerOK, Sound
<1>11. \A g \in Handlers \ {w} : at[g] = "deciding" => handles[g] # handles[w] /\ handles[g] \in Messages
  BY <1>3, <1>4 DEF ConversationInv, HandlerOK, ConversationTypeOK
<1>12. \A g \in Handlers \ {w} : HandlerOK(g)'
  BY <1>3, <1>4, <1>7, <1>8, <1>9, <1>11, OthersKeep
<1>13. orderly => CopyAgrees(w)'
  <2>1. orderly => CopyAgrees(w)
    BY <1>4 DEF ConversationInv, HandlersInTurn
  <2>2. row \in Rows /\ copy[w] \in Rows /\ o.after \in Rows
    BY <1>2, <1>4 DEF ConversationInv, ConversationTypeOK, Sound
  <2>3. orderly =>
          /\ row.optedOut => o.after.optedOut \/ says[w] = "start"
          /\ row.handling = "human" => o.after.handling = "human" \/ says[w] \in {"stop", "start"}
    BY <1>2, <1>3, <2>1, <2>2 DEF CopyAgrees, Sound, Rows
  <2> QED BY <1>3, <1>4, <1>9, <2>3 DEF CopyAgrees
<1>14. orderly => HandlersInTurn'
  BY <1>3, <1>4, <1>8, <1>13, TurnKeeps
<1>15. \A m \in Messages \ held : decided'[m] = 0
  BY <1>5, <1>7 DEF ConversationInv
<1> QED BY <1>3, <1>6, <1>7, <1>10, <1>12, <1>14, <1>15 DEF ConversationInv

\* A handler that rests has nothing in memory.
AtRest(h) ==
         /\ at' \in [Handlers -> {"idle", "starting", "storing", "deciding", "saving"}]
         /\ copy' \in [Handlers -> Rows] /\ (\A g \in Handlers : CheckHolds(copy'[g]))
         /\ handles' \in [Handlers -> Messages \cup {NoMessage}]
         /\ says' \in [Handlers -> Kinds \cup {"nothing"}]
         /\ did' \in [Handlers -> {"nothing", "replied", "told", "kept quiet"}]
         /\ at'[h] = "idle"
         /\ \A g \in Handlers \ {h} : /\ at'[g] = at[g] /\ copy'[g] = copy[g]
                                     /\ handles'[g] = handles[g] /\ says'[g] = says[g]

LEMMA RestsIs ==
  ASSUME ConversationInv, NEW h \in Handlers, Rests(h)
  PROVE  AtRest(h)
<1>1. NoRow \in Rows /\ CheckHolds(NoRow)
  BY DEF NoRow, Rows, Handling, CheckHolds
<1> QED BY <1>1 DEF Rests, ConversationInv, ConversationTypeOK, AtRest

\* Saving a copy puts it in the row, under the id the row has.
Saved(h) ==
    /\ row' \in Rows /\ CheckHolds(row') /\ row'.id # NoId
    /\ row'.optedOut = copy[h].optedOut /\ row'.handling = copy[h].handling

LEMMA SaveIs ==
  ASSUME ConversationInv, NEW h \in Handlers, at[h] = "saving", Save(copy[h])
  PROVE  Saved(h)
<1> DEFINE c == copy[h]
<1>1. c \in Rows /\ CheckHolds(c) /\ c.id # NoId /\ row.id \in Webhooks \cup {NoId}
  BY DEF ConversationInv, ConversationTypeOK, HandlerOK, Rows
<1>2. row' = [c EXCEPT !.id = IF row.id = NoId THEN c.id ELSE row.id]
  BY DEF Save
<1> HIDE DEF c
<1>3. row' \in Rows /\ CheckHolds(row')
  BY <1>1, <1>2 DEF Rows, CheckHolds
<1>4. row'.id # NoId /\ row'.optedOut = c.optedOut /\ row'.handling = c.handling
  BY <1>1, <1>2 DEF Rows
<1> QED BY <1>3, <1>4 DEF Saved, c

\* Whoever ends leaves the others as they were.
LEMMA EndKeeps ==
  ASSUME ConversationInv, NEW h \in Handlers, at[h] # "idle", AtRest(h), row' = row \/ Saved(h),
         said' \in [Messages -> Kinds \cup {"nothing", "acked"}],
         crashes' \in 0 .. MaxCrashes, UNCHANGED <<orderly, listed, held, decided, acts>>
  PROVE  ConversationInv'
<1>1. ConversationTypeOK'
  BY DEF ConversationInv, ConversationTypeOK, AtRest, Saved
<1>2. HandlerOK(h)' /\ CopyAgrees(h)'
  BY DEF HandlerOK, CopyAgrees, AtRest
<1>3. \A g \in Handlers \ {h} : at'[g] = at[g] /\ copy'[g] = copy[g] /\ handles'[g] = handles[g]
  BY DEF AtRest
<1>4. \A g \in Handlers \ {h} : HandlerOK(g)'
  BY <1>3, OthersKeep DEF AtRest
<1>5. orderly => HandlersInTurn'
  BY <1>2, <1>3, TurnKeeps
<1>6. row'.id = NoId => row' = NoRow
  BY DEF ConversationInv, Saved
<1> QED BY <1>1, <1>2, <1>4, <1>5, <1>6 DEF ConversationInv

LEMMA SavedKeeps ==
  ASSUME ConversationInv, NEW h \in Handlers, at[h] = "saving", Save(copy[h]), Rests(h),
         said' \in [Messages -> Kinds \cup {"nothing", "acked"}],
         UNCHANGED <<orderly, listed, held, decided, crashes, acts>>
  PROVE  ConversationInv'
<1>1. Saved(h) /\ AtRest(h)
  BY SaveIs, RestsIs
<1>2. crashes' \in 0 .. MaxCrashes
  BY DEF ConversationInv, ConversationTypeOK
<1> QED BY <1>1, <1>2, EndKeeps

\* A message that is there already is answered and left.
LEMMA DuplicateKeeps ==
  ASSUME ConversationInv, NEW w \in Webhooks, StoreMessage(w), ~ (CanStore(w) /\ ~ AlreadyHeld(handles[w]))
  PROVE  ConversationInv'
<1>1. w \in Handlers /\ at[w] # "idle" /\ Acknowledge(w) /\ UNCHANGED <<held, orderly, listed, row, decided, crashes, acts>>
  BY EachIsHandler DEF StoreMessage
<1>2. AtRest(w)
  BY <1>1, RestsIs DEF Acknowledge
<1>3. said' \in [Messages -> Kinds \cup {"nothing", "acked"}] /\ crashes' \in 0 .. MaxCrashes
  BY <1>1 DEF Acknowledge, ConversationInv, ConversationTypeOK
<1> QED BY <1>1, <1>2, <1>3, EndKeeps

LEMMA DiesKeeps ==
  ASSUME ConversationInv, NEW w \in Webhooks, HandlerDies(w)
  PROVE  ConversationInv'
<1>1. w \in Handlers /\ AtRest(w)
  BY EachIsHandler, RestsIs DEF HandlerDies
<1>2. crashes \in 0 .. MaxCrashes /\ crashes < MaxCrashes /\ crashes' = crashes + 1
  BY DEF HandlerDies, ConversationInv, ConversationTypeOK
<1>3. crashes' \in 0 .. MaxCrashes
  BY <1>2, Distinct
<1>4. said' \in [Messages -> Kinds \cup {"nothing", "acked"}]
  BY DEF HandlerDies, ConversationInv, ConversationTypeOK
<1> QED BY <1>1, <1>3, <1>4, EndKeeps DEF HandlerDies

\* What staff do reads the row as it is.
LEMMA TakesKeeps ==
  ASSUME ConversationInv, NEW p \in Members, NEW after \in Rows, CheckHolds(after), after.id = row.id,
         row.optedOut => after.optedOut, Takes(p, after)
  PROVE  ConversationInv'
<1>1. /\ at[p] = "idle" /\ orderly => \A g \in Handlers : at[g] = "idle"
      /\ row.id # NoId
      /\ at' = [at EXCEPT ![p] = "saving"] /\ copy' = [copy EXCEPT ![p] = after]
      /\ UNCHANGED <<orderly, listed, row, held, said, handles, says, did, decided, crashes>>
  BY DEF Takes, MayAct, MayStart
<1>2. p \in Handlers \ Webhooks
  BY EachIsHandler
<1>3. acts' \in 0 .. MaxActs
  <2>1. /\ acts \in 0 .. MaxActs /\ acts' = acts + 1
        /\ acts < IF orderly THEN MaxActs ELSE RacingActs
    BY DEF Takes, MayAct, ConversationInv, ConversationTypeOK
  <2> QED BY <2>1, Distinct
<1>4. ConversationTypeOK'
  BY <1>1, <1>2, <1>3 DEF ConversationInv, ConversationTypeOK
<1>5. \A g \in Handlers \ {p} : at'[g] = at[g] /\ copy'[g] = copy[g]
  BY <1>1 DEF ConversationInv, ConversationTypeOK
<1>6. at'[p] = "saving" /\ copy'[p] = after
  BY <1>1, <1>2 DEF ConversationInv, ConversationTypeOK
<1>7. HandlerOK(p)' /\ CopyAgrees(p)'
  <2>1. after.id # NoId /\ row' = row
    BY <1>1
  <2> QED BY <1>2, <1>6, <2>1 DEF HandlerOK, CopyAgrees
<1>8. \A g \in Handlers \ {p} : HandlerOK(g)'
  BY <1>1, <1>2, <1>5, <1>6, OthersKeep
<1>9. orderly => HandlersInTurn'
  BY <1>1, <1>2, <1>5, <1>7, TurnKeeps
<1> QED BY <1>1, <1>4, <1>7, <1>8, <1>9 DEF ConversationInv

LEMMA StaffKeeps ==
  ASSUME ConversationInv, NEW p \in Members, StaffStep(p)
  PROVE  ConversationInv'
<1> USE DEF ConversationInv, ConversationTypeOK
<1>1. CASE Writes(p) \/ TakesOver(p)
  <2>1. /\ TakenOverIfAny(row, p) \in Rows /\ CheckHolds(TakenOverIfAny(row, p))
        /\ TakenOverIfAny(row, p).id = row.id /\ TakenOverIfAny(row, p).optedOut = row.optedOut
    BY TakenOverIs
  <2>2. TakenOverIfAny(row, p) = TakenOver(row, p)
    <3>1. p # Nobody
      BY Distinct
    <3> QED BY <3>1, Zenon DEF TakenOverIfAny
  <2> QED BY <1>1, <2>1, <2>2, TakesKeeps DEF Writes, TakesOver
<1>2. CASE HandsBack(p)
  <2>1. HandedBack(row) \in Rows /\ CheckHolds(HandedBack(row))
    BY ChangedIs
  <2>2. HandedBack(row).id = row.id /\ HandedBack(row).optedOut = row.optedOut
    BY DEF HandedBack, Rows
  <2> QED BY <1>2, <2>1, <2>2, TakesKeeps DEF HandsBack
<1>3. CASE Identifies(p)
  <2> DEFINE after == [row EXCEPT !.matched = TRUE]
  <2>1. after \in Rows /\ CheckHolds(after)
    BY ChangedIs
  <2>2. after.id = row.id /\ after.optedOut = row.optedOut
    BY DEF Rows
  <2>3. Takes(p, after)
    BY <1>3 DEF Identifies
  <2> HIDE DEF after
  <2> QED BY <2>1, <2>2, <2>3, TakesKeeps
<1>4. CASE PersonSaves(p)
  BY <1>4, SavedKeeps, EachIsHandler DEF PersonSaves, ConversationInv, ConversationTypeOK
<1> QED BY <1>1, <1>2, <1>3, <1>4 DEF StaffStep

LEMMA WebhookSaves ==
  ASSUME ConversationInv, NEW w \in Webhooks, SaveConversation(w)
  PROVE  ConversationInv'
<1>1. said' \in [Messages -> Kinds \cup {"nothing", "acked"}]
  BY DEF SaveConversation, Acknowledge, ConversationInv, ConversationTypeOK
<1> QED BY <1>1, SavedKeeps, EachIsHandler DEF SaveConversation, Acknowledge

\* No step breaks the invariant.
LEMMA ConversationStep == ConversationInv /\ [ConversationNext]_conversationVars => ConversationInv'
<1> SUFFICES ASSUME ConversationInv, [ConversationNext]_conversationVars PROVE ConversationInv'
  OBVIOUS
<1>1. CASE UNCHANGED conversationVars
  BY <1>1 DEF ConversationInv, ConversationTypeOK, HandlerOK, HandlersInTurn, CopyAgrees, conversationVars
<1> QED BY <1>1, FindKeeps, StartKeeps, StoreKeeps, DuplicateKeeps, DecideKeeps, WebhookSaves, DiesKeeps, StaffKeeps
        DEF ConversationNext, WebhookGoesOn

-----------------------------------------------------------------------------
(* What a step may do about a message, and to who speaks.                  *)

HeardStep ==
    \A w \in Webhooks :
          did[w] # did'[w] /\ did'[w] = "kept quiet"
            => (copy[w].optedOut <=> says[w] # "start")

StopStep ==
    orderly /\ row.optedOut
         => /\ row'.optedOut \/ \E w \in Webhooks : at[w] = "saving" /\ says[w] = "start"
            /\ \A w \in Webhooks :
                  did'[w] = "replied" /\ did[w] # "replied" => says[w] = "start"

PersonStep ==
    orderly /\ row.handling = "human"
         => /\ \/ row'.handling = "human"
               \/ \E p \in Members : at[p] = "saving"
               \/ \E w \in Webhooks : at[w] = "saving" /\ says[w] \in {"stop", "start"}
            /\ \A w \in Webhooks :
                  did'[w] = "replied" /\ did[w] # "replied"
                    => says[w] \in {"stop", "start"}

ConversationMoves == HeardStep /\ StopStep /\ PersonStep

\* What the bot does about a message is done by deciding.
LEMMA DecideMoves ==
  ASSUME ConversationInv, NEW w \in Webhooks, Decide(w)
  PROVE  ConversationMoves
<1>1. PICK o \in Outcomes(copy[w], says[w]) :
         did' = [did EXCEPT ![w] = IF o.replies THEN "replied"
                                     ELSE IF o.tells # Nobody THEN "told" ELSE "kept quiet"]
  BY DEF Decide
<1>2. Sound(copy[w], says[w], o)
  <2>1. copy[w] \in Rows /\ CheckHolds(copy[w])
    BY EachIsHandler DEF ConversationInv, ConversationTypeOK
  <2> QED BY <2>1, OutcomesAre
<1>3. row' = row /\ \A v \in Webhooks \ {w} : did'[v] = did[v]
  BY <1>1, EachIsHandler DEF Decide, ConversationInv, ConversationTypeOK
<1>4. did'[w] = IF o.replies THEN "replied" ELSE IF o.tells # Nobody THEN "told" ELSE "kept quiet"
  BY <1>1, EachIsHandler DEF ConversationInv, ConversationTypeOK
<1>5. HandlerOK(w) /\ at[w] = "deciding" /\ (orderly => CopyAgrees(w))
  BY EachIsHandler DEF ConversationInv, Decide, HandlersInTurn
<1> QED BY <1>2, <1>3, <1>4, <1>5 DEF Sound, HandlerOK, CopyAgrees, ConversationMoves, HeardStep, StopStep, PersonStep

\* A save writes what was decided.
LEMMA SaveMoves ==
  ASSUME ConversationInv, NEW h \in Handlers, at[h] = "saving", Save(copy[h]), Rests(h)
  PROVE  ConversationMoves
<1>1. \A w \in Webhooks : did'[w] = did[w] \/ did'[w] = "nothing"
  BY EachIsHandler DEF Rests, ConversationInv, ConversationTypeOK
<1>2. orderly => CopyAgrees(h)
  BY DEF ConversationInv, HandlersInTurn
<1>3. Saved(h) /\ h \in Webhooks \cup Members
  BY SaveIs DEF Handlers
<1> QED BY <1>1, <1>2, <1>3 DEF CopyAgrees, Saved, ConversationMoves, HeardStep, StopStep, PersonStep

\* Nothing else touches the row, but the first save of a new one.
LEMMA OthersMove ==
  ASSUME ConversationInv, row' = row \/ (row.id = NoId /\ orderly) \/ ~ orderly,
         \A w \in Webhooks : did'[w] = did[w] \/ did'[w] = "nothing"
  PROVE  ConversationMoves
<1>1. row.id = NoId => ~ row.optedOut /\ row.handling = "bot"
  BY DEF ConversationInv, NoRow
<1> QED BY <1>1 DEF ConversationMoves, HeardStep, StopStep, PersonStep

LEMMA ConversationStepMoves == ConversationInv /\ [ConversationNext]_conversationVars => ConversationMoves
<1> SUFFICES ASSUME ConversationInv, [ConversationNext]_conversationVars PROVE ConversationMoves
  OBVIOUS
<1>1. CASE UNCHANGED conversationVars
  BY <1>1, OthersMove DEF conversationVars
<1>2. ASSUME NEW w \in Webhooks, NEW m \in Messages, NEW k \in Kinds, MetaDelivers(w, m, k)
      PROVE  ConversationMoves
  BY <1>2, OthersMove DEF MetaDelivers, FindConversation
<1>3. ASSUME NEW w \in Webhooks, StartConversation(w) PROVE ConversationMoves
  <2>1. orderly => row.id = NoId
    BY <1>3, EachIsHandler DEF ConversationInv, HandlersInTurn, CopyAgrees, StartConversation
  <2> QED BY <1>3, <2>1, OthersMove DEF StartConversation
<1>4. ASSUME NEW w \in Webhooks, StoreMessage(w) \/ HandlerDies(w) PROVE ConversationMoves
  <2>1. row' = row
    BY <1>4 DEF StoreMessage, HandlerDies
  <2>2. UNCHANGED did \/ Rests(w)
    BY <1>4 DEF StoreMessage, HandlerDies, Acknowledge
  <2>3. \A v \in Webhooks : did'[v] = did[v] \/ did'[v] = "nothing"
    BY <2>2, EachIsHandler DEF Rests, ConversationInv, ConversationTypeOK
  <2> QED BY <2>1, <2>3, OthersMove
<1>5. ASSUME NEW w \in Webhooks, SaveConversation(w) PROVE ConversationMoves
  BY <1>5, SaveMoves, EachIsHandler DEF SaveConversation, Acknowledge
<1>6. ASSUME NEW p \in Members, StaffStep(p) PROVE ConversationMoves
  <2>1. CASE PersonSaves(p)
    BY <2>1, SaveMoves, EachIsHandler DEF PersonSaves
  <2>2. CASE UNCHANGED <<row, did>>
    BY <2>2, OthersMove
  <2> QED BY <1>6, <2>1, <2>2 DEF StaffStep, Writes, TakesOver, HandsBack, Identifies, Takes
<1> QED BY <1>1, <1>2, <1>3, <1>4, <1>5, <1>6, DecideMoves DEF ConversationNext, WebhookGoesOn

\* Every message is decided about once and met with an answer or a person, STOP stands
\* until START, and a conversation a person has stays theirs, for any messages, deliveries
\* and members of staff (receive-message.ts, conversation.ts).
THEOREM ConversationHoldsForAny == ConversationSpec => ConversationHolds
<1>1. ConversationInv => ConversationTypeOK /\ DecidedOnce
  BY DEF ConversationInv, DecidedOnce
<1>2. ConversationSpec => []ConversationInv
  BY ConversationStart, ConversationStep, PTL DEF ConversationSpec
<1>3. ConversationInv /\ [ConversationNext]_conversationVars =>
        [HeardStep /\ StopStep /\ PersonStep]_conversationVars
  BY ConversationStepMoves DEF ConversationMoves
<1>4. ConversationSpec => [][HeardStep /\ StopStep /\ PersonStep]_conversationVars
  BY <1>2, <1>3, PTL DEF ConversationSpec
<1> QED
  <2>1. ConversationSpec => [](ConversationTypeOK /\ DecidedOnce)
    BY <1>1, <1>2, PTL
  <2>2. ConversationSpec => [][HeardStep]_conversationVars /\ [][StopStep]_conversationVars
                             /\ [][PersonStep]_conversationVars
    BY <1>4, PTL
  <2> QED BY <2>1, <2>2 DEF ConversationHolds, EveryoneIsHeard, WishesStand, StopStands, PersonHasIt,
             HeardStep, StopStep, PersonStep

-----------------------------------------------------------------------------
(* The receipts of what was sent.                                          *)

\* A message is known by Meta's id only when its sender is done with it; until then
\* it is queued, and nothing became of it before Meta was handed it.
SentOK(m) ==
    /\ sender[m] = "none" => shown[m] = "none"
    /\ shown[m] = "none" => sender[m] = "none" /\ happened[m] = {} /\ m \notin known
    /\ sender[m] \in {"queued", "sent", "failed"} => shown[m] = "queued" /\ m \notin known
    /\ sender[m] = "queued" => happened[m] = {}
    /\ sender[m] = "sent" => "sent" \in happened[m]
    /\ happened[m] # {} => "sent" \in happened[m]
    /\ shown[m] \in {"sent", "delivered", "read"} => shown[m] \in happened[m]

\* A receipt in hand is of a known message, of something that happened; what was read
\* of the row had happened, and is the row while receipts of one message take turns.
ReceiptOK(w) ==
    about[w] # NoSending =>
        /\ about[w] \in known
        /\ reports[w] \in Statuses /\ reports[w] \in happened[about[w]]
        /\ reads[w] # "none"
        /\ reads[w] \in {"sent", "delivered", "read"} => reads[w] \in happened[about[w]]
        /\ serial => /\ reads[w] = shown[about[w]]
                     /\ \A v \in Callbacks : about[v] = about[w] => v = w

ReceiptsInv ==
    /\ ReceiptsTypeOK
    /\ \A m \in Sendings : SentOK(m)
    /\ \A w \in Callbacks : ReceiptOK(w)

\* What a step may do to a status.
ForwardStep == serial => \A m \in Sendings : Progress(shown'[m]) >= Progress(shown[m])

USE DEF Statuses

LEMMA ProgressIs ==
  /\ Progress("none") = 0 /\ Progress("queued") = 1 /\ Progress("sent") = 2
  /\ Progress("delivered") = 3 /\ Progress("read") = 4 /\ Progress("failed") = 5
  BY DEF Progress

\* A status is a number of steps along the way.
LEMMA ProgressIsNat == \A s \in Statuses \cup {"none", "queued"} : Progress(s) \in Nat
  BY ProgressIs

LEMMA ReceiptsStart == ReceiptsInit => ReceiptsInv
  BY DEF ReceiptsInit, ReceiptsInv, ReceiptsTypeOK, SentOK, ReceiptOK

\* A step of one message leaves the others, and what callbacks have in hand of them.
LEMMA OneMessage ==
  ASSUME ReceiptsInv, ReceiptsTypeOK', NEW m \in Sendings, SentOK(m)', m \notin known \/ shown'[m] = shown[m],
         happened[m] \subseteq happened'[m], known \subseteq known',
         \A n \in Sendings \ {m} : /\ shown'[n] = shown[n] /\ happened'[n] = happened[n]
                                   /\ sender'[n] = sender[n] /\ (n \in known' => n \in known),
         UNCHANGED <<serial, about, reads, reports>>
  PROVE  ReceiptsInv'
<1>1. \A n \in Sendings : SentOK(n)'
  BY DEF ReceiptsInv, SentOK
<1>2. ASSUME NEW w \in Callbacks PROVE ReceiptOK(w)'
  <2>1. ReceiptOK(w)
    BY DEF ReceiptsInv
  <2>2. about[w] # NoSending => about[w] \in Sendings /\ about[w] \in known
    BY <2>1 DEF ReceiptOK, ReceiptsInv, ReceiptsTypeOK
  <2>3. about[w] # NoSending => shown'[about[w]] = shown[about[w]] /\ happened[about[w]] \subseteq happened'[about[w]]
    BY <2>2
  <2> QED BY <2>1, <2>2, <2>3 DEF ReceiptOK
<1> QED BY <1>1, <1>2 DEF ReceiptsInv

LEMMA SendsKeep ==
  ASSUME ReceiptsInv, NEW m \in Sendings, Sends(m) \/ SenderDies(m) \/ BecomesOf(m)
  PROVE  ReceiptsInv' /\ ForwardStep
<1> USE ProgressIs
<1>1. ReceiptsTypeOK /\ SentOK(m)
  BY DEF ReceiptsInv
<1>2. CASE WriteDown(m)
  <2>1. ReceiptsTypeOK' /\ SentOK(m)'
    BY <1>1, <1>2 DEF WriteDown, ReceiptsTypeOK, SentOK
  <2>2. m \notin known
    BY <1>1, <1>2 DEF WriteDown, SentOK
  <2>3. \A n \in Sendings \ {m} : shown'[n] = shown[n] /\ sender'[n] = sender[n]
    BY <1>1, <1>2 DEF WriteDown, ReceiptsTypeOK
  <2>4. Progress(shown'[m]) >= Progress(shown[m])
    BY <1>1, <1>2 DEF WriteDown, ReceiptsTypeOK
  <2>5. ForwardStep
    BY <1>1, <2>3, <2>4, ProgressIsNat DEF ForwardStep, ReceiptsTypeOK
  <2>6. ReceiptsInv'
    BY <1>2, <2>1, <2>2, <2>3, OneMessage DEF WriteDown
  <2> QED BY <2>5, <2>6
<1>3. CASE HandToMeta(m)
  <2>1. ReceiptsTypeOK' /\ SentOK(m)'
    BY <1>1, <1>3 DEF HandToMeta, ReceiptsTypeOK, SentOK
  <2>2. m \notin known /\ happened[m] = {}
    BY <1>1, <1>3 DEF HandToMeta, SentOK
  <2>3. \A n \in Sendings \ {m} : happened'[n] = happened[n] /\ sender'[n] = sender[n]
    BY <1>1, <1>3 DEF HandToMeta, ReceiptsTypeOK
  <2>5. ForwardStep
    BY <1>1, <1>3, ProgressIsNat DEF ForwardStep, ReceiptsTypeOK, HandToMeta
  <2>6. ReceiptsInv'
    BY <1>3, <2>1, <2>2, <2>3, OneMessage DEF HandToMeta
  <2> QED BY <2>5, <2>6
<1>4. CASE SaveSending(m)
  <2>1. shown[m] = "queued" /\ m \notin known
    BY <1>1, <1>4 DEF SaveSending, SentOK
  <2>2. /\ shown'[m] = sender[m] /\ shown' \in [Sendings -> Statuses \cup {"none", "queued"}]
        /\ \A n \in Sendings \ {m} : shown'[n] = shown[n] /\ sender'[n] = sender[n]
    BY <1>1, <1>4 DEF SaveSending, ReceiptsTypeOK, Advanced
  <2>3. known' = (IF sender[m] = "sent" THEN known \cup {m} ELSE known) /\ sender'[m] = "done"
    BY <1>1, <1>4 DEF SaveSending, ReceiptsTypeOK
  <2>4. ReceiptsTypeOK'
    BY <1>1, <1>4, <2>2, <2>3 DEF SaveSending, ReceiptsTypeOK, SentOK
  <2>5. SentOK(m)'
    BY <1>1, <1>4, <2>2, <2>3 DEF SaveSending, SentOK
  <2>6. ForwardStep
    BY <1>1, <1>4, <2>1, <2>2, ProgressIsNat DEF ForwardStep, ReceiptsTypeOK, SaveSending
  <2>7. ReceiptsInv'
    BY <1>4, <2>1, <2>2, <2>3, <2>4, <2>5, OneMessage DEF SaveSending
  <2> QED BY <2>6, <2>7
<1>5. CASE SenderDies(m)
  <2>1. ReceiptsTypeOK' /\ SentOK(m)'
    BY <1>1, <1>5 DEF SenderDies, ReceiptsTypeOK, SentOK
  <2>3. \A n \in Sendings \ {m} : sender'[n] = sender[n]
    BY <1>1, <1>5 DEF SenderDies, ReceiptsTypeOK
  <2>5. ForwardStep
    BY <1>1, <1>5, ProgressIsNat DEF ForwardStep, ReceiptsTypeOK, SenderDies
  <2>6. ReceiptsInv'
    BY <1>5, <2>1, <2>3, OneMessage DEF SenderDies
  <2> QED BY <2>5, <2>6
<1>6. CASE BecomesOf(m)
  <2>1. PICK s \in {"delivered", "read", "failed"} : happened' = [happened EXCEPT ![m] = @ \cup {s}]
    BY <1>6 DEF BecomesOf
  <2>2. happened'[m] = happened[m] \cup {s} /\ \A n \in Sendings \ {m} : happened'[n] = happened[n]
    BY <1>1, <2>1 DEF ReceiptsTypeOK
  <2>3. ReceiptsTypeOK' /\ SentOK(m)'
    BY <1>1, <1>6, <2>1, <2>2 DEF BecomesOf, ReceiptsTypeOK, SentOK
  <2>5. ForwardStep
    BY <1>1, <1>6, ProgressIsNat DEF ForwardStep, ReceiptsTypeOK, BecomesOf
  <2>6. ReceiptsInv'
    BY <1>6, <2>2, <2>3, OneMessage DEF BecomesOf
  <2> QED BY <2>5, <2>6
<1> QED BY <1>2, <1>3, <1>4, <1>5, <1>6 DEF Sends

LEMMA ReadKeeps ==
  ASSUME ReceiptsInv, NEW w \in Callbacks, NEW m \in Sendings, NEW s \in Statuses, ReadReceipt(w, m, s)
  PROVE  ReceiptsInv' /\ ForwardStep
<1>1. ReceiptsTypeOK /\ SentOK(m) /\ m # NoSending
  BY ReceiptsAssumption DEF ReceiptsInv
<1>2. ReceiptsTypeOK'
  BY <1>1 DEF ReadReceipt, ReceiptsTypeOK
<1>3. \A n \in Sendings : SentOK(n)'
  BY DEF ReceiptsInv, SentOK, ReadReceipt
<1>4. /\ about'[w] = m /\ reads'[w] = shown[m] /\ reports'[w] = s
      /\ \A v \in Callbacks \ {w} : about'[v] = about[v] /\ reads'[v] = reads[v] /\ reports'[v] = reports[v]
  BY <1>1 DEF ReadReceipt, ReceiptsTypeOK
<1>5. ReceiptOK(w)'
  BY <1>1, <1>4 DEF ReadReceipt, ReceiptOK, SentOK
<1>6. ASSUME NEW v \in Callbacks \ {w} PROVE ReceiptOK(v)'
  <2>1. ReceiptOK(v)
    BY DEF ReceiptsInv
  <2> QED BY <1>4, <2>1 DEF ReadReceipt, ReceiptOK
<1>7. ForwardStep
  BY <1>1, ProgressIsNat DEF ForwardStep, ReceiptsTypeOK, ReadReceipt
<1> QED BY <1>2, <1>3, <1>5, <1>6, <1>7 DEF ReceiptsInv

LEMMA ApplyKeeps ==
  ASSUME ReceiptsInv, NEW w \in Callbacks, ApplyReceipt(w)
  PROVE  ReceiptsInv' /\ ForwardStep
<1>0. ReceiptsTypeOK /\ ReceiptOK(w) /\ about[w] # NoSending
  BY DEF ReceiptsInv, ApplyReceipt
<1>m. PICK m \in Sendings : m = about[w]
  BY <1>0 DEF ReceiptsTypeOK
<1>s. PICK s : s = Advanced(reads[w], reports[w])
  OBVIOUS
<1>1. ReceiptsTypeOK /\ ReceiptOK(w) /\ m # NoSending
  BY <1>0, <1>m
<1>2. /\ m \in known /\ m \in Sendings /\ reports[w] \in Statuses /\ reports[w] \in happened[m]
      /\ reads[w] \in Statuses \cup {"queued"}
      /\ reads[w] \in {"sent", "delivered", "read"} => reads[w] \in happened[m]
      /\ serial => reads[w] = shown[m]
  BY <1>1, <1>m DEF ReceiptOK, ReceiptsTypeOK
<1>3. /\ s \in Statuses \cup {"queued"}
      /\ s \in {"sent", "delivered", "read"} => s \in happened[m]
      /\ Progress(s) >= Progress(reads[w])
  BY <1>2, <1>s, ProgressIs DEF Advanced
<1>4. /\ shown' = (IF s = reads[w] THEN shown ELSE [shown EXCEPT ![m] = s])
      /\ about' = [about EXCEPT ![w] = NoSending] /\ reads' = [reads EXCEPT ![w] = "none"]
      /\ reports' = [reports EXCEPT ![w] = "none"]
      /\ UNCHANGED <<serial, known, happened, sender>>
  BY <1>m, <1>s DEF ApplyReceipt
<1>5. /\ shown'[m] = (IF s = reads[w] THEN shown[m] ELSE s)
      /\ \A n \in Sendings \ {m} : shown'[n] = shown[n]
  BY <1>1, <1>2, <1>4 DEF ReceiptsTypeOK
<1>6. ReceiptsTypeOK'
  <2>1. shown' \in [Sendings -> Statuses \cup {"none", "queued"}]
    <3>1. CASE s = reads[w]
      BY <1>1, <1>4, <3>1 DEF ReceiptsTypeOK
    <3>2. CASE s # reads[w]
      <4>1. shown' = [shown EXCEPT ![m] = s]
        BY <1>4, <3>2
      <4>2. s \in Statuses \cup {"none", "queued"} /\ m \in Sendings
        BY <1>2, <1>3
      <4> QED BY <1>1, <4>1, <4>2 DEF ReceiptsTypeOK
    <3> QED BY <3>1, <3>2
  <2>2. /\ about' \in [Callbacks -> Sendings \cup {NoSending}]
        /\ reads' \in [Callbacks -> Statuses \cup {"none", "queued"}]
        /\ reports' \in [Callbacks -> Statuses \cup {"none"}]
    BY <1>1, <1>4 DEF ReceiptsTypeOK
  <2> QED BY <1>1, <1>4, <2>1, <2>2 DEF ReceiptsTypeOK
<1>7. sender[m] \notin {"none", "queued", "sent", "failed"} /\ shown[m] # "none" /\ SentOK(m)
  BY <1>2 DEF ReceiptsInv, SentOK
<1>8. SentOK(m)'
  <2>1. /\ sender'[m] = sender[m] /\ happened'[m] = happened[m] /\ m \in known'
        /\ shown'[m] # "none"
        /\ shown'[m] \in {"sent", "delivered", "read"} => shown'[m] \in happened[m]
    <3>1. sender' = sender /\ happened' = happened /\ known' = known
      BY <1>4
    <3>2. /\ s # "none"
          /\ s \in {"sent", "delivered", "read"} => s \in happened[m]
      BY <1>3
    <3>3. /\ shown[m] # "none"
          /\ shown[m] \in {"sent", "delivered", "read"} => shown[m] \in happened[m]
      BY <1>7 DEF SentOK
    <3>4. m \in known
      BY <1>2
    <3>5. shown'[m] = shown[m] \/ shown'[m] = s
      BY <1>5
    <3> QED BY <3>1, <3>2, <3>3, <3>4, <3>5
  <2> QED BY <1>7, <2>1 DEF SentOK
<1>9. \A n \in Sendings \ {m} : SentOK(n)'
  BY <1>4, <1>5 DEF ReceiptsInv, SentOK
<1>10. /\ about'[w] = NoSending
       /\ \A v \in Callbacks \ {w} : about'[v] = about[v] /\ reads'[v] = reads[v] /\ reports'[v] = reports[v]
  BY <1>1, <1>4 DEF ReceiptsTypeOK
<1>11. ASSUME NEW v \in Callbacks \ {w} PROVE ReceiptOK(v)'
  <2>1. ReceiptOK(v) /\ about[v] \in Sendings \cup {NoSending}
    BY <1>1 DEF ReceiptsInv, ReceiptsTypeOK
  <2>2. serial /\ about[v] # NoSending => about[v] # m
    BY <1>1, <1>m, <2>1 DEF ReceiptOK
  <2>3. serial /\ about[v] # NoSending => shown'[about[v]] = shown[about[v]]
    BY <1>5, <2>1, <2>2
  <2> QED BY <1>4, <1>10, <2>1, <2>3 DEF ReceiptOK
<1>12. \A v \in Callbacks : ReceiptOK(v)'
  BY <1>10, <1>11 DEF ReceiptOK
<1>13. ForwardStep
  <2>1. serial => Progress(shown'[m]) >= Progress(shown[m])
    BY <1>1, <1>2, <1>3, <1>5, ProgressIsNat DEF ReceiptsTypeOK
  <2> QED BY <1>1, <1>5, <2>1, ProgressIsNat DEF ForwardStep, ReceiptsTypeOK
<1>14. \A n \in Sendings : SentOK(n)'
  <2> SUFFICES ASSUME NEW n \in Sendings PROVE SentOK(n)'
    OBVIOUS
  <2>1. CASE n = m
    BY <1>8, <2>1
  <2>2. CASE n # m
    BY <1>9, <2>2
  <2> QED BY <2>1, <2>2
<1> QED BY <1>6, <1>12, <1>13, <1>14 DEF ReceiptsInv

LEMMA ReceiptsStep == ReceiptsInv /\ [ReceiptsNext]_receiptsVars => ReceiptsInv' /\ ForwardStep
<1> SUFFICES ASSUME ReceiptsInv, [ReceiptsNext]_receiptsVars PROVE ReceiptsInv' /\ ForwardStep
  OBVIOUS
<1>1. CASE UNCHANGED receiptsVars
  BY <1>1, ProgressIsNat DEF ReceiptsInv, ReceiptsTypeOK, SentOK, ReceiptOK, receiptsVars, ForwardStep
<1> QED BY <1>1, SendsKeep, ReadKeeps, ApplyKeeps DEF ReceiptsNext

\* What is shown of a message was told by Meta and only moves forwards, for any
\* messages and receipts at once (record-delivery.ts).
THEOREM ReceiptsTellTrueForAny == ReceiptsSpec => ReceiptsTellTrue
<1>1. ReceiptsInv => ReceiptsTypeOK /\
        \A m \in Sendings :
           /\ happened[m] # {} => shown[m] # "none"
           /\ shown[m] \in {"sent", "delivered", "read"} => shown[m] \in happened[m]
  BY DEF ReceiptsInv, SentOK
<1>2. ReceiptsSpec => []ReceiptsInv /\ [][ForwardStep]_receiptsVars
  BY ReceiptsStart, ReceiptsStep, PTL DEF ReceiptsSpec
<1> QED BY <1>1, <1>2, PTL DEF ReceiptsTellTrue, ForwardsOnly, ForwardStep
=============================================================================
