---------------------------- MODULE BillingProofs ----------------------------
(***************************************************************************)
(* Theorems about Billing for any number of entries, statements, invoices  *)
(* and requests. The first part assumes nothing of the requests; the second *)
(* assumes Guarded, that conflicting operations are not in flight together. *)
(* The third is about Screens: the pages that ask for such operations. The *)
(* fourth is about WorkingHours: which time is asked about before it is    *)
(* billed. The last is about Figures: what each place makes of an amount.  *)
(***************************************************************************)
EXTENDS Billing, Screens, WorkingHours, Figures, FiniteSetTheorems, WellFoundedInduction,
        TLAPS

USE BillingAssumption

-----------------------------------------------------------------------------
(* The inductive invariant of requests that may race.                      *)

\* Whoever has a number holds the lock it took it under, and the number is the
\* next one: nothing is committed between the two.
LockOK ==
    \A c \in Clerks :
        pc[c] = "numbered" =>
            numberLock = c /\ number[c] = nextNumber /\ nextNumber <= MaxInvoices

\* What a request works on exists.
PositionOK ==
    \A c \in Clerks :
        /\ pc[c] = "entry" => item[c] \in recorded
        /\ c \in reviewedCopy => pc[c] = "entry" /\ item[c] \in Flagged
        /\ pc[c] \in AtStatement =>
              target[c] \in Statements /\ state[target[c]] # "none"

\* A cancellation has in memory at least the entries its statement still has:
\* nothing is attached to a statement after it was made.
ReleaseCopyOK ==
    \A c \in Clerks : \A e \in Entries :
        pc[c] = "releasing" /\ on[e] = target[c] => e \in entriesCopy[c]

IInv ==
    /\ TypeOK
    /\ LockOK
    /\ PositionOK
    /\ ReleaseCopyOK
    /\ NumbersGapless
    /\ CancelledHoldsNothing
    /\ OnlyApprovedBilled

\* What the tables hold, for the steps that change none of them.
tables == <<timeVars, statementVars, invoiceVars>>

\* The invariant holds of empty tables and idle requests.
LEMMA InitIInv == Init => IInv
  BY DEF Init, IInv, TypeOK, LockOK, PositionOK, ReleaseCopyOK, NumbersGapless,
         CancelledHoldsNothing, OnlyApprovedBilled, States, Labels, AtStatement, Issued

-----------------------------------------------------------------------------
(* Every step keeps it, one lemma for each kind of step.                   *)

\* A request that ends leaves nothing in memory that could be wrong.
LEMMA ForgetOK ==
    ASSUME TypeOK, NEW c \in Clerks, Forget(c)
    PROVE  /\ pc' \in [Clerks -> Labels]
           /\ target' \in [Clerks -> Statements \cup {None}]
           /\ item' \in [Clerks -> Entries \cup {None}]
           /\ linesCopy' \in [Clerks -> SUBSET Keys]
           /\ entriesCopy' \in [Clerks -> SUBSET Entries]
           /\ approvedCopy' \subseteq Clerks
           /\ reviewedCopy' \subseteq Clerks
           /\ number' \in [Clerks -> 0 .. MaxInvoices]
           /\ pc'[c] = "idle"
           /\ \A d \in Clerks \ {c} :
                /\ pc'[d] = pc[d] /\ target'[d] = target[d] /\ item'[d] = item[d]
                /\ linesCopy'[d] = linesCopy[d] /\ entriesCopy'[d] = entriesCopy[d]
                /\ d \in approvedCopy' <=> d \in approvedCopy
                /\ d \in reviewedCopy' <=> d \in reviewedCopy
                /\ number'[d] = number[d]
  BY DEF TypeOK, Forget, Labels

\* So it disturbs neither the positions of the others, as long as what they
\* work on goes on existing,
LEMMA ForgetPosition ==
    ASSUME TypeOK, PositionOK, NEW c \in Clerks, Forget(c), UNCHANGED recorded,
           \A s \in Statements : state[s] # "none" => state'[s] # "none"
    PROVE  PositionOK'
<1> SUFFICES ASSUME NEW d \in Clerks
             PROVE  /\ pc'[d] = "entry" => item'[d] \in recorded
                    /\ d \in reviewedCopy' => pc'[d] = "entry" /\ item'[d] \in Flagged
                    /\ pc'[d] \in AtStatement =>
                         target'[d] \in Statements /\ state'[target'[d]] # "none"
  BY DEF PositionOK
<1>1. CASE d = c
  <2>1. pc'[c] = "idle" /\ c \notin reviewedCopy'
    BY DEF Forget, TypeOK
  <2> QED BY <2>1, <1>1 DEF AtStatement
<1>2. CASE d # c
  <2>1. /\ pc'[d] = pc[d] /\ target'[d] = target[d] /\ item'[d] = item[d]
        /\ d \in reviewedCopy' => d \in reviewedCopy
    BY <1>2 DEF Forget, TypeOK
  <2> QED BY <2>1 DEF PositionOK
<1> QED BY <1>1, <1>2

\* nor what the cancellations have in memory, as long as nothing is attached to
\* their statements.
LEMMA ForgetRelease ==
    ASSUME TypeOK, ReleaseCopyOK, NEW c \in Clerks, Forget(c),
           \A d \in Clerks, e \in Entries :
               pc[d] = "releasing" /\ on'[e] = target[d] => on[e] = target[d]
    PROVE  ReleaseCopyOK'
<1> SUFFICES ASSUME NEW d \in Clerks, NEW e \in Entries,
                    pc'[d] = "releasing", on'[e] = target'[d]
             PROVE  e \in entriesCopy'[d]
  BY DEF ReleaseCopyOK
<1>1. d # c
  BY DEF Forget, TypeOK
<1>2. pc'[d] = pc[d] /\ target'[d] = target[d] /\ entriesCopy'[d] = entriesCopy[d]
  BY <1>1 DEF Forget, TypeOK
<1> QED BY <1>2 DEF ReleaseCopyOK

\* A recorded entry is on no statement.
LEMMA RecordIInv ==
    ASSUME IInv, NEW e \in Entries, Record(e)
    PROVE  IInv'
<1> USE DEF Record, statementVars, invoiceVars, requestVars, entryCopies, statementCopies
<1>1. TypeOK'
  BY DEF IInv, TypeOK
<1>2. LockOK' /\ ReleaseCopyOK'
  BY DEF IInv, LockOK, ReleaseCopyOK
<1>3. PositionOK'
  BY DEF IInv, PositionOK
<1>4. NumbersGapless' /\ CancelledHoldsNothing' /\ OnlyApprovedBilled'
  BY DEF IInv, NumbersGapless, Issued, CancelledHoldsNothing, OnlyApprovedBilled
<1> QED BY <1>1, <1>2, <1>3, <1>4 DEF IInv

\* Reading an entry.
LEMMA ReadEntryIInv ==
    ASSUME IInv, NEW c \in Clerks, NEW e \in Entries,
           ReadToApprove(c, e) \/ ReadToConfirm(c, e)
    PROVE  IInv'
<1> USE DEF ReadToApprove, ReadToConfirm, ReadEntry, Idle, timeVars, statementVars,
            invoiceVars, statementCopies
<1>1. TypeOK'
  <2>1. /\ pc' = [pc EXCEPT ![c] = "entry"]
        /\ item' = [item EXCEPT ![c] = e]
        /\ UNCHANGED <<timeVars, statementVars, invoiceVars, numberLock,
                       statementCopies, number>>
        /\ approvedCopy' \subseteq approvedCopy \cup {c}
        /\ reviewedCopy' \subseteq reviewedCopy \cup {c}
    OBVIOUS
  <2> QED BY <2>1 DEF IInv, TypeOK, Labels
<1>2. LockOK' /\ ReleaseCopyOK'
  BY DEF IInv, TypeOK, LockOK, ReleaseCopyOK
<1>3. PositionOK'
  BY DEF IInv, TypeOK, PositionOK, AtStatement
<1>4. NumbersGapless' /\ CancelledHoldsNothing' /\ OnlyApprovedBilled'
  BY DEF IInv, NumbersGapless, Issued, CancelledHoldsNothing, OnlyApprovedBilled
<1> QED BY <1>1, <1>2, <1>3, <1>4 DEF IInv

\* Reading the work to bill.
LEMMA ReadUnbilledIInv ==
    ASSUME IInv, NEW c \in Clerks, ReadUnbilled(c)
    PROVE  IInv'
<1> USE DEF Idle, timeVars, statementVars, invoiceVars, entryCopies
<1>0. PICK P \in Periods :
          entriesCopy' = [entriesCopy EXCEPT ![c] = {e \in P : Unbilled(e)}]
  BY DEF ReadUnbilled
<1>1. TypeOK'
  BY <1>0 DEF ReadUnbilled, IInv, TypeOK, Labels
<1>2. LockOK' /\ ReleaseCopyOK'
  BY DEF ReadUnbilled, IInv, TypeOK, LockOK, ReleaseCopyOK
<1>3. PositionOK'
  BY DEF ReadUnbilled, IInv, TypeOK, PositionOK, AtStatement
<1>4. NumbersGapless' /\ CancelledHoldsNothing' /\ OnlyApprovedBilled'
  BY DEF ReadUnbilled, IInv, NumbersGapless, Issued, CancelledHoldsNothing,
         OnlyApprovedBilled
<1> QED BY <1>1, <1>2, <1>3, <1>4 DEF IInv

\* Loading a statement that exists.
LEMMA LoadIInv ==
    ASSUME IInv, NEW c \in Clerks, NEW s \in Statements, state[s] # "none",
           NEW label \in AtStatement \ {"numbered"}, NEW lines \in SUBSET Keys,
           Load(c, s, label, lines)
    PROVE  IInv'
<1> USE DEF Load, Idle, timeVars, statementVars, invoiceVars, entryCopies
<1>1. TypeOK'
  BY DEF IInv, TypeOK, Labels, EntryIds
<1>2. LockOK'
  BY DEF IInv, TypeOK, LockOK
<1>3. ReleaseCopyOK'
  BY DEF IInv, TypeOK, ReleaseCopyOK, EntryIds
<1>4. PositionOK'
  BY DEF IInv, TypeOK, PositionOK, AtStatement
<1>5. NumbersGapless' /\ CancelledHoldsNothing' /\ OnlyApprovedBilled'
  BY DEF IInv, NumbersGapless, Issued, CancelledHoldsNothing, OnlyApprovedBilled
<1> QED BY <1>1, <1>2, <1>3, <1>4, <1>5 DEF IInv

\* Every read of a statement is such a load.
LEMMA ReadStatementIInv ==
    ASSUME IInv, NEW c \in Clerks, NEW s \in Statements,
           \/ \E k \in Keys : ReadToExclude(c, s, k) \/ ReadToRestore(c, s, k)
           \/ ReadToApproveStatement(c, s)
           \/ ReadToRelease(c, s)
           \/ ReadToRaise(c, s)
    PROVE  IInv'
<1>1. excluded[s] \subseteq Keys
  BY DEF IInv, TypeOK
<1>2. PICK label \in AtStatement \ {"numbered"}, lines \in SUBSET Keys :
          state[s] # "none" /\ Load(c, s, label, lines)
  BY <1>1 DEF ReadToExclude, ReadToRestore, ReadToApproveStatement, LinesToApprove,
              ReadToRelease, Releasable, ReadToRaise, AtStatement
<1> QED BY <1>2, LoadIInv

\* Saving an entry: it leaves its statement whatever else the row holds.
LEMMA SaveEntryIInv ==
    ASSUME IInv, NEW c \in Clerks, SaveEntry(c)
    PROVE  IInv'
<1> DEFINE e == item[c]
<1>1. e \in recorded /\ e \in Entries /\ (c \in reviewedCopy => e \in Flagged)
  BY DEF SaveEntry, IInv, PositionOK, TypeOK
<1>2. /\ approved \ {e} \subseteq approved' /\ approved' \subseteq approved \cup {e}
      /\ reviewed' \subseteq Flagged
      /\ on' = [on EXCEPT ![e] = None]
  BY <1>1 DEF SaveEntry, IInv, TypeOK
<1> HIDE DEF e
<1>3. Forget(c) /\ UNCHANGED <<recorded, statementVars, invoiceVars, numberLock>>
  BY DEF SaveEntry
<1>4. pc[c] = "entry"
  BY DEF SaveEntry
<1>5. TypeOK'
  BY <1>1, <1>2, <1>3, ForgetOK DEF IInv, TypeOK, statementVars, invoiceVars
<1>6. LockOK'
  BY <1>3, ForgetOK DEF IInv, LockOK, invoiceVars
<1>7. PositionOK'
  BY <1>3, ForgetPosition DEF IInv, statementVars
<1>10. ReleaseCopyOK'
  <2>1. ASSUME NEW d \in Clerks, NEW e2 \in Entries,
               pc[d] = "releasing", on'[e2] = target[d]
        PROVE  on[e2] = target[d]
    BY <2>1, <1>1, <1>2 DEF IInv, TypeOK, PositionOK, AtStatement
  <2> QED BY <2>1, <1>3, ForgetRelease DEF IInv
<1>8. NumbersGapless'
  BY <1>3 DEF IInv, NumbersGapless, Issued, invoiceVars
<1>9. CancelledHoldsNothing' /\ OnlyApprovedBilled'
  BY <1>1, <1>2, <1>3 DEF IInv, TypeOK, CancelledHoldsNothing, OnlyApprovedBilled, statementVars
<1> QED BY <1>5, <1>6, <1>7, <1>8, <1>9, <1>10 DEF IInv

\* Drafting a statement: what it attaches was approved, by the CHECK.
LEMMA DraftStatementIInv ==
    ASSUME IInv, NEW c \in Clerks, DraftStatement(c)
    PROVE  IInv'
<1> USE DEF invoiceVars
<1>1. PICK s \in Statements :
          /\ state[s] = "none"
          /\ state' = [state EXCEPT ![s] = "draft"]
          /\ carries' = [carries EXCEPT ![s] = entriesCopy[c]]
          /\ on' = [e \in Entries |->
                       IF e \in entriesCopy[c] /\ on[e] = None THEN s ELSE on[e]]
  BY DEF DraftStatement
<1>2. /\ pc[c] = "generating" /\ Forget(c)
      /\ \A e \in entriesCopy[c] : on[e] = None => e \in approved
      /\ UNCHANGED <<recorded, approved, reviewed, excluded, invoiceVars, numberLock>>
  BY DEF DraftStatement, AttachRefused
<1>3. TypeOK'
  BY <1>1, <1>2, ForgetOK DEF IInv, TypeOK, States
<1>4. LockOK'
  BY <1>2, ForgetOK DEF IInv, LockOK
<1>5. PositionOK'
  BY <1>1, <1>2, ForgetPosition DEF IInv, TypeOK
<1>6. ReleaseCopyOK'
  <2>1. ASSUME NEW d \in Clerks, NEW e \in Entries,
               pc[d] = "releasing", on'[e] = target[d]
        PROVE  on[e] = target[d]
    BY <2>1, <1>1 DEF IInv, TypeOK, PositionOK, AtStatement
  <2> QED BY <2>1, <1>2, ForgetRelease DEF IInv
<1>7. NumbersGapless'
  BY <1>2 DEF IInv, NumbersGapless, Issued
<1>8. CancelledHoldsNothing' /\ OnlyApprovedBilled'
  BY <1>1, <1>2 DEF IInv, TypeOK, CancelledHoldsNothing, OnlyApprovedBilled
<1> QED BY <1>3, <1>4, <1>5, <1>6, <1>7, <1>8 DEF IInv

\* Saving a statement as a draft, approved or invoiced, the rest of the tables
\* apart.
LEMMA SaveOK ==
    ASSUME IInv, NEW c \in Clerks, pc[c] \in AtStatement,
           NEW st \in {"draft", "approved", "invoiced"},
           Save(c, st), UNCHANGED timeVars
    PROVE  /\ state' \in [Statements -> States]
           /\ excluded' \in [Statements -> SUBSET Keys]
           /\ PositionOK' /\ ReleaseCopyOK'
           /\ CancelledHoldsNothing' /\ OnlyApprovedBilled'
<1> USE DEF timeVars
<1>0. target[c] \in Statements
  BY DEF IInv, PositionOK
<1>1. state' = [state EXCEPT ![target[c]] = st] /\ Forget(c)
  BY DEF Save
<1>2. state' \in [Statements -> States] /\ excluded' \in [Statements -> SUBSET Keys]
  BY <1>0 DEF Save, IInv, TypeOK, States
<1>3. PositionOK'
  BY <1>0, <1>1, ForgetPosition DEF IInv, TypeOK
<1>4. ReleaseCopyOK'
  BY <1>1, ForgetRelease DEF IInv
<1>5. CancelledHoldsNothing' /\ OnlyApprovedBilled'
  BY <1>0, <1>1 DEF IInv, TypeOK, CancelledHoldsNothing, OnlyApprovedBilled
<1> QED BY <1>2, <1>3, <1>4, <1>5

\* The review writes a statement and nothing else.
LEMMA ReviewIInv ==
    ASSUME IInv, NEW c \in Clerks, SaveRevised(c) \/ SaveApproved(c)
    PROVE  IInv'
<1>1. PICK st \in {"draft", "approved", "invoiced"} : Save(c, st)
  BY DEF SaveRevised, SaveApproved
<1>2. /\ pc[c] \in AtStatement /\ pc[c] # "numbered"
      /\ UNCHANGED <<timeVars, invoiceVars, numberLock>>
  BY DEF SaveRevised, SaveApproved, AtStatement
<1>3. Forget(c) /\ UNCHANGED carries
  BY <1>1 DEF Save
<1>4. /\ state' \in [Statements -> States] /\ excluded' \in [Statements -> SUBSET Keys]
      /\ PositionOK' /\ ReleaseCopyOK' /\ CancelledHoldsNothing' /\ OnlyApprovedBilled'
  BY <1>1, <1>2, SaveOK
<1>5. TypeOK'
  BY <1>2, <1>3, <1>4, ForgetOK DEF IInv, TypeOK, timeVars, invoiceVars
<1>6. LockOK' /\ NumbersGapless'
  BY <1>2, <1>3, ForgetOK DEF IInv, LockOK, NumbersGapless, Issued, invoiceVars
<1> QED BY <1>4, <1>5, <1>6 DEF IInv

\* Cancelling frees every entry the statement has, so none is left on it.
LEMMA SaveReleasedIInv ==
    ASSUME IInv, NEW c \in Clerks, SaveReleased(c)
    PROVE  IInv'
<1> USE DEF invoiceVars
<1>1. /\ pc[c] = "releasing" /\ target[c] \in Statements
      /\ \A e \in Entries : on[e] = target[c] => e \in entriesCopy[c]
  BY DEF SaveReleased, IInv, PositionOK, ReleaseCopyOK, AtStatement
<1>2. /\ on' = [e \in Entries |-> IF e \in entriesCopy[c] THEN None ELSE on[e]]
      /\ state' = [state EXCEPT ![target[c]] = "cancelled"]
      /\ excluded' = [excluded EXCEPT ![target[c]] = linesCopy[c]]
      /\ Forget(c)
      /\ UNCHANGED <<carries, recorded, approved, reviewed, invoiceVars, numberLock>>
  BY DEF SaveReleased, Save, Freed, AfterReleasing
<1>3. TypeOK'
  BY <1>1, <1>2, ForgetOK DEF IInv, TypeOK, States
<1>4. LockOK' /\ NumbersGapless'
  BY <1>1, <1>2, ForgetOK DEF IInv, LockOK, NumbersGapless, Issued
<1>5. PositionOK'
  BY <1>1, <1>2, ForgetPosition DEF IInv, TypeOK
<1>6. ReleaseCopyOK'
  <2>1. ASSUME NEW d \in Clerks, NEW e \in Entries,
               pc[d] = "releasing", on'[e] = target[d]
        PROVE  on[e] = target[d]
    BY <2>1, <1>2 DEF IInv, TypeOK, PositionOK, AtStatement
  <2> QED BY <2>1, <1>2, ForgetRelease DEF IInv
<1>7. CancelledHoldsNothing' /\ OnlyApprovedBilled'
  BY <1>1, <1>2 DEF IInv, TypeOK, CancelledHoldsNothing, OnlyApprovedBilled
<1> QED BY <1>3, <1>4, <1>5, <1>6, <1>7 DEF IInv

\* A number is taken by whoever finds the row unlocked.
LEMMA TakeNumberIInv ==
    ASSUME IInv, NEW c \in Clerks, TakeNumber(c)
    PROVE  IInv'
<1> USE DEF TakeNumber, timeVars, statementVars, invoiceVars, entryCopies, statementCopies
<1>1. TypeOK'
  BY DEF IInv, TypeOK, Labels, AtStatement
<1>2. LockOK'
  BY DEF NumberFree, IInv, TypeOK, LockOK
<1>3. PositionOK' /\ ReleaseCopyOK'
  BY DEF IInv, TypeOK, PositionOK, ReleaseCopyOK, AtStatement
<1>4. NumbersGapless' /\ CancelledHoldsNothing' /\ OnlyApprovedBilled'
  BY DEF IInv, NumbersGapless, Issued, CancelledHoldsNothing, OnlyApprovedBilled
<1> QED BY <1>1, <1>2, <1>3, <1>4 DEF IInv

\* The invoice gets the next number, and the number after it becomes the next.
LEMMA RaiseInvoiceIInv ==
    ASSUME IInv, NEW c \in Clerks, RaiseInvoice(c)
    PROVE  IInv'
<1>1. /\ pc[c] = "numbered" /\ target[c] \in Statements /\ numberLock = c
      /\ number[c] = nextNumber /\ nextNumber \in 1 .. MaxInvoices
  BY DEF RaiseInvoice, IInv, TypeOK, LockOK, PositionOK, AtStatement
<1>2. /\ invoiceOf' = [invoiceOf EXCEPT ![nextNumber] = target[c]]
      /\ billed' = [billed EXCEPT ![nextNumber] = LinesOf(target[c]) \ linesCopy[c]]
      /\ nextNumber' = nextNumber + 1
      /\ numberLock' = None
      /\ Save(c, "invoiced")
      /\ UNCHANGED timeVars
  BY <1>1 DEF RaiseInvoice, AfterRaising
<1>3. Forget(c) /\ UNCHANGED carries
  BY <1>2 DEF Save
<1>4. /\ state' \in [Statements -> States] /\ excluded' \in [Statements -> SUBSET Keys]
      /\ PositionOK' /\ ReleaseCopyOK' /\ CancelledHoldsNothing' /\ OnlyApprovedBilled'
  <2>1. pc[c] \in AtStatement
    BY <1>1 DEF AtStatement
  <2> QED BY <2>1, <1>2, SaveOK
<1>5. TypeOK'
  <2>1. LinesOf(target[c]) \subseteq Keys
    BY <1>1 DEF LinesOf, Keys, IInv, TypeOK
  <2>2. /\ invoiceOf' \in [1 .. MaxInvoices -> Statements \cup {None}]
        /\ billed' \in [1 .. MaxInvoices -> SUBSET Keys]
        /\ nextNumber' \in 1 .. MaxInvoices + 1
    BY <2>1, <1>1, <1>2 DEF IInv, TypeOK
  <2> QED BY <2>2, <1>2, <1>3, <1>4, ForgetOK DEF IInv, TypeOK, timeVars
<1>6. LockOK'
  BY <1>1, <1>3, ForgetOK DEF IInv, LockOK
<1>7. NumbersGapless'
  <2>1. Issued' = Issued \cup {nextNumber}
    BY <1>1, <1>2 DEF Issued, IInv, TypeOK
  <2> QED BY <2>1, <1>1, <1>2 DEF IInv, NumbersGapless
<1> QED BY <1>4, <1>5, <1>6, <1>7 DEF IInv

\* A rollback leaves the tables as they were and frees the number.
LEMMA AbandonIInv ==
    ASSUME IInv, NEW c \in Clerks, Abandon(c)
    PROVE  IInv'
<1> USE DEF timeVars, statementVars, invoiceVars
<1>1. /\ Forget(c)
      /\ numberLock' = IF numberLock = c THEN None ELSE numberLock
      /\ UNCHANGED tables
  BY DEF Abandon, tables
<1> USE DEF tables
<1>2. TypeOK'
  BY <1>1, ForgetOK DEF IInv, TypeOK
<1>3. LockOK' /\ ReleaseCopyOK'
  <2>1. LockOK'
    BY <1>1, ForgetOK DEF IInv, TypeOK, LockOK
  <2>2. ReleaseCopyOK'
    BY <1>1, ForgetRelease DEF IInv
  <2> QED BY <2>1, <2>2
<1>4. PositionOK'
  BY <1>1, ForgetPosition DEF IInv
<1>5. NumbersGapless' /\ CancelledHoldsNothing' /\ OnlyApprovedBilled'
  BY <1>1 DEF IInv, NumbersGapless, Issued, CancelledHoldsNothing, OnlyApprovedBilled
<1> QED BY <1>2, <1>3, <1>4, <1>5 DEF IInv

LEMMA StepIInv == IInv /\ [Next]_vars => IInv'
<1> SUFFICES ASSUME IInv, [Next]_vars PROVE IInv'
  OBVIOUS
<1>1. CASE UNCHANGED vars
  BY <1>1 DEF vars, timeVars, statementVars, invoiceVars, requestVars, entryCopies,
              statementCopies, IInv, TypeOK, LockOK, PositionOK, ReleaseCopyOK,
              NumbersGapless, Issued, CancelledHoldsNothing, OnlyApprovedBilled
<1>2. CASE \E e \in Entries : Record(e)
  BY <1>2, RecordIInv
<1>3. ASSUME NEW c \in Clerks, Read(c) PROVE IInv'
  BY <1>3, ReadEntryIInv, ReadUnbilledIInv, ReadStatementIInv DEF Read
<1>4. ASSUME NEW c \in Clerks, Write(c) PROVE IInv'
  BY <1>4, SaveEntryIInv, DraftStatementIInv, ReviewIInv, SaveReleasedIInv,
     TakeNumberIInv, RaiseInvoiceIInv DEF Write
<1>5. ASSUME NEW c \in Clerks, Abandon(c) PROVE IInv'
  BY <1>5, AbandonIInv
<1> QED BY <1>1, <1>2, <1>3, <1>4, <1>5 DEF Next

LEMMA Invariant == Spec => []IInv
  BY InitIInv, StepIInv, PTL DEF Spec

\* The tables and the requests keep their types.
THEOREM TypeCorrect == Spec => []TypeOK
  BY Invariant, PTL DEF IInv

\* Invoice numbers are one unbroken run (nextNumber of invoice.repository.ts).
THEOREM GaplessNumbers == Spec => []NumbersGapless
  BY Invariant, PTL DEF IInv

\* A cancelled statement never holds hours (ReleaseFromStatement).
THEOREM CancellingFrees == Spec => []CancelledHoldsNothing
  BY Invariant, PTL DEF IInv

\* Time on a statement is approved (time_entries_billed_was_approved).
THEOREM BilledWasApproved == Spec => []OnlyApprovedBilled
  BY Invariant, PTL DEF IInv

\* A statement holds approved time only, and none once cancelled.
THEOREM StatementsHoldWhatIsDue == Spec => []HoldsWhatIsDue
  BY TypeCorrect, CancellingFrees, BilledWasApproved, PTL DEF HoldsWhatIsDue

-----------------------------------------------------------------------------
(* The inductive invariant of requests that do not conflict: what each has  *)
(* in memory is still what the tables hold when it writes.                  *)

\* What Guarded keeps apart, as a state: never two requests at one statement,
\* two generations, a generation and a change to an entry, or two changes to
\* one entry.
Apart ==
    \A c, d \in Clerks :
        c # d =>
            /\ pc[c] \in AtStatement /\ pc[d] \in AtStatement => target[c] # target[d]
            /\ pc[c] = "generating" => pc[d] \notin {"generating", "entry"}
            /\ pc[c] = "entry" /\ pc[d] = "entry" => item[c] # item[d]

\* The time a request is about to bill or to change is on no statement yet.
FreshEntries ==
    \A c \in Clerks :
        /\ pc[c] = "generating" => \A e \in entriesCopy[c] : on[e] = None
        /\ pc[c] = "entry" => on[item[c]] = None

\* The statement a request decided over is as it was.
FreshStatements ==
    \A c \in Clerks :
        /\ pc[c] \in {"revising", "approving"} => state[target[c]] = "draft"
        /\ pc[c] \in {"raising", "numbered"} => state[target[c]] = "approved"
        /\ pc[c] = "releasing" =>
              /\ state[target[c]] \in {"draft", "approved", "cancelled"}
              /\ \A e \in entriesCopy[c] : on[e] = target[c]
        /\ pc[c] \in AtStatement \ {"revising"} => linesCopy[c] = excluded[target[c]]

\* What a live statement was made from is attached to it.
Attached == \A s \in Statements : Live(s) => \A e \in carries[s] : on[e] = s

\* The statement of an invoice is invoiced.
Invoiced == \A n \in Issued : state[invoiceOf[n]] = "invoiced"

\* What the requests have in memory.
InStep == Apart /\ FreshEntries /\ FreshStatements

\* What the tables hold.
Settled == Attached /\ Invoiced /\ OneInvoicePerStatement

\* A request that ends disturbs the others only through the tables it wrote.
LEMMA ForgetInStep ==
    ASSUME TypeOK, PositionOK, InStep, NEW c \in Clerks, Forget(c),
           \A d \in Clerks \ {c} :
              /\ pc[d] = "generating" => \A e \in entriesCopy[d] : on'[e] = None
              /\ pc[d] = "entry" => on'[item[d]] = None
              /\ pc[d] \in AtStatement =>
                    /\ state'[target[d]] = state[target[d]]
                    /\ excluded'[target[d]] = excluded[target[d]]
              /\ pc[d] = "releasing" => \A e \in entriesCopy[d] : on'[e] = on[e]
    PROVE  InStep'
<1>1. pc'[c] = "idle"
  BY ForgetOK
<1>2. \A d \in Clerks \ {c} :
        /\ pc'[d] = pc[d] /\ target'[d] = target[d] /\ item'[d] = item[d]
        /\ linesCopy'[d] = linesCopy[d] /\ entriesCopy'[d] = entriesCopy[d]
  BY ForgetOK
<1>3. Apart'
  BY <1>1, <1>2 DEF InStep, Apart, AtStatement
<1>4. FreshEntries'
  BY <1>1, <1>2 DEF FreshEntries
<1>5. FreshStatements'
  <2> SUFFICES ASSUME NEW d \in Clerks
      PROVE /\ pc'[d] \in {"revising", "approving"} => state'[target'[d]] = "draft"
            /\ pc'[d] \in {"raising", "numbered"} => state'[target'[d]] = "approved"
            /\ pc'[d] = "releasing" =>
                  /\ state'[target'[d]] \in {"draft", "approved", "cancelled"}
                  /\ \A e \in entriesCopy'[d] : on'[e] = target'[d]
            /\ pc'[d] \in AtStatement \ {"revising"} =>
                  linesCopy'[d] = excluded'[target'[d]]
    BY DEF FreshStatements
  <2>1. CASE d = c
    BY <2>1, <1>1 DEF AtStatement
  <2>2. CASE d # c
    BY <2>2, <1>2 DEF InStep, FreshStatements, AtStatement
  <2> QED BY <2>1, <2>2
<1> QED BY <1>3, <1>4, <1>5 DEF InStep

\* A step that changes no table leaves it settled.
LEMMA TablesSettled ==
    ASSUME Settled, UNCHANGED tables
    PROVE  Settled'
BY DEF Settled, tables, timeVars, statementVars, invoiceVars, Attached, Live, Invoiced,
       Issued, OneInvoicePerStatement

\* Reading an entry.
LEMMA ReadEntryInStep ==
    ASSUME Guarded, IInv, InStep, NEW c \in Clerks, NEW e \in Entries, ReadEntry(c, e)
    PROVE  InStep'
<1>1. /\ pc[c] = "idle" /\ on[e] = None
      /\ \A d \in Clerks : pc[d] # "generating" /\ (pc[d] = "entry" => item[d] # e)
      /\ UNCHANGED <<timeVars, statementVars, invoiceVars, statementCopies>>
      /\ pc'[c] = "entry" /\ item'[c] = e
      /\ \A d \in Clerks \ {c} : pc'[d] = pc[d] /\ item'[d] = item[d]
  BY DEF ReadEntry, Idle, EntryFree, NoGeneration, IInv, TypeOK
<1>2. Apart'
  BY <1>1 DEF InStep, Apart, AtStatement, statementCopies
<1>3. FreshEntries'
  BY <1>1 DEF InStep, FreshEntries, timeVars, statementCopies
<1>4. FreshStatements'
  BY <1>1 DEF InStep, FreshStatements, timeVars, statementVars, statementCopies, AtStatement
<1> QED BY <1>2, <1>3, <1>4 DEF InStep

\* Reading the work to bill: all of it is unbilled.
LEMMA ReadUnbilledInStep ==
    ASSUME Guarded, IInv, InStep, NEW c \in Clerks, ReadUnbilled(c)
    PROVE  InStep'
<1>0. PICK P \in Periods :
          entriesCopy' = [entriesCopy EXCEPT ![c] = {e \in P : Unbilled(e)}]
  BY DEF ReadUnbilled
<1>1. /\ \A d \in Clerks : pc[d] \notin {"generating", "entry"}
      /\ UNCHANGED <<timeVars, statementVars, invoiceVars, entryCopies, target, linesCopy>>
      /\ pc'[c] = "generating" /\ \A e \in entriesCopy'[c] : on[e] = None
      /\ \A d \in Clerks \ {c} : pc'[d] = pc[d] /\ entriesCopy'[d] = entriesCopy[d]
  BY <1>0 DEF ReadUnbilled, GenerationFree, NoGeneration, Unbilled, IInv, TypeOK
<1>2. Apart'
  BY <1>1 DEF InStep, Apart, AtStatement, entryCopies
<1>3. FreshEntries'
  BY <1>1 DEF InStep, FreshEntries, timeVars
<1>4. FreshStatements'
  BY <1>1 DEF InStep, FreshStatements, timeVars, statementVars, AtStatement
<1> QED BY <1>2, <1>3, <1>4 DEF InStep

\* Loading a statement in the state its operation asks for, with the lines the
\* operation leaves off it.
LEMMA LoadInStep ==
    ASSUME Guarded, IInv, InStep, NEW c \in Clerks, NEW s \in Statements,
           NEW label \in AtStatement \ {"numbered"}, NEW lines \in SUBSET Keys,
           Load(c, s, label, lines),
           label # "revising" => lines = excluded[s],
           label \in {"revising", "approving"} => state[s] = "draft",
           label = "raising" => state[s] = "approved",
           label = "releasing" => state[s] \in {"draft", "approved", "cancelled"}
    PROVE  InStep'
<1>1. /\ \A d \in Clerks : pc[d] \in AtStatement => target[d] # s
      /\ UNCHANGED <<timeVars, statementVars, invoiceVars, entryCopies>>
      /\ pc'[c] = label /\ target'[c] = s /\ linesCopy'[c] = lines
      /\ \A e \in entriesCopy'[c] : on[e] = s
      /\ \A d \in Clerks \ {c} :
            /\ pc'[d] = pc[d] /\ target'[d] = target[d]
            /\ linesCopy'[d] = linesCopy[d] /\ entriesCopy'[d] = entriesCopy[d]
  BY DEF Load, StatementFree, EntryIds, IInv, TypeOK
<1>2. Apart'
  BY <1>1 DEF InStep, Apart, AtStatement, entryCopies
<1>3. FreshEntries'
  BY <1>1 DEF InStep, FreshEntries, timeVars, entryCopies, AtStatement
<1>4. FreshStatements'
  <2> SUFFICES ASSUME NEW d \in Clerks
      PROVE /\ pc'[d] \in {"revising", "approving"} => state[target'[d]] = "draft"
            /\ pc'[d] \in {"raising", "numbered"} => state[target'[d]] = "approved"
            /\ pc'[d] = "releasing" =>
                  /\ state[target'[d]] \in {"draft", "approved", "cancelled"}
                  /\ \A e \in entriesCopy'[d] : on[e] = target'[d]
            /\ pc'[d] \in AtStatement \ {"revising"} =>
                  linesCopy'[d] = excluded[target'[d]]
    BY <1>1 DEF FreshStatements, timeVars, statementVars
  <2>1. CASE d = c
    BY <2>1, <1>1 DEF AtStatement
  <2>2. CASE d # c
    BY <2>2, <1>1 DEF InStep, FreshStatements
  <2> QED BY <2>1, <2>2
<1> QED BY <1>2, <1>3, <1>4 DEF InStep

\* Every read of a request keeps it in step and changes no table.
LEMMA ReadGuarded ==
    ASSUME Guarded, IInv, InStep, Settled, NEW c \in Clerks, Read(c)
    PROVE  InStep' /\ Settled' /\ UNCHANGED tables
<1>1. ASSUME NEW e \in Entries, ReadToApprove(c, e) \/ ReadToConfirm(c, e)
      PROVE  InStep' /\ UNCHANGED tables
  <2>1. ReadEntry(c, e)
    BY <1>1 DEF ReadToApprove, ReadToConfirm
  <2> QED BY <2>1, ReadEntryInStep DEF ReadEntry, tables
<1>2. ASSUME ReadUnbilled(c) PROVE InStep' /\ UNCHANGED tables
  BY <1>2, ReadUnbilledInStep DEF ReadUnbilled, tables
<1>3. ASSUME NEW s \in Statements,
             \/ \E k \in Keys : ReadToExclude(c, s, k) \/ ReadToRestore(c, s, k)
             \/ ReadToApproveStatement(c, s)
             \/ ReadToRelease(c, s)
             \/ ReadToRaise(c, s)
      PROVE  InStep' /\ UNCHANGED tables
  <2>1. excluded[s] \subseteq Keys /\ state[s] \in States
    BY DEF IInv, TypeOK
  <2>2. PICK label \in AtStatement \ {"numbered"}, lines \in SUBSET Keys :
            /\ Load(c, s, label, lines)
            /\ label # "revising" => lines = excluded[s]
            /\ label \in {"revising", "approving"} => state[s] = "draft"
            /\ label = "raising" => state[s] = "approved"
            /\ label = "releasing" => state[s] \in {"draft", "approved", "cancelled"}
    <3>1. ASSUME NEW k \in Keys, ReadToExclude(c, s, k)
          PROVE  state[s] = "draft" /\ Load(c, s, "revising", excluded[s] \cup {k})
      BY <3>1 DEF ReadToExclude
    <3>2. ASSUME NEW k \in Keys, ReadToRestore(c, s, k)
          PROVE  state[s] = "draft" /\ Load(c, s, "revising", excluded[s] \ {k})
      BY <3>2 DEF ReadToRestore
    <3>3. CASE ReadToApproveStatement(c, s)
      BY <3>3, <2>1 DEF ReadToApproveStatement, LinesToApprove, AtStatement
    <3>4. CASE ReadToRelease(c, s)
      BY <3>4, <2>1 DEF ReadToRelease, Releasable, AtStatement, States
    <3>5. CASE ReadToRaise(c, s)
      BY <3>5, <2>1 DEF ReadToRaise, AtStatement
    <3>6. ASSUME NEW k \in Keys, ReadToExclude(c, s, k) \/ ReadToRestore(c, s, k)
          PROVE  \E lines \in SUBSET Keys :
                    state[s] = "draft" /\ Load(c, s, "revising", lines)
      BY <3>1, <3>2, <3>6, <2>1
    <3>7. "revising" \in AtStatement \ {"numbered"}
      BY DEF AtStatement
    <3> QED BY <1>3, <3>3, <3>4, <3>5, <3>6, <3>7
  <2>3. InStep'
    BY <2>2, LoadInStep
  <2> QED BY <2>2, <2>3 DEF Load, tables
<1>4. InStep' /\ UNCHANGED tables
  BY <1>1, <1>2, <1>3 DEF Read
<1> QED BY <1>4, TablesSettled

\* Saving an entry that is on no statement moves no hours.
LEMMA SaveEntryGuarded ==
    ASSUME IInv, InStep, Settled, NEW c \in Clerks, SaveEntry(c)
    PROVE  InStep' /\ Settled' /\ UNCHANGED <<on, state, excluded>>
<1>1. /\ on' = [on EXCEPT ![item[c]] = None]
      /\ Forget(c) /\ UNCHANGED <<statementVars, invoiceVars>>
      /\ on[item[c]] = None
  BY DEF SaveEntry, InStep, FreshEntries
<1>2. UNCHANGED on
  BY <1>1 DEF IInv, TypeOK
<1>3. InStep'
  BY <1>1, <1>2, ForgetInStep DEF IInv, InStep, FreshEntries, statementVars
<1>4. Settled'
  BY <1>1, <1>2 DEF Settled, statementVars, invoiceVars, Attached, Live, Invoiced, Issued,
                    OneInvoicePerStatement
<1> QED BY <1>1, <1>2, <1>3, <1>4 DEF statementVars

\* A drafted statement gets all the entries it was made from: none of them was
\* taken meanwhile.
LEMMA DraftStatementGuarded ==
    ASSUME IInv, InStep, Settled, NEW c \in Clerks, DraftStatement(c)
    PROVE  /\ InStep' /\ Settled' /\ UNCHANGED excluded
           /\ \A e \in Entries : on[e] # None => on'[e] = on[e]
<1>1. PICK s \in Statements :
          /\ state[s] = "none"
          /\ state' = [state EXCEPT ![s] = "draft"]
          /\ carries' = [carries EXCEPT ![s] = entriesCopy[c]]
          /\ on' = [e \in Entries |->
                       IF e \in entriesCopy[c] /\ on[e] = None THEN s ELSE on[e]]
  BY DEF DraftStatement
<1>2. /\ pc[c] = "generating" /\ Forget(c) /\ entriesCopy[c] \subseteq Entries
      /\ \A e \in entriesCopy[c] : on[e] = None
      /\ UNCHANGED <<excluded, invoiceVars>>
  BY DEF DraftStatement, InStep, FreshEntries, IInv, TypeOK
<1>3. \A e \in Entries : on[e] # None => on'[e] = on[e]
  BY <1>1 DEF IInv, TypeOK
<1>4. InStep'
  <2> SUFFICES ASSUME NEW d \in Clerks \ {c}
      PROVE /\ pc[d] \notin {"generating", "entry"}
            /\ pc[d] \in AtStatement => state'[target[d]] = state[target[d]]
            /\ pc[d] = "releasing" => \A e \in entriesCopy[d] : on'[e] = on[e]
    BY <1>2, ForgetInStep DEF IInv
  <2>1. pc[d] \notin {"generating", "entry"}
    BY <1>2 DEF InStep, Apart
  <2>2. pc[d] \in AtStatement => target[d] \in Statements /\ state[target[d]] # "none"
    BY DEF IInv, PositionOK
  <2>3. pc[d] = "releasing" => \A e \in entriesCopy[d] : e \in Entries /\ on[e] # None
    BY <2>2 DEF InStep, FreshStatements, IInv, TypeOK, AtStatement
  <2> QED BY <2>1, <2>2, <2>3, <1>1, <1>3 DEF IInv, TypeOK
<1>5. Attached'
  <2> SUFFICES ASSUME NEW t \in Statements, Live(t)', NEW e \in carries'[t]
               PROVE  on'[e] = t
    BY DEF Attached
  <2>1. CASE t = s
    BY <2>1, <1>1, <1>2 DEF IInv, TypeOK
  <2>2. CASE t # s
    <3>1. Live(t) /\ e \in carries[t] /\ e \in Entries
      BY <2>2, <1>1 DEF Live, IInv, TypeOK
    <3> QED BY <3>1, <1>3 DEF Settled, Attached
  <2> QED BY <2>1, <2>2
<1>6. Invoiced' /\ OneInvoicePerStatement'
  BY <1>1, <1>2 DEF Settled, Invoiced, Issued, OneInvoicePerStatement, invoiceVars, IInv, TypeOK
<1> QED BY <1>2, <1>3, <1>4, <1>5, <1>6 DEF Settled

\* The review finds the statement as it read it.
LEMMA ReviewGuarded ==
    ASSUME IInv, InStep, Settled, NEW c \in Clerks, SaveRevised(c) \/ SaveApproved(c)
    PROVE  /\ InStep' /\ Settled' /\ UNCHANGED on
           /\ pc[c] \in {"revising", "approving"}
           /\ excluded' = [excluded EXCEPT ![target[c]] = linesCopy[c]]
<1>1. PICK st \in {"draft", "approved"} : Save(c, st)
  BY DEF SaveRevised, SaveApproved
<1>2. /\ pc[c] \in {"revising", "approving"}
      /\ UNCHANGED <<timeVars, invoiceVars>>
  BY DEF SaveRevised, SaveApproved
<1>3. /\ state' = [state EXCEPT ![target[c]] = st]
      /\ excluded' = [excluded EXCEPT ![target[c]] = linesCopy[c]]
      /\ Forget(c) /\ UNCHANGED carries
  BY <1>1 DEF Save
<1>4. /\ target[c] \in Statements /\ state[target[c]] = "draft"
  BY <1>2 DEF IInv, PositionOK, InStep, FreshStatements, AtStatement
<1>5. InStep'
  <2> SUFFICES ASSUME NEW d \in Clerks \ {c}
      PROVE pc[d] \in AtStatement =>
              /\ state'[target[d]] = state[target[d]]
              /\ excluded'[target[d]] = excluded[target[d]]
    BY <1>2, <1>3, ForgetInStep DEF IInv, timeVars, InStep, FreshEntries
  <2>1. pc[d] \in AtStatement => target[d] \in Statements /\ target[d] # target[c]
    BY <1>2 DEF InStep, Apart, AtStatement, IInv, PositionOK
  <2> QED BY <2>1, <1>3 DEF IInv, TypeOK
<1>6. Attached'
  BY <1>2, <1>3, <1>4 DEF Settled, Attached, Live, timeVars, IInv, TypeOK
<1>7. Invoiced' /\ OneInvoicePerStatement'
  BY <1>2, <1>3, <1>4 DEF Settled, Invoiced, Issued, OneInvoicePerStatement, invoiceVars,
                          IInv, TypeOK
<1> QED BY <1>2, <1>3, <1>5, <1>6, <1>7 DEF Settled, timeVars

\* A cancellation frees the entries of its own statement and no others.
LEMMA SaveReleasedGuarded ==
    ASSUME IInv, InStep, Settled, NEW c \in Clerks, SaveReleased(c)
    PROVE  /\ InStep' /\ Settled' /\ UNCHANGED excluded
           /\ \A e \in Entries :
                 on'[e] # on[e] => on'[e] = None /\ state'[on[e]] = "cancelled"
<1>1. /\ on' = [e \in Entries |-> IF e \in entriesCopy[c] THEN None ELSE on[e]]
      /\ state' = [state EXCEPT ![target[c]] = "cancelled"]
      /\ excluded' = [excluded EXCEPT ![target[c]] = linesCopy[c]]
      /\ Forget(c) /\ pc[c] = "releasing"
      /\ UNCHANGED <<carries, invoiceVars>>
  BY DEF SaveReleased, Save, Freed, AfterReleasing
<1>2. /\ target[c] \in Statements
      /\ state[target[c]] \in {"draft", "approved", "cancelled"}
      /\ \A e \in entriesCopy[c] : e \in Entries /\ on[e] = target[c]
      /\ linesCopy[c] = excluded[target[c]]
  BY <1>1 DEF InStep, FreshStatements, AtStatement, IInv, TypeOK, PositionOK
<1>3. UNCHANGED excluded
  BY <1>1, <1>2 DEF IInv, TypeOK
<1>4. \A e \in Entries : on'[e] # on[e] =>
          on'[e] = None /\ on[e] = target[c] /\ state'[on[e]] = "cancelled"
  BY <1>1, <1>2 DEF IInv, TypeOK
<1>5. InStep'
  <2> SUFFICES ASSUME NEW d \in Clerks \ {c}
      PROVE /\ pc[d] = "generating" => \A e \in entriesCopy[d] : on'[e] = None
            /\ pc[d] = "entry" => on'[item[d]] = None
            /\ pc[d] \in AtStatement => state'[target[d]] = state[target[d]]
            /\ pc[d] = "releasing" => \A e \in entriesCopy[d] : on'[e] = on[e]
    BY <1>1, <1>3, ForgetInStep DEF IInv
  <2>1. pc[d] = "generating" => \A e \in entriesCopy[d] : on'[e] = None
    BY <1>1 DEF InStep, FreshEntries, IInv, TypeOK
  <2>2. pc[d] = "entry" => on'[item[d]] = None
    BY <1>1 DEF InStep, FreshEntries, IInv, TypeOK, PositionOK
  <2>3. pc[d] \in AtStatement => target[d] \in Statements /\ target[d] # target[c]
    BY <1>1 DEF InStep, Apart, AtStatement, IInv, PositionOK
  <2>4. pc[d] \in AtStatement => state'[target[d]] = state[target[d]]
    BY <2>3, <1>1 DEF IInv, TypeOK
  <2>5. pc[d] = "releasing" => \A e \in entriesCopy[d] : on'[e] = on[e]
    BY <2>3, <1>4 DEF InStep, FreshStatements, AtStatement, IInv, TypeOK
  <2> QED BY <2>1, <2>2, <2>4, <2>5
<1>6. Attached'
  <2> SUFFICES ASSUME NEW t \in Statements, Live(t)', NEW e \in carries'[t]
               PROVE  on'[e] = t
    BY DEF Attached
  <2>1. t # target[c] /\ Live(t) /\ e \in carries[t] /\ e \in Entries
    BY <1>1, <1>2 DEF Live, IInv, TypeOK
  <2> QED BY <2>1, <1>4 DEF Settled, Attached
<1>7. Invoiced' /\ OneInvoicePerStatement'
  BY <1>1, <1>2 DEF Settled, Invoiced, Issued, OneInvoicePerStatement, invoiceVars, IInv, TypeOK
<1> QED BY <1>3, <1>4, <1>5, <1>6, <1>7 DEF Settled

\* Taking a number moves the request on and changes no table.
LEMMA TakeNumberGuarded ==
    ASSUME IInv, InStep, Settled, NEW c \in Clerks, TakeNumber(c)
    PROVE  InStep' /\ Settled' /\ UNCHANGED tables
<1>1. /\ pc[c] = "raising" /\ pc' = [pc EXCEPT ![c] = "numbered"]
      /\ UNCHANGED <<timeVars, statementVars, invoiceVars, entryCopies, statementCopies>>
  BY DEF TakeNumber
<1>2. Apart'
  BY <1>1 DEF InStep, Apart, AtStatement, entryCopies, statementCopies, IInv, TypeOK
<1>3. FreshEntries'
  BY <1>1 DEF InStep, FreshEntries, timeVars, entryCopies, statementCopies, IInv, TypeOK
<1>4. FreshStatements'
  BY <1>1 DEF InStep, FreshStatements, AtStatement, timeVars, statementVars,
              statementCopies, IInv, TypeOK
<1>5. UNCHANGED tables
  BY <1>1 DEF tables
<1> QED BY <1>2, <1>3, <1>4, <1>5, TablesSettled DEF InStep

\* An invoice is raised from a statement still approved, so from one that has
\* no invoice.
LEMMA RaiseInvoiceGuarded ==
    ASSUME IInv, InStep, Settled, NEW c \in Clerks, RaiseInvoice(c)
    PROVE  InStep' /\ Settled' /\ UNCHANGED <<on, excluded>>
<1>1. /\ pc[c] = "numbered" /\ target[c] \in Statements
      /\ number[c] = nextNumber /\ nextNumber \in 1 .. MaxInvoices
      /\ state[target[c]] = "approved" /\ linesCopy[c] = excluded[target[c]]
  BY DEF RaiseInvoice, IInv, TypeOK, LockOK, PositionOK, AtStatement, InStep,
         FreshStatements
<1>2. /\ invoiceOf' = [invoiceOf EXCEPT ![nextNumber] = target[c]]
      /\ state' = [state EXCEPT ![target[c]] = "invoiced"]
      /\ excluded' = [excluded EXCEPT ![target[c]] = linesCopy[c]]
      /\ Forget(c) /\ UNCHANGED <<carries, timeVars>>
  BY <1>1 DEF RaiseInvoice, AfterRaising, Save
<1>3. UNCHANGED excluded
  BY <1>1, <1>2 DEF IInv, TypeOK
<1>4. InStep'
  <2> SUFFICES ASSUME NEW d \in Clerks \ {c}
      PROVE pc[d] \in AtStatement => state'[target[d]] = state[target[d]]
    BY <1>2, <1>3, ForgetInStep DEF IInv, timeVars, InStep, FreshEntries
  <2>1. pc[d] \in AtStatement => target[d] \in Statements /\ target[d] # target[c]
    BY <1>1 DEF InStep, Apart, AtStatement, IInv, PositionOK
  <2> QED BY <2>1, <1>2 DEF IInv, TypeOK
<1>5. Attached'
  BY <1>1, <1>2 DEF Settled, Attached, Live, timeVars, IInv, TypeOK
<1>6. /\ Issued' = Issued \cup {nextNumber}
      /\ \A n \in Issued : n # nextNumber /\ invoiceOf'[n] = invoiceOf[n]
      /\ \A n \in Issued : invoiceOf[n] \in Statements /\ invoiceOf[n] # target[c]
      /\ invoiceOf'[nextNumber] = target[c]
  <2>1. Issued' = Issued \cup {nextNumber}
    BY <1>1, <1>2 DEF Issued, IInv, TypeOK
  <2>2. \A n \in Issued : n # nextNumber /\ n \in 1 .. MaxInvoices
    BY <1>1 DEF Issued, IInv, NumbersGapless
  <2>3. \A n \in Issued : invoiceOf[n] \in Statements /\ invoiceOf[n] # target[c]
    BY <1>1, <2>2 DEF Settled, Invoiced, Issued, IInv, TypeOK
  <2> QED BY <2>1, <2>2, <2>3, <1>1, <1>2 DEF IInv, TypeOK
<1>7. Invoiced' /\ OneInvoicePerStatement'
  BY <1>1, <1>2, <1>6 DEF Settled, Invoiced, OneInvoicePerStatement, IInv, TypeOK
<1> QED BY <1>2, <1>3, <1>4, <1>5, <1>7 DEF Settled, timeVars

\* A rollback changes no table.
LEMMA AbandonGuarded ==
    ASSUME IInv, InStep, Settled, NEW c \in Clerks, Abandon(c)
    PROVE  InStep' /\ Settled' /\ UNCHANGED tables
<1>1. Forget(c) /\ UNCHANGED <<on, state, excluded>> /\ UNCHANGED tables
  BY DEF Abandon, tables, timeVars, statementVars
<1>2. InStep'
  BY <1>1, ForgetInStep DEF IInv, InStep, FreshEntries
<1> QED BY <1>1, <1>2, TablesSettled

\* A recorded entry is on no statement.
LEMMA RecordGuarded ==
    ASSUME IInv, InStep, Settled, NEW e \in Entries, Record(e)
    PROVE  InStep' /\ Settled' /\ UNCHANGED <<on, state, excluded>>
<1>1. UNCHANGED <<on, statementVars, invoiceVars, requestVars>>
  BY DEF Record
<1>2. Apart' /\ FreshEntries' /\ FreshStatements'
  BY <1>1 DEF InStep, Apart, FreshEntries, FreshStatements, statementVars, requestVars,
              entryCopies, statementCopies
<1>3. Attached' /\ Invoiced' /\ OneInvoicePerStatement'
  BY <1>1 DEF Settled, Attached, Live, Invoiced, Issued, OneInvoicePerStatement,
              statementVars, invoiceVars
<1> QED BY <1>1, <1>2, <1>3 DEF InStep, Settled, statementVars

\* What one step may do to an hour on a statement and to an excluded line.
Moves ==
    /\ \A e \in Entries : on[e] # None /\ on'[e] # on[e] =>
          on'[e] = None /\ state'[on[e]] = "cancelled"
    /\ \A s \in Statements : \A k \in excluded[s] \ excluded'[s] :
          state[s] = "draft" /\ \E c \in Clerks : pc[c] = "revising" /\ target[c] = s

LEMMA StepGuarded ==
    ASSUME Guarded, IInv, InStep, Settled, [Next]_vars
    PROVE  InStep' /\ Settled' /\ Moves
<1>1. CASE UNCHANGED vars
  <2>1. UNCHANGED tables /\ UNCHANGED requestVars
    BY <1>1 DEF vars, tables
  <2>2. Apart' /\ FreshEntries' /\ FreshStatements'
    BY <2>1 DEF tables, timeVars, statementVars, requestVars, entryCopies,
                statementCopies, InStep, Apart, FreshEntries, FreshStatements
  <2>3. Moves
    BY <2>1 DEF Moves, tables, timeVars, statementVars
  <2> QED BY <2>1, <2>2, <2>3, TablesSettled DEF InStep
<1>2. CASE \E e \in Entries : Record(e)
  BY <1>2, RecordGuarded DEF Moves
<1>3. ASSUME NEW c \in Clerks, Read(c) \/ TakeNumber(c) \/ Abandon(c)
      PROVE  InStep' /\ Settled' /\ Moves
  BY <1>3, ReadGuarded, TakeNumberGuarded, AbandonGuarded
  DEF Moves, tables, timeVars, statementVars
<1>4. ASSUME NEW c \in Clerks, SaveEntry(c) \/ DraftStatement(c) \/ RaiseInvoice(c)
      PROVE  InStep' /\ Settled' /\ Moves
  BY <1>4, SaveEntryGuarded, DraftStatementGuarded, RaiseInvoiceGuarded DEF Moves
<1>5. ASSUME NEW c \in Clerks, SaveReleased(c)
      PROVE  InStep' /\ Settled' /\ Moves
  BY <1>5, SaveReleasedGuarded DEF Moves
<1>6. ASSUME NEW c \in Clerks, SaveRevised(c) \/ SaveApproved(c)
      PROVE  InStep' /\ Settled' /\ Moves
  <2>1. /\ InStep' /\ Settled' /\ UNCHANGED on
        /\ pc[c] \in {"revising", "approving"}
        /\ excluded' = [excluded EXCEPT ![target[c]] = linesCopy[c]]
    BY <1>6, ReviewGuarded
  <2>2. /\ target[c] \in Statements /\ state[target[c]] = "draft"
        /\ pc[c] = "approving" => linesCopy[c] = excluded[target[c]]
    BY <2>1 DEF IInv, PositionOK, InStep, FreshStatements, AtStatement
  <2>3. ASSUME NEW s \in Statements, NEW k \in excluded[s] \ excluded'[s]
        PROVE  state[s] = "draft" /\ pc[c] = "revising" /\ target[c] = s
    BY <2>1, <2>2, <2>3 DEF IInv, TypeOK
  <2> QED BY <2>1, <2>3 DEF Moves
<1> QED BY <1>1, <1>2, <1>3, <1>4, <1>5, <1>6 DEF Next, Write

-----------------------------------------------------------------------------
(* What requests that do not conflict guarantee.                           *)

LEMMA GuardedInvariant == ASSUME Guarded PROVE Spec => [](IInv /\ InStep /\ Settled)
<1>1. Init => InStep /\ Settled
  BY DEF Init, InStep, Apart, FreshEntries, FreshStatements, AtStatement, Settled,
         Attached, Live, Invoiced, Issued, OneInvoicePerStatement
<1>2. IInv /\ InStep /\ Settled /\ [Next]_vars => IInv' /\ InStep' /\ Settled'
  BY StepIInv, StepGuarded
<1> QED BY InitIInv, <1>1, <1>2, PTL DEF Spec

\* No statement is invoiced twice (RaiseInvoice).
THEOREM InvoicedOnce == ASSUME Guarded PROVE Spec => []OneInvoicePerStatement
<1>1. Settled => OneInvoicePerStatement
  BY DEF Settled
<1> QED BY GuardedInvariant, <1>1, PTL

\* Two live statements never carry one hour (GenerateStatement).
THEOREM HoursCarriedOnce == ASSUME Guarded PROVE Spec => []CarriedOnce
<1>1. IInv /\ Settled => CarriedOnce
  BY DEF Settled, Attached, CarriedOnce, IInv, TypeOK
<1> QED BY GuardedInvariant, <1>1, PTL

\* The hours of an invoice stay on its statement (ReleaseFromStatement).
THEOREM InvoicesBacked == ASSUME Guarded PROVE Spec => []InvoiceBacked
<1>1. IInv /\ Settled => InvoiceBacked
  BY DEF Settled, Attached, Live, Invoiced, Issued, InvoiceBacked, HoursOn, IInv, TypeOK
<1> QED BY GuardedInvariant, <1>1, PTL

\* No hour is billed twice: the invoices' statements are different, live, and
\* so carry different hours.
THEOREM NothingBilledTwice == ASSUME Guarded PROVE Spec => []HoursBilledOnce
<1>1. IInv /\ Settled => HoursBilledOnce
  <2> SUFFICES ASSUME IInv, Settled, NEW m \in Issued, NEW n \in Issued, m # n,
                      NEW e \in HoursOn(m) \cap HoursOn(n)
               PROVE  FALSE
    BY DEF HoursBilledOnce
  <2>1. /\ invoiceOf[m] \in Statements /\ state[invoiceOf[m]] = "invoiced"
        /\ invoiceOf[n] \in Statements /\ state[invoiceOf[n]] = "invoiced"
        /\ invoiceOf[m] # invoiceOf[n]
    BY DEF Settled, Invoiced, Issued, OneInvoicePerStatement, IInv, TypeOK
  <2>2. e \in carries[invoiceOf[m]] /\ e \in carries[invoiceOf[n]]
    BY DEF HoursOn
  <2> QED BY <2>1, <2>2 DEF Settled, Attached, Live
<1> QED BY GuardedInvariant, <1>1, PTL

\* An hour leaves a statement by its cancellation only (TimeEntry, FR-26).
THEOREM HoursStayPut == ASSUME Guarded PROVE Spec => ReleasedOnlyByCancelling
<1>1. IInv /\ InStep /\ Settled /\ [Next]_vars =>
         [\A e \in Entries :
             on[e] # None /\ on'[e] # on[e]
                 => on'[e] = None /\ state'[on[e]] = "cancelled"]_vars
  BY StepGuarded DEF Moves
<1> QED BY GuardedInvariant, <1>1, PTL DEF Spec, ReleasedOnlyByCancelling

\* A line taken off a statement stays off (Statement.exclude).
THEOREM ExclusionsStand == ASSUME Guarded PROVE Spec => ExclusionStands
<1>1. IInv /\ InStep /\ Settled /\ [Next]_vars =>
         [\A s \in Statements : \A k \in excluded[s] \ (excluded[s])' :
             state[s] = "draft" /\ \E c \in Clerks : pc[c] = "revising" /\ target[c] = s]_vars
  <2> SUFFICES ASSUME Moves
               PROVE  \A s \in Statements : \A k \in excluded[s] \ (excluded[s])' :
                        state[s] = "draft"
                        /\ \E c \in Clerks : pc[c] = "revising" /\ target[c] = s
    BY StepGuarded
  <2> QED BY DEF Moves
<1> QED BY GuardedInvariant, <1>1, PTL DEF Spec, ExclusionStands

\* Between live statements, between invoices and of one statement, nothing is
\* counted twice, as long as requests that conflict are not in flight together.
THEOREM NothingCountedTwice == ASSUME Guarded PROVE Spec => []BilledOnce
  BY NothingBilledTwice, HoursCarriedOnce, InvoicedOnce, PTL DEF BilledOnce

\* What was decided in review stands: hours stay on a statement until it is
\* cancelled, a line taken off comes back by restore() only.
THEOREM ReviewStands == ASSUME Guarded PROVE Spec => DecisionsStand
  BY HoursStayPut, ExclusionsStand DEF DecisionsStand

-----------------------------------------------------------------------------
(* The pages (Screens). Each kind of thing has its acts, with what is carried *)
(* out, offered and served; the theorem is put together at the end.           *)

HIDE BillingAssumption

\* What the runs check of the thing, as predicates of any thing.
Honest(x) == Offers(x) \ Served(x) = RefusedAnyway(x)

MovesOn(x) ==
    Finished(x) \/
    LET once == Onward(x)
        twice == once \cup UNION {Onward(y) : y \in once}
    IN \E z \in twice \cup UNION {Onward(y) : y \in twice} : Stage(z) # Stage(x)

Harmless(x) ==
    \A s \in Serves(x) : s.act \in Offers(x) \ Repeated =>
        \A again \in Serves(s.to) : again.act = s.act => again.to = s.to

USE ScreensAssumption

\* An act and its result, taken apart.
LEMMA DoneIs == ASSUME NEW s, NEW act, NEW to, s = Done(act, to) PROVE s.act = act /\ s.to = to
  BY DEF Done

\* An act among what is carried out is served.
LEMMA Carried ==
  ASSUME NEW x, NEW a, NEW act, NEW to, Done(act, to) \in Serves(x), a = act
  PROVE  a \in Served(x)
  BY DEF Done, Served

\* Work moves on in one act, in two, in three.
LEMMA OneAct ==
  ASSUME NEW x, NEW s \in Serves(x), s.act \in Offers(x), Stage(s.to) # Stage(x)
  PROVE  MovesOn(x)
  BY DEF MovesOn, Onward

LEMMA TwoActs ==
  ASSUME NEW x, NEW s \in Serves(x), s.act \in Offers(x),
         NEW r \in Serves(s.to), r.act \in Offers(s.to), Stage(r.to) # Stage(x)
  PROVE  MovesOn(x)
  BY DEF MovesOn, Onward

LEMMA ThreeActs ==
  ASSUME NEW x, NEW s \in Serves(x), s.act \in Offers(x),
         NEW r \in Serves(s.to), r.act \in Offers(s.to),
         NEW t \in Serves(r.to), t.act \in Offers(r.to), Stage(t.to) # Stage(x)
  PROVE  MovesOn(x)
  BY DEF MovesOn, Onward

-----------------------------------------------------------------------------
\* What the server carries out of a quotation: an act, and what it makes of it.
QuotationActs(q, act, to) ==
    \/ q.state = "draft" /\ \E l \in Lines \ (q.lines \cup q.dropped) :
          act = <<"add", "line">> /\ to = [q EXCEPT !.lines = @ \cup {l}]
    \/ q.state = "draft" /\ \E l \in q.lines :
          act = <<"remove", l>> /\ to = [q EXCEPT !.lines = @ \ {l}, !.dropped = @ \cup {l}]
    \/ q.state = "draft" /\ act = <<"choose", "branch">> /\ to = [q EXCEPT !.branch = TRUE]
    \/ /\ q.state = "draft" /\ q.lines # {} /\ ~ q.late /\ q.branch
       /\ act = <<"mark", "sent">> /\ to = [q EXCEPT !.state = "sent"]
    \/ /\ q.state = "draft" /\ q.lines # {} /\ ~ q.late /\ q.branch /\ q.address
       /\ act = <<"email", "client">> /\ to = [q EXCEPT !.state = "sent", !.link = TRUE]
    \/ q.state = "sent" /\ \E d \in {"accepted", "declined"} :
          act = <<"record", d>> /\ to = [q EXCEPT !.state = d]
    \/ q.state = "sent" /\ q.link /\ \E d \in {"accepted", "declined"} :
          act = <<"answer", d>> /\ to = [q EXCEPT !.state = d]

\* The page and the server, for a quotation.
LEMMA QuotationIs ==
  ASSUME NEW q \in Quotations
  PROVE  /\ Offers(q) = QuotationOffers(q) \cup AddLine(q) \cup LinkOffers(q)
         /\ Serves(q) = QuotationEdits(q) \cup QuotationSends(q) \cup QuotationDecisions(q)
         /\ Passing(q) = QuotationPassing(q)
         /\ Stage(q) = q.state
  BY DEF Quotations, Offers, Serves, Passing, Stage

\* What is carried out of a quotation, act by act.
LEMMA QuotationServes ==
  ASSUME NEW q \in Quotations, NEW act, NEW to
  PROVE  Done(act, to) \in Serves(q) <=> QuotationActs(q, act, to)
<1>0. \A a, b : Done(act, to) = Done(a, b) <=> act = a /\ to = b
  BY DEF Done
<1>1. Done(act, to) \in QuotationEdits(q) <=>
        \/ q.state = "draft" /\ \E l \in Lines \ (q.lines \cup q.dropped) :
              act = <<"add", "line">> /\ to = [q EXCEPT !.lines = @ \cup {l}]
        \/ q.state = "draft" /\ \E l \in q.lines :
              act = <<"remove", l>> /\ to = [q EXCEPT !.lines = @ \ {l}, !.dropped = @ \cup {l}]
        \/ q.state = "draft" /\ act = <<"choose", "branch">> /\ to = [q EXCEPT !.branch = TRUE]
  <2>1. Done(act, to) \in {Done(<<"add", "line">>, [q EXCEPT !.lines = @ \cup {l}]) : l \in Lines \ (q.lines \cup q.dropped)}
          <=> \E l \in Lines \ (q.lines \cup q.dropped) :
                 act = <<"add", "line">> /\ to = [q EXCEPT !.lines = @ \cup {l}]
    BY <1>0, Zenon
  <2>2. Done(act, to) \in {Done(<<"remove", l>>, [q EXCEPT !.lines = @ \ {l}, !.dropped = @ \cup {l}]) : l \in q.lines}
          <=> \E l \in q.lines :
                 act = <<"remove", l>> /\ to = [q EXCEPT !.lines = @ \ {l}, !.dropped = @ \cup {l}]
    <3>1. ASSUME NEW l \in q.lines
          PROVE  Done(act, to) = Done(<<"remove", l>>, [q EXCEPT !.lines = @ \ {l}, !.dropped = @ \cup {l}])
                   <=> act = <<"remove", l>> /\ to = [q EXCEPT !.lines = @ \ {l}, !.dropped = @ \cup {l}]
      BY <1>0, Zenon
    <3> QED BY <3>1, Zenon
  <2>3. Done(act, to) \in {Done(<<"choose", "branch">>, [q EXCEPT !.branch = TRUE])}
          <=> act = <<"choose", "branch">> /\ to = [q EXCEPT !.branch = TRUE]
    BY <1>0, Zenon
  <2> QED BY <2>1, <2>2, <2>3, Zenon DEF QuotationEdits, When, MustBeDraft
<1>2. Done(act, to) \in QuotationSends(q) <=>
        \/ /\ q.state = "draft" /\ q.lines # {} /\ ~ q.late /\ q.branch
           /\ act = <<"mark", "sent">> /\ to = [q EXCEPT !.state = "sent"]
        \/ /\ q.state = "draft" /\ q.lines # {} /\ ~ q.late /\ q.branch /\ q.address
           /\ act = <<"email", "client">> /\ to = [q EXCEPT !.state = "sent", !.link = TRUE]
  BY <1>0, Zenon DEF QuotationSends, When, MustBeDraft
<1>3. Done(act, to) \in QuotationDecisions(q) <=>
        \/ q.state = "sent" /\ \E d \in {"accepted", "declined"} :
              act = <<"record", d>> /\ to = [q EXCEPT !.state = d]
        \/ q.state = "sent" /\ q.link /\ \E d \in {"accepted", "declined"} :
              act = <<"answer", d>> /\ to = [q EXCEPT !.state = d]
  BY <1>0, Zenon DEF QuotationDecisions, When
<1> QED BY <1>1, <1>2, <1>3, QuotationIs, Zenon DEF QuotationActs

\* An act with its result, and nothing besides.
IsDone(s) == s = Done(s.act, s.to)

\* Nothing else is carried out of a quotation.
LEMMA QuotationDone == ASSUME NEW q \in Quotations, NEW s \in Serves(q) PROVE IsDone(s)
<1>1. \A act, to : s = Done(act, to) => IsDone(s)
  BY DEF Done, IsDone
<1>2. CASE s \in QuotationEdits(q)
  <2>1. \/ \E l \in Lines \ (q.lines \cup q.dropped) : s = Done(<<"add", "line">>, [q EXCEPT !.lines = @ \cup {l}])
        \/ \E l \in q.lines : s = Done(<<"remove", l>>, [q EXCEPT !.lines = @ \ {l}, !.dropped = @ \cup {l}])
        \/ s = Done(<<"choose", "branch">>, [q EXCEPT !.branch = TRUE])
    BY <1>2, Zenon DEF QuotationEdits, When
  <2> QED BY <1>1, <2>1, Zenon
<1>3. CASE s \in QuotationSends(q)
  BY <1>1, <1>3, Zenon DEF QuotationSends, When
<1>4. CASE s \in QuotationDecisions(q)
  <2>1. \E d : s = Done(<<"record", d>>, [q EXCEPT !.state = d]) \/ s = Done(<<"answer", d>>, [q EXCEPT !.state = d])
    BY <1>4, Zenon DEF QuotationDecisions, When
  <2> QED BY <1>1, <2>1, Zenon
<1> QED BY <1>2, <1>3, <1>4, QuotationIs, Zenon

\* What becomes of a quotation is again one.
LEMMA QuotationStays ==
  ASSUME NEW q \in Quotations
  PROVE  /\ \A act, to : QuotationActs(q, act, to) => to \in Quotations
         /\ Passing(q) \subseteq Quotations
<1>0. q.lines \in SUBSET Lines /\ q.dropped \in SUBSET Lines
  BY DEF Quotations
<1>1. \A l \in Lines : [q EXCEPT !.lines = @ \cup {l}] \in Quotations
  BY <1>0 DEF Quotations
<1>2. \A l \in q.lines : [q EXCEPT !.lines = @ \ {l}, !.dropped = @ \cup {l}] \in Quotations
  BY <1>0 DEF Quotations
<1>3. [q EXCEPT !.branch = TRUE] \in Quotations /\ [q EXCEPT !.late = TRUE] \in Quotations
        /\ [q EXCEPT !.link = FALSE] \in Quotations
  BY DEF Quotations
<1>4. \A to \in {"draft", "sent", "accepted", "declined", "expired"} :
         [q EXCEPT !.state = to] \in Quotations /\ [q EXCEPT !.state = to, !.link = TRUE] \in Quotations
  BY DEF Quotations
<1>5. ASSUME NEW act, NEW to, QuotationActs(q, act, to) PROVE to \in Quotations
  BY <1>1, <1>2, <1>3, <1>4, <1>5, Zenon DEF QuotationActs
<1>6. Passing(q) \subseteq Quotations
  BY <1>3, <1>4, QuotationIs, Zenon DEF QuotationPassing, When
<1> QED BY <1>5, <1>6, Zenon

\* What the page offers of a quotation, act by act.
LEMMA QuotationOffered ==
  ASSUME NEW q \in Quotations, NEW act
  PROVE  act \in Offers(q) <=>
           \/ q.state = "draft" /\ act = <<"choose", "branch">>
           \/ q.state = "draft" /\ \E l \in q.lines : act = <<"remove", l>>
           \/ q.state = "draft" /\ q.branch /\ (act = <<"email", "client">> \/ act = <<"mark", "sent">>)
           \/ q.state = "draft" /\ q.lines \cup q.dropped # Lines /\ act = <<"add", "line">>
           \/ q.state = "sent" /\ \E d \in {"accepted", "declined"} : act = <<"record", d>>
           \/ q.state = "sent" /\ q.link /\ \E d \in {"accepted", "declined"} : act = <<"answer", d>>
<1>1. act \in QuotationOffers(q) <=>
           \/ q.state = "draft" /\ act = <<"choose", "branch">>
           \/ q.state = "draft" /\ \E l \in q.lines : act = <<"remove", l>>
           \/ q.state = "draft" /\ q.branch /\ (act = <<"email", "client">> \/ act = <<"mark", "sent">>)
           \/ q.state = "sent" /\ \E d \in {"accepted", "declined"} : act = <<"record", d>>
  BY DEF QuotationOffers, When
<1>2. act \in AddLine(q) <=> q.state = "draft" /\ q.lines \cup q.dropped # Lines /\ act = <<"add", "line">>
  BY DEF AddLine, When
<1>3. act \in LinkOffers(q) <=>
           q.state = "sent" /\ q.link /\ \E d \in {"accepted", "declined"} : act = <<"answer", d>>
  BY DEF LinkOffers, When
<1> QED BY <1>1, <1>2, <1>3, QuotationIs

\* What is served of a quotation, act by act.
LEMMA QuotationServed ==
  ASSUME NEW q \in Quotations, NEW act
  PROVE  (\E to : QuotationActs(q, act, to)) <=>
         \/ q.state = "draft" /\ Lines \ (q.lines \cup q.dropped) # {} /\ act = <<"add", "line">>
         \/ q.state = "draft" /\ \E l \in q.lines : act = <<"remove", l>>
         \/ q.state = "draft" /\ act = <<"choose", "branch">>
         \/ q.state = "draft" /\ q.lines # {} /\ ~ q.late /\ q.branch /\ act = <<"mark", "sent">>
         \/ q.state = "draft" /\ q.lines # {} /\ ~ q.late /\ q.branch /\ q.address /\ act = <<"email", "client">>
         \/ q.state = "sent" /\ \E d \in {"accepted", "declined"} : act = <<"record", d>>
         \/ q.state = "sent" /\ q.link /\ \E d \in {"accepted", "declined"} : act = <<"answer", d>>
  BY Zenon DEF QuotationActs

\* An act repeated on a quotation changes nothing more.
LEMMA QuotationHarmless ==
  ASSUME NEW q \in Quotations, NEW act, NEW to, NEW again,
         QuotationActs(q, act, to), QuotationActs(to, act, again), act # <<"add", "line">>
  PROVE  again = to
<1>0. to \in Quotations
  BY QuotationStays
<1>1. CASE act = <<"choose", "branch">>
  <2>1. to = [q EXCEPT !.branch = TRUE] /\ again = [to EXCEPT !.branch = TRUE]
    BY <1>1 DEF QuotationActs
  <2> QED BY <2>1 DEF Quotations
<1>2. ASSUME NEW l \in q.lines, act = <<"remove", l>> PROVE FALSE
  <2>1. to = [q EXCEPT !.lines = @ \ {l}, !.dropped = @ \cup {l}]
    BY <1>2 DEF QuotationActs
  <2>2. to.lines = q.lines \ {l}
    BY <2>1 DEF Quotations
  <2>3. l \in to.lines
    BY <1>0, <1>2, QuotationServed
  <2> QED BY <2>2, <2>3
<1>3. CASE act = <<"mark", "sent">>
  <2>1. to = [q EXCEPT !.state = "sent"]
    BY <1>3 DEF QuotationActs
  <2>2. to.state = "sent"
    BY <2>1 DEF Quotations
  <2> QED BY <1>0, <1>3, <2>2, QuotationServed
<1>4. CASE act = <<"email", "client">>
  <2>1. to = [q EXCEPT !.state = "sent", !.link = TRUE]
    BY <1>4 DEF QuotationActs
  <2>2. to.state = "sent"
    BY <2>1 DEF Quotations
  <2> QED BY <1>0, <1>4, <2>2, QuotationServed
<1>5. ASSUME NEW d \in {"accepted", "declined"}, act = <<"record", d>> \/ act = <<"answer", d>> PROVE FALSE
  <2>1. to = [q EXCEPT !.state = d]
    <3>1. CASE act = <<"record", d>>
      BY <3>1 DEF QuotationActs
    <3>2. CASE act = <<"answer", d>>
      BY <3>2 DEF QuotationActs
    <3> QED BY <1>5, <3>1, <3>2
  <2>2. to.state = d
    BY <2>1 DEF Quotations
  <2> QED BY <1>0, <1>5, <2>2, QuotationServed
<1> QED BY <1>1, <1>2, <1>3, <1>4, <1>5, QuotationServed

\* The page of a quotation is refused only what is named.
LEMMA QuotationHonest ==
  ASSUME NEW q \in Quotations, NEW act
  PROVE  act \in Offers(q) /\ (~ \E to : QuotationActs(q, act, to)) <=> act \in RefusedAnyway(q)
<1>1. act \in RefusedAnyway(q) <=>
         /\ q.state = "draft" /\ q.branch
         /\ \/ (q.lines = {} \/ q.late) /\ act = <<"mark", "sent">>
            \/ (q.lines = {} \/ q.late \/ ~ q.address) /\ act = <<"email", "client">>
  BY DEF RefusedAnyway, Quotations, When
<1>2. q.lines \cup q.dropped # Lines <=> Lines \ (q.lines \cup q.dropped) # {}
  BY DEF Quotations
<1>3. CASE q.state = "draft" /\ (act = <<"mark", "sent">> \/ act = <<"email", "client">>)
  BY <1>1, <1>3, QuotationServed, QuotationOffered
<1>4. CASE q.state = "draft" /\ act # <<"mark", "sent">> /\ act # <<"email", "client">>
  BY <1>1, <1>2, <1>4, QuotationServed, QuotationOffered
<1>5. CASE q.state # "draft"
  BY <1>1, <1>5, QuotationServed, QuotationOffered
<1> QED BY <1>3, <1>4, <1>5

\* A draft is given a line and a branch, and sent; what was sent is answered.
LEMMA QuotationMoves == ASSUME NEW q \in Quotations PROVE MovesOn(q)
<1>0. ASSUME NEW x \in Quotations, NEW act, NEW to, QuotationActs(x, act, to), act \in Offers(x)
      PROVE  /\ Done(act, to) \in Serves(x) /\ Done(act, to).act \in Offers(x)
             /\ Done(act, to).to = to /\ to \in Quotations /\ Stage(to) = to.state
  BY <1>0, QuotationServes, QuotationStays, QuotationIs, DoneIs
<1>1. CASE q.state \in {"accepted", "declined", "expired"}
  BY <1>1 DEF MovesOn, Finished, Quotations
<1>2. CASE q.state = "sent"
  <2> DEFINE p == [q EXCEPT !.state = "accepted"]
  <2>1. QuotationActs(q, <<"record", "accepted">>, p)
    BY <1>2, Zenon DEF QuotationActs
  <2>2. <<"record", "accepted">> \in Offers(q)
    BY <1>2, QuotationOffered
  <2>3. p.state = "accepted" /\ Stage(q) = q.state
    BY QuotationIs DEF Quotations
  <2> HIDE DEF p
  <2> QED BY <1>0, <1>2, <2>1, <2>2, <2>3, OneAct
<1>3. CASE q.state = "draft" /\ ~ q.late /\ q.lines # {}
  <2> DEFINE p == [q EXCEPT !.branch = TRUE]
             r == [p EXCEPT !.state = "sent"]
  <2>1. QuotationActs(q, <<"choose", "branch">>, p) /\ <<"choose", "branch">> \in Offers(q)
    <3>1. QuotationActs(q, <<"choose", "branch">>, p)
      BY <1>3, Zenon DEF QuotationActs
    <3> QED BY <1>3, <3>1, QuotationOffered
  <2>2. p \in Quotations /\ p.state = "draft" /\ ~ p.late /\ p.lines # {} /\ p.branch
    BY <1>3 DEF Quotations
  <2>3. r.state = "sent" /\ Stage(q) = q.state
    BY <2>2, QuotationIs DEF Quotations
  <2> HIDE DEF p
  <2>4. QuotationActs(p, <<"mark", "sent">>, r)
    BY <2>2, Zenon DEF QuotationActs
  <2>5. <<"mark", "sent">> \in Offers(p)
    BY <2>2, QuotationOffered
  <2> HIDE DEF r
  <2>6. Stage(r) # Stage(q)
    BY <1>0, <1>3, <2>2, <2>3, <2>4, <2>5
  <2> QED BY <1>0, <2>1, <2>2, <2>4, <2>5, <2>6, TwoActs
<1>4. ASSUME q.state = "draft", ~ q.late, q.lines = {}, NEW l \in Lines, l \notin q.dropped PROVE MovesOn(q)
  <2> DEFINE o == [q EXCEPT !.lines = @ \cup {l}]
             p == [o EXCEPT !.branch = TRUE]
             r == [p EXCEPT !.state = "sent"]
  <2>1. QuotationActs(q, <<"add", "line">>, o) /\ <<"add", "line">> \in Offers(q)
    <3>1. QuotationActs(q, <<"add", "line">>, o)
      BY <1>4, Zenon DEF QuotationActs
    <3> QED BY <1>4, <3>1, QuotationOffered
  <2>2. o \in Quotations /\ o.state = "draft" /\ ~ o.late /\ o.lines # {}
    BY <1>4 DEF Quotations
  <2> HIDE DEF o
  <2>3. QuotationActs(o, <<"choose", "branch">>, p) /\ <<"choose", "branch">> \in Offers(o)
    <3>1. QuotationActs(o, <<"choose", "branch">>, p)
      BY <2>2, Zenon DEF QuotationActs
    <3> QED BY <2>2, <3>1, QuotationOffered
  <2>4. p \in Quotations /\ p.state = "draft" /\ ~ p.late /\ p.lines # {} /\ p.branch
    BY <2>2 DEF Quotations
  <2>5. r.state = "sent" /\ Stage(q) = q.state
    BY <2>4, QuotationIs DEF Quotations
  <2> HIDE DEF p
  <2>6. QuotationActs(p, <<"mark", "sent">>, r)
    BY <2>4, Zenon DEF QuotationActs
  <2>7. <<"mark", "sent">> \in Offers(p)
    BY <2>4, QuotationOffered
  <2> HIDE DEF r
  <2>8. Stage(r) # Stage(q)
    BY <1>0, <1>4, <2>4, <2>5, <2>6, <2>7
  <2> QED BY <1>0, <2>1, <2>2, <2>3, <2>4, <2>6, <2>7, <2>8, ThreeActs
<1>5. CASE q.state = "draft" /\ (q.late \/ (q.lines = {} /\ Lines \subseteq q.dropped))
  <2>1. q.lines = {} /\ Lines \subseteq q.dropped => q.dropped = Lines
    BY DEF Quotations
  <2> QED BY <1>5, <2>1 DEF MovesOn, Finished, Quotations
<1>6. q.state \in {"draft", "sent", "accepted", "declined", "expired"}
  BY DEF Quotations
<1> QED BY <1>1, <1>2, <1>3, <1>4, <1>5, <1>6

-----------------------------------------------------------------------------
\* What the server carries out of a statement.
StatementActs(x, act, to) ==
    \/ x.state = "draft" /\ \E l \in Lines : act = <<"exclude", l>> /\ to = [x EXCEPT !.out = @ \cup {l}]
    \/ x.state = "draft" /\ \E l \in x.out : act = <<"restore", l>> /\ to = [x EXCEPT !.out = @ \ {l}]
    \/ x.state = "draft" /\ \E l \in Lines : act = <<"adjust", l>> /\ to = [x EXCEPT !.nil = @ \ {l}]
    \/ x.state = "draft" /\ \E l \in Lines : act = <<"adjust to nothing", l>> /\ to = [x EXCEPT !.nil = @ \cup {l}]
    \/ /\ x.state = "draft" /\ ~ Lines \subseteq x.out \cup x.nil
       /\ act = <<"approve", "statement">> /\ to = [x EXCEPT !.state = "approved"]
    \/ x.state = "approved" /\ act = <<"raise", "invoice">> /\ to = [x EXCEPT !.state = "invoiced"]

\* The page and the server, for a statement.
LEMMA StatementIs ==
  ASSUME NEW x \in StatementRows
  PROVE  /\ Offers(x) = StatementOffers(x) \cup LineOffers(x)
         /\ Serves(x) = StatementEdits(x) \cup StatementMoves(x)
         /\ Passing(x) = {}
         /\ Stage(x) = x.state
  BY DEF StatementRows, Offers, Serves, Passing, Stage

\* What is carried out of a statement, act by act.
LEMMA StatementServes ==
  ASSUME NEW x \in StatementRows, NEW act, NEW to
  PROVE  Done(act, to) \in Serves(x) <=> StatementActs(x, act, to)
<1>0. \A a, b : Done(act, to) = Done(a, b) <=> act = a /\ to = b
  BY DEF Done
<1>1. Done(act, to) \in {Done(<<"exclude", l>>, [x EXCEPT !.out = @ \cup {l}]) : l \in Lines}
        <=> \E l \in Lines : act = <<"exclude", l>> /\ to = [x EXCEPT !.out = @ \cup {l}]
  BY <1>0, Zenon
<1>2. Done(act, to) \in {Done(<<"restore", l>>, [x EXCEPT !.out = @ \ {l}]) : l \in x.out}
        <=> \E l \in x.out : act = <<"restore", l>> /\ to = [x EXCEPT !.out = @ \ {l}]
  BY <1>0, Zenon
<1>3. Done(act, to) \in {Done(<<"adjust", l>>, [x EXCEPT !.nil = @ \ {l}]) : l \in Lines}
        <=> \E l \in Lines : act = <<"adjust", l>> /\ to = [x EXCEPT !.nil = @ \ {l}]
  BY <1>0, Zenon
<1>4. Done(act, to) \in {Done(<<"adjust to nothing", l>>, [x EXCEPT !.nil = @ \cup {l}]) : l \in Lines}
        <=> \E l \in Lines : act = <<"adjust to nothing", l>> /\ to = [x EXCEPT !.nil = @ \cup {l}]
  BY <1>0, Zenon
<1>5. Done(act, to) \in StatementEdits(x) <=>
        /\ x.state = "draft"
        /\ \/ \E l \in Lines : act = <<"exclude", l>> /\ to = [x EXCEPT !.out = @ \cup {l}]
           \/ \E l \in x.out : act = <<"restore", l>> /\ to = [x EXCEPT !.out = @ \ {l}]
           \/ \E l \in Lines : act = <<"adjust", l>> /\ to = [x EXCEPT !.nil = @ \ {l}]
           \/ \E l \in Lines : act = <<"adjust to nothing", l>> /\ to = [x EXCEPT !.nil = @ \cup {l}]
  BY <1>1, <1>2, <1>3, <1>4, Zenon DEF StatementEdits, When
<1>6. Done(act, to) \in StatementMoves(x) <=>
        \/ /\ x.state = "draft" /\ ~ Lines \subseteq x.out \cup x.nil
           /\ act = <<"approve", "statement">> /\ to = [x EXCEPT !.state = "approved"]
        \/ x.state = "approved" /\ act = <<"raise", "invoice">> /\ to = [x EXCEPT !.state = "invoiced"]
  BY <1>0, Zenon DEF StatementMoves, When
<1> QED BY <1>5, <1>6, StatementIs, Zenon DEF StatementActs

\* Nothing else is carried out of a statement.
LEMMA StatementDone == ASSUME NEW x \in StatementRows, NEW s \in Serves(x) PROVE IsDone(s)
<1>1. \A act, to : s = Done(act, to) => IsDone(s)
  BY DEF Done, IsDone
<1>2. CASE s \in StatementEdits(x)
  <2>1. \/ \E l \in Lines : s = Done(<<"exclude", l>>, [x EXCEPT !.out = @ \cup {l}])
        \/ \E l \in x.out : s = Done(<<"restore", l>>, [x EXCEPT !.out = @ \ {l}])
        \/ \E l \in Lines : s = Done(<<"adjust", l>>, [x EXCEPT !.nil = @ \ {l}])
        \/ \E l \in Lines : s = Done(<<"adjust to nothing", l>>, [x EXCEPT !.nil = @ \cup {l}])
    BY <1>2, Zenon DEF StatementEdits, When
  <2> QED BY <1>1, <2>1, Zenon
<1>3. CASE s \in StatementMoves(x)
  BY <1>1, <1>3, Zenon DEF StatementMoves, When
<1> QED BY <1>2, <1>3, StatementIs, Zenon

\* What becomes of a statement is again one.
LEMMA StatementStays ==
  ASSUME NEW x \in StatementRows, NEW act, NEW to, StatementActs(x, act, to)
  PROVE  to \in StatementRows
<1>0. x.out \in SUBSET Lines /\ x.nil \in SUBSET Lines
  BY DEF StatementRows
<1>1. \A l \in Lines : /\ [x EXCEPT !.out = @ \cup {l}] \in StatementRows
                       /\ [x EXCEPT !.nil = @ \cup {l}] \in StatementRows
                       /\ [x EXCEPT !.nil = @ \ {l}] \in StatementRows
  BY <1>0 DEF StatementRows
<1>2. \A l \in x.out : [x EXCEPT !.out = @ \ {l}] \in StatementRows
  BY <1>0 DEF StatementRows
<1>3. [x EXCEPT !.state = "approved"] \in StatementRows /\ [x EXCEPT !.state = "invoiced"] \in StatementRows
  BY DEF StatementRows
<1> QED BY <1>1, <1>2, <1>3, Zenon DEF StatementActs

\* What the page offers of a statement, act by act.
LEMMA StatementOffered ==
  ASSUME NEW x \in StatementRows, NEW act
  PROVE  act \in Offers(x) <=>
           \/ x.state = "draft" /\ act = <<"approve", "statement">>
           \/ x.state = "approved" /\ act = <<"raise", "invoice">>
           \/ x.state = "draft" /\ \E l \in x.out : act = <<"restore", l>>
           \/ x.state = "draft" /\ \E l \in Lines \ x.out : act = <<"exclude", l>>
           \/ x.state = "draft" /\ \E l \in Lines \ x.out : act = <<"adjust", l>>
           \/ x.state = "draft" /\ \E l \in Lines \ x.out : act = <<"adjust to nothing", l>>
<1>1. act \in StatementOffers(x) <=>
           \/ x.state = "draft" /\ act = <<"approve", "statement">>
           \/ x.state = "approved" /\ act = <<"raise", "invoice">>
  BY DEF StatementOffers, When
<1>2. act \in LineOffers(x) <=>
           /\ x.state = "draft"
           /\ \/ \E l \in x.out : act = <<"restore", l>>
              \/ \E l \in Lines \ x.out : act = <<"exclude", l>>
              \/ \E l \in Lines \ x.out : act = <<"adjust", l>>
              \/ \E l \in Lines \ x.out : act = <<"adjust to nothing", l>>
  <2> DEFINE Back == {<<"restore", l>> : l \in x.out}
             Verbs == {"exclude", "adjust", "adjust to nothing"}
             Forth == {<<verb, l>> : verb \in Verbs, l \in Lines \ x.out}
  <2>1. act \in Back <=> \E l \in x.out : act = <<"restore", l>>
    OBVIOUS
  <2>2. act \in Forth <=> \E verb \in Verbs : \E l \in Lines \ x.out : act = <<verb, l>>
    <3> HIDE DEF Verbs
    <3> QED OBVIOUS
  <2>3. LineOffers(x) = IF x.state = "draft" THEN Back \cup Forth ELSE {}
    BY DEF LineOffers, When
  <2> HIDE DEF Back, Forth
  <2> DEFINE Has(verb) == \E l \in Lines \ x.out : act = <<verb, l>>
  <2>4. act \in Forth <=> Has("exclude") \/ Has("adjust") \/ Has("adjust to nothing")
    <3>1. act \in Forth <=> \E verb \in Verbs : Has(verb)
      BY <2>2
    <3> HIDE DEF Has
    <3> QED BY <3>1
  <2> QED BY <2>1, <2>3, <2>4
<1> QED BY <1>1, <1>2, StatementIs

\* What is served of a statement, act by act.
LEMMA StatementServed ==
  ASSUME NEW x \in StatementRows, NEW act
  PROVE  (\E to : StatementActs(x, act, to)) <=>
           \/ x.state = "draft" /\ \E l \in Lines : act = <<"exclude", l>>
           \/ x.state = "draft" /\ \E l \in Lines : act = <<"adjust", l>>
           \/ x.state = "draft" /\ \E l \in Lines : act = <<"adjust to nothing", l>>
           \/ x.state = "draft" /\ \E l \in x.out : act = <<"restore", l>>
           \/ x.state = "draft" /\ ~ Lines \subseteq x.out \cup x.nil /\ act = <<"approve", "statement">>
           \/ x.state = "approved" /\ act = <<"raise", "invoice">>
  BY Zenon DEF StatementActs

\* What an act tells of the state a statement was in.
LEMMA StatementTold ==
  ASSUME NEW x \in StatementRows, NEW act, NEW to, StatementActs(x, act, to)
  PROVE  /\ act = <<"approve", "statement">> => x.state = "draft" /\ ~ Lines \subseteq x.out \cup x.nil
         /\ act = <<"raise", "invoice">> => x.state = "approved"
         /\ \A l : act = <<"restore", l>> => x.state = "draft" /\ l \in x.out
<1>1. \/ x.state = "draft" /\ \E l \in Lines : act = <<"exclude", l>>
      \/ x.state = "draft" /\ \E l \in Lines : act = <<"adjust", l>>
      \/ x.state = "draft" /\ \E l \in Lines : act = <<"adjust to nothing", l>>
      \/ x.state = "draft" /\ \E l \in x.out : act = <<"restore", l>>
      \/ x.state = "draft" /\ ~ Lines \subseteq x.out \cup x.nil /\ act = <<"approve", "statement">>
      \/ x.state = "approved" /\ act = <<"raise", "invoice">>
  BY StatementServed
<1>2. ASSUME act = <<"approve", "statement">> PROVE x.state = "draft" /\ ~ Lines \subseteq x.out \cup x.nil
  BY <1>1, <1>2
<1>3. ASSUME act = <<"raise", "invoice">> PROVE x.state = "approved"
  BY <1>1, <1>3
<1>4. ASSUME NEW l, act = <<"restore", l>> PROVE x.state = "draft" /\ l \in x.out
  BY <1>1, <1>4
<1> QED BY <1>2, <1>3, <1>4

\* An act repeated on a statement changes nothing more.
LEMMA StatementHarmless ==
  ASSUME NEW x \in StatementRows, NEW act, NEW to, NEW again,
         StatementActs(x, act, to), StatementActs(to, act, again)
  PROVE  again = to
<1>0. to \in StatementRows
  BY StatementStays
<1>1. ASSUME NEW l \in Lines, act = <<"exclude", l>> PROVE again = to
  <2>1. to = [x EXCEPT !.out = @ \cup {l}] /\ again = [to EXCEPT !.out = @ \cup {l}]
    BY <1>1 DEF StatementActs
  <2>2. to.out \cup {l} = to.out
    BY <2>1 DEF StatementRows
  <2> QED BY <1>0, <2>1, <2>2 DEF StatementRows
<1>2. ASSUME NEW l \in Lines, act = <<"adjust to nothing", l>> PROVE again = to
  <2>1. to = [x EXCEPT !.nil = @ \cup {l}] /\ again = [to EXCEPT !.nil = @ \cup {l}]
    BY <1>2 DEF StatementActs
  <2>2. to.nil \cup {l} = to.nil
    BY <2>1 DEF StatementRows
  <2> QED BY <1>0, <2>1, <2>2 DEF StatementRows
<1>3. ASSUME NEW l \in Lines, act = <<"adjust", l>> PROVE again = to
  <2>1. to = [x EXCEPT !.nil = @ \ {l}] /\ again = [to EXCEPT !.nil = @ \ {l}]
    BY <1>3 DEF StatementActs
  <2>2. to.nil \ {l} = to.nil
    BY <2>1 DEF StatementRows
  <2> QED BY <1>0, <2>1, <2>2 DEF StatementRows
<1>4. ASSUME NEW l \in x.out, act = <<"restore", l>> PROVE FALSE
  <2>1. to = [x EXCEPT !.out = @ \ {l}]
    BY <1>4 DEF StatementActs
  <2>2. l \notin to.out
    BY <2>1 DEF StatementRows
  <2> QED BY <1>0, <1>4, <2>2, StatementTold
<1>5. CASE act = <<"approve", "statement">>
  <2>1. to = [x EXCEPT !.state = "approved"]
    BY <1>5 DEF StatementActs
  <2>2. to.state = "approved"
    BY <2>1 DEF StatementRows
  <2> QED BY <1>0, <1>5, <2>2, StatementTold
<1>6. CASE act = <<"raise", "invoice">>
  <2>1. to = [x EXCEPT !.state = "invoiced"]
    BY <1>6 DEF StatementActs
  <2>2. to.state = "invoiced"
    BY <2>1 DEF StatementRows
  <2> QED BY <1>0, <1>6, <2>2, StatementTold
<1> QED BY <1>1, <1>2, <1>3, <1>4, <1>5, <1>6, StatementServed

\* The page of a statement is refused only what is named.
LEMMA StatementHonest ==
  ASSUME NEW x \in StatementRows, NEW act
  PROVE  act \in Offers(x) /\ (~ \E to : StatementActs(x, act, to)) <=> act \in RefusedAnyway(x)
<1>1. act \in RefusedAnyway(x) <=>
         x.state = "draft" /\ Lines \subseteq x.out \cup x.nil /\ act = <<"approve", "statement">>
  BY DEF RefusedAnyway, StatementRows, When
<1>2. (\E to : StatementActs(x, act, to)) <=>
           \/ x.state = "draft" /\ \E l \in Lines : act = <<"exclude", l>>
           \/ x.state = "draft" /\ \E l \in Lines : act = <<"adjust", l>>
           \/ x.state = "draft" /\ \E l \in Lines : act = <<"adjust to nothing", l>>
           \/ x.state = "draft" /\ \E l \in x.out : act = <<"restore", l>>
           \/ x.state = "draft" /\ ~ Lines \subseteq x.out \cup x.nil /\ act = <<"approve", "statement">>
           \/ x.state = "approved" /\ act = <<"raise", "invoice">>
  BY StatementServed
<1>3. act \in Offers(x) <=>
           \/ x.state = "draft" /\ act = <<"approve", "statement">>
           \/ x.state = "approved" /\ act = <<"raise", "invoice">>
           \/ x.state = "draft" /\ \E l \in x.out : act = <<"restore", l>>
           \/ x.state = "draft" /\ \E l \in Lines \ x.out : act = <<"exclude", l>>
           \/ x.state = "draft" /\ \E l \in Lines \ x.out : act = <<"adjust", l>>
           \/ x.state = "draft" /\ \E l \in Lines \ x.out : act = <<"adjust to nothing", l>>
  BY StatementOffered
<1>4. \A l : <<"approve", "statement">> \notin {<<"exclude", l>>, <<"adjust", l>>, <<"adjust to nothing", l>>, <<"restore", l>>}
  OBVIOUS
<1>5. x.state = "draft" => x.state # "approved"
  OBVIOUS
<1> QED BY <1>1, <1>2, <1>3, <1>4, <1>5

\* A line is restored and adjusted until there is something to approve.
LEMMA StatementGoesOn == ASSUME NEW x \in StatementRows PROVE MovesOn(x)
<1>0. ASSUME NEW y \in StatementRows, NEW act, NEW to, StatementActs(y, act, to), act \in Offers(y)
      PROVE  /\ Done(act, to) \in Serves(y) /\ Done(act, to).act \in Offers(y)
             /\ Done(act, to).to = to /\ to \in StatementRows /\ Stage(to) = to.state
  BY <1>0, StatementServes, StatementStays, StatementIs, DoneIs
<1>1. CASE x.state = "invoiced"
  BY <1>1 DEF MovesOn, Finished, StatementRows
<1>2. CASE x.state = "approved"
  <2> DEFINE p == [x EXCEPT !.state = "invoiced"]
  <2>1. StatementActs(x, <<"raise", "invoice">>, p)
    BY <1>2, Zenon DEF StatementActs
  <2>2. <<"raise", "invoice">> \in Offers(x)
    BY <1>2, StatementOffered
  <2>3. p.state = "invoiced" /\ Stage(x) = x.state
    BY StatementIs DEF StatementRows
  <2> HIDE DEF p
  <2> QED BY <1>0, <1>2, <2>1, <2>2, <2>3, OneAct
<1>3. ASSUME NEW y \in StatementRows, y.state = "draft", NEW l \in Lines, l \notin y.out \cup y.nil
      PROVE  \E to \in StatementRows : StatementActs(y, <<"approve", "statement">>, to) /\ Stage(to) = "approved"
  <2> DEFINE p == [y EXCEPT !.state = "approved"]
  <2>1. StatementActs(y, <<"approve", "statement">>, p)
    <3>1. ~ Lines \subseteq y.out \cup y.nil
      BY <1>3
    <3> QED BY <1>3, <3>1, Zenon DEF StatementActs
  <2>2. p \in StatementRows /\ p.state = "approved"
    BY DEF StatementRows
  <2> HIDE DEF p
  <2> QED BY <2>1, <2>2, StatementIs
<1>4. ASSUME x.state = "draft", NEW l \in Lines, l \notin x.out \cup x.nil PROVE MovesOn(x)
  <2>1. PICK p \in StatementRows : StatementActs(x, <<"approve", "statement">>, p) /\ Stage(p) = "approved"
    BY <1>3, <1>4
  <2>2. <<"approve", "statement">> \in Offers(x) /\ Stage(x) = "draft"
    BY <1>4, StatementOffered, StatementIs
  <2> QED BY <1>0, <2>1, <2>2, OneAct
<1>5. ASSUME NEW y \in StatementRows, y.state = "draft", NEW l \in Lines \ y.out
      PROVE  \E p \in StatementRows :
                /\ StatementActs(y, <<"adjust", l>>, p) /\ <<"adjust", l>> \in Offers(y)
                /\ p.state = "draft" /\ l \notin p.out \cup p.nil
  <2> DEFINE p == [y EXCEPT !.nil = @ \ {l}]
  <2>1. StatementActs(y, <<"adjust", l>>, p)
    BY <1>5, Zenon DEF StatementActs
  <2>2. <<"adjust", l>> \in Offers(y)
    BY <1>5, StatementOffered
  <2>3. p \in StatementRows /\ p.state = "draft" /\ l \notin p.out \cup p.nil
    BY <1>5 DEF StatementRows
  <2> QED BY <2>1, <2>2, <2>3
<1>6. ASSUME x.state = "draft", NEW l \in Lines \ x.out PROVE MovesOn(x)
  <2>1. PICK p \in StatementRows :
                /\ StatementActs(x, <<"adjust", l>>, p) /\ <<"adjust", l>> \in Offers(x)
                /\ p.state = "draft" /\ l \notin p.out \cup p.nil
    BY <1>5, <1>6
  <2>2. PICK r \in StatementRows : StatementActs(p, <<"approve", "statement">>, r) /\ Stage(r) = "approved"
    BY <1>3, <2>1
  <2>3. <<"approve", "statement">> \in Offers(p) /\ Stage(x) = "draft"
    BY <1>6, <2>1, StatementOffered, StatementIs
  <2> QED BY <1>0, <2>1, <2>2, <2>3, TwoActs
<1>7. ASSUME x.state = "draft", NEW l \in x.out PROVE MovesOn(x)
  <2> DEFINE o == [x EXCEPT !.out = @ \ {l}]
  <2>1. StatementActs(x, <<"restore", l>>, o)
    BY <1>7, Zenon DEF StatementActs
  <2>2. <<"restore", l>> \in Offers(x) /\ Stage(x) = "draft"
    BY <1>7, StatementOffered, StatementIs
  <2>3. o \in StatementRows /\ o.state = "draft" /\ l \in Lines \ o.out
    BY <1>7 DEF StatementRows
  <2> HIDE DEF o
  <2>4. PICK p \in StatementRows :
                /\ StatementActs(o, <<"adjust", l>>, p) /\ <<"adjust", l>> \in Offers(o)
                /\ p.state = "draft" /\ l \notin p.out \cup p.nil
    BY <1>5, <2>3
  <2>5. PICK r \in StatementRows : StatementActs(p, <<"approve", "statement">>, r) /\ Stage(r) = "approved"
    BY <1>3, <2>3, <2>4
  <2>6. <<"approve", "statement">> \in Offers(p)
    BY <2>4, StatementOffered
  <2> QED BY <1>0, <2>1, <2>2, <2>3, <2>4, <2>5, <2>6, ThreeActs
<1>8. x.state \in {"draft", "approved", "invoiced"} /\ \E l : l \in Lines
  BY DEF StatementRows
<1> QED BY <1>1, <1>2, <1>6, <1>7, <1>8

-----------------------------------------------------------------------------
\* The page and the server, for an invoice.
LEMMA InvoiceIs ==
  ASSUME NEW x \in Invoices
  PROVE  /\ Offers(x) = InvoiceOffers(x)
         /\ Serves(x) = InvoiceServes(x)
         /\ Passing(x) = {}
         /\ RefusedAnyway(x) = {}
         /\ Stage(x) = x.owed
         /\ Finished(x) <=> x.owed = 0
  BY DEF Invoices, Offers, Serves, Passing, RefusedAnyway, Stage, Finished

\* An invoice takes any sum.
LEMMA InvoiceServed ==
  ASSUME NEW x \in Invoices, NEW s
  PROVE  s \in Serves(x) <=> \E left \in 0 .. MaxOwed :
             (left < x.owed \/ left = 0) /\ s = Done(<<"record", "payment">>, [x EXCEPT !.owed = left])
  BY InvoiceIs, Zenon DEF InvoiceServes

\* All that there is to say of an invoice: money is taken while any is owed.
LEMMA InvoiceAsked ==
  ASSUME NEW x \in Invoices
  PROVE  /\ \A s \in Serves(x) : s.to \in Invoices /\ s.act = <<"record", "payment">>
         /\ Harmless(x) /\ Honest(x) /\ MovesOn(x)
<1>1. \A left \in 0 .. MaxOwed : [x EXCEPT !.owed = left] \in Invoices
  BY DEF Invoices
<1>2. ASSUME NEW s \in Serves(x) PROVE s.to \in Invoices /\ s.act = <<"record", "payment">>
  <2>1. PICK left \in 0 .. MaxOwed : s = Done(<<"record", "payment">>, [x EXCEPT !.owed = left])
    BY InvoiceServed, Zenon
  <2>2. s.act = <<"record", "payment">> /\ s.to = [x EXCEPT !.owed = left]
    BY <2>1, DoneIs
  <2> QED BY <1>1, <2>2, Zenon
<1>3. Harmless(x)
  BY <1>2 DEF Harmless, Repeated
<1>4. PICK s \in Serves(x) : s = Done(<<"record", "payment">>, [x EXCEPT !.owed = 0])
  <2>1. 0 \in 0 .. MaxOwed
    OBVIOUS
  <2> QED BY <2>1, InvoiceServed, Zenon
<1>5. s.act = <<"record", "payment">> /\ s.to = [x EXCEPT !.owed = 0]
  BY <1>4, DoneIs
<1>6. Honest(x)
  BY <1>5, InvoiceIs DEF Honest, Served, InvoiceOffers, When
<1>7. MovesOn(x)
  <2>1. CASE x.owed = 0
    BY <2>1, InvoiceIs DEF MovesOn
  <2>2. CASE x.owed > 0
    <3>1. s.act \in Offers(x)
      BY <1>5, <2>2, InvoiceIs DEF InvoiceOffers, When
    <3>2. s.to.owed = 0
      BY <1>5 DEF Invoices
    <3>3. Stage(s.to) = 0 /\ Stage(x) # 0
      BY <1>2, <2>2, <3>2, InvoiceIs
    <3> QED BY <3>1, <3>3, OneAct
  <2> QED BY <2>1, <2>2 DEF Invoices
<1> QED BY <1>2, <1>3, <1>6, <1>7

-----------------------------------------------------------------------------
\* What the server carries out of a project.
ProjectActs(x, act, to) ==
    \/ \E s \in ProjectMoves[x.state] :
          (s = "in_progress" => ~ x.lacking) /\ act = <<"move", s>> /\ to = [x EXCEPT !.state = s]
    \/ /\ x.state # "removed" /\ act = <<"attach", "document">>
       /\ to = [x EXCEPT !.lacking = FALSE, !.state = IF @ = "awaiting_documents" THEN "ready" ELSE @]
    \/ x.state # "removed" /\ ~ x.stepDone /\ act = <<"finish", "step">> /\ to = [x EXCEPT !.stepDone = TRUE]
    \/ x.state # "removed" /\ ~ x.timed /\ act = <<"delete", "project">> /\ to = [x EXCEPT !.state = "removed"]

\* What may follow what, for a project.
LEMMA ProjectTable ==
  /\ DOMAIN ProjectMoves = {"awaiting_documents", "ready", "in_progress", "waiting_for_client",
                            "waiting_for_authority", "completed", "cancelled", "removed"}
  /\ \A s \in DOMAIN ProjectMoves : ProjectMoves[s] \subseteq DOMAIN ProjectMoves /\ s \notin ProjectMoves[s]
  /\ "ready" \in ProjectMoves["awaiting_documents"]
  /\ "cancelled" \in ProjectMoves["ready"]
  /\ "completed" \in ProjectMoves["in_progress"]
  /\ "cancelled" \in ProjectMoves["waiting_for_client"]
  /\ "completed" \in ProjectMoves["waiting_for_authority"]
  /\ "in_progress" \in ProjectMoves["completed"]
  /\ "ready" \in ProjectMoves["cancelled"]
  /\ ProjectMoves["removed"] = {}
  BY DEF ProjectMoves

\* The page and the server, for a project.
LEMMA ProjectIs ==
  ASSUME NEW x \in Projects
  PROVE  /\ Offers(x) = MoveOffers(x) \cup DocumentOffers(x) \cup StepOffers(x) \cup DeleteProject(x)
         /\ Serves(x) = ProjectMoved(x) \cup ProjectChanged(x)
         /\ Passing(x) = ProjectPassing(x)
         /\ Stage(x) = x.state
  BY DEF Projects, Offers, Serves, Passing, Stage

\* What is carried out of a project, act by act.
LEMMA ProjectServes ==
  ASSUME NEW x \in Projects, NEW act, NEW to
  PROVE  Done(act, to) \in Serves(x) <=> ProjectActs(x, act, to)
<1>0. \A a, b : Done(act, to) = Done(a, b) <=> act = a /\ to = b
  BY DEF Done
<1>1. Done(act, to) \in ProjectMoved(x) <=>
        \E s \in ProjectMoves[x.state] :
          (s = "in_progress" => ~ x.lacking) /\ act = <<"move", s>> /\ to = [x EXCEPT !.state = s]
  <2> DEFINE Open == {t \in ProjectMoves[x.state] : t = "in_progress" => ~ x.lacking}
  <2>1. \A s : s \in Open <=> s \in ProjectMoves[x.state] /\ (s = "in_progress" => ~ x.lacking)
    OBVIOUS
  <2>2. Done(act, to) \in ProjectMoved(x) <=> \E s \in Open : Done(act, to) = Done(<<"move", s>>, [x EXCEPT !.state = s])
    BY Zenon DEF ProjectMoved
  <2> HIDE DEF Open
  <2>3. \A s : Done(act, to) = Done(<<"move", s>>, [x EXCEPT !.state = s]) <=>
                 act = <<"move", s>> /\ to = [x EXCEPT !.state = s]
    BY <1>0, Zenon
  <2> QED BY <2>1, <2>2, <2>3, Zenon
<1>2. Done(act, to) \in ProjectChanged(x) <=>
        \/ /\ x.state # "removed" /\ act = <<"attach", "document">>
           /\ to = [x EXCEPT !.lacking = FALSE, !.state = IF @ = "awaiting_documents" THEN "ready" ELSE @]
        \/ x.state # "removed" /\ ~ x.stepDone /\ act = <<"finish", "step">> /\ to = [x EXCEPT !.stepDone = TRUE]
        \/ x.state # "removed" /\ ~ x.timed /\ act = <<"delete", "project">> /\ to = [x EXCEPT !.state = "removed"]
  <2> DEFINE Attach == Done(<<"attach", "document">>,
                 [x EXCEPT !.lacking = FALSE, !.state = IF @ = "awaiting_documents" THEN "ready" ELSE @])
             Finish == Done(<<"finish", "step">>, [x EXCEPT !.stepDone = TRUE])
             Delete == Done(<<"delete", "project">>, [x EXCEPT !.state = "removed"])
  <2>1. Done(act, to) \in ProjectChanged(x) <=>
          \/ x.state # "removed" /\ Done(act, to) = Attach
          \/ x.state # "removed" /\ ~ x.stepDone /\ Done(act, to) = Finish
          \/ x.state # "removed" /\ ~ x.timed /\ Done(act, to) = Delete
    BY Zenon DEF ProjectChanged, When
  <2>2. Done(act, to) = Attach <=>
             /\ act = <<"attach", "document">>
             /\ to = [x EXCEPT !.lacking = FALSE, !.state = IF @ = "awaiting_documents" THEN "ready" ELSE @]
    <3> DEFINE after == [x EXCEPT !.lacking = FALSE, !.state = IF @ = "awaiting_documents" THEN "ready" ELSE @]
    <3> HIDE DEF after
    <3>1. Done(act, to) = Done(<<"attach", "document">>, after) <=> act = <<"attach", "document">> /\ to = after
      BY <1>0, Zenon
    <3> QED BY <3>1 DEF after
  <2>3. Done(act, to) = Finish <=> act = <<"finish", "step">> /\ to = [x EXCEPT !.stepDone = TRUE]
    BY <1>0, Zenon
  <2>4. Done(act, to) = Delete <=> act = <<"delete", "project">> /\ to = [x EXCEPT !.state = "removed"]
    BY <1>0, Zenon
  <2> HIDE DEF Attach, Finish, Delete
  <2> QED BY <2>1, <2>2, <2>3, <2>4, Zenon
<1> QED BY <1>1, <1>2, ProjectIs, Zenon DEF ProjectActs

\* Nothing else is carried out of a project.
LEMMA ProjectDone == ASSUME NEW x \in Projects, NEW s \in Serves(x) PROVE IsDone(s)
<1>1. \A act, to : s = Done(act, to) => IsDone(s)
  BY DEF Done, IsDone
<1>2. CASE s \in ProjectMoved(x)
  BY <1>1, <1>2, Zenon DEF ProjectMoved
<1>3. CASE s \in ProjectChanged(x)
  BY <1>1, <1>3, Zenon DEF ProjectChanged, When
<1> QED BY <1>2, <1>3, ProjectIs, Zenon

\* What becomes of a project is again one.
LEMMA ProjectStays ==
  ASSUME NEW x \in Projects
  PROVE  /\ \A act, to : ProjectActs(x, act, to) => to \in Projects
         /\ Passing(x) \subseteq Projects
<1>1. x.state \in DOMAIN ProjectMoves /\ "ready" \in DOMAIN ProjectMoves /\ "removed" \in DOMAIN ProjectMoves
  BY ProjectTable DEF Projects
<1>2. \A s \in DOMAIN ProjectMoves : [x EXCEPT !.state = s] \in Projects
  BY DEF Projects
<1>3. [x EXCEPT !.lacking = FALSE, !.state = IF @ = "awaiting_documents" THEN "ready" ELSE @] \in Projects
  BY <1>1 DEF Projects
<1>4. /\ [x EXCEPT !.stepDone = TRUE] \in Projects /\ [x EXCEPT !.timed = TRUE] \in Projects
      /\ [x EXCEPT !.onFile = TRUE] \in Projects
  BY DEF Projects
<1>5. \A s \in ProjectMoves[x.state] : [x EXCEPT !.state = s] \in Projects
  BY <1>1, <1>2, ProjectTable, Zenon
<1>6. [x EXCEPT !.state = "removed"] \in Projects
  BY <1>1, <1>2, Zenon
<1>7. ASSUME NEW act, NEW to, ProjectActs(x, act, to) PROVE to \in Projects
  BY <1>3, <1>4, <1>5, <1>6, <1>7, Zenon DEF ProjectActs
<1>8. Passing(x) \subseteq Projects
  BY <1>4, ProjectIs, Zenon DEF ProjectPassing, When
<1> QED BY <1>7, <1>8, Zenon

\* What the page offers of a project, act by act.
LEMMA ProjectOffered ==
  ASSUME NEW x \in Projects, NEW act
  PROVE  act \in Offers(x) <=>
           \/ \E s \in ProjectMoves[x.state] : (s = "in_progress" => ~ x.lacking) /\ act = <<"move", s>>
           \/ x.state # "removed" /\ x.lacking /\ x.onFile /\ act = <<"attach", "document">>
           \/ x.state # "removed" /\ ~ x.stepDone /\ act = <<"finish", "step">>
           \/ x.state # "removed" /\ act = <<"delete", "project">>
<1>1. act \in MoveOffers(x) <=>
        \E s \in ProjectMoves[x.state] : (s = "in_progress" => ~ x.lacking) /\ act = <<"move", s>>
  BY DEF MoveOffers
<1>2. act \in DocumentOffers(x) <=> x.state # "removed" /\ x.lacking /\ x.onFile /\ act = <<"attach", "document">>
  BY DEF DocumentOffers, When
<1>3. act \in StepOffers(x) <=> x.state # "removed" /\ ~ x.stepDone /\ act = <<"finish", "step">>
  BY DEF StepOffers, When
<1>4. act \in DeleteProject(x) <=> x.state # "removed" /\ act = <<"delete", "project">>
  BY DEF DeleteProject, When
<1> QED BY <1>1, <1>2, <1>3, <1>4, ProjectIs

\* What is served of a project, act by act.
LEMMA ProjectServed ==
  ASSUME NEW x \in Projects, NEW act
  PROVE  (\E to : ProjectActs(x, act, to)) <=>
           \/ \E s \in ProjectMoves[x.state] : (s = "in_progress" => ~ x.lacking) /\ act = <<"move", s>>
           \/ x.state # "removed" /\ act = <<"attach", "document">>
           \/ x.state # "removed" /\ ~ x.stepDone /\ act = <<"finish", "step">>
           \/ x.state # "removed" /\ ~ x.timed /\ act = <<"delete", "project">>
  BY Zenon DEF ProjectActs

\* What an act tells of the state a project was in.
LEMMA ProjectTold ==
  ASSUME NEW x \in Projects, NEW act, NEW to, ProjectActs(x, act, to)
  PROVE  /\ act = <<"finish", "step">> => ~ x.stepDone
         /\ act = <<"delete", "project">> => x.state # "removed"
         /\ \A s : act = <<"move", s>> => s \in ProjectMoves[x.state]
<1>1. \/ \E s \in ProjectMoves[x.state] : (s = "in_progress" => ~ x.lacking) /\ act = <<"move", s>>
      \/ x.state # "removed" /\ act = <<"attach", "document">>
      \/ x.state # "removed" /\ ~ x.stepDone /\ act = <<"finish", "step">>
      \/ x.state # "removed" /\ ~ x.timed /\ act = <<"delete", "project">>
  BY ProjectServed
<1>2. ASSUME act = <<"finish", "step">> PROVE ~ x.stepDone
  BY <1>1, <1>2
<1>3. ASSUME act = <<"delete", "project">> PROVE x.state # "removed"
  BY <1>1, <1>3
<1>4. ASSUME NEW s, act = <<"move", s>> PROVE s \in ProjectMoves[x.state]
  BY <1>1, <1>4
<1> QED BY <1>2, <1>3, <1>4

\* An act repeated on a project changes nothing more.
LEMMA ProjectHarmless ==
  ASSUME NEW x \in Projects, NEW act, NEW to, NEW again,
         ProjectActs(x, act, to), ProjectActs(to, act, again)
  PROVE  again = to
<1>0. to \in Projects
  BY ProjectStays
<1>1. ASSUME NEW s \in ProjectMoves[x.state], act = <<"move", s>> PROVE FALSE
  <2>1. to = [x EXCEPT !.state = s]
    BY <1>1 DEF ProjectActs
  <2>2. to.state = s
    BY <2>1 DEF Projects
  <2>3. s \in ProjectMoves[to.state]
    BY <1>0, <1>1, ProjectTold
  <2>4. to.state \in DOMAIN ProjectMoves
    BY <1>0 DEF Projects
  <2> QED BY <2>2, <2>3, <2>4, ProjectTable
<1>2. CASE act = <<"attach", "document">>
  <2>1. /\ to = [x EXCEPT !.lacking = FALSE, !.state = IF @ = "awaiting_documents" THEN "ready" ELSE @]
        /\ again = [to EXCEPT !.lacking = FALSE, !.state = IF @ = "awaiting_documents" THEN "ready" ELSE @]
    BY <1>2 DEF ProjectActs
  <2>2. to.lacking = FALSE /\ to.state # "awaiting_documents"
    BY <2>1 DEF Projects
  <2> QED BY <1>0, <2>1, <2>2 DEF Projects
<1>3. CASE act = <<"finish", "step">>
  <2>1. to = [x EXCEPT !.stepDone = TRUE]
    BY <1>3 DEF ProjectActs
  <2>2. to.stepDone
    BY <2>1 DEF Projects
  <2> QED BY <1>0, <1>3, <2>2, ProjectTold
<1>4. CASE act = <<"delete", "project">>
  <2>1. to = [x EXCEPT !.state = "removed"]
    BY <1>4 DEF ProjectActs
  <2>2. to.state = "removed"
    BY <2>1 DEF Projects
  <2> QED BY <1>0, <1>4, <2>2, ProjectTold
<1> QED BY <1>1, <1>2, <1>3, <1>4, ProjectServed

\* The page of a project is refused only what is named.
LEMMA ProjectHonest ==
  ASSUME NEW x \in Projects, NEW act
  PROVE  act \in Offers(x) /\ (~ \E to : ProjectActs(x, act, to)) <=> act \in RefusedAnyway(x)
<1>1. act \in RefusedAnyway(x) <=> x.state # "removed" /\ x.timed /\ act = <<"delete", "project">>
  BY DEF RefusedAnyway, Projects, When
<1>2. \A s : <<"delete", "project">> # <<"move", s>>
  OBVIOUS
<1> QED BY <1>1, <1>2, ProjectServed, ProjectOffered

\* From every state some move is open, but from the end.
LEMMA ProjectGoesOn == ASSUME NEW x \in Projects PROVE MovesOn(x)
<1>1. ASSUME NEW s \in ProjectMoves[x.state], s = "in_progress" => ~ x.lacking PROVE MovesOn(x)
  <2> DEFINE p == [x EXCEPT !.state = s]
  <2>1. ProjectActs(x, <<"move", s>>, p)
    BY <1>1, Zenon DEF ProjectActs
  <2>2. <<"move", s>> \in Offers(x)
    BY <1>1, ProjectOffered
  <2>3. p.state = s /\ p \in Projects
    BY <2>1, ProjectStays DEF Projects
  <2>4. x.state \in DOMAIN ProjectMoves
    BY DEF Projects
  <2> HIDE DEF p
  <2>5. Stage(p) # Stage(x)
    BY <1>1, <2>3, <2>4, ProjectIs, ProjectTable
  <2>6. Done(<<"move", s>>, p) \in Serves(x) /\ Done(<<"move", s>>, p).act \in Offers(x) /\ Done(<<"move", s>>, p).to = p
    BY <2>1, <2>2, ProjectServes, DoneIs
  <2> QED BY <2>5, <2>6, OneAct
<1>2. CASE x.state = "removed" \/ (x.state = "completed" /\ x.lacking)
  BY <1>2 DEF MovesOn, Finished, Projects
<1>3. CASE x.state = "completed" /\ ~ x.lacking
  BY <1>1, <1>3, ProjectTable
<1>4. CASE x.state \notin {"removed", "completed"}
  BY <1>1, <1>4, ProjectTable DEF Projects
<1> QED BY <1>2, <1>3, <1>4

-----------------------------------------------------------------------------
\* What the server carries out of an enquiry. A client's record comes with a
\* quotation, or with the end of it.
LeadActs(x, act, to) ==
    \/ \E s \in LeadMoves[x.state] :
          (x.client => s \in {"quoted", "confirmed"}) /\ act = <<"move", s>> /\ to = [x EXCEPT !.state = s]
    \/ /\ "quoted" \in LeadMoves[x.state] /\ ~ x.client /\ act = <<"make", "quotation">>
       /\ to = [x EXCEPT !.state = "quoted", !.client = TRUE]
    \/ /\ x.state \notin {"confirmed", "declined"} /\ act = <<"make", "client">>
       /\ to = [x EXCEPT !.state = "confirmed", !.client = TRUE]

\* The CHECK of the table: only who was quoted, or became a client, has a record.
Consistent(x) == x.client => x.state \in {"quoted", "confirmed"}

\* What may follow what, for an enquiry.
LEMMA LeadTable ==
  /\ DOMAIN LeadMoves = {"new", "contacted", "quoted", "confirmed", "declined"}
  /\ \A s \in DOMAIN LeadMoves : LeadMoves[s] \subseteq DOMAIN LeadMoves /\ (s \in LeadMoves[s] => s = "contacted")
  /\ LeadMoves["new"] = {"contacted", "declined"}
  /\ LeadMoves["contacted"] = {"quoted", "declined", "contacted"}
  /\ LeadMoves["quoted"] = {"confirmed", "declined", "contacted"}
  /\ LeadMoves["confirmed"] = {} /\ LeadMoves["declined"] = {}
  BY DEF LeadMoves

\* The page and the server, for an enquiry.
LEMMA LeadIs ==
  ASSUME NEW x \in Enquiries
  PROVE  /\ Offers(x) = LeadOffers(x)
         /\ Serves(x) = LeadServes(x)
         /\ Passing(x) = {}
         /\ Stage(x) = x.state
  BY DEF Enquiries, Offers, Serves, Passing, Stage

\* What is carried out of an enquiry, act by act.
LEMMA LeadServed ==
  ASSUME NEW x \in Enquiries, NEW act, NEW to
  PROVE  Done(act, to) \in Serves(x) <=> LeadActs(x, act, to)
<1>0. \A a, b : Done(act, to) = Done(a, b) <=> act = a /\ to = b
  BY DEF Done
<1> DEFINE Moved == {Done(<<"move", s>>, [x EXCEPT !.state = s]) :
                       s \in {t \in LeadMoves[x.state] : x.client => t \in {"quoted", "confirmed"}}}
           Quoted == When("quoted" \in LeadMoves[x.state] /\ ~ x.client,
                          {Done(<<"make", "quotation">>, [x EXCEPT !.state = "quoted", !.client = TRUE])})
           Won == When(x.state \notin {"confirmed", "declined"},
                       {Done(<<"make", "client">>, [x EXCEPT !.state = "confirmed", !.client = TRUE])})
<1>1. Serves(x) = Moved \cup Quoted \cup Won
  BY LeadIs, Zenon DEF LeadServes
<1>2. Done(act, to) \in Moved <=>
        \E s \in LeadMoves[x.state] :
          (x.client => s \in {"quoted", "confirmed"}) /\ act = <<"move", s>> /\ to = [x EXCEPT !.state = s]
  <2> DEFINE Open == {t \in LeadMoves[x.state] : x.client => t \in {"quoted", "confirmed"}}
  <2>1. \A s : s \in Open <=> s \in LeadMoves[x.state] /\ (x.client => s \in {"quoted", "confirmed"})
    OBVIOUS
  <2>2. Done(act, to) \in Moved <=> \E s \in Open : Done(act, to) = Done(<<"move", s>>, [x EXCEPT !.state = s])
    BY Zenon
  <2> HIDE DEF Open, Moved
  <2>3. \A s : Done(act, to) = Done(<<"move", s>>, [x EXCEPT !.state = s]) <=>
                 act = <<"move", s>> /\ to = [x EXCEPT !.state = s]
    BY <1>0, Zenon
  <2> QED BY <2>1, <2>2, <2>3, Zenon
<1>3. Done(act, to) \in Quoted <=>
        /\ "quoted" \in LeadMoves[x.state] /\ ~ x.client /\ act = <<"make", "quotation">>
        /\ to = [x EXCEPT !.state = "quoted", !.client = TRUE]
  BY <1>0, Zenon DEF When
<1>4. Done(act, to) \in Won <=>
        /\ x.state \notin {"confirmed", "declined"} /\ act = <<"make", "client">>
        /\ to = [x EXCEPT !.state = "confirmed", !.client = TRUE]
  BY <1>0, Zenon DEF When
<1> HIDE DEF Moved, Quoted, Won
<1> QED BY <1>1, <1>2, <1>3, <1>4, Zenon DEF LeadActs

\* Nothing else is carried out of an enquiry.
LEMMA LeadDone == ASSUME NEW x \in Enquiries, NEW s \in Serves(x) PROVE IsDone(s)
<1>1. \A act, to : s = Done(act, to) => IsDone(s)
  BY DEF Done, IsDone
<1> DEFINE Open == {t \in LeadMoves[x.state] : x.client => t \in {"quoted", "confirmed"}}
           Moved == {Done(<<"move", t>>, [x EXCEPT !.state = t]) : t \in Open}
           Quoted == When("quoted" \in LeadMoves[x.state] /\ ~ x.client,
                          {Done(<<"make", "quotation">>, [x EXCEPT !.state = "quoted", !.client = TRUE])})
           Won == When(x.state \notin {"confirmed", "declined"},
                       {Done(<<"make", "client">>, [x EXCEPT !.state = "confirmed", !.client = TRUE])})
<1>2. Serves(x) = Moved \cup Quoted \cup Won
  BY LeadIs, Zenon DEF LeadServes
<1>3. CASE s \in Moved
  BY <1>1, <1>3, Zenon
<1>4. CASE s \in Quoted
  BY <1>1, <1>4, Zenon DEF When
<1>5. CASE s \in Won
  BY <1>1, <1>5, Zenon DEF When
<1> HIDE DEF Moved, Quoted, Won
<1> QED BY <1>2, <1>3, <1>4, <1>5

\* What becomes of an enquiry is again one.
LEMMA LeadStays ==
  ASSUME NEW x \in Enquiries, Consistent(x), NEW act, NEW to, LeadActs(x, act, to)
  PROVE  to \in Enquiries /\ Consistent(to)
<1>1. x.state \in DOMAIN LeadMoves
  BY DEF Enquiries
<1>2. ASSUME NEW s \in LeadMoves[x.state], x.client => s \in {"quoted", "confirmed"}, to = [x EXCEPT !.state = s]
      PROVE  to \in Enquiries /\ Consistent(to)
  <2>1. s \in DOMAIN LeadMoves
    BY <1>1, <1>2, LeadTable
  <2> QED BY <1>2, <2>1 DEF Enquiries, Consistent
<1>3. ASSUME NEW s \in {"quoted", "confirmed"}, to = [x EXCEPT !.state = s, !.client = TRUE]
      PROVE  to \in Enquiries /\ Consistent(to)
  <2>1. s \in DOMAIN LeadMoves
    BY <1>3, LeadTable
  <2> QED BY <1>3, <2>1 DEF Enquiries, Consistent
<1>4. "quoted" \in {"quoted", "confirmed"} /\ "confirmed" \in {"quoted", "confirmed"}
  OBVIOUS
<1> QED BY <1>2, <1>3, <1>4, Zenon DEF LeadActs

\* What the page offers of an enquiry, act by act.
LEMMA LeadOffered ==
  ASSUME NEW x \in Enquiries, NEW act
  PROVE  act \in Offers(x) <=>
           \/ \E s \in LeadMoves[x.state] : act = <<"move", s>>
           \/ "quoted" \in LeadMoves[x.state] /\ act = <<"make", "quotation">>
           \/ x.state = "quoted" /\ act = <<"make", "client">>
  BY LeadIs DEF LeadOffers, When

\* What is served of an enquiry, act by act.
LEMMA LeadTold ==
  ASSUME NEW x \in Enquiries, NEW act
  PROVE  (\E to : LeadActs(x, act, to)) <=>
           \/ \E s \in LeadMoves[x.state] : (x.client => s \in {"quoted", "confirmed"}) /\ act = <<"move", s>>
           \/ "quoted" \in LeadMoves[x.state] /\ ~ x.client /\ act = <<"make", "quotation">>
           \/ x.state \notin {"confirmed", "declined"} /\ act = <<"make", "client">>
  BY Zenon DEF LeadActs

\* An act repeated on an enquiry changes nothing more.
LEMMA LeadHarmless ==
  ASSUME NEW x \in Enquiries, Consistent(x), NEW act, NEW to, NEW again,
         LeadActs(x, act, to), LeadActs(to, act, again)
  PROVE  again = to
<1>0. to \in Enquiries
  BY LeadStays
<1>1. \/ \E s \in LeadMoves[to.state] : act = <<"move", s>>
      \/ ~ to.client /\ act = <<"make", "quotation">>
      \/ to.state \notin {"confirmed", "declined"} /\ act = <<"make", "client">>
  BY <1>0, LeadTold
<1>2. ASSUME NEW s \in LeadMoves[x.state], act = <<"move", s>> PROVE again = to
  <2>1. to = [x EXCEPT !.state = s] /\ again = [to EXCEPT !.state = s]
    BY <1>2 DEF LeadActs
  <2>2. to.state = s
    BY <2>1 DEF Enquiries
  <2> QED BY <1>0, <2>1, <2>2 DEF Enquiries
<1>3. CASE act = <<"make", "quotation">>
  <2>1. to = [x EXCEPT !.state = "quoted", !.client = TRUE]
    BY <1>3 DEF LeadActs
  <2>2. to.client
    BY <2>1 DEF Enquiries
  <2> QED BY <1>1, <1>3, <2>2
<1>4. CASE act = <<"make", "client">>
  <2>1. to = [x EXCEPT !.state = "confirmed", !.client = TRUE]
    BY <1>4 DEF LeadActs
  <2>2. to.state = "confirmed"
    BY <2>1 DEF Enquiries
  <2> QED BY <1>1, <1>4, <2>2
<1> QED BY <1>2, <1>3, <1>4, LeadTold

\* The page of an enquiry is refused only what is named.
LEMMA LeadHonest ==
  ASSUME NEW x \in Enquiries, Consistent(x), NEW act
  PROVE  act \in Offers(x) /\ (~ \E to : LeadActs(x, act, to)) <=> act \in RefusedAnyway(x)
<1>1. act \in RefusedAnyway(x) <=>
        x.state = "quoted" /\ x.client /\ (act = <<"move", "declined">> \/ act = <<"move", "contacted">>)
  BY DEF RefusedAnyway, Enquiries, When
<1>2. (\E to : LeadActs(x, act, to)) <=>
           \/ \E s \in LeadMoves[x.state] : (x.client => s \in {"quoted", "confirmed"}) /\ act = <<"move", s>>
           \/ "quoted" \in LeadMoves[x.state] /\ ~ x.client /\ act = <<"make", "quotation">>
           \/ x.state \notin {"confirmed", "declined"} /\ act = <<"make", "client">>
  BY LeadTold
<1>3. act \in Offers(x) <=>
           \/ \E s \in LeadMoves[x.state] : act = <<"move", s>>
           \/ "quoted" \in LeadMoves[x.state] /\ act = <<"make", "quotation">>
           \/ x.state = "quoted" /\ act = <<"make", "client">>
  BY LeadOffered
<1>4. x.state \in {"new", "contacted", "quoted", "confirmed", "declined"} /\ x.client \in BOOLEAN
  BY LeadTable DEF Enquiries
<1>5. CASE ~ x.client
  BY <1>1, <1>2, <1>3, <1>5
<1>6. CASE x.client /\ x.state = "quoted"
  BY <1>1, <1>2, <1>3, <1>6, LeadTable
<1>7. CASE x.client /\ x.state = "confirmed"
  BY <1>1, <1>2, <1>3, <1>7, LeadTable
<1> QED BY <1>4, <1>5, <1>6, <1>7 DEF Consistent

\* Somebody new is called, is quoted, and becomes a client.
LEMMA LeadGoesOn == ASSUME NEW x \in Enquiries, Consistent(x) PROVE MovesOn(x)
<1>1. ASSUME NEW s \in LeadMoves[x.state], x.client => s \in {"quoted", "confirmed"}, s # x.state PROVE MovesOn(x)
  <2> DEFINE p == [x EXCEPT !.state = s]
  <2>1. LeadActs(x, <<"move", s>>, p)
    BY <1>1, Zenon DEF LeadActs
  <2>2. <<"move", s>> \in Offers(x)
    BY <1>1, LeadOffered
  <2>3. p.state = s /\ p \in Enquiries
    BY <2>1, LeadStays DEF Enquiries
  <2> HIDE DEF p
  <2>4. Stage(p) # Stage(x)
    BY <1>1, <2>3, LeadIs
  <2>5. Done(<<"move", s>>, p) \in Serves(x) /\ Done(<<"move", s>>, p).act \in Offers(x) /\ Done(<<"move", s>>, p).to = p
    BY <2>1, <2>2, LeadServed, DoneIs
  <2> QED BY <2>4, <2>5, OneAct
<1>2. x.state \in {"new", "contacted", "quoted", "confirmed", "declined"}
  BY LeadTable DEF Enquiries
<1>3. CASE x.state \in {"confirmed", "declined"}
  BY <1>3 DEF MovesOn, Finished, Enquiries
<1>4. CASE x.state = "new"
  BY <1>1, <1>4, LeadTable DEF Consistent
<1>5. CASE x.state = "contacted"
  BY <1>1, <1>5, LeadTable DEF Consistent
<1>6. CASE x.state = "quoted"
  BY <1>1, <1>6, LeadTable
<1> QED BY <1>2, <1>3, <1>4, <1>5, <1>6

-----------------------------------------------------------------------------
\* What the server carries out of an entry, and of a timer.
EntryActs(x, act, to) ==
    \/ x.state # "billed" /\ x.doubt /\ act = <<"confirm", "entry">> /\ to = [x EXCEPT !.doubt = FALSE]
    \/ x.state # "billed" /\ act = <<"approve", "entry">> /\ to = [x EXCEPT !.state = "approved"]

TimerActs(x, act, to) ==
    \/ act = <<"start", "timer">> /\ to = [x EXCEPT !.state = "running"]
    \/ act = <<"stop", "timer">> /\ to = [x EXCEPT !.state = "none"]
    \/ x.state = "running" /\ act = <<"hold", "timer">> /\ to = [x EXCEPT !.state = "held"]
    \/ x.state = "held" /\ act = <<"resume", "timer">> /\ to = [x EXCEPT !.state = "running"]

\* The page and the server, for an entry.
LEMMA EntryIs ==
  ASSUME NEW x \in EntryRows
  PROVE  /\ Offers(x) = EntryOffers(x) \cup ApprovalOffers(x)
         /\ Serves(x) = EntryServes(x)
         /\ Passing(x) = EntryPassing(x)
         /\ Stage(x) = x.state
  BY DEF EntryRows, Offers, Serves, Passing, Stage

\* What is carried out of an entry, act by act.
LEMMA EntryServed ==
  ASSUME NEW x \in EntryRows, NEW act, NEW to
  PROVE  Done(act, to) \in Serves(x) <=> EntryActs(x, act, to)
<1>0. \A a, b : Done(act, to) = Done(a, b) <=> act = a /\ to = b
  BY DEF Done
<1> DEFINE Confirmed == Done(<<"confirm", "entry">>, [x EXCEPT !.doubt = FALSE])
           Approved == Done(<<"approve", "entry">>, [x EXCEPT !.state = "approved"])
<1>1. Done(act, to) \in Serves(x) <=>
        x.state # "billed" /\ ((x.doubt /\ Done(act, to) = Confirmed) \/ Done(act, to) = Approved)
  BY EntryIs, Zenon DEF EntryServes, When
<1>2. Done(act, to) = Confirmed <=> act = <<"confirm", "entry">> /\ to = [x EXCEPT !.doubt = FALSE]
  BY <1>0, Zenon
<1>3. Done(act, to) = Approved <=> act = <<"approve", "entry">> /\ to = [x EXCEPT !.state = "approved"]
  BY <1>0, Zenon
<1> HIDE DEF Confirmed, Approved
<1> QED BY <1>1, <1>2, <1>3, Zenon DEF EntryActs

\* Nothing else is carried out of an entry.
LEMMA EntryDone == ASSUME NEW x \in EntryRows, NEW s \in Serves(x) PROVE IsDone(s)
<1>1. \A act, to : s = Done(act, to) => IsDone(s)
  BY DEF Done, IsDone
<1> QED BY <1>1, EntryIs, Zenon DEF EntryServes, When

\* What becomes of an entry is again one.
LEMMA EntryStays ==
  ASSUME NEW x \in EntryRows
  PROVE  /\ \A act, to : EntryActs(x, act, to) => to \in EntryRows
         /\ Passing(x) \subseteq EntryRows
<1>1. /\ [x EXCEPT !.doubt = FALSE] \in EntryRows /\ [x EXCEPT !.state = "approved"] \in EntryRows
      /\ [x EXCEPT !.state = "billed"] \in EntryRows
  BY DEF EntryRows
<1>2. Passing(x) \subseteq EntryRows
  BY <1>1, EntryIs, Zenon DEF EntryPassing, When
<1>3. \A act, to : EntryActs(x, act, to) => to \in EntryRows
  BY <1>1, Zenon DEF EntryActs
<1> QED BY <1>2, <1>3

\* What the page offers of an entry, act by act.
LEMMA EntryOffered ==
  ASSUME NEW x \in EntryRows, NEW act
  PROVE  act \in Offers(x) <=> \/ x.doubt /\ act = <<"confirm", "entry">>
                               \/ x.state = "recorded" /\ act = <<"approve", "entry">>
  BY EntryIs DEF EntryOffers, ApprovalOffers, When

\* An act repeated on an entry changes nothing more.
LEMMA EntryHarmless ==
  ASSUME NEW x \in EntryRows, NEW act, NEW to, NEW again, EntryActs(x, act, to), EntryActs(to, act, again)
  PROVE  again = to
<1>1. CASE act = <<"confirm", "entry">>
  <2>1. to = [x EXCEPT !.doubt = FALSE] /\ to.doubt
    BY <1>1 DEF EntryActs
  <2> QED BY <2>1 DEF EntryRows
<1>2. CASE act = <<"approve", "entry">>
  <2>1. to = [x EXCEPT !.state = "approved"] /\ again = [to EXCEPT !.state = "approved"]
    BY <1>2 DEF EntryActs
  <2> QED BY <2>1 DEF EntryRows
<1> QED BY <1>1, <1>2 DEF EntryActs

\* The page of an entry is refused only what is named.
LEMMA EntryHonest ==
  ASSUME NEW x \in EntryRows, NEW act
  PROVE  act \in Offers(x) /\ (~ \E to : EntryActs(x, act, to)) <=> act \in RefusedAnyway(x)
<1>1. act \in RefusedAnyway(x) <=> x.doubt /\ x.state = "billed" /\ act = <<"confirm", "entry">>
  BY DEF RefusedAnyway, EntryRows, When
<1>2. (\E to : EntryActs(x, act, to)) <=>
         x.state # "billed" /\ ((x.doubt /\ act = <<"confirm", "entry">>) \/ act = <<"approve", "entry">>)
  BY Zenon DEF EntryActs
<1> QED BY <1>1, <1>2, EntryOffered DEF EntryRows

\* What is recorded can be approved.
LEMMA EntryGoesOn == ASSUME NEW x \in EntryRows PROVE MovesOn(x)
<1>1. CASE x.state # "recorded"
  BY <1>1 DEF MovesOn, Finished, EntryRows
<1>2. CASE x.state = "recorded"
  <2> DEFINE p == [x EXCEPT !.state = "approved"]
  <2>1. EntryActs(x, <<"approve", "entry">>, p)
    BY <1>2, Zenon DEF EntryActs
  <2>2. <<"approve", "entry">> \in Offers(x)
    BY <1>2, EntryOffered
  <2>3. p.state = "approved" /\ p \in EntryRows
    BY DEF EntryRows
  <2> HIDE DEF p
  <2>4. Stage(p) # Stage(x)
    BY <1>2, <2>3, EntryIs
  <2>5. /\ Done(<<"approve", "entry">>, p) \in Serves(x)
        /\ Done(<<"approve", "entry">>, p).act \in Offers(x) /\ Done(<<"approve", "entry">>, p).to = p
    BY <2>1, <2>2, EntryServed, DoneIs
  <2> QED BY <2>4, <2>5, OneAct
<1> QED BY <1>1, <1>2

\* The page and the server, for a timer.
LEMMA TimerIs ==
  ASSUME NEW x \in Timers
  PROVE  /\ Offers(x) = RunningOffers(x) \cup StartTimerButton(x)
         /\ Serves(x) = TimerServes(x)
         /\ Passing(x) = {}
         /\ RefusedAnyway(x) = {}
         /\ Stage(x) = x.state
  BY DEF Timers, Offers, Serves, Passing, RefusedAnyway, Stage

\* What is carried out of a timer, act by act.
LEMMA TimerServed ==
  ASSUME NEW x \in Timers, NEW act, NEW to
  PROVE  Done(act, to) \in Serves(x) <=> TimerActs(x, act, to)
<1>0. \A a, b : Done(act, to) = Done(a, b) <=> act = a /\ to = b
  BY DEF Done
<1> DEFINE Act(verb, s) == Done(<<verb, "timer">>, [x EXCEPT !.state = s])
<1>1. Done(act, to) \in Serves(x) <=>
        \/ Done(act, to) = Act("start", "running")
        \/ Done(act, to) = Act("stop", "none")
        \/ x.state = "running" /\ Done(act, to) = Act("hold", "held")
        \/ x.state = "held" /\ Done(act, to) = Act("resume", "running")
  BY TimerIs, Zenon DEF TimerServes, When
<1>2. \A verb, s : Done(act, to) = Act(verb, s) <=> act = <<verb, "timer">> /\ to = [x EXCEPT !.state = s]
  BY <1>0, Zenon
<1> HIDE DEF Act
<1> QED BY <1>1, <1>2, Zenon DEF TimerActs

\* Nothing else is carried out of a timer.
LEMMA TimerDone == ASSUME NEW x \in Timers, NEW s \in Serves(x) PROVE IsDone(s)
<1>1. \A act, to : s = Done(act, to) => IsDone(s)
  BY DEF Done, IsDone
<1> QED BY <1>1, TimerIs, Zenon DEF TimerServes, When

\* What becomes of a timer is again one.
LEMMA TimerStays ==
  ASSUME NEW x \in Timers, NEW act, NEW to, TimerActs(x, act, to)
  PROVE  to \in Timers
<1>1. \A s \in {"none", "running", "held"} : [x EXCEPT !.state = s] \in Timers
  BY DEF Timers
<1> QED BY <1>1, Zenon DEF TimerActs

\* What the page offers of a timer, act by act.
LEMMA TimerOffered ==
  ASSUME NEW x \in Timers, NEW act
  PROVE  act \in Offers(x) <=>
           \/ act = <<"start", "timer">>
           \/ x.state \in {"running", "held"} /\ act = <<"stop", "timer">>
           \/ x.state = "running" /\ act = <<"hold", "timer">>
           \/ x.state = "held" /\ act = <<"resume", "timer">>
  BY TimerIs DEF RunningOffers, StartTimerButton, When

\* An act repeated on a timer changes nothing more.
LEMMA TimerHarmless ==
  ASSUME NEW x \in Timers, NEW act, NEW to, NEW again, TimerActs(x, act, to), TimerActs(to, act, again)
  PROVE  again = to
<1>1. CASE act = <<"start", "timer">>
  <2>1. to = [x EXCEPT !.state = "running"] /\ again = [to EXCEPT !.state = "running"]
    BY <1>1 DEF TimerActs
  <2> QED BY <2>1 DEF Timers
<1>2. CASE act = <<"stop", "timer">>
  <2>1. to = [x EXCEPT !.state = "none"] /\ again = [to EXCEPT !.state = "none"]
    BY <1>2 DEF TimerActs
  <2> QED BY <2>1 DEF Timers
<1>3. CASE act = <<"hold", "timer">>
  <2>1. to = [x EXCEPT !.state = "held"] /\ to.state = "running"
    BY <1>3 DEF TimerActs
  <2> QED BY <2>1 DEF Timers
<1>4. CASE act = <<"resume", "timer">>
  <2>1. to = [x EXCEPT !.state = "running"] /\ to.state = "held"
    BY <1>4 DEF TimerActs
  <2> QED BY <2>1 DEF Timers
<1> QED BY <1>1, <1>2, <1>3, <1>4 DEF TimerActs

\* The page of a timer is refused only what is named.
LEMMA TimerHonest ==
  ASSUME NEW x \in Timers, NEW act, act \in Offers(x)
  PROVE  \E to : TimerActs(x, act, to)
<1>1. (\E to : TimerActs(x, act, to)) <=>
         \/ act = <<"start", "timer">> \/ act = <<"stop", "timer">>
         \/ x.state = "running" /\ act = <<"hold", "timer">>
         \/ x.state = "held" /\ act = <<"resume", "timer">>
  BY Zenon DEF TimerActs
<1> QED BY <1>1, TimerOffered

\* What runs or is held can be stopped.
LEMMA TimerGoesOn == ASSUME NEW x \in Timers PROVE MovesOn(x)
<1>1. CASE x.state = "none"
  BY <1>1 DEF MovesOn, Finished, Timers
<1>2. CASE x.state # "none"
  <2> DEFINE p == [x EXCEPT !.state = "none"]
  <2>1. TimerActs(x, <<"stop", "timer">>, p)
    BY <1>2, Zenon DEF TimerActs
  <2>2. <<"stop", "timer">> \in Offers(x)
    BY <1>2, TimerOffered DEF Timers
  <2>3. p.state = "none" /\ p \in Timers
    BY DEF Timers
  <2> HIDE DEF p
  <2>4. Stage(p) # Stage(x)
    BY <1>2, <2>3, TimerIs
  <2>5. /\ Done(<<"stop", "timer">>, p) \in Serves(x)
        /\ Done(<<"stop", "timer">>, p).act \in Offers(x) /\ Done(<<"stop", "timer">>, p).to = p
    BY <2>1, <2>2, TimerServed, DoneIs
  <2> QED BY <2>4, <2>5, OneAct
<1> QED BY <1>1, <1>2

-----------------------------------------------------------------------------

\* The three together, in the terms of the model, for a quotation.
LEMMA QuotationTurned ==
  ASSUME NEW x \in Quotations
  PROVE  /\ \A s \in Serves(x) : QuotationActs(x, s.act, s.to)
         /\ Honest(x) /\ Harmless(x)
<1>1. ASSUME NEW y \in Quotations, NEW s \in Serves(y) PROVE QuotationActs(y, s.act, s.to)
  <2>1. Done(s.act, s.to) \in Serves(y)
    BY QuotationDone DEF IsDone
  <2> QED BY <2>1, QuotationServes
<1>2. Honest(x)
  <2>1. ASSUME NEW a PROVE a \in Served(x) <=> \E to : QuotationActs(x, a, to)
    <3>1. ASSUME NEW to, QuotationActs(x, a, to) PROVE a \in Served(x)
      <4>1. Done(a, to) \in Serves(x)
        BY <3>1, QuotationServes
      <4> QED BY <4>1, Carried
    <3>2. ASSUME a \in Served(x) PROVE \E to : QuotationActs(x, a, to)
      <4>1. PICK s \in Serves(x) : a = s.act
        BY <3>2 DEF Served
      <4> QED BY <1>1, <4>1
    <3> QED BY <3>1, <3>2
  <2>2. ASSUME NEW a PROVE a \in Offers(x) /\ a \notin Served(x) <=> a \in RefusedAnyway(x)
    BY <2>1, QuotationHonest
  <2> QED BY <2>2 DEF Honest
<1>3. Harmless(x)
  <2>1. ASSUME NEW s \in Serves(x), s.act \notin Repeated, NEW again \in Serves(s.to), again.act = s.act
        PROVE  again.to = s.to
    <3>1. QuotationActs(x, s.act, s.to)
      BY <1>1
    <3>2. s.to \in Quotations
      BY <3>1, QuotationStays
    <3>3. QuotationActs(s.to, s.act, again.to)
      BY <1>1, <2>1, <3>2
    <3>4. s.act # <<"add", "line">>
      BY <2>1 DEF Repeated
    <3> QED BY <3>1, <3>3, <3>4, QuotationHarmless
  <2> QED BY <2>1 DEF Harmless
<1> QED BY <1>1, <1>2, <1>3

\* The three together, in the terms of the model, for a statement.
LEMMA StatementTurned ==
  ASSUME NEW x \in StatementRows
  PROVE  /\ \A s \in Serves(x) : StatementActs(x, s.act, s.to)
         /\ Honest(x) /\ Harmless(x)
<1>1. ASSUME NEW y \in StatementRows, NEW s \in Serves(y) PROVE StatementActs(y, s.act, s.to)
  <2>1. Done(s.act, s.to) \in Serves(y)
    BY StatementDone DEF IsDone
  <2> QED BY <2>1, StatementServes
<1>2. Honest(x)
  <2>1. ASSUME NEW a PROVE a \in Served(x) <=> \E to : StatementActs(x, a, to)
    <3>1. ASSUME NEW to, StatementActs(x, a, to) PROVE a \in Served(x)
      <4>1. Done(a, to) \in Serves(x)
        BY <3>1, StatementServes
      <4> QED BY <4>1, Carried
    <3>2. ASSUME a \in Served(x) PROVE \E to : StatementActs(x, a, to)
      <4>1. PICK s \in Serves(x) : a = s.act
        BY <3>2 DEF Served
      <4> QED BY <1>1, <4>1
    <3> QED BY <3>1, <3>2
  <2>2. ASSUME NEW a PROVE a \in Offers(x) /\ a \notin Served(x) <=> a \in RefusedAnyway(x)
    BY <2>1, StatementHonest
  <2> QED BY <2>2 DEF Honest
<1>3. Harmless(x)
  <2>1. ASSUME NEW s \in Serves(x), s.act \notin Repeated, NEW again \in Serves(s.to), again.act = s.act
        PROVE  again.to = s.to
    <3>1. StatementActs(x, s.act, s.to)
      BY <1>1
    <3>2. s.to \in StatementRows
      BY <3>1, StatementStays
    <3>3. StatementActs(s.to, s.act, again.to)
      BY <1>1, <2>1, <3>2
    <3> QED BY <3>1, <3>3, StatementHarmless
  <2> QED BY <2>1 DEF Harmless
<1> QED BY <1>1, <1>2, <1>3

\* The three together, in the terms of the model, for a project.
LEMMA ProjectTurned ==
  ASSUME NEW x \in Projects
  PROVE  /\ \A s \in Serves(x) : ProjectActs(x, s.act, s.to)
         /\ Honest(x) /\ Harmless(x)
<1>1. ASSUME NEW y \in Projects, NEW s \in Serves(y) PROVE ProjectActs(y, s.act, s.to)
  <2>1. Done(s.act, s.to) \in Serves(y)
    BY ProjectDone DEF IsDone
  <2> QED BY <2>1, ProjectServes
<1>2. Honest(x)
  <2>1. ASSUME NEW a PROVE a \in Served(x) <=> \E to : ProjectActs(x, a, to)
    <3>1. ASSUME NEW to, ProjectActs(x, a, to) PROVE a \in Served(x)
      <4>1. Done(a, to) \in Serves(x)
        BY <3>1, ProjectServes
      <4> QED BY <4>1, Carried
    <3>2. ASSUME a \in Served(x) PROVE \E to : ProjectActs(x, a, to)
      <4>1. PICK s \in Serves(x) : a = s.act
        BY <3>2 DEF Served
      <4> QED BY <1>1, <4>1
    <3> QED BY <3>1, <3>2
  <2>2. ASSUME NEW a PROVE a \in Offers(x) /\ a \notin Served(x) <=> a \in RefusedAnyway(x)
    BY <2>1, ProjectHonest
  <2> QED BY <2>2 DEF Honest
<1>3. Harmless(x)
  <2>1. ASSUME NEW s \in Serves(x), s.act \notin Repeated, NEW again \in Serves(s.to), again.act = s.act
        PROVE  again.to = s.to
    <3>1. ProjectActs(x, s.act, s.to)
      BY <1>1
    <3>2. s.to \in Projects
      BY <3>1, ProjectStays
    <3>3. ProjectActs(s.to, s.act, again.to)
      BY <1>1, <2>1, <3>2
    <3> QED BY <3>1, <3>3, ProjectHarmless
  <2> QED BY <2>1 DEF Harmless
<1> QED BY <1>1, <1>2, <1>3

\* The three together, in the terms of the model, for an enquiry.
LEMMA LeadTurned ==
  ASSUME NEW x \in Enquiries, Consistent(x)
  PROVE  /\ \A s \in Serves(x) : LeadActs(x, s.act, s.to)
         /\ Honest(x) /\ Harmless(x)
<1>1. ASSUME NEW y \in Enquiries, NEW s \in Serves(y) PROVE LeadActs(y, s.act, s.to)
  <2>1. Done(s.act, s.to) \in Serves(y)
    BY LeadDone DEF IsDone
  <2> QED BY <2>1, LeadServed
<1>2. Honest(x)
  <2>1. ASSUME NEW a PROVE a \in Served(x) <=> \E to : LeadActs(x, a, to)
    <3>1. ASSUME NEW to, LeadActs(x, a, to) PROVE a \in Served(x)
      <4>1. Done(a, to) \in Serves(x)
        BY <3>1, LeadServed
      <4> QED BY <4>1, Carried
    <3>2. ASSUME a \in Served(x) PROVE \E to : LeadActs(x, a, to)
      <4>1. PICK s \in Serves(x) : a = s.act
        BY <3>2 DEF Served
      <4> QED BY <1>1, <4>1
    <3> QED BY <3>1, <3>2
  <2>2. ASSUME NEW a PROVE a \in Offers(x) /\ a \notin Served(x) <=> a \in RefusedAnyway(x)
    BY <2>1, LeadHonest
  <2> QED BY <2>2 DEF Honest
<1>3. Harmless(x)
  <2>1. ASSUME NEW s \in Serves(x), s.act \notin Repeated, NEW again \in Serves(s.to), again.act = s.act
        PROVE  again.to = s.to
    <3>1. LeadActs(x, s.act, s.to)
      BY <1>1
    <3>2. s.to \in Enquiries
      BY <3>1, LeadStays
    <3>3. LeadActs(s.to, s.act, again.to)
      BY <1>1, <2>1, <3>2
    <3> QED BY <3>1, <3>3, LeadHarmless
  <2> QED BY <2>1 DEF Harmless
<1> QED BY <1>1, <1>2, <1>3

\* The three together, in the terms of the model, for an entry.
LEMMA EntryTurned ==
  ASSUME NEW x \in EntryRows
  PROVE  /\ \A s \in Serves(x) : EntryActs(x, s.act, s.to)
         /\ Honest(x) /\ Harmless(x)
<1>1. ASSUME NEW y \in EntryRows, NEW s \in Serves(y) PROVE EntryActs(y, s.act, s.to)
  <2>1. Done(s.act, s.to) \in Serves(y)
    BY EntryDone DEF IsDone
  <2> QED BY <2>1, EntryServed
<1>2. Honest(x)
  <2>1. ASSUME NEW a PROVE a \in Served(x) <=> \E to : EntryActs(x, a, to)
    <3>1. ASSUME NEW to, EntryActs(x, a, to) PROVE a \in Served(x)
      <4>1. Done(a, to) \in Serves(x)
        BY <3>1, EntryServed
      <4> QED BY <4>1, Carried
    <3>2. ASSUME a \in Served(x) PROVE \E to : EntryActs(x, a, to)
      <4>1. PICK s \in Serves(x) : a = s.act
        BY <3>2 DEF Served
      <4> QED BY <1>1, <4>1
    <3> QED BY <3>1, <3>2
  <2>2. ASSUME NEW a PROVE a \in Offers(x) /\ a \notin Served(x) <=> a \in RefusedAnyway(x)
    BY <2>1, EntryHonest
  <2> QED BY <2>2 DEF Honest
<1>3. Harmless(x)
  <2>1. ASSUME NEW s \in Serves(x), s.act \notin Repeated, NEW again \in Serves(s.to), again.act = s.act
        PROVE  again.to = s.to
    <3>1. EntryActs(x, s.act, s.to)
      BY <1>1
    <3>2. s.to \in EntryRows
      BY <3>1, EntryStays
    <3>3. EntryActs(s.to, s.act, again.to)
      BY <1>1, <2>1, <3>2
    <3> QED BY <3>1, <3>3, EntryHarmless
  <2> QED BY <2>1 DEF Harmless
<1> QED BY <1>1, <1>2, <1>3

\* The three together, in the terms of the model, for a timer.
LEMMA TimerTurned ==
  ASSUME NEW x \in Timers
  PROVE  /\ \A s \in Serves(x) : TimerActs(x, s.act, s.to)
         /\ Honest(x) /\ Harmless(x)
<1>1. ASSUME NEW y \in Timers, NEW s \in Serves(y) PROVE TimerActs(y, s.act, s.to)
  <2>1. Done(s.act, s.to) \in Serves(y)
    BY TimerDone DEF IsDone
  <2> QED BY <2>1, TimerServed
<1>2. Honest(x)
  <2>1. ASSUME NEW a PROVE a \in Served(x) <=> \E to : TimerActs(x, a, to)
    <3>1. ASSUME NEW to, TimerActs(x, a, to) PROVE a \in Served(x)
      <4>1. Done(a, to) \in Serves(x)
        BY <3>1, TimerServed
      <4> QED BY <4>1, Carried
    <3>2. ASSUME a \in Served(x) PROVE \E to : TimerActs(x, a, to)
      <4>1. PICK s \in Serves(x) : a = s.act
        BY <3>2 DEF Served
      <4> QED BY <1>1, <4>1
    <3> QED BY <3>1, <3>2
  <2>2. ASSUME NEW a PROVE a \in Offers(x) /\ a \notin Served(x) <=> a \in RefusedAnyway(x)
    BY <2>1, TimerHonest, TimerIs
  <2> QED BY <2>2 DEF Honest
<1>3. Harmless(x)
  <2>1. ASSUME NEW s \in Serves(x), s.act \notin Repeated, NEW again \in Serves(s.to), again.act = s.act
        PROVE  again.to = s.to
    <3>1. TimerActs(x, s.act, s.to)
      BY <1>1
    <3>2. s.to \in Timers
      BY <3>1, TimerStays
    <3>3. TimerActs(s.to, s.act, again.to)
      BY <1>1, <2>1, <3>2
    <3> QED BY <3>1, <3>3, TimerHarmless
  <2> QED BY <2>1 DEF Harmless
<1> QED BY <1>1, <1>2, <1>3

-----------------------------------------------------------------------------
\* What an old page still has right: the lines of what was sent, and of what
\* was approved.
Behind(y, x) ==
    /\ y.kind = "quotation" /\ y.state = "sent" => x.state # "draft" /\ y.lines = x.lines
    /\ y.kind = "statement" /\ y.state = "approved" => x.state # "draft" /\ y.out = x.out /\ y.nil = x.nil

\* What becomes of a thing, by an act or elsewhere.
Becomes(x, to) == (\E s \in Serves(x) : to = s.to) \/ to \in Passing(x)

\* A thing is of the kind its row says.
LEMMA Kinds ==
  /\ \A x \in Quotations : x.kind = "quotation"
  /\ \A x \in StatementRows : x.kind = "statement"
  /\ \A x \in Invoices : x.kind = "invoice"
  /\ \A x \in Projects : x.kind = "project"
  /\ \A x \in Enquiries : x.kind = "enquiry"
  /\ \A x \in EntryRows : x.kind = "entry"
  /\ \A x \in Timers : x.kind = "timer"
<1>1. \A x \in Quotations : x.kind = "quotation"
  BY DEF Quotations
<1>2. \A x \in StatementRows : x.kind = "statement"
  BY DEF StatementRows
<1>3. \A x \in Invoices : x.kind = "invoice"
  BY DEF Invoices
<1>4. \A x \in Projects : x.kind = "project"
  BY DEF Projects
<1>5. \A x \in Enquiries : x.kind = "enquiry"
  BY DEF Enquiries
<1>6. \A x \in EntryRows : x.kind = "entry"
  BY DEF EntryRows
<1>7. \A x \in Timers : x.kind = "timer"
  BY DEF Timers
<1> QED BY <1>1, <1>2, <1>3, <1>4, <1>5, <1>6, <1>7

\* There are seven kinds of things.
LEMMA OfAKind ==
  ASSUME NEW x
  PROVE  x \in Things <=> \/ x \in Quotations \/ x \in StatementRows \/ x \in Invoices \/ x \in Projects
                          \/ x \in Enquiries \/ x \in EntryRows \/ x \in Timers
  BY DEF Things

\* Once sent, a quotation keeps its lines, whatever happens to it.
LEMMA QuotationSteady ==
  ASSUME NEW x \in Quotations, NEW to, Becomes(x, to)
  PROVE  to \in Quotations /\ (x.state # "draft" => to.state # "draft" /\ to.lines = x.lines)
<1>1. CASE to \in Passing(x)
  <2>1. to \in Quotations
    BY <1>1, QuotationStays
  <2>2. to = [x EXCEPT !.late = TRUE] \/ to = [x EXCEPT !.link = FALSE] \/ to = [x EXCEPT !.state = "expired"]
    BY <1>1, QuotationIs, Zenon DEF QuotationPassing, When
  <2> QED BY <2>1, <2>2 DEF Quotations
<1>2. ASSUME NEW s \in Serves(x), to = s.to
      PROVE  to \in Quotations /\ (x.state # "draft" => to.state # "draft" /\ to.lines = x.lines)
  <2>1. QuotationActs(x, s.act, to)
    BY <1>2, QuotationTurned
  <2>2. to \in Quotations
    BY <2>1, QuotationStays
  <2>3. x.state # "draft" => \E d \in {"accepted", "declined"} : to = [x EXCEPT !.state = d]
    BY <2>1, Zenon DEF QuotationActs
  <2> QED BY <2>2, <2>3 DEF Quotations
<1> QED BY <1>1, <1>2 DEF Becomes

\* Once approved, a statement keeps what was decided of its lines.
LEMMA StatementSteady ==
  ASSUME NEW x \in StatementRows, NEW to, Becomes(x, to)
  PROVE  to \in StatementRows /\ (x.state # "draft" => to.state # "draft" /\ to.out = x.out /\ to.nil = x.nil)
<1>1. PICK s \in Serves(x) : to = s.to
  BY StatementIs DEF Becomes
<1>2. StatementActs(x, s.act, to)
  BY <1>1, StatementTurned
<1>3. to \in StatementRows
  BY <1>2, StatementStays
<1>4. x.state # "draft" => to = [x EXCEPT !.state = "invoiced"]
  BY <1>2, Zenon DEF StatementActs
<1> QED BY <1>3, <1>4 DEF StatementRows

\* The rows of the other kinds stay rows of theirs.
LEMMA OthersSteady ==
  ASSUME NEW x, NEW to, Becomes(x, to)
  PROVE  /\ x \in Invoices => to \in Invoices
         /\ x \in Projects => to \in Projects
         /\ x \in Enquiries /\ Consistent(x) => to \in Enquiries /\ Consistent(to)
         /\ x \in EntryRows => to \in EntryRows
         /\ x \in Timers => to \in Timers
<1>1. ASSUME x \in Invoices PROVE to \in Invoices
  BY <1>1, InvoiceIs, InvoiceAsked DEF Becomes
<1>2. ASSUME x \in Projects PROVE to \in Projects
  BY <1>2, ProjectStays, ProjectTurned DEF Becomes
<1>3. ASSUME x \in Enquiries, Consistent(x) PROVE to \in Enquiries /\ Consistent(to)
  <2>1. PICK s \in Serves(x) : to = s.to
    BY <1>3, LeadIs DEF Becomes
  <2> QED BY <1>3, <2>1, LeadStays, LeadTurned
<1>4. ASSUME x \in EntryRows PROVE to \in EntryRows
  BY <1>4, EntryStays, EntryTurned DEF Becomes
<1>5. ASSUME x \in Timers PROVE to \in Timers
  <2>1. PICK s \in Serves(x) : to = s.to
    BY <1>5, TimerIs DEF Becomes
  <2> QED BY <1>5, <2>1, TimerStays, TimerTurned
<1> QED BY <1>1, <1>2, <1>3, <1>4, <1>5

\* A thing stays one of its kind, an enquiry stays consistent, and what old pages
\* have right stays right.
LEMMA ThingGoesOn ==
  ASSUME NEW x \in Things, x \in Enquiries => Consistent(x), NEW to, Becomes(x, to)
  PROVE  /\ to \in Things /\ to.kind = x.kind
         /\ to \in Enquiries => Consistent(to)
         /\ \A y : y.kind = x.kind /\ Behind(y, x) => Behind(y, to)
<1>1. CASE x \in Quotations
  <2>1. to \in Quotations /\ (x.state # "draft" => to.state # "draft" /\ to.lines = x.lines)
    BY <1>1, QuotationSteady
  <2>2. x.kind = "quotation" /\ to.kind = "quotation" /\ to \notin Enquiries
    BY <1>1, <2>1, Kinds
  <2> QED BY <2>1, <2>2, OfAKind DEF Behind
<1>2. CASE x \in StatementRows
  <2>1. to \in StatementRows /\ (x.state # "draft" => to.state # "draft" /\ to.out = x.out /\ to.nil = x.nil)
    BY <1>2, StatementSteady
  <2>2. x.kind = "statement" /\ to.kind = "statement" /\ to \notin Enquiries
    BY <1>2, <2>1, Kinds
  <2> QED BY <2>1, <2>2, OfAKind DEF Behind
<1>3. CASE x \in Enquiries
  <2>1. to \in Enquiries /\ Consistent(to)
    BY <1>3, OthersSteady
  <2>2. x.kind = "enquiry" /\ to.kind = "enquiry"
    BY <1>3, <2>1, Kinds
  <2> QED BY <2>1, <2>2, OfAKind DEF Behind
<1>4. CASE x \in Invoices \/ x \in Projects \/ x \in EntryRows \/ x \in Timers
  <2>1. /\ to \in Invoices \/ to \in Projects \/ to \in EntryRows \/ to \in Timers
        /\ to.kind = x.kind
    BY <1>4, OthersSteady, Kinds
  <2>2. to \notin Enquiries /\ x.kind # "quotation" /\ x.kind # "statement"
    BY <1>4, <2>1, Kinds
  <2> QED BY <2>1, <2>2, OfAKind DEF Behind
<1> QED BY <1>1, <1>2, <1>3, <1>4, OfAKind

\* Whatever the thing, its page is honest, its acts harmless to repeat, and it
\* can be taken further.
LEMMA ThingIsSound ==
  ASSUME NEW x \in Things, x \in Enquiries => Consistent(x)
  PROVE  Honest(x) /\ Harmless(x) /\ MovesOn(x)
  BY OfAKind, QuotationTurned, StatementTurned, InvoiceAsked, ProjectTurned, LeadTurned, EntryTurned, TimerTurned,
     QuotationMoves, StatementGoesOn, ProjectGoesOn, LeadGoesOn, EntryGoesOn, TimerGoesOn

\* The invariant: an enquiry keeps the CHECK, and an old page of what was sent
\* or approved is of a thing past its draft, with the same lines.
ScreensInv ==
    /\ thing \in Things
    /\ thing \in Enquiries => Consistent(thing)
    /\ shown \in [Desks -> {NoPage} \cup Things]
    /\ \A d \in Desks : shown[d] = NoPage \/ (shown[d] \in Things /\ shown[d].kind = thing.kind /\ Behind(shown[d], thing))

\* The invariant holds when nothing is open,
LEMMA ScreensStart == ScreensInit => ScreensInv
<1> SUFFICES ASSUME ScreensInit PROVE ScreensInv
  OBVIOUS
<1>1. \A d \in Desks : shown[d] = NoPage
  BY DEF ScreensInit
<1>2. shown \in [Desks -> {NoPage} \cup Things]
  BY DEF ScreensInit
<1>3. /\ NewQuotations \subseteq Quotations /\ NewStatementRows \subseteq StatementRows
      /\ NewEntryRows \subseteq EntryRows
  BY DEF NewQuotations, NewStatementRows, StatementRows, NewEntryRows
<1>4. NewProjects \subseteq Projects
  BY Zenon DEF NewProjects
<1>5. NewInvoices \subseteq Invoices
  BY DEF NewInvoices, Invoices
<1>6. \A x \in NewEnquiries : x \in Enquiries /\ Consistent(x)
  BY LeadTable DEF NewEnquiries, Enquiries, Consistent
<1>7. \/ thing \in NewQuotations \/ thing \in NewStatementRows \/ thing \in NewInvoices \/ thing \in NewProjects
      \/ thing \in NewEnquiries \/ thing \in NewEntryRows \/ thing \in Timers
  BY DEF ScreensInit
<1>8. thing \in Things
  BY <1>3, <1>4, <1>5, <1>6, <1>7, OfAKind
<1>9. ASSUME thing \in Enquiries PROVE Consistent(thing)
  BY <1>3, <1>4, <1>5, <1>6, <1>7, <1>9, Kinds
<1> QED BY <1>1, <1>2, <1>8, <1>9 DEF ScreensInv

\* is kept by a look, a press and what happens elsewhere,
LEMMA ScreensGoOn == ScreensInv /\ [ScreensNext]_screenVars => ScreensInv'
<1> SUFFICES ASSUME ScreensInv, [ScreensNext]_screenVars PROVE ScreensInv'
  OBVIOUS
<1> USE DEF ScreensInv
<1>1. ASSUME Becomes(thing, thing'), NEW e \in Desks, shown' \in {shown, [shown EXCEPT ![e] = thing']}
      PROVE  ScreensInv'
  <2>1. /\ thing' \in Things /\ thing'.kind = thing.kind
        /\ thing' \in Enquiries => Consistent(thing')
        /\ \A y : y.kind = thing.kind /\ Behind(y, thing) => Behind(y, thing')
    BY <1>1, ThingGoesOn
  <2>2. Behind(thing', thing')
    BY DEF Behind
  <2>3. shown' \in [Desks -> {NoPage} \cup Things]
    BY <1>1, <2>1
  <2>4. ASSUME NEW d \in Desks
        PROVE  \/ shown'[d] = NoPage
               \/ shown'[d] \in Things /\ shown'[d].kind = thing'.kind /\ Behind(shown'[d], thing')
    <3>1. shown'[d] = shown[d] \/ shown'[d] = thing'
      BY <1>1
    <3> QED BY <2>1, <2>2, <3>1
  <2> QED BY <2>1, <2>3, <2>4
<1>2. CASE Elsewhere
  <2>1. Becomes(thing, thing') /\ shown' = shown
    BY <1>2 DEF Elsewhere, Becomes
  <2>2. /\ thing' \in Things /\ thing'.kind = thing.kind
        /\ thing' \in Enquiries => Consistent(thing')
        /\ \A y : y.kind = thing.kind /\ Behind(y, thing) => Behind(y, thing')
    BY <2>1, ThingGoesOn
  <2> QED BY <2>1, <2>2
<1>3. ASSUME NEW d \in Desks, Press(d) PROVE ScreensInv'
  <2>1. PICK s \in Serves(thing) : thing' = s.to /\ shown' \in {shown, [shown EXCEPT ![d] = s.to]}
    BY <1>3 DEF Press
  <2>2. Becomes(thing, thing')
    BY <2>1 DEF Becomes
  <2> QED BY <1>1, <2>1, <2>2
<1>4. ASSUME NEW e \in Desks, Look(e) PROVE ScreensInv'
  <2>1. thing' = thing /\ shown' = [shown EXCEPT ![e] = thing]
    BY <1>4 DEF Look
  <2>2. Behind(thing, thing)
    BY DEF Behind
  <2>3. shown' \in [Desks -> {NoPage} \cup Things]
    BY <2>1
  <2>4. ASSUME NEW d \in Desks
        PROVE  \/ shown'[d] = NoPage
               \/ shown'[d] \in Things /\ shown'[d].kind = thing.kind /\ Behind(shown'[d], thing)
    <3>1. shown'[d] = shown[d] \/ shown'[d] = thing
      BY <2>1
    <3> QED BY <2>2, <3>1
  <2> QED BY <2>1, <2>3, <2>4
<1>5. CASE UNCHANGED screenVars
  BY <1>5 DEF screenVars
<1> QED BY <1>2, <1>3, <1>4, <1>5 DEF ScreensNext

\* and implies what is promised.
LEMMA ScreensAreRight == ScreensInv => ScreensHold
<1> SUFFICES ASSUME ScreensInv PROVE ScreensHold
  OBVIOUS
<1>1. ScreensTypeOK
  BY DEF ScreensInv, ScreensTypeOK
<1>2. Honest(thing) /\ Harmless(thing) /\ MovesOn(thing)
  BY ThingIsSound DEF ScreensInv
<1>3. PagesAreHonest
  BY <1>2 DEF PagesAreHonest, Honest
<1>4. WorkMovesOn
  BY <1>2 DEF WorkMovesOn, MovesOn
<1>5. AgainIsHarmless
  BY <1>2 DEF AgainIsHarmless, Harmless
<1>6. AgreedAsShown
  BY DEF AgreedAsShown, ScreensInv, Behind
<1> QED BY <1>1, <1>3, <1>4, <1>5, <1>6 DEF ScreensHold

\* For any desks, lines and sums: a page up to date is refused only what is named,
\* what is not done with can be taken further, an act repeated changes nothing
\* more, and an old page that offers to agree shows the lines agreed to.
THEOREM ScreensHoldForAny == ScreensSpec => []ScreensHold
<1>1. ScreensSpec => []ScreensInv
  BY ScreensStart, ScreensGoOn, PTL DEF ScreensSpec
<1> QED BY <1>1, ScreensAreRight, PTL

-----------------------------------------------------------------------------
(***************************************************************************)
(* Working hours. The clock's arithmetic first; then what is covered is    *)
(* what is worked, counted the other way; then the steps.                  *)
(***************************************************************************)
HIDE ScreensAssumption
USE HoursAssumption

\* An instant is of one day and of one part of it.
LEMMA OneDayOnePart ==
    ASSUME NEW t \in Int, NEW day \in Int, NEW part \in 0 .. Parts - 1, t = day * Parts + part
    PROVE  t \div Parts = day /\ t % Parts = part
OBVIOUS

LEMMA DayAndPart ==
    ASSUME NEW t \in Int
    PROVE  /\ t \div Parts \in Int /\ t % Parts \in 0 .. Parts - 1
           /\ t = (t \div Parts) * Parts + (t % Parts)
OBVIOUS

LEMMA OnTheClock ==
    ASSUME NEW t \in Int
    PROVE  /\ LocalDay(t) \in Int /\ LocalTime(t) \in 0 .. Parts - 1 /\ LocalTime(t) \in Int
           /\ t + Ahead = LocalDay(t) * Parts + LocalTime(t)
<1>1. t + Ahead \in Int
  OBVIOUS
<1> QED BY <1>1, DayAndPart DEF LocalDay, LocalTime, Wall

\* A later instant is of no earlier day.
LEMMA DaysInOrder ==
    ASSUME NEW a \in Int, NEW b \in Int, a <= b
    PROVE  a \div Parts <= b \div Parts
OBVIOUS

\* A day ends where the next one starts.
LEMMA DayBounds ==
    ASSUME NEW t \in Int, NEW d \in Int
    PROVE  /\ t >= d * Parts <=> t \div Parts >= d
           /\ t < (d + 1) * Parts <=> t \div Parts <= d
OBVIOUS

LEMMA Names == ASSUME NEW day \in Int PROVE Weekday(day) = NameOf(day) /\ NameOf(day) \in 1 .. 7
BY DEF Weekday, NameOf

\* Hours that the domain takes, with nothing left of days off.
WeekOK(h) == h \in Week /\ Acceptable(h) /\ Tidied(h) = h

\* An instant is covered exactly if it is among those worked.
LEMMA CoveredIsWorked ==
    ASSUME NEW h, WeekOK(h), NEW t \in Int,
           LocalDay(t) \in FirstDay - 2 .. LastDay + 2
    PROVE  Covers(h, t) <=> t + Ahead \in WorkedInstants(h)
<1> DEFINE n(day) == NameOf(day)
           s(day) == IF h.own[n(day)] = NoOwn THEN h ELSE h.own[n(day)]
<1>1. \A day \in Int : n(day) \in 1 .. 7 /\ Weekday(day) = n(day)
  BY Names
<1>2. \A day \in Int : n(day) \in h.days =>
         /\ s(day).from \in Int /\ s(day).to \in Int
         /\ 0 <= s(day).from /\ s(day).to <= Parts
  BY <1>1 DEF WeekOK, Acceptable, InDay, Week, Span
<1>3. t + Ahead \in Int /\ LocalDay(t) \in Int /\ LocalTime(t) \in 0 .. Parts - 1
      /\ t + Ahead = LocalDay(t) * Parts + LocalTime(t)
  BY OnTheClock
<1>4. Covers(h, t) <=> /\ n(LocalDay(t)) \in h.days
                      /\ s(LocalDay(t)).from <= LocalTime(t)
                      /\ LocalTime(t) < s(LocalDay(t)).to
  BY <1>1, <1>2, <1>3 DEF Covers
<1>5. \A day \in Int : \A x : x \in WorkedOn(h, day) <=>
         /\ n(day) \in h.days
         /\ \E part \in s(day).from .. s(day).to - 1 : x = day * Parts + part
  BY DEF WorkedOn
<1> HIDE DEF n, s
<1>6. ASSUME Covers(h, t) PROVE t + Ahead \in WorkedInstants(h)
  <2>1. LocalTime(t) \in s(LocalDay(t)).from .. s(LocalDay(t)).to - 1
    BY <1>2, <1>3, <1>4, <1>6
  <2>2. t + Ahead \in WorkedOn(h, LocalDay(t))
    BY <1>3, <1>4, <1>5, <1>6, <2>1
  <2> QED BY <2>2 DEF WorkedInstants
<1>7. ASSUME t + Ahead \in WorkedInstants(h) PROVE Covers(h, t)
  <2>1. PICK day \in FirstDay - 2 .. LastDay + 2 : t + Ahead \in WorkedOn(h, day)
    BY <1>7 DEF WorkedInstants
  <2>2. day \in Int /\ n(day) \in h.days
    BY <1>5, <2>1
  <2>3. PICK part \in s(day).from .. s(day).to - 1 : t + Ahead = day * Parts + part
    BY <1>5, <2>1, <2>2
  <2>4. part \in 0 .. Parts - 1 /\ s(day).from <= part /\ part < s(day).to
    BY <1>2, <2>2, <2>3
  <2>5. LocalDay(t) = day /\ LocalTime(t) = part
    BY <1>3, <2>2, <2>3, <2>4, OneDayOnePart DEF LocalDay, LocalTime, Wall
  <2> QED BY <1>4, <2>2, <2>4, <2>5
<1> QED BY <1>6, <1>7

\* The stretch of the property is all that lies between its ends.
LEMMA Stretch ==
    ASSUME NEW a \in Int, NEW b \in Int, a < b
    PROVE  /\ {t + Ahead : t \in a .. b} = (a + Ahead) .. (b + Ahead)
           /\ Cardinality({t + Ahead : t \in a .. b}) = b - a + 1
<1>1. {t + Ahead : t \in a .. b} = (a + Ahead) .. (b + Ahead)
  <2>1. \A x \in (a + Ahead) .. (b + Ahead) : x - Ahead \in a .. b /\ x = (x - Ahead) + Ahead
    OBVIOUS
  <2> QED BY <2>1
<1>2. Cardinality((a + Ahead) .. (b + Ahead)) = (b + Ahead) - (a + Ahead) + 1
  BY FS_Interval
<1>3. (b + Ahead) - (a + Ahead) + 1 = b - a + 1
  OBVIOUS
<1> QED BY <1>1, <1>2, <1>3, Zenon

\* What nobody is asked about lies within the hours, of one day.
LEMMA NotQuestioned ==
    ASSUME NEW h, WeekOK(h), NEW a \in Instants, NEW b \in Int, a < b, ~ Questions(h, a, b)
    PROVE  {t + Ahead : t \in a .. b} \subseteq WorkedInstants(h)
<1> SUFFICES ASSUME NEW t \in a .. b PROVE t + Ahead \in WorkedInstants(h)
  OBVIOUS
<1>1. a \in Int /\ t \in Int /\ a <= t /\ t <= b /\ FirstDay * Parts <= a /\ a < (LastDay + 1) * Parts
  BY DEF Instants
<1>2. /\ Covers(h, a) /\ Covers(h, b) /\ LocalDay(a) = LocalDay(b)
  BY DEF Questions
<1>3. LocalDay(a) <= LocalDay(t) /\ LocalDay(t) <= LocalDay(b)
  <2>1. /\ a + Ahead \in Int /\ t + Ahead \in Int /\ b + Ahead \in Int
        /\ a + Ahead <= t + Ahead /\ t + Ahead <= b + Ahead
    BY <1>1
  <2> QED BY <2>1, DaysInOrder, Zenon DEF LocalDay, Wall
<1>4. LocalDay(a) \in Int /\ LocalDay(t) \in Int
      /\ a + Ahead = LocalDay(a) * Parts + LocalTime(a)
      /\ t + Ahead = LocalDay(t) * Parts + LocalTime(t)
      /\ b + Ahead = LocalDay(b) * Parts + LocalTime(b)
      /\ LocalTime(a) \in Int /\ LocalTime(t) \in Int /\ LocalTime(b) \in Int /\ LocalDay(b) \in Int
  BY <1>1, OnTheClock
<1>5. LocalDay(t) = LocalDay(a)
  BY <1>2, <1>3, <1>4
<1>6. LocalTime(a) <= LocalTime(t) /\ LocalTime(t) <= LocalTime(b)
  BY <1>1, <1>2, <1>4, <1>5
<1>7. LocalDay(a) \in FirstDay .. LastDay + 1
  <2>1. FirstDay * Parts <= a + Ahead /\ a + Ahead < ((LastDay + 1) + 1) * Parts
    BY <1>1
  <2>2. FirstDay <= LocalDay(a) /\ LocalDay(a) <= LastDay + 1
    BY <1>1, <2>1, DayBounds DEF LocalDay, Wall
  <2> QED BY <1>4, <2>2
<1>8. Covers(h, t)
  <2>1. Weekday(LocalDay(a)) \in 1 .. 7
    BY <1>4, Names
  <2>2. h.own[Weekday(LocalDay(a))] = NoOwn \/ h.own[Weekday(LocalDay(a))] \in Span
    BY <2>1 DEF WeekOK, Week
  <2>3. h.from \in Int /\ h.to \in Int
    BY DEF WeekOK, Week
  <2> QED BY <1>2, <1>4, <1>5, <1>6, <2>2, <2>3 DEF Covers, Span
<1> QED BY <1>1, <1>5, <1>7, <1>8, CoveredIsWorked

\* What somebody is asked about is not all worked, or goes past a midnight.
LEMMA Questioned ==
    ASSUME NEW h, WeekOK(h), NEW a \in Instants, NEW b \in Int, a < b, Questions(h, a, b)
    PROVE  \/ ~ ({t + Ahead : t \in a .. b} \subseteq WorkedInstants(h))
           \/ \E day \in FirstDay .. LastDay + 2 :
                 /\ day * Parts - 1 \in {t + Ahead : t \in a .. b}
                 /\ day * Parts \in {t + Ahead : t \in a .. b}
<1> DEFINE span == {t + Ahead : t \in a .. b}
<1>1. a \in Int /\ FirstDay * Parts <= a /\ a < (LastDay + 1) * Parts
  BY DEF Instants
<1>2. a + Ahead \in span /\ b + Ahead \in span
  BY <1>1
<1>3. FirstDay <= LocalDay(a) /\ LocalDay(a) <= LastDay + 1
  <2>1. FirstDay * Parts <= a + Ahead /\ a + Ahead < ((LastDay + 1) + 1) * Parts
    BY <1>1
  <2> QED BY <1>1, <2>1, DayBounds DEF LocalDay, Wall
<1>4. LocalDay(a) \in Int /\ LocalDay(b) \in Int /\ LocalDay(a) <= LocalDay(b)
  <2>1. a + Ahead \in Int /\ b + Ahead \in Int /\ a + Ahead <= b + Ahead
    BY <1>1
  <2>2. LocalDay(a) <= LocalDay(b)
    BY <2>1, DaysInOrder DEF LocalDay, Wall
  <2>3. LocalDay(a) \in Int /\ LocalDay(b) \in Int
    BY <2>1, DayAndPart DEF LocalDay, Wall
  <2> QED BY <2>2, <2>3
<1>5. CASE LocalDay(a) # LocalDay(b)
  <2> DEFINE day == LocalDay(a) + 1
  <2>1. day \in FirstDay .. LastDay + 2 /\ day <= LocalDay(b) /\ LocalDay(a) = day - 1
    BY <1>3, <1>4, <1>5
  <2>2. a + Ahead < day * Parts
    BY <1>1, <1>4, DayBounds DEF LocalDay, Wall
  <2>3. day * Parts <= b + Ahead
    BY <1>1, <1>4, <2>1, DayBounds DEF LocalDay, Wall
  <2>4. day * Parts \in Int /\ a + Ahead \in Int /\ b + Ahead \in Int
    BY <1>1, <1>4
  <2>5. day * Parts - 1 \in (a + Ahead) .. (b + Ahead) /\ day * Parts \in (a + Ahead) .. (b + Ahead)
    BY <2>2, <2>3, <2>4
  <2>6. span = (a + Ahead) .. (b + Ahead)
    BY <1>1, Stretch
  <2>7. day * Parts - 1 \in span /\ day * Parts \in span
    BY <2>5, <2>6, Zenon
  <2> QED BY <2>1, <2>7, Zenon
<1>6. CASE ~ Covers(h, a)
  <2>1. a + Ahead \notin WorkedInstants(h)
    BY <1>1, <1>3, <1>4, <1>6, CoveredIsWorked
  <2> QED BY <1>2, <2>1
<1>7. CASE LocalDay(a) = LocalDay(b) /\ ~ Covers(h, b)
  <2>1. b + Ahead \notin WorkedInstants(h)
    BY <1>1, <1>3, <1>4, <1>7, CoveredIsWorked
  <2> QED BY <1>2, <2>1
<1> QED BY <1>5, <1>6, <1>7 DEF Questions

-----------------------------------------------------------------------------
HoursInv ==
    /\ hours # NoHours => WeekOK(hours)
    /\ entry # NoEntry =>
          /\ entry.from \in Int /\ entry.to \in Int /\ entry.from < entry.to
          /\ entry.source \in {"timer", "manual"}
          /\ entry.source = "manual" => entry.said \in Int /\ entry.from = entry.said - Ahead

\* What the form sends is tidied once and for all.
LEMMA TidiedOK ==
    ASSUME NEW h \in Week, Acceptable(Tidied(h))
    PROVE  WeekOK(Tidied(h))
<1> DEFINE kept == [d \in 1 .. 7 |-> IF d \in h.days THEN h.own[d] ELSE NoOwn]
<1>1. /\ h = [from |-> h.from, to |-> h.to, days |-> h.days, own |-> h.own]
      /\ h.from \in Int /\ h.to \in Int /\ h.days \in SUBSET Int
      /\ h.own \in [1 .. 7 -> Span \cup {NoOwn}]
  BY DEF Week
<1>2. Tidied(h) = [from |-> h.from, to |-> h.to, days |-> h.days, own |-> kept]
  BY <1>1 DEF Tidied
<1>3. kept \in [1 .. 7 -> Span \cup {NoOwn}]
  BY <1>1
<1>4. Tidied(h) \in Week
  BY <1>1, <1>2, <1>3 DEF Week
<1>5. Tidied(Tidied(h)) = Tidied(h)
  <2>1. [d \in 1 .. 7 |-> IF d \in h.days THEN kept[d] ELSE NoOwn] = kept
    OBVIOUS
  <2> HIDE DEF kept
  <2> QED BY <1>2, <2>1 DEF Tidied
<1> QED BY <1>4, <1>5 DEF WeekOK

\* The hours of somebody nobody wrote any down for are hours the domain takes.
LEMMA UsualOK == WeekOK(Usual)
<1>1. Acceptable(Usual)
  BY DEF Acceptable, InDay
<1>2. Tidied(Usual) = Usual
  <2>1. /\ Usual = [from |-> Usual.from, to |-> Usual.to, days |-> Usual.days, own |-> Usual.own]
        /\ Usual.own \in [1 .. 7 -> Span \cup {NoOwn}]
    BY DEF Week
  <2>2. [d \in 1 .. 7 |-> IF d \in Usual.days THEN Usual.own[d] ELSE NoOwn] = Usual.own
    BY <2>1
  <2> QED BY <2>1, <2>2 DEF Tidied
<1> QED BY <1>1, <1>2 DEF WeekOK

\* The hours a person is shown are those their time is judged by.
LEMMA ShownIsInForce == ASSUME HoursInv PROVE Shown = InForce /\ WeekOK(InForce)
<1>1. FormDefault = Usual
  <2>1. /\ Usual = [from |-> Usual.from, to |-> Usual.to, days |-> 1 .. 5, own |-> Usual.own]
        /\ Usual.own \in [1 .. 7 -> Span \cup {NoOwn}]
    BY DEF Week
  <2>2. [d \in 1 .. 7 |-> NoOwn] = Usual.own
    BY <2>1
  <2> QED BY <2>1, <2>2 DEF FormDefault
<1>2. CASE hours = NoHours
  BY <1>1, <1>2, UsualOK DEF Shown, InForce
<1>3. CASE hours # NoHours
  <2>1. WeekOK(hours)
    BY <1>3 DEF HoursInv
  <2>2. Acceptable(Tidied(hours)) /\ Tidied(hours) = hours
    BY <2>1 DEF WeekOK
  <2>3. InForce = Tidied(hours)
    BY <1>3, <2>2, Zenon DEF InForce
  <2>4. Shown = hours
    BY <1>3 DEF Shown
  <2> QED BY <2>1, <2>2, <2>3, <2>4, Zenon
<1> QED BY <1>2, <1>3

LEMMA HoursKept == HoursInv /\ [HoursNext]_hoursVars => HoursInv'
<1> SUFFICES ASSUME HoursInv, [HoursNext]_hoursVars PROVE HoursInv'
  OBVIOUS
<1>1. ASSUME NEW h \in Typable, SetHours(h) PROVE HoursInv'
  <2>1. WeekOK(hours')
    BY <1>1, TidiedOK DEF SetHours
  <2>2. (hours # NoHours => WeekOK(hours))'
    BY <2>1 DEF WeekOK, Week, Acceptable, InDay, Tidied
  <2> QED BY <1>1, <2>2 DEF SetHours, HoursInv
<1>2. ASSUME NEW a \in Instants, NEW b \in a .. a + Longest, NEW abandoned \in BOOLEAN,
             StopTimer(a, b, abandoned)
      PROVE HoursInv'
  <2>1. a \in Int /\ b \in Int
    BY DEF Instants
  <2>2. entry' = [from |-> a, to |-> b, source |-> "timer",
                  reason |-> Reason(a, b, abandoned), said |-> NoEntry]
    BY <1>2 DEF StopTimer
  <2>3. /\ entry'.from = a /\ entry'.to = b /\ entry'.source = "timer"
    BY <2>2
  <2> QED BY <1>2, <2>1, <2>3 DEF StopTimer, HoursInv, WeekOK
<1>3. ASSUME NEW typed \in Instants, NEW length \in {1, Longest}, NEW now \in {LastDay * Parts},
             ByHand(typed, typed + length, now)
      PROVE HoursInv'
  <2>1. typed \in Int /\ typed + length \in Int
    BY DEF Instants
  <2>2. entry' = [from |-> typed - Ahead, to |-> (typed + length) - Ahead, source |-> "manual",
                  reason |-> "none", said |-> typed]
    BY <1>3 DEF ByHand, InDubai
  <2>3. /\ entry'.from = typed - Ahead /\ entry'.to = (typed + length) - Ahead
        /\ entry'.source = "manual" /\ entry'.said = typed
    BY <2>2
  <2> QED BY <1>3, <2>1, <2>3 DEF ByHand, HoursInv, WeekOK
<1>4. CASE UNCHANGED hoursVars
  BY <1>4 DEF hoursVars, HoursInv, WeekOK
<1> QED BY <1>1, <1>2, <1>3, <1>4 DEF HoursNext

\* What the invariant says of every state.
LEMMA HoursShows == HoursInv => HoursTypeOK /\ HoursShown /\ TypedIsKept /\ SheetAddsUp
<1> SUFFICES ASSUME HoursInv PROVE HoursTypeOK /\ HoursShown /\ TypedIsKept /\ SheetAddsUp
  OBVIOUS
<1>1. HoursTypeOK
  <2>1. ASSUME hours # NoHours
        PROVE  /\ hours.days \subseteq 1 .. 7 /\ hours.days # {}
               /\ 0 <= hours.from /\ hours.from < hours.to /\ hours.to <= Parts
               /\ \A d \in 1 .. 7 : hours.own[d] # NoOwn =>
                     d \in hours.days /\ hours.own[d].from < hours.own[d].to
    <3>1. hours \in Week /\ Acceptable(hours) /\ Tidied(hours) = hours
      BY <2>1 DEF HoursInv, WeekOK
    <3>2. /\ hours = [from |-> hours.from, to |-> hours.to, days |-> hours.days, own |-> hours.own]
          /\ hours.own \in [1 .. 7 -> Span \cup {NoOwn}]
      BY <3>1 DEF Week
    <3>3. hours.own = [d \in 1 .. 7 |-> IF d \in hours.days THEN hours.own[d] ELSE NoOwn]
      BY <3>1, <3>2 DEF Tidied
    <3>4. \A d \in 1 .. 7 : hours.own[d] # NoOwn => d \in hours.days
      BY <3>3
    <3> QED BY <3>1, <3>4 DEF Acceptable, InDay
  <2> QED BY <2>1 DEF HoursTypeOK, HoursInv
<1>2. HoursShown
  BY ShownIsInForce DEF HoursShown
<1>3. TypedIsKept
  <2>1. ASSUME entry # NoEntry, entry.source = "manual"
        PROVE  entry.said = entry.from + Ahead
    BY <2>1 DEF HoursInv
  <2> QED BY <2>1 DEF TypedIsKept
<1>4. SheetAddsUp
  <2> SUFFICES ASSUME entry # NoEntry
               PROVE  /\ \A first, last \in FirstDay .. LastDay :
                           SheetTakes(entry, first, last) => SheetRow(entry) \in first .. last
                      /\ SheetRow(entry) = Today(entry) \/ (entry.from % Parts) + Ahead >= Parts
    BY DEF SheetAddsUp
  <2>1. entry.from \in Int
    BY DEF HoursInv
  <2>2. ASSUME NEW first \in FirstDay .. LastDay, NEW last \in FirstDay .. LastDay,
               SheetTakes(entry, first, last)
        PROVE  SheetRow(entry) \in first .. last
    <3>1. first \in Int /\ last \in Int /\ SheetRow(entry) \in Int
      BY <2>1, DayAndPart DEF SheetRow
    <3>2. entry.from >= first * Parts /\ entry.from < (last + 1) * Parts
      BY <2>2 DEF SheetTakes
    <3>3. SheetRow(entry) >= first
      BY <2>1, <3>1, <3>2, DayBounds DEF SheetRow
    <3>4. SheetRow(entry) <= last
      BY <2>1, <3>1, <3>2, DayBounds DEF SheetRow
    <3> QED BY <3>1, <3>3, <3>4
  <2>3. ASSUME (entry.from % Parts) + Ahead < Parts
        PROVE  SheetRow(entry) = Today(entry)
    <3> DEFINE t == entry.from + Ahead
    <3>1. /\ entry.from \div Parts \in Int /\ entry.from % Parts \in 0 .. Parts - 1
          /\ entry.from = (entry.from \div Parts) * Parts + (entry.from % Parts)
      BY <2>1, DayAndPart
    <3>2. /\ t \in Int /\ (entry.from % Parts) + Ahead \in 0 .. Parts - 1
          /\ t = (entry.from \div Parts) * Parts + ((entry.from % Parts) + Ahead)
      BY <2>1, <2>3, <3>1
    <3>3. t \div Parts = entry.from \div Parts
      BY <3>1, <3>2, OneDayOnePart
    <3> QED BY <3>3 DEF SheetRow, Today, LocalDay, Wall
  <2> QED BY <2>1, <2>2, <2>3
<1> QED BY <1>1, <1>2, <1>3, <1>4

\* What the rules say of an entry, against the hours counted the other way.
JudgedStep ==
    entry' # entry /\ entry'.source = "timer" =>
        LET span == {t + Ahead : t \in entry'.from .. entry'.to}
            worked == WorkedInstants(Shown)
        IN  /\ entry'.reason = "none" => span \subseteq worked /\ Cardinality(span) - 1 <= TooLong
            /\ entry'.reason = "after_hours" =>
                   \/ ~ (span \subseteq worked)
                   \/ \E day \in FirstDay .. LastDay + 2 : day * Parts - 1 \in span /\ day * Parts \in span

LEMMA StepJudged == HoursInv /\ [HoursNext]_hoursVars => JudgedStep
<1> SUFFICES ASSUME HoursInv, [HoursNext]_hoursVars PROVE JudgedStep
  OBVIOUS
<1>1. ASSUME NEW a \in Instants, NEW b \in a .. a + Longest, NEW abandoned \in BOOLEAN,
             StopTimer(a, b, abandoned)
      PROVE JudgedStep
  <2>1. a \in Int /\ b \in Int /\ a < b
    BY <1>1 DEF Instants, StopTimer
  <2>2. entry' = [from |-> a, to |-> b, source |-> "timer",
                  reason |-> Reason(a, b, abandoned), said |-> NoEntry]
    BY <1>1 DEF StopTimer
  <2>3. /\ entry'.from = a /\ entry'.to = b /\ entry'.reason = Reason(a, b, abandoned)
    BY <2>2
  <2>4. Shown = InForce /\ WeekOK(InForce)
    BY ShownIsInForce
  <2> DEFINE span == {t + Ahead : t \in a .. b}
  <2>5. ASSUME Reason(a, b, abandoned) = "none"
        PROVE  span \subseteq WorkedInstants(InForce) /\ Cardinality(span) - 1 <= TooLong
    <3>1. ~ Questions(InForce, a, b) /\ b - a <= TooLong
      BY <2>1, <2>5 DEF Reason
    <3>2. Cardinality(span) - 1 <= TooLong
      <4>1. Cardinality(span) = b - a + 1
        BY <2>1, Stretch
      <4> HIDE DEF span
      <4> QED BY <2>1, <3>1, <4>1
    <3> QED BY <2>1, <2>4, <3>1, <3>2, NotQuestioned
  <2>6. ASSUME Reason(a, b, abandoned) = "after_hours"
        PROVE  \/ ~ (span \subseteq WorkedInstants(InForce))
               \/ \E day \in FirstDay .. LastDay + 2 : day * Parts - 1 \in span /\ day * Parts \in span
    <3>1. Questions(InForce, a, b)
      BY <2>6 DEF Reason
    <3> QED BY <2>1, <2>4, <3>1, Questioned
  <2> QED BY <2>3, <2>4, <2>5, <2>6, Zenon DEF JudgedStep
<1>2. ASSUME NEW typed \in Instants, NEW length \in {1, Longest}, NEW now \in {LastDay * Parts},
             ByHand(typed, typed + length, now)
      PROVE JudgedStep
  <2>1. entry'.source = "manual"
    BY <1>2 DEF ByHand
  <2> QED BY <2>1 DEF JudgedStep
<1>3. CASE UNCHANGED entry
  BY <1>3 DEF JudgedStep
<1>4. ASSUME NEW h \in Typable, SetHours(h) PROVE JudgedStep
  BY <1>4 DEF SetHours, JudgedStep
<1> QED BY <1>1, <1>2, <1>3, <1>4 DEF HoursNext, hoursVars

\* For any hours that may be typed, any clock and any limits: what the page shows
\* as somebody's hours is what their time is judged by, nobody is asked about time
\* within them and of one day, and no other time passes unasked but what is typed.
THEOREM HoursHoldForAny == HoursSpec => HoursHold
<1>1. HoursInit => HoursInv
  BY DEF HoursInit, HoursInv, WeekOK
<1>2. HoursInv /\ [HoursNext]_hoursVars => HoursInv'
  BY HoursKept
<1>3. HoursInv => HoursTypeOK /\ HoursShown /\ TypedIsKept /\ SheetAddsUp
  BY HoursShows
<1>4. HoursInv /\ [HoursNext]_hoursVars => [JudgedStep]_hoursVars
  BY StepJudged
<1>5. JudgedByTheHours <=> [][JudgedStep]_hoursVars
  BY PTL DEF JudgedByTheHours, JudgedStep
<1> QED BY <1>1, <1>2, <1>3, <1>4, <1>5, PTL DEF HoursSpec, HoursHold

HIDE HoursAssumption

-----------------------------------------------------------------------------
(* Sums.                                                                   *)

\* What holds of 0, and of a number's successor when it does of the number,
\* holds up to the end.
LEMMA Climb ==
    ASSUME NEW n \in Nat, NEW S, 0 \in S, \A k \in 0 .. n - 1 : k \in S => k + 1 \in S
    PROVE  \A k \in 0 .. n : k \in S
<1> DEFINE Bad == {k \in 0 .. n : k \notin S}
<1> SUFFICES ASSUME Bad # {} PROVE FALSE
  OBVIOUS
<1>1. PICK k \in Bad : \A m \in Bad : ~ (<<m, k>> \in OpToRel(<, Nat))
  <2>1. Bad \subseteq Nat
    OBVIOUS
  <2> QED BY <2>1, NatLessThanWellFounded, WFMin, Zenon
<1>2. k \in 1 .. n
  <2>1. k # 0 /\ k \in 0 .. n
    BY <1>1
  <2> HIDE DEF Bad
  <2> QED BY <2>1
<1>3. k - 1 \in 0 .. n - 1 /\ k - 1 \in 0 .. n /\ (k - 1) + 1 = k /\ <<k - 1, k>> \in OpToRel(<, Nat)
  BY <1>2 DEF OpToRel
<1>4. k - 1 \in S
  BY <1>1, <1>3, Zenon
<1>5. k \in S
  BY <1>3, <1>4
<1> QED BY <1>1, <1>5

\* f holds the sums of s, from none of it to all of it.
Running(f, s) ==
    /\ f \in [0 .. Len(s) -> Int]
    /\ f[0] = 0
    /\ \A i \in 1 .. Len(s) : f[i] = f[i - 1] + s[i]

\* A sequence has such sums.
LEMMA SumsExist == ASSUME NEW s \in Seq(Int) PROVE \E f : Running(f, s)
<1> DEFINE Upto(k, f) == /\ f \in [0 .. k -> Int]
                         /\ f[0] = 0
                         /\ \A i \in 1 .. k : f[i] = f[i - 1] + s[i]
           S == {k \in 0 .. Len(s) : \E f : Upto(k, f)}
<1>1. 0 \in S
  <2>1. Upto(0, [i \in 0 .. 0 |-> 0])
    OBVIOUS
  <2>2. 0 \in 0 .. Len(s)
    OBVIOUS
  <2> HIDE DEF Upto
  <2> QED BY <2>1, <2>2
<1>2. ASSUME NEW k \in 0 .. Len(s) - 1, k \in S PROVE k + 1 \in S
  <2>1. PICK f : Upto(k, f)
    BY <1>2
  <2> DEFINE g == [i \in 0 .. k + 1 |-> IF i = k + 1 THEN f[k] + s[k + 1] ELSE f[i]]
  <2>2. f[k] \in Int /\ s[k + 1] \in Int
    BY <2>1
  <2>3. g \in [0 .. k + 1 -> Int] /\ g[0] = 0
    BY <2>1, <2>2
  <2>4. ASSUME NEW i \in 1 .. k + 1 PROVE g[i] = g[i - 1] + s[i]
    <3>1. CASE i = k + 1
      BY <2>1, <3>1
    <3>2. CASE i # k + 1
      <4>1. i \in 1 .. k
        BY <3>2
      <4> QED BY <2>1, <4>1
    <3> QED BY <3>1, <3>2
  <2> HIDE DEF g
  <2>5. Upto(k + 1, g)
    BY <2>3, <2>4
  <2>6. k + 1 \in 0 .. Len(s)
    OBVIOUS
  <2> QED BY <2>5, <2>6
<1> HIDE DEF S
<1>3. Len(s) \in Nat /\ Len(s) \in 0 .. Len(s)
  OBVIOUS
<1>4. Len(s) \in S
  BY <1>1, <1>2, <1>3, Climb, Zenon
<1> QED BY <1>4 DEF S, Running

\* What its sums are, one after the other.
LEMMA RunningAt ==
    ASSUME NEW s \in Seq(Int), NEW f, Running(f, s)
    PROVE  /\ f[0] = 0
           /\ \A i \in 0 .. Len(s) : f[i] \in Int
           /\ \A i \in 1 .. Len(s) : f[i] = f[i - 1] + s[i] /\ f[i - 1] \in Int /\ s[i] \in Int
           /\ Len(s) \in Nat
<1>1. ASSUME NEW i \in 0 .. Len(s) PROVE f[i] \in Int
  BY DEF Running
<1>2. ASSUME NEW i \in 1 .. Len(s) PROVE f[i] = f[i - 1] + s[i] /\ f[i - 1] \in Int /\ s[i] \in Int
  <2>1. i - 1 \in 0 .. Len(s)
    OBVIOUS
  <2>2. f[i] = f[i - 1] + s[i]
    BY DEF Running
  <2>3. s[i] \in Int
    OBVIOUS
  <2> QED BY <1>1, <2>1, <2>2, <2>3
<1> QED BY <1>1, <1>2 DEF Running

\* The total is the last of them.
LEMMA TotalIs ==
    ASSUME NEW s \in Seq(Int), NEW f, Running(f, s)
    PROVE  Total(s) = f[Len(s)] /\ Total(s) \in Int
<1> DEFINE Is(g) == g = [i \in 0 .. Len(s) |-> IF i = 0 THEN 0 ELSE g[i - 1] + s[i]]
           sums == CHOOSE g : Is(g)
<1>1. Is(f)
  <2>1. f = [i \in 0 .. Len(s) |-> f[i]]
    BY DEF Running
  <2>2. ASSUME NEW i \in 0 .. Len(s) PROVE f[i] = IF i = 0 THEN 0 ELSE f[i - 1] + s[i]
    BY DEF Running
  <2> QED BY <2>1, <2>2
<1>2. Is(sums)
  BY <1>1
<1>3. Total(s) = sums[Len(s)]
  BY DEF Total
<1> HIDE DEF sums
<1>4. sums[0] = 0
  <2>1. 0 \in 0 .. Len(s)
    OBVIOUS
  <2> QED BY <1>2, <2>1, Zenon
<1>5. ASSUME NEW i \in 1 .. Len(s) PROVE sums[i] = sums[i - 1] + s[i]
  <2>1. i \in 0 .. Len(s) /\ i # 0
    OBVIOUS
  <2> QED BY <1>2, <2>1, Zenon
<1> DEFINE S == {k \in 0 .. Len(s) : sums[k] = f[k]}
<1>6. 0 \in S
  BY <1>4 DEF Running
<1>7. ASSUME NEW k \in 0 .. Len(s) - 1, k \in S PROVE k + 1 \in S
  <2>1. k + 1 \in 1 .. Len(s) /\ (k + 1) - 1 = k
    OBVIOUS
  <2>2. sums[k + 1] = sums[k] + s[k + 1]
    BY <1>5, <2>1, Zenon
  <2>3. f[k + 1] = f[k] + s[k + 1]
    BY <2>1, Zenon DEF Running
  <2> QED BY <1>7, <2>1, <2>2, <2>3
<1>8. Len(s) \in Nat /\ Len(s) \in 0 .. Len(s)
  OBVIOUS
<1>9. Len(s) \in S
  <2> HIDE DEF S
  <2> QED BY <1>6, <1>7, <1>8, Climb, Zenon
<1> QED BY <1>3, <1>8, <1>9, RunningAt

LEMMA TotalInt == ASSUME NEW s \in Seq(Int) PROVE Total(s) \in Int
  BY SumsExist, TotalIs

LEMMA TotalEmpty == Total(<<>>) = 0
<1>1. <<>> \in Seq(Int) /\ Running([i \in 0 .. 0 |-> 0], <<>>)
  BY DEF Running
<1> QED BY <1>1, TotalIs

\* Sums of parts.
LEMMA TotalCat ==
    ASSUME NEW s \in Seq(Int), NEW t \in Seq(Int)
    PROVE  Total(s \o t) = Total(s) + Total(t) /\ s \o t \in Seq(Int)
<1>1. PICK f : Running(f, s)
  BY SumsExist
<1>2. PICK g : Running(g, t)
  BY SumsExist
<1> DEFINE h == [i \in 0 .. Len(s \o t) |->
                   IF i <= Len(s) THEN f[i] ELSE f[Len(s)] + g[i - Len(s)]]
<1>3. s \o t \in Seq(Int) /\ Len(s \o t) = Len(s) + Len(t) /\ Len(s) \in Nat /\ Len(t) \in Nat
  OBVIOUS
<1>4. h \in [0 .. Len(s \o t) -> Int] /\ h[0] = 0
  <2>1. ASSUME NEW i \in 0 .. Len(s \o t)
        PROVE  (IF i <= Len(s) THEN f[i] ELSE f[Len(s)] + g[i - Len(s)]) \in Int
    <3>1. CASE i <= Len(s)
      <4>1. i \in 0 .. Len(s)
        BY <1>3, <3>1
      <4> QED BY <1>1, <3>1, <4>1, RunningAt
    <3>2. CASE i > Len(s)
      <4>1. i - Len(s) \in 0 .. Len(t) /\ Len(s) \in 0 .. Len(s) /\ ~ (i <= Len(s))
        BY <1>3, <3>2
      <4>2. f[Len(s)] \in Int /\ g[i - Len(s)] \in Int
        BY <1>1, <1>2, <4>1, RunningAt
      <4> QED BY <4>1, <4>2
    <3> QED BY <1>3, <3>1, <3>2
  <2>2. f[0] = 0 /\ 0 \in 0 .. Len(s \o t) /\ 0 <= Len(s)
    BY <1>1, <1>3, RunningAt
  <2> QED BY <2>1, <2>2
<1>5. ASSUME NEW i \in 1 .. Len(s \o t) PROVE h[i] = h[i - 1] + (s \o t)[i]
  <2>1. CASE i <= Len(s)
    <3>1. i \in 1 .. Len(s) /\ (s \o t)[i] = s[i] /\ i - 1 <= Len(s) /\ i - 1 \in 0 .. Len(s \o t)
      BY <1>3, <2>1
    <3>2. f[i] = f[i - 1] + s[i]
      BY <1>1, <3>1, RunningAt
    <3> QED BY <2>1, <3>1, <3>2
  <2>2. CASE i > Len(s)
    <3>1. i - Len(s) \in 1 .. Len(t) /\ (s \o t)[i] = t[i - Len(s)]
      BY <1>3, <2>2
    <3>2. g[i - Len(s)] = g[(i - Len(s)) - 1] + t[i - Len(s)]
      BY <1>2, <3>1, RunningAt
    <3>3. f[Len(s)] \in Int /\ g[0] = 0 /\ g[(i - Len(s)) - 1] \in Int /\ t[i - Len(s)] \in Int
      BY <1>1, <1>2, <1>3, <3>1, RunningAt
    <3>4. h[i - 1] = f[Len(s)] + g[(i - Len(s)) - 1]
      <4>1. CASE i - 1 <= Len(s)
        <5>1. i - 1 = Len(s) /\ (i - Len(s)) - 1 = 0 /\ i - 1 \in 0 .. Len(s \o t)
          BY <1>3, <2>2, <4>1
        <5>2. h[i - 1] = f[Len(s)]
          BY <4>1, <5>1
        <5> QED BY <3>3, <5>1, <5>2
      <4>2. CASE ~ (i - 1 <= Len(s))
        <5>1. (i - 1) - Len(s) = (i - Len(s)) - 1 /\ i - 1 \in 0 .. Len(s \o t)
          BY <1>3
        <5> QED BY <4>2, <5>1
      <4> QED BY <4>1, <4>2
    <3>5. h[i] = f[Len(s)] + g[i - Len(s)]
      BY <1>3, <2>2
    <3> QED BY <3>1, <3>2, <3>3, <3>4, <3>5
  <2> QED BY <1>3, <2>1, <2>2
<1>6. Running(h, s \o t)
  <2> HIDE DEF h
  <2> QED BY <1>3, <1>4, <1>5 DEF Running
<1>7. h[Len(s \o t)] = f[Len(s)] + g[Len(t)]
  <2>1. f[Len(s)] \in Int /\ g[0] = 0
    BY <1>1, <1>2, <1>3, RunningAt
  <2>2. CASE Len(t) = 0
    BY <1>3, <2>1, <2>2
  <2>3. CASE Len(t) # 0
    BY <1>3, <2>3
  <2> QED BY <2>2, <2>3
<1> HIDE DEF h
<1> QED BY <1>1, <1>2, <1>3, <1>6, <1>7, TotalIs

LEMMA TotalOne == ASSUME NEW x \in Int PROVE Total(<<x>>) = x /\ <<x>> \in Seq(Int)
<1>1. <<x>> \in Seq(Int) /\ Len(<<x>>) = 1 /\ <<x>>[1] = x
  OBVIOUS
<1>2. Running([i \in 0 .. 1 |-> IF i = 0 THEN 0 ELSE x], <<x>>)
  BY <1>1 DEF Running
<1> QED BY <1>1, <1>2, TotalIs

LEMMA TotalAppend ==
    ASSUME NEW s \in Seq(Int), NEW x \in Int
    PROVE  Total(Append(s, x)) = Total(s) + x
<1>1. Append(s, x) = s \o <<x>>
  OBVIOUS
<1> QED BY <1>1, TotalCat, TotalOne

\* Of two columns.
LEMMA TotalPlus ==
    ASSUME NEW s \in Seq(Int), NEW t \in Seq(Int), NEW u \in Seq(Int),
           Len(t) = Len(s), Len(u) = Len(s), \A i \in 1 .. Len(s) : u[i] = s[i] + t[i]
    PROVE  Total(u) = Total(s) + Total(t)
<1>1. PICK f : Running(f, s)
  BY SumsExist
<1>2. PICK g : Running(g, t)
  BY SumsExist
<1> DEFINE h == [i \in 0 .. Len(u) |-> f[i] + g[i]]
<1>3. h \in [0 .. Len(u) -> Int] /\ h[0] = 0
  BY <1>1, <1>2, RunningAt
<1>4. ASSUME NEW i \in 1 .. Len(u) PROVE h[i] = h[i - 1] + u[i]
  <2>1. i \in 1 .. Len(s) /\ i \in 0 .. Len(u) /\ i - 1 \in 0 .. Len(u)
    OBVIOUS
  <2>2. f[i] = f[i - 1] + s[i] /\ f[i - 1] \in Int /\ s[i] \in Int
    BY <1>1, <2>1, RunningAt
  <2>3. g[i] = g[i - 1] + t[i] /\ g[i - 1] \in Int /\ t[i] \in Int
    BY <1>2, <2>1, RunningAt
  <2>4. u[i] = s[i] + t[i]
    BY <2>1
  <2>5. h[i] = f[i] + g[i] /\ h[i - 1] = f[i - 1] + g[i - 1]
    BY <2>1
  <2> HIDE DEF h
  <2> QED BY <2>2, <2>3, <2>4, <2>5
<1>5. h[Len(u)] = f[Len(s)] + g[Len(t)]
  OBVIOUS
<1> HIDE DEF h
<1>6. Running(h, u)
  BY <1>3, <1>4 DEF Running
<1> QED BY <1>1, <1>2, <1>5, <1>6, TotalIs

LEMMA TotalOrder ==
    ASSUME NEW s \in Seq(Int), NEW t \in Seq(Int),
           Len(t) = Len(s), \A i \in 1 .. Len(s) : s[i] <= t[i]
    PROVE  Total(s) <= Total(t)
<1>1. PICK f : Running(f, s)
  BY SumsExist
<1>2. PICK g : Running(g, t)
  BY SumsExist
<1> DEFINE S == {k \in 0 .. Len(s) : f[k] <= g[k]}
<1>3. 0 \in S
  BY <1>1, <1>2, RunningAt
<1>4. ASSUME NEW k \in 0 .. Len(s) - 1, k \in S PROVE k + 1 \in S
  <2>1. k + 1 \in 1 .. Len(s) /\ k + 1 \in 0 .. Len(s) /\ (k + 1) - 1 = k
    OBVIOUS
  <2>2. f[k + 1] = f[k] + s[k + 1] /\ f[k] \in Int /\ s[k + 1] \in Int
    BY <1>1, <2>1, RunningAt
  <2>3. g[k + 1] = g[k] + t[k + 1] /\ g[k] \in Int /\ t[k + 1] \in Int
    BY <1>2, <2>1, RunningAt
  <2>4. s[k + 1] <= t[k + 1] /\ f[k] <= g[k]
    BY <1>4, <2>1
  <2>5. f[k + 1] <= g[k + 1]
    BY <2>2, <2>3, <2>4
  <2> QED BY <2>1, <2>5
<1>5. Len(s) \in S
  <2>1. Len(s) \in Nat /\ Len(s) \in 0 .. Len(s)
    OBVIOUS
  <2> HIDE DEF S
  <2> QED BY <1>3, <1>4, <2>1, Climb, Zenon
<1> QED BY <1>1, <1>2, <1>5, TotalIs

\* Nothing negative adds up to nothing negative.
LEMMA TotalNat ==
    ASSUME NEW s \in Seq(Int), \A i \in 1 .. Len(s) : s[i] >= 0
    PROVE  Total(s) >= 0
<1>1. PICK f : Running(f, s)
  BY SumsExist
<1> DEFINE S == {k \in 0 .. Len(s) : f[k] >= 0}
<1>2. 0 \in S
  BY <1>1, RunningAt
<1>3. ASSUME NEW k \in 0 .. Len(s) - 1, k \in S PROVE k + 1 \in S
  <2>1. k + 1 \in 1 .. Len(s) /\ k + 1 \in 0 .. Len(s) /\ (k + 1) - 1 = k
    OBVIOUS
  <2>2. f[k + 1] = f[k] + s[k + 1] /\ f[k] \in Int /\ s[k + 1] \in Int
    BY <1>1, <2>1, RunningAt
  <2>3. s[k + 1] >= 0 /\ f[k] >= 0
    BY <1>3, <2>1
  <2>4. f[k + 1] >= 0
    BY <2>2, <2>3
  <2> QED BY <2>1, <2>4
<1>4. Len(s) \in S
  <2>1. Len(s) \in Nat /\ Len(s) \in 0 .. Len(s)
    OBVIOUS
  <2> HIDE DEF S
  <2> QED BY <1>2, <1>3, <2>1, Climb, Zenon
<1> QED BY <1>1, <1>4, TotalIs

-----------------------------------------------------------------------------
(* Columns of figures, and how one is rounded.                             *)

LEMMA AsColumn ==
    ASSUME NEW n \in Nat, NEW f \in [1 .. n -> Int]
    PROVE  f \in Seq(Int) /\ Len(f) = n /\ DOMAIN f = 1 .. n
  OBVIOUS

\* Every rounding of the program, of a figure that is not negative: what it
\* gives is not negative, and a rate of nothing gives nothing.
LEMMA Rounded ==
    ASSUME NEW n \in Nat
    PROVE  /\ HalfAway(n, 100) \in Nat /\ HalfAway(n, 3600) \in Nat /\ HalfAway(n, 10000) \in Nat
           /\ MathRound(n, 3600) \in Nat
           /\ MathRound(n, 10000) = HalfAway(n, 10000)
           /\ n = 0 => HalfAway(n, 10000) = 0
           /\ 2 * n - 100 <= 200 * HalfAway(n, 100)
<1>1. HalfAway(n, 100) \in Nat /\ HalfAway(n, 3600) \in Nat /\ HalfAway(n, 10000) \in Nat
  BY DEF HalfAway
<1>2. MathRound(n, 3600) \in Nat
  BY DEF MathRound
<1>3. MathRound(n, 10000) = HalfAway(n, 10000)
  BY DEF MathRound, HalfAway
<1>4. n = 0 => HalfAway(n, 10000) = 0
  BY DEF HalfAway
<1>5. 2 * n - 100 <= 200 * HalfAway(n, 100)
  BY DEF HalfAway
<1> QED BY <1>1, <1>2, <1>3, <1>4, <1>5

\* What an hourly line comes to is within half a fils of its seconds at its
\* rate, and its hours print within half a hundredth.
LEMMA RoundedHours ==
    ASSUME NEW n \in Nat, NEW w \in Nat
    PROVE  /\ 2 * n - 3600 <= 7200 * HalfAway(n, 3600) /\ 7200 * HalfAway(n, 3600) <= 2 * n + 3600
           /\ 200 * w - 3600 <= 7200 * MathRound(w * 100, 3600)
           /\ 7200 * MathRound(w * 100, 3600) <= 200 * w + 3600
<1>1. 2 * n - 3600 <= 7200 * HalfAway(n, 3600) /\ 7200 * HalfAway(n, 3600) <= 2 * n + 3600
  BY DEF HalfAway
<1>2. 200 * w - 3600 <= 7200 * MathRound(w * 100, 3600)
      /\ 7200 * MathRound(w * 100, 3600) <= 200 * w + 3600
  BY DEF MathRound
<1> QED BY <1>1, <1>2

LEMMA TimesNat == ASSUME NEW a \in Nat, NEW b \in Nat PROVE a * b \in Nat /\ a * b = b * a
  OBVIOUS

\* A line under review: what it comes to, as the domain and the reader say it.
LEMMA LineIs ==
    ASSUME NEW l \in ReviewLine
    PROVE  /\ AsWorked(l) \in Nat /\ ReadAsWorked(l) = AsWorked(l)
           /\ LineAmount(l) \in Nat /\ ReadAmount(l) = LineAmount(l)
           /\ ~ l.excluded /\ l.adjustedTo = NotSet => LineAmount(l) = AsWorked(l)
<1> DEFINE n == l.price * l.worked
<1>1. /\ l.worked \in Nat /\ l.price \in Nat /\ l.excluded \in BOOLEAN
      /\ l.adjustedTo = NotSet \/ l.adjustedTo \in Nat
  BY FiguresAssumption DEF ReviewLine
<1>2. n \in Nat /\ l.worked * l.price = n
  BY <1>1, TimesNat, Zenon
<1>3. AsWorked(l) = IF l.pricing = "fixed" THEN l.price ELSE HalfAway(n, 3600)
  BY DEF AsWorked, ScaleByRatio, Hour
<1> HIDE DEF n
<1>4. AsWorked(l) \in Nat
  BY <1>1, <1>2, <1>3, Rounded
<1>5. ReadAsWorked(l) = AsWorked(l)
  BY <1>2, <1>3 DEF ReadAsWorked, HalfAway, Hour
<1> QED BY <1>1, <1>4, <1>5 DEF LineAmount, ReadAmount

\* A line of an offer: what it charges, as the domain and the reader say it.
LEMMA OfferIs ==
    ASSUME NEW o \in Offerable, MayOffer(o)
    PROVE  /\ QuotedPrice(o) \in Nat /\ ReadOffer(o).amount = QuotedPrice(o)
           /\ OfferNet(o) \in Nat /\ ReadOffer(o).net = OfferNet(o)
           /\ OfferVat(o) \in Nat /\ ReadOffer(o).vat = OfferVat(o)
           /\ OfferCharge(o) \in Nat /\ ReadOffer(o).chargeable = OfferCharge(o)
           /\ OfferCharge(o) = OfferNet(o) + OfferVat(o) /\ OfferNet(o) = QuotedPrice(o) - o.discount
           /\ o.discount \in Nat
<1> DEFINE n == o.price * o.centi
           v == OfferNet(o) * o.vat
<1>1. /\ o.price \in Nat /\ o.centi \in Nat /\ o.discount \in Nat
      /\ o.vat = NotSet \/ o.vat \in Nat
  BY DEF Offerable, MayOffer
<1>2. n \in Nat /\ o.centi * o.price = n
  BY <1>1, TimesNat, Zenon
<1>3. QuotedPrice(o) = IF o.kind = "fixed" THEN o.price ELSE HalfAway(n, 100)
  BY DEF QuotedPrice, ScaleByRatio
<1> HIDE DEF n
<1>4. QuotedPrice(o) \in Nat
  BY <1>1, <1>2, <1>3, Rounded
<1>5. OfferNet(o) = QuotedPrice(o) - o.discount /\ OfferNet(o) \in Nat
  BY <1>1, <1>4 DEF OfferNet, MayOffer
<1>6. OfferVat(o) = IF o.vat = NotSet THEN 0 ELSE HalfAway(v, 10000)
  BY DEF OfferVat, Percentage, ScaleByRatio
<1>7. OfferVat(o) \in Nat
  <2>1. o.vat # NotSet => v \in Nat
    BY <1>1, <1>5, TimesNat, Zenon
  <2> HIDE DEF v
  <2> QED BY <1>6, <2>1, Rounded
<1>8. OfferCharge(o) = OfferNet(o) + OfferVat(o)
  BY DEF OfferCharge
<1>9. ReadOffer(o) = [amount |-> QuotedPrice(o), discount |-> o.discount, net |-> OfferNet(o),
                      vat |-> OfferVat(o), chargeable |-> OfferCharge(o)]
  <2>1. (IF o.kind = "fixed" THEN o.price ELSE HalfAway(o.centi * o.price, 100)) = QuotedPrice(o)
    BY <1>2, <1>3
  <2> HIDE DEF v
  <2>2. (IF o.vat = NotSet THEN 0 ELSE HalfAway(OfferNet(o) * o.vat, 10000)) = OfferVat(o)
    BY <1>6 DEF v
  <2> QED BY <1>5, <1>8, <2>1, <2>2 DEF ReadOffer
<1> QED BY <1>1, <1>4, <1>5, <1>7, <1>8, <1>9

\* The hours as printed, at the rate, miss by half a hundredth of an hour of the
\* rate, and by the half fils.
LEMMA Misses ==
    ASSUME NEW p \in Nat, NEW w \in Nat, NEW a \in Nat, NEW c \in Nat,
           2 * (p * w) - 3600 <= 7200 * a, 7200 * a <= 2 * (p * w) + 3600,
           200 * w - 3600 <= 7200 * c, 7200 * c <= 200 * w + 3600
    PROVE  -(p \div 2 + 50) <= c * p - 100 * a /\ c * p - 100 * a <= p \div 2 + 50
<1>1. ASSUME NEW x \in Int, NEW y \in Int, x <= y PROVE x * p <= y * p
  BY <1>1
<1>2. (200 * w - 3600) * p <= (7200 * c) * p /\ (7200 * c) * p <= (200 * w + 3600) * p
  BY <1>1
<1> DEFINE n == p * w
           v == c * p
<1>3. n \in Nat /\ v \in Nat
  OBVIOUS
<1>4. /\ (200 * w - 3600) * p = 200 * n - 3600 * p
      /\ (200 * w + 3600) * p = 200 * n + 3600 * p
      /\ (7200 * c) * p = 7200 * v
  OBVIOUS
<1>5. 2 * n - 3600 <= 7200 * a /\ 7200 * a <= 2 * n + 3600
  OBVIOUS
<1> HIDE DEF n, v
<1>6. 200 * n - 3600 * p <= 7200 * v /\ 7200 * v <= 200 * n + 3600 * p
  BY <1>2, <1>4
<1>7. -(p \div 2 + 50) <= v - 100 * a /\ v - 100 * a <= p \div 2 + 50
  BY <1>3, <1>5, <1>6
<1> QED BY <1>7 DEF v

\* What is printed of a line that was not excluded reaches what it comes to.
LEMMA PrintedIs ==
    ASSUME NEW l \in ReviewLine, ~ l.excluded
    PROVE  LET off == PrintedAs(l).quantity * PrintedAs(l).rate - 100 * LineAmount(l)
               slack == IF l.pricing = "fixed" \/ l.adjustedTo # NotSet THEN 0
                        ELSE PrintedAs(l).rate \div 2 + 50
           IN  -slack <= off /\ off <= slack
<1> DEFINE centi == MathRound(l.worked * 100, Hour)
<1>1. l.worked \in Nat /\ l.price \in Nat
  BY DEF ReviewLine
<1>2. LineAmount(l) \in Nat
  BY LineIs
<1>3. CASE l.adjustedTo # NotSet
  <2>1. PrintedAs(l) = [quantity |-> 100, rate |-> LineAmount(l)]
    BY <1>3 DEF PrintedAs
  <2> QED BY <1>2, <1>3, <2>1
<1>4. CASE l.adjustedTo = NotSet /\ l.pricing = "fixed"
  <2>1. PrintedAs(l) = [quantity |-> 100, rate |-> l.price]
    BY <1>4 DEF PrintedAs
  <2>2. LineAmount(l) = l.price
    BY <1>4, LineIs DEF AsWorked
  <2> QED BY <1>1, <1>4, <2>1, <2>2
<1>5. CASE l.adjustedTo = NotSet /\ l.pricing # "fixed" /\ centi <= 0
  <2>1. PrintedAs(l) = [quantity |-> 100, rate |-> LineAmount(l)]
    BY <1>5 DEF PrintedAs
  <2> QED BY <1>2, <1>5, <2>1
<1>6. CASE l.adjustedTo = NotSet /\ l.pricing # "fixed" /\ ~ (centi <= 0)
  <2>1. PrintedAs(l) = [quantity |-> centi, rate |-> l.price]
    BY <1>6 DEF PrintedAs
  <2> DEFINE n == l.price * l.worked
             a == HalfAway(n, 3600)
             c == MathRound(l.worked * 100, 3600)
  <2>2. LineAmount(l) = a /\ centi = c
    BY <1>6, LineIs DEF AsWorked, ScaleByRatio, Hour
  <2>3. n \in Nat /\ n = l.price * l.worked
    BY <1>1, TimesNat, Zenon
  <2> HIDE DEF centi, n
  <2> DEFINE p == l.price
             w == l.worked
  <2>4. w * 100 \in Nat /\ p \in Nat /\ w \in Nat
    BY <1>1
  <2>5. n = p * w /\ c = MathRound(w * 100, 3600) /\ p = l.price
    BY <2>3
  <2> HIDE DEF p, w
  <2>6. a \in Nat /\ c \in Nat
    BY <2>3, <2>4, <2>5, Rounded
  <2>7. /\ 2 * n - 3600 <= 7200 * a /\ 7200 * a <= 2 * n + 3600
        /\ 200 * w - 3600 <= 7200 * c /\ 7200 * c <= 200 * w + 3600
    BY <2>3, <2>4, <2>5, RoundedHours
  <2>8. -(p \div 2 + 50) <= c * p - 100 * a /\ c * p - 100 * a <= p \div 2 + 50
    <3> HIDE DEF a, c
    <3> QED BY <2>4, <2>5, <2>6, <2>7, Misses
  <2> HIDE DEF a, c
  <2>9. PrintedAs(l).quantity = c /\ PrintedAs(l).rate = p /\ 100 * LineAmount(l) = 100 * a
    BY <2>1, <2>2, <2>5
  <2> QED BY <1>6, <2>8, <2>9
<1> QED BY <1>3, <1>4, <1>5, <1>6

-----------------------------------------------------------------------------
(* RaisedInvoice and offers.                                                    *)

BilledLine == [amount : Nat, quantity : Int, rate : Int, ofLine : ReviewLine]
RaisedInvoice ==
    [lines : Seq(BilledLine), vatBasisPoints : VatRates, booked : Nat,
     payments : Seq(Receivable), settlement : {"issued", "part_paid", "paid"}]

\* A line is what its reviewed line came to, and prints as that does.
CopiedOK(b) ==
    \A j \in DOMAIN b.lines :
        /\ ~ b.lines[j].ofLine.excluded
        /\ b.lines[j].amount = LineAmount(b.lines[j].ofLine)
        /\ b.lines[j].quantity = PrintedAs(b.lines[j].ofLine).quantity
        /\ b.lines[j].rate = PrintedAs(b.lines[j].ofLine).rate

SettledOK(b) == b.settlement = "paid" <=> b.payments # <<>> /\ InvoiceBalance(b) = 0

\* What an invoice comes to, as the domain, the reader and the report say it.
LEMMA InvoiceReads ==
    ASSUME NEW b \in RaisedInvoice
    PROVE  /\ InvoiceNet(b) \in Nat /\ InvoiceTotal(b) \in Nat /\ Covered(b.payments) \in Nat
           /\ ReadInvoice(b).total = InvoiceTotal(b) /\ ReadInvoice(b).balance = InvoiceBalance(b)
           /\ InvoiceTotal(b) = InvoiceNet(b) + ReadInvoice(b).vat
           /\ InvoiceTaxRow(b) = ReadInvoice(b).vat
           /\ Gross(b) = InvoiceTotal(b)
           /\ Covered(b.payments) = Added(LAMBDA p : p.amount, b.payments)
                                  + Added(LAMBDA p : p.discount, b.payments)
           /\ Added(LAMBDA p : p.amount, b.payments) \in Nat
           /\ Added(LAMBDA p : p.discount, b.payments) \in Nat
<1> DEFINE charged == [i \in DOMAIN b.lines |-> b.lines[i].amount]
           covers == [i \in DOMAIN b.payments |-> b.payments[i].amount + b.payments[i].discount]
           amounts == [i \in DOMAIN b.payments |-> b.payments[i].amount]
           discounts == [i \in DOMAIN b.payments |-> b.payments[i].discount]
           net == InvoiceNet(b)
           vat == HalfAway(net * b.vatBasisPoints, 10000)
<1>1. /\ b.lines \in Seq(BilledLine) /\ b.payments \in Seq(Receivable) /\ b.vatBasisPoints \in Nat
  <2>1. b.lines \in Seq(BilledLine) /\ b.payments \in Seq(Receivable) /\ b.vatBasisPoints \in VatRates
    BY DEF RaisedInvoice
  <2>2. VatRates \subseteq Nat
    BY FiguresAssumption
  <2> QED BY <2>1, <2>2
<1>2. charged \in Seq(Int) /\ \A i \in 1 .. Len(charged) : charged[i] >= 0
  <2>1. \A i \in DOMAIN b.lines : b.lines[i].amount \in Nat
    <3>1. \A i \in DOMAIN b.lines : b.lines[i] \in BilledLine
      BY <1>1
    <3> QED BY <3>1 DEF BilledLine
  <2>2. DOMAIN b.lines = 1 .. Len(b.lines) /\ Len(b.lines) \in Nat
    BY <1>1
  <2>3. charged \in [1 .. Len(b.lines) -> Int]
    BY <2>1, <2>2
  <2>4. charged \in Seq(Int) /\ Len(charged) = Len(b.lines)
    BY <2>2, <2>3, AsColumn
  <2>5. ASSUME NEW i \in 1 .. Len(b.lines) PROVE charged[i] >= 0
    BY <2>1, <2>2
  <2> HIDE DEF charged
  <2> QED BY <2>4, <2>5
<1>3. /\ covers \in Seq(Int) /\ amounts \in Seq(Int) /\ discounts \in Seq(Int)
      /\ Len(amounts) = Len(covers) /\ Len(discounts) = Len(covers)
      /\ \A i \in 1 .. Len(covers) : covers[i] = amounts[i] + discounts[i]
      /\ \A i \in 1 .. Len(covers) : amounts[i] >= 0 /\ discounts[i] >= 0
  <2>1. \A i \in DOMAIN b.payments : b.payments[i].amount \in Nat /\ b.payments[i].discount \in Nat
    <3>1. \A i \in DOMAIN b.payments : b.payments[i] \in Receivable
      BY <1>1
    <3>2. \A p \in Receivable : p.amount \in Nat /\ p.discount \in Nat
      BY FiguresAssumption
    <3> QED BY <3>1, <3>2
  <2>2. DOMAIN b.payments = 1 .. Len(b.payments) /\ Len(b.payments) \in Nat
    BY <1>1
  <2>3. /\ covers \in [1 .. Len(b.payments) -> Int]
        /\ amounts \in [1 .. Len(b.payments) -> Int]
        /\ discounts \in [1 .. Len(b.payments) -> Int]
    BY <2>1, <2>2
  <2>4. /\ covers \in Seq(Int) /\ Len(covers) = Len(b.payments)
        /\ amounts \in Seq(Int) /\ Len(amounts) = Len(b.payments)
        /\ discounts \in Seq(Int) /\ Len(discounts) = Len(b.payments)
    <3> HIDE DEF covers, amounts, discounts
    <3> QED BY <2>2, <2>3, AsColumn
  <2>5. ASSUME NEW i \in 1 .. Len(b.payments)
        PROVE covers[i] = amounts[i] + discounts[i] /\ amounts[i] >= 0 /\ discounts[i] >= 0
    BY <2>1, <2>2
  <2> HIDE DEF covers, amounts, discounts
  <2> QED BY <2>4, <2>5
<1>4. /\ net = Total(charged) /\ Covered(b.payments) = Total(covers)
      /\ Added(LAMBDA p : p.amount, b.payments) = Total(amounts)
      /\ Added(LAMBDA p : p.discount, b.payments) = Total(discounts)
      /\ Added(LAMBDA l : l.amount, b.lines) = Total(charged)
  BY DEF InvoiceNet, Covered, Added
<1> HIDE DEF charged, covers, amounts, discounts
<1>5. net \in Nat
  BY <1>2, <1>4, TotalInt, TotalNat
<1>6. /\ Total(amounts) \in Nat /\ Total(discounts) \in Nat
      /\ Total(covers) = Total(amounts) + Total(discounts)
  BY <1>3, TotalInt, TotalNat, TotalPlus
<1>7. net * b.vatBasisPoints \in Nat /\ (b.vatBasisPoints = 0 => net * b.vatBasisPoints = 0)
  <2>1. net * b.vatBasisPoints \in Nat
    BY <1>1, <1>5, TimesNat, Zenon
  <2>2. b.vatBasisPoints = 0 => net * b.vatBasisPoints = 0
    <3> HIDE DEF net
    <3> QED BY <1>5
  <2> QED BY <2>1, <2>2
<1>8. InvoiceTotal(b) = net + vat
  BY DEF InvoiceTotal, InvoiceVat, Percentage, ScaleByRatio
<1>9. /\ vat \in Nat /\ MathRound(net * b.vatBasisPoints, 10000) = vat
      /\ (b.vatBasisPoints = 0 => vat = 0)
  <2> DEFINE n == net * b.vatBasisPoints
  <2>1. n \in Nat /\ (b.vatBasisPoints = 0 => n = 0) /\ vat = HalfAway(n, 10000)
    BY <1>7
  <2> HIDE DEF n, vat
  <2>2. vat \in Nat /\ MathRound(n, 10000) = vat /\ (b.vatBasisPoints = 0 => vat = 0)
    BY <2>1, Rounded
  <2> QED BY <2>2 DEF n
<1>10. /\ ReadInvoice(b).vat = vat /\ ReadInvoice(b).total = net + vat
       /\ ReadInvoice(b).balance = Owed((net + vat) - Total(amounts) - Total(discounts))
  <2> DEFINE paid == Added(LAMBDA p : p.amount, b.payments)
             forgiven == Added(LAMBDA p : p.discount, b.payments)
             sum == Added(LAMBDA l : l.amount, b.lines)
             tax == ReadVat(sum, b.vatBasisPoints)
  <2>1. /\ ReadInvoice(b).vat = tax /\ ReadInvoice(b).total = sum + tax
        /\ ReadInvoice(b).balance = ReadBalance(sum + tax, paid, forgiven)
    BY Zenon DEF ReadInvoice, Added
  <2>2. sum = net /\ paid = Total(amounts) /\ forgiven = Total(discounts)
    BY <1>4
  <2> HIDE DEF sum, paid, forgiven, net, vat
  <2>3. tax = vat
    BY <1>9, <2>2 DEF ReadVat
  <2> HIDE DEF tax
  <2>4. ReadBalance(net + vat, Total(amounts), Total(discounts))
            = Owed((net + vat) - Total(amounts) - Total(discounts))
    BY DEF ReadBalance
  <2> QED BY <2>1, <2>2, <2>3, <2>4, Zenon
<1>11. Gross(b) = net + vat
  BY DEF Gross
<1> HIDE DEF net, vat
<1>12. InvoiceBalance(b) = Owed((net + vat) - Total(amounts) - Total(discounts))
  <2>1. (net + vat) - (Total(amounts) + Total(discounts)) = (net + vat) - Total(amounts) - Total(discounts)
    BY <1>5, <1>6, <1>9
  <2>2. InvoiceTotal(b) - Covered(b.payments) = (net + vat) - Total(amounts) - Total(discounts)
    <3>1. InvoiceTotal(b) = net + vat /\ Covered(b.payments) = Total(amounts) + Total(discounts)
      BY <1>4, <1>6, <1>8
    <3> QED BY <1>5, <1>6, <1>9, <3>1
  <2> QED BY <2>2 DEF InvoiceBalance
<1>13. InvoiceTaxRow(b) = ReadInvoice(b).vat
  BY <1>1, <1>9, <1>10 DEF InvoiceTaxRow
<1> QED BY <1>4, <1>5, <1>6, <1>8, <1>9, <1>10, <1>11, <1>12, <1>13 DEF net

\* Lines an offer may have, and a column of them.
QuotedLine == {o \in OfferLines : MayOffer(o)}

LEMMA OfferColumns ==
    ASSUME NEW lines \in Seq(QuotedLine)
    PROVE  /\ [i \in DOMAIN lines |-> QuotedPrice(lines[i])] \in Seq(Int)
           /\ [i \in DOMAIN lines |-> OfferNet(lines[i])] \in Seq(Int)
           /\ [i \in DOMAIN lines |-> OfferVat(lines[i])] \in Seq(Int)
           /\ [i \in DOMAIN lines |-> OfferCharge(lines[i])] \in Seq(Int)
           /\ Added(OfferCharge, lines) = Added(OfferNet, lines) + Added(OfferVat, lines)
           /\ Added(OfferVat, lines) \in Nat
<1> DEFINE prices == [i \in DOMAIN lines |-> QuotedPrice(lines[i])]
           nets == [i \in DOMAIN lines |-> OfferNet(lines[i])]
           vats == [i \in DOMAIN lines |-> OfferVat(lines[i])]
           charges == [i \in DOMAIN lines |-> OfferCharge(lines[i])]
           n == Len(lines)
<1>1. DOMAIN lines = 1 .. n /\ n \in Nat
  OBVIOUS
<1>2. ASSUME NEW i \in 1 .. n
      PROVE  /\ QuotedPrice(lines[i]) \in Nat /\ OfferNet(lines[i]) \in Nat
             /\ OfferVat(lines[i]) \in Nat /\ OfferCharge(lines[i]) \in Nat
             /\ OfferCharge(lines[i]) = OfferNet(lines[i]) + OfferVat(lines[i])
  <2>1. lines[i] \in QuotedLine
    OBVIOUS
  <2>2. lines[i] \in Offerable /\ MayOffer(lines[i])
    BY <2>1, FiguresAssumption DEF QuotedLine
  <2> QED BY <2>2, OfferIs, Zenon
<1>3. /\ prices \in [1 .. n -> Int] /\ nets \in [1 .. n -> Int]
      /\ vats \in [1 .. n -> Int] /\ charges \in [1 .. n -> Int]
      /\ \A i \in 1 .. n : charges[i] = nets[i] + vats[i] /\ vats[i] >= 0
  BY <1>1, <1>2
<1>4. /\ Added(OfferCharge, lines) = Total(charges)
      /\ Added(OfferNet, lines) = Total(nets) /\ Added(OfferVat, lines) = Total(vats)
  BY DEF Added
<1> HIDE DEF prices, nets, vats, charges, n
<1>5. /\ prices \in Seq(Int) /\ Len(prices) = n /\ nets \in Seq(Int) /\ Len(nets) = n
      /\ vats \in Seq(Int) /\ Len(vats) = n /\ charges \in Seq(Int) /\ Len(charges) = n
  BY <1>1, <1>3, AsColumn
<1>6. Total(charges) = Total(nets) + Total(vats) /\ Total(vats) >= 0 /\ Total(vats) \in Int
  BY <1>3, <1>5, TotalPlus, TotalNat, TotalInt
<1> QED BY <1>4, <1>5, <1>6 DEF prices, nets, vats, charges

\* The reader's sums of an offer are the domain's.
LEMMA TotalsIs ==
    ASSUME NEW lines \in Seq(QuotedLine)
    PROVE  ReadTotals(lines) = OfferTotals(lines)
<1>1. ASSUME NEW i \in DOMAIN lines
      PROVE  /\ ReadOffer(lines[i]).amount = QuotedPrice(lines[i])
             /\ ReadOffer(lines[i]).net = OfferNet(lines[i])
             /\ ReadOffer(lines[i]).vat = OfferVat(lines[i])
             /\ ReadOffer(lines[i]).chargeable = OfferCharge(lines[i])
  <2>1. lines[i] \in QuotedLine
    OBVIOUS
  <2>2. lines[i] \in Offerable /\ MayOffer(lines[i])
    BY <2>1, FiguresAssumption DEF QuotedLine
  <2> QED BY <2>2, OfferIs, Zenon
<1>2. /\ [i \in DOMAIN lines |-> ReadOffer(lines[i]).amount] = [i \in DOMAIN lines |-> QuotedPrice(lines[i])]
      /\ [i \in DOMAIN lines |-> ReadOffer(lines[i]).net] = [i \in DOMAIN lines |-> OfferNet(lines[i])]
      /\ [i \in DOMAIN lines |-> ReadOffer(lines[i]).vat] = [i \in DOMAIN lines |-> OfferVat(lines[i])]
      /\ [i \in DOMAIN lines |-> ReadOffer(lines[i]).chargeable] = [i \in DOMAIN lines |-> OfferCharge(lines[i])]
  BY <1>1, Zenon
<1> QED BY <1>2, Zenon DEF ReadTotals, OfferTotals, Added

-----------------------------------------------------------------------------
(* The sheets.                                                             *)

Row == [quantity : Int, rate : Int, amount : Int]
Amounts(rows) == [i \in DOMAIN rows |-> rows[i].amount]

LEMMA AmountsIs ==
    ASSUME NEW rows \in Seq(Row)
    PROVE  /\ Amounts(rows) \in Seq(Int) /\ Len(Amounts(rows)) = Len(rows)
           /\ \A i \in 1 .. Len(rows) : Amounts(rows)[i] = rows[i].amount
<1>1. DOMAIN rows = 1 .. Len(rows) /\ Len(rows) \in Nat
  OBVIOUS
<1>2. \A i \in 1 .. Len(rows) : rows[i].amount \in Int
  <2>1. \A i \in 1 .. Len(rows) : rows[i] \in Row
    OBVIOUS
  <2> QED BY <2>1 DEF Row
<1>3. /\ Amounts(rows) \in [1 .. Len(rows) -> Int]
      /\ \A i \in 1 .. Len(rows) : Amounts(rows)[i] = rows[i].amount
  BY <1>1, <1>2 DEF Amounts
<1> QED BY <1>1, <1>3, AsColumn

\* One row, then another.
LEMMA Single ==
    ASSUME NEW S, NEW r \in S
    PROVE  <<r>> \in Seq(S) /\ Len(<<r>>) = 1 /\ <<r>>[1] = r
  OBVIOUS

LEMMA Two ==
    ASSUME NEW S, NEW x \in S, NEW y \in S
    PROVE  <<x, y>> = <<x>> \o <<y>>
<1>1. <<x, y>> = Append(<<x>>, y)
  OBVIOUS
<1>2. <<x>> \in Seq(S)
  OBVIOUS
<1>3. ASSUME NEW s \in Seq(S) PROVE Append(s, y) = s \o <<y>>
  OBVIOUS
<1> QED BY <1>1, <1>2, <1>3

LEMMA CatIs ==
    ASSUME NEW a \in Seq(Int), NEW b \in Seq(Int), NEW c \in Seq(Int), Len(c) = Len(a) + Len(b),
           \A i \in 1 .. Len(a) : c[i] = a[i], \A i \in 1 .. Len(b) : c[Len(a) + i] = b[i]
    PROVE  c = a \o b
<1> DEFINE d == a \o b
<1>1. d \in Seq(Int) /\ Len(d) = Len(a) + Len(b)
  OBVIOUS
<1>2. ASSUME NEW i \in 1 .. Len(c) PROVE c[i] = d[i]
  <2>1. CASE i <= Len(a)
    BY <2>1
  <2>2. CASE i > Len(a)
    <3>1. i - Len(a) \in 1 .. Len(b) /\ Len(a) + (i - Len(a)) = i
      BY <2>2
    <3>2. c[i] = b[i - Len(a)]
      BY <3>1
    <3> QED BY <2>2, <3>1, <3>2
  <2> QED BY <2>1, <2>2
<1> HIDE DEF d
<1>3. c = d
  BY <1>1, <1>2
<1> QED BY <1>3 DEF d

LEMMA CatAt ==
    ASSUME NEW S, NEW s \in Seq(S), NEW t \in Seq(S)
    PROVE  /\ s \o t \in Seq(S) /\ Len(s \o t) = Len(s) + Len(t)
           /\ Len(s) \in Nat /\ Len(t) \in Nat
           /\ \A i \in 1 .. Len(s) : (s \o t)[i] = s[i]
           /\ \A i \in 1 .. Len(t) : (s \o t)[Len(s) + i] = t[i]
  OBVIOUS

LEMMA AmountsCat ==
    ASSUME NEW s \in Seq(Row), NEW t \in Seq(Row)
    PROVE  Total(Amounts(s \o t)) = Total(Amounts(s)) + Total(Amounts(t))
<1> DEFINE a == Amounts(s)
           b == Amounts(t)
           u == s \o t
           c == Amounts(u)
<1>1. /\ u \in Seq(Row) /\ Len(u) = Len(s) + Len(t) /\ Len(s) \in Nat /\ Len(t) \in Nat
      /\ \A i \in 1 .. Len(s) : u[i] = s[i]
      /\ \A i \in 1 .. Len(t) : u[Len(s) + i] = t[i]
  BY CatAt
<1> HIDE DEF u
<1>2. /\ a \in Seq(Int) /\ Len(a) = Len(s) /\ \A i \in 1 .. Len(s) : a[i] = s[i].amount
      /\ b \in Seq(Int) /\ Len(b) = Len(t) /\ \A i \in 1 .. Len(t) : b[i] = t[i].amount
      /\ c \in Seq(Int) /\ Len(c) = Len(u) /\ \A i \in 1 .. Len(u) : c[i] = u[i].amount
  BY <1>1, AmountsIs, Zenon
<1> HIDE DEF a, b, c
<1>3. /\ Len(c) = Len(a) + Len(b)
      /\ \A i \in 1 .. Len(a) : c[i] = a[i]
      /\ \A i \in 1 .. Len(b) : c[Len(a) + i] = b[i]
  <2>1. ASSUME NEW i \in 1 .. Len(s) PROVE c[i] = a[i]
    <3>1. i \in 1 .. Len(u)
      BY <1>1
    <3> QED BY <1>1, <1>2, <3>1, Zenon
  <2>2. ASSUME NEW i \in 1 .. Len(t) PROVE c[Len(s) + i] = b[i]
    <3>1. Len(s) + i \in 1 .. Len(u)
      BY <1>1
    <3> QED BY <1>1, <1>2, <3>1, Zenon
  <2> QED BY <1>1, <1>2, <2>1, <2>2
<1>4. c = a \o b
  BY <1>2, <1>3, CatIs
<1>5. Total(c) = Total(a) + Total(b)
  BY <1>2, <1>4, TotalCat
<1> QED BY <1>5 DEF a, b, c, u

\* The rows of a line: what it charges, and its discount under it.
LEMMA RowsIs ==
    ASSUME NEW o \in QuotedLine
    PROVE  OfferRows(o) \in Seq(Row) /\ Total(Amounts(OfferRows(o))) = OfferNet(o)
<1> DEFINE charged == [quantity |-> IF o.kind = "hours" THEN o.centi ELSE 100,
                       rate |-> IF o.kind = "hours" THEN o.price ELSE ReadOffer(o).amount,
                       amount |-> ReadOffer(o).amount]
           off == [quantity |-> -100, rate |-> o.discount, amount |-> - o.discount]
<1>1. /\ ReadOffer(o).amount \in Nat /\ OfferNet(o) = ReadOffer(o).amount - o.discount
      /\ o.discount \in Nat /\ o.centi \in Nat /\ o.price \in Nat
  <2>1. o \in Offerable /\ MayOffer(o)
    BY FiguresAssumption DEF QuotedLine
  <2>2. /\ ReadOffer(o).amount = QuotedPrice(o) /\ QuotedPrice(o) \in Nat
        /\ OfferNet(o) = QuotedPrice(o) - o.discount /\ o.discount \in Nat
    BY <2>1, OfferIs, Zenon
  <2> QED BY <2>1, <2>2 DEF Offerable
<1>2. charged \in Row /\ charged.amount = ReadOffer(o).amount
  BY <1>1 DEF Row
<1>3. off \in Row /\ off.amount = - o.discount
  BY <1>1 DEF Row
<1>4. OfferRows(o) = IF o.discount <= 0 THEN <<charged>> ELSE <<charged>> \o <<off>>
  <2>1. <<charged, off>> = <<charged>> \o <<off>>
    <3> HIDE DEF charged, off
    <3> QED BY <1>2, <1>3, Two
  <2>2. OfferRows(o) = IF o.discount <= 0 THEN <<charged>> ELSE <<charged, off>>
    BY DEF OfferRows
  <2> HIDE DEF charged, off
  <2> QED BY <2>1, <2>2
<1> HIDE DEF charged, off
<1>5. ASSUME NEW r \in Row PROVE <<r>> \in Seq(Row) /\ Total(Amounts(<<r>>)) = r.amount
  <2>1. <<r>> \in Seq(Row) /\ Len(<<r>>) = 1 /\ <<r>>[1] = r /\ r.amount \in Int
    <3>1. <<r>> \in Seq(Row) /\ Len(<<r>>) = 1 /\ <<r>>[1] = r
      BY Single
    <3> QED BY <3>1 DEF Row
  <2>2. Amounts(<<r>>) \in Seq(Int) /\ Len(Amounts(<<r>>)) = 1 /\ Amounts(<<r>>)[1] = r.amount
    <3> DEFINE rows == <<r>>
    <3>1. rows \in Seq(Row) /\ Len(rows) = 1 /\ rows[1] = r
      BY <2>1
    <3> HIDE DEF rows
    <3>2. Amounts(rows) \in Seq(Int) /\ Len(Amounts(rows)) = 1 /\ Amounts(rows)[1] = r.amount
      BY <3>1, AmountsIs
    <3> QED BY <3>2 DEF rows
  <2>3. Amounts(<<r>>) = <<r.amount>>
    BY <2>2
  <2> QED BY <2>1, <2>3, TotalOne
<1>6. CASE o.discount <= 0
  BY <1>1, <1>2, <1>4, <1>5, <1>6
<1>7. CASE ~ (o.discount <= 0)
  <2>1. OfferRows(o) = <<charged>> \o <<off>>
    BY <1>4, <1>7
  <2>2. <<charged>> \in Seq(Row) /\ <<off>> \in Seq(Row)
    BY <1>2, <1>3, <1>5
  <2>3. Total(Amounts(OfferRows(o))) = charged.amount + off.amount
    BY <1>2, <1>3, <1>5, <2>1, <2>2, AmountsCat
  <2>4. OfferRows(o) \in Seq(Row)
    BY <2>1, <2>2
  <2> QED BY <1>1, <1>2, <1>3, <2>3, <2>4
<1> QED BY <1>6, <1>7

\* f holds the rows of an offer, from none of its lines to all of them.
RowsUpto(f, lines) ==
    /\ f \in [0 .. Len(lines) -> Seq(Row)]
    /\ f[0] = <<>>
    /\ \A i \in 1 .. Len(lines) : f[i] = f[i - 1] \o OfferRows(lines[i])

LEMMA RowsExist == ASSUME NEW lines \in Seq(QuotedLine) PROVE \E f : RowsUpto(f, lines)
<1> DEFINE Upto(k, f) == /\ f \in [0 .. k -> Seq(Row)]
                         /\ f[0] = <<>>
                         /\ \A i \in 1 .. k : f[i] = f[i - 1] \o OfferRows(lines[i])
           S == {k \in 0 .. Len(lines) : \E f : Upto(k, f)}
<1>1. 0 \in S
  <2>1. Upto(0, [i \in 0 .. 0 |-> <<>>])
    OBVIOUS
  <2>2. 0 \in 0 .. Len(lines)
    OBVIOUS
  <2> HIDE DEF Upto
  <2> QED BY <2>1, <2>2
<1>2. ASSUME NEW k \in 0 .. Len(lines) - 1, k \in S PROVE k + 1 \in S
  <2>1. PICK f : Upto(k, f)
    BY <1>2
  <2> DEFINE last == f[k] \o OfferRows(lines[k + 1])
             g == [i \in 0 .. k + 1 |-> IF i = k + 1 THEN last ELSE f[i]]
  <2>2. last \in Seq(Row)
    <3>1. f[k] \in Seq(Row)
      BY <2>1
    <3>2. lines[k + 1] \in QuotedLine
      OBVIOUS
    <3>3. OfferRows(lines[k + 1]) \in Seq(Row)
      BY <3>2, RowsIs
    <3> QED BY <3>1, <3>3
  <2>3. \A i \in 0 .. k : f[i] \in Seq(Row)
    BY <2>1
  <2>4. g[k + 1] = last /\ g[k] = f[k]
    <3> HIDE DEF last
    <3> QED OBVIOUS
  <2>5. g \in [0 .. k + 1 -> Seq(Row)] /\ g[0] = <<>>
    <3>1. ASSUME NEW i \in 0 .. k + 1 PROVE (IF i = k + 1 THEN last ELSE f[i]) \in Seq(Row)
      <4> HIDE DEF last
      <4> QED BY <2>2, <2>3
    <3>2. g[0] = f[0]
      <4> HIDE DEF last
      <4> QED OBVIOUS
    <3> HIDE DEF last
    <3> QED BY <2>1, <3>1, <3>2
  <2>6. ASSUME NEW i \in 1 .. k PROVE g[i] = g[i - 1] \o OfferRows(lines[i])
    <3>1. g[i] = f[i] /\ g[i - 1] = f[i - 1]
      <4> HIDE DEF last
      <4> QED OBVIOUS
    <3>2. f[i] = f[i - 1] \o OfferRows(lines[i])
      BY <2>1
    <3> HIDE DEF g
    <3> QED BY <3>1, <3>2
  <2>7. ASSUME NEW i \in 1 .. k + 1 PROVE g[i] = g[i - 1] \o OfferRows(lines[i])
    <3>1. i \in 1 .. k \/ (i = k + 1 /\ i - 1 = k)
      OBVIOUS
    <3>2. CASE i = k + 1 /\ i - 1 = k
      <4> HIDE DEF g
      <4> QED BY <2>4, <3>2
    <3> HIDE DEF g
    <3> QED BY <2>6, <3>1, <3>2
  <2>8. Upto(k + 1, g)
    <3> HIDE DEF g
    <3> QED BY <2>5, <2>7
  <2>9. k + 1 \in 0 .. Len(lines)
    OBVIOUS
  <2> HIDE DEF Upto, g
  <2> QED BY <2>8, <2>9
<1> HIDE DEF S
<1>3. Len(lines) \in Nat /\ Len(lines) \in 0 .. Len(lines)
  OBVIOUS
<1>4. Len(lines) \in S
  BY <1>1, <1>2, <1>3, Climb, Zenon
<1> QED BY <1>4 DEF S, RowsUpto

\* The sheet of an offer adds up: its rows are its net, and under them its VAT.
LEMMA QuotationAddsUp ==
    ASSUME NEW lines \in Seq(QuotedLine)
    PROVE  LET s == QuotationDocument(lines)
           IN  Added(LAMBDA amount : amount, s.amounts) + s.tax = s.total
<1> DEFINE Is(g) == g = [i \in 0 .. Len(lines) |->
                           IF i = 0 THEN <<>> ELSE g[i - 1] \o OfferRows(lines[i])]
           upto == CHOOSE g : Is(g)
           nets == [i \in DOMAIN lines |-> OfferNet(lines[i])]
<1>1. Len(lines) \in Nat /\ Len(lines) \in 0 .. Len(lines) /\ 0 \in 0 .. Len(lines)
      /\ DOMAIN lines = 1 .. Len(lines)
  OBVIOUS
<1>2. PICK f : RowsUpto(f, lines)
  BY RowsExist
<1>3. Is(f)
  <2>1. f = [i \in 0 .. Len(lines) |-> f[i]]
    BY <1>2 DEF RowsUpto
  <2>2. ASSUME NEW i \in 0 .. Len(lines)
        PROVE  f[i] = IF i = 0 THEN <<>> ELSE f[i - 1] \o OfferRows(lines[i])
    <3>1. i = 0 \/ (i \in 1 .. Len(lines) /\ i # 0)
      OBVIOUS
    <3> QED BY <1>2, <3>1, Zenon DEF RowsUpto
  <2> QED BY <2>1, <2>2
<1>4. Is(upto)
  BY <1>3
<1> DEFINE rows == upto[Len(lines)]
<1>5. QuotationDocument(lines) =
          Sheet([i \in DOMAIN rows |-> rows[i].amount], OfferTaxRow(lines), ReadTotals(lines).total)
  BY Zenon DEF QuotationDocument
<1> HIDE DEF upto
<1>6. upto[0] = <<>>
  BY <1>1, <1>4, Zenon
<1>7. ASSUME NEW k \in 0 .. Len(lines) - 1
      PROVE  upto[k + 1] = upto[k] \o OfferRows(lines[k + 1])
  <2>1. k + 1 \in 0 .. Len(lines) /\ k + 1 # 0 /\ (k + 1) - 1 = k
    OBVIOUS
  <2>2. upto[k + 1] = upto[(k + 1) - 1] \o OfferRows(lines[k + 1])
    BY <1>4, <2>1, Zenon
  <2> QED BY <2>1, <2>2
<1>8. nets \in Seq(Int) /\ Len(nets) = Len(lines)
      /\ \A i \in 1 .. Len(lines) : nets[i] = OfferNet(lines[i])
  <2>1. nets \in Seq(Int)
    BY OfferColumns
  <2>2. \A i \in 1 .. Len(lines) : nets[i] = OfferNet(lines[i])
    BY <1>1
  <2>3. Len(nets) = Len(lines)
    <3>1. DOMAIN nets = 1 .. Len(lines)
      BY <1>1
    <3> HIDE DEF nets
    <3> QED BY <1>1, <2>1, <3>1
  <2> QED BY <2>1, <2>2, <2>3
<1>9. PICK sums : Running(sums, nets)
  BY <1>8, SumsExist
<1> HIDE DEF nets, Is
<1> DEFINE S == {k \in 0 .. Len(lines) : upto[k] \in Seq(Row) /\ Total(Amounts(upto[k])) = sums[k]}
<1>10. 0 \in S
  <2>1. <<>> \in Seq(Row) /\ Amounts(<<>>) = <<>>
    BY DEF Amounts
  <2>2. sums[0] = 0
    BY <1>8, <1>9, RunningAt
  <2> QED BY <1>1, <1>6, <2>1, <2>2, TotalEmpty
<1>11. ASSUME NEW k \in 0 .. Len(lines) - 1, k \in S PROVE k + 1 \in S
  <2> DEFINE more == OfferRows(lines[k + 1])
  <2>1. k + 1 \in 1 .. Len(lines) /\ k + 1 \in 0 .. Len(lines) /\ (k + 1) - 1 = k
    OBVIOUS
  <2>2. lines[k + 1] \in QuotedLine
    BY <2>1
  <2>3. more \in Seq(Row) /\ Total(Amounts(more)) = OfferNet(lines[k + 1])
    BY <2>2, RowsIs
  <2>4. upto[k] \in Seq(Row) /\ Total(Amounts(upto[k])) = sums[k]
    BY <1>11
  <2>5. sums[k + 1] = sums[k] + nets[k + 1]
    BY <1>8, <1>9, <2>1, RunningAt
  <2>6. nets[k + 1] = OfferNet(lines[k + 1]) /\ upto[k + 1] = upto[k] \o more
    BY <1>7, <1>8, <2>1
  <2> HIDE DEF more
  <2>7. upto[k] \o more \in Seq(Row)
    BY <2>3, <2>4
  <2>8. Total(Amounts(upto[k] \o more)) = sums[k] + nets[k + 1]
    BY <2>3, <2>4, <2>6, AmountsCat
  <2>9. upto[k + 1] \in Seq(Row) /\ Total(Amounts(upto[k + 1])) = sums[k + 1]
    BY <2>5, <2>6, <2>7, <2>8, Zenon
  <2> QED BY <2>1, <2>9, Zenon
<1>12. Len(lines) \in S
  <2> HIDE DEF S
  <2> QED BY <1>1, <1>10, <1>11, Climb, Zenon
<1>13. rows \in Seq(Row) /\ Total(Amounts(rows)) = Added(OfferNet, lines)
  <2>1. rows \in Seq(Row) /\ Total(Amounts(rows)) = sums[Len(lines)]
    BY <1>12, Zenon
  <2>2. Total(nets) = sums[Len(lines)]
    BY <1>8, <1>9, TotalIs
  <2>3. Added(OfferNet, lines) = Total(nets)
    BY Zenon DEF Added, nets
  <2> QED BY <2>1, <2>2, <2>3
<1> HIDE DEF rows
<1>14. QuotationDocument(lines).amounts = Amounts(rows)
       /\ QuotationDocument(lines).tax = OfferTaxRow(lines)
       /\ QuotationDocument(lines).total = ReadTotals(lines).total
  <2> DEFINE total == ReadTotals(lines).total
  <2>1. QuotationDocument(lines) = [amounts |-> Amounts(rows), tax |-> OfferTaxRow(lines), total |-> total]
    BY <1>5, Zenon DEF Sheet, Amounts
  <2> HIDE DEF total
  <2> QED BY <2>1 DEF total
<1>15. Added(LAMBDA amount : amount, QuotationDocument(lines).amounts) = Total(Amounts(rows))
  <2>1. [i \in DOMAIN Amounts(rows) |-> Amounts(rows)[i]] = Amounts(rows)
    BY Zenon DEF Amounts
  <2> QED BY <1>14, <2>1, Zenon DEF Added
<1>16. ReadTotals(lines).total = Added(OfferCharge, lines) /\ ReadTotals(lines).vat = Added(OfferVat, lines)
  <2>1. OfferTotals(lines).total = Added(OfferCharge, lines)
        /\ OfferTotals(lines).vat = Added(OfferVat, lines)
    BY DEF OfferTotals, Added
  <2>2. ReadTotals(lines) = OfferTotals(lines)
    BY TotalsIs
  <2> QED BY <2>1, <2>2, Zenon
<1>17. Added(OfferCharge, lines) = Added(OfferNet, lines) + Added(OfferVat, lines)
       /\ Added(OfferVat, lines) \in Nat
  BY OfferColumns, Zenon
<1>18. OfferTaxRow(lines) = Added(OfferVat, lines)
  BY <1>16, <1>17 DEF OfferTaxRow
<1> QED BY <1>13, <1>14, <1>15, <1>16, <1>17, <1>18, Zenon

\* So does that of an invoice.
LEMMA InvoiceAddsUp ==
    ASSUME NEW b \in RaisedInvoice
    PROVE  LET s == InvoiceDocument(b)
           IN  Added(LAMBDA amount : amount, s.amounts) + s.tax = s.total
<1>1. /\ InvoiceDocument(b).amounts = [i \in DOMAIN b.lines |-> b.lines[i].amount]
      /\ InvoiceDocument(b).tax = InvoiceTaxRow(b)
      /\ InvoiceDocument(b).total = ReadInvoice(b).total
  BY Zenon DEF InvoiceDocument, Sheet
<1> DEFINE a == [i \in DOMAIN b.lines |-> b.lines[i].amount]
<1>2. [i \in DOMAIN a |-> a[i]] = a
  BY Zenon
<1>3. Added(LAMBDA amount : amount, InvoiceDocument(b).amounts) = InvoiceNet(b)
  BY <1>1, <1>2, Zenon DEF InvoiceNet, Added
<1>4. InvoiceTaxRow(b) = ReadInvoice(b).vat /\ ReadInvoice(b).total = InvoiceNet(b) + ReadInvoice(b).vat
  BY InvoiceReads, Zenon
<1> QED BY <1>1, <1>3, <1>4, Zenon

-----------------------------------------------------------------------------
(* The lines an invoice copies.                                            *)

Copied == {l \in ReviewLine : ~ l.excluded}

KeptUpto(f, lines, k) ==
    /\ f \in [0 .. k -> Seq(Copied)]
    /\ f[0] = <<>>
    /\ \A i \in 1 .. k : f[i] = IF lines[i].excluded THEN f[i - 1] ELSE Append(f[i - 1], lines[i])

LEMMA KeptOn ==
    ASSUME NEW lines \in Seq(ReviewLine), NEW k \in 0 .. Len(lines) - 1, NEW f, KeptUpto(f, lines, k)
    PROVE  \E g : KeptUpto(g, lines, k + 1)
<1> DEFINE last == IF lines[k + 1].excluded THEN f[k] ELSE Append(f[k], lines[k + 1])
           g == [i \in 0 .. k + 1 |-> IF i = k + 1 THEN last ELSE f[i]]
<1>1. last \in Seq(Copied)
  <2>1. f[k] \in Seq(Copied)
    BY DEF KeptUpto
  <2>2. lines[k + 1] \in ReviewLine
    OBVIOUS
  <2>3. ~ lines[k + 1].excluded => lines[k + 1] \in Copied
    BY <2>2 DEF Copied
  <2> QED BY <2>1, <2>3
<1> HIDE DEF last
<1>2. \A i \in 0 .. k : f[i] \in Seq(Copied)
  BY DEF KeptUpto
<1>3. g[k + 1] = last /\ g[k] = f[k] /\ g[0] = f[0]
  OBVIOUS
<1>4. g \in [0 .. k + 1 -> Seq(Copied)] /\ g[0] = <<>>
  BY <1>1, <1>2, <1>3 DEF KeptUpto
<1>5. ASSUME NEW i \in 1 .. k
      PROVE  g[i] = IF lines[i].excluded THEN g[i - 1] ELSE Append(g[i - 1], lines[i])
  <2>1. g[i] = f[i] /\ g[i - 1] = f[i - 1]
    OBVIOUS
  <2>2. f[i] = IF lines[i].excluded THEN f[i - 1] ELSE Append(f[i - 1], lines[i])
    BY DEF KeptUpto
  <2> HIDE DEF g
  <2> QED BY <2>1, <2>2
<1> HIDE DEF g
<1>6. ASSUME NEW i \in 1 .. k + 1
      PROVE  g[i] = IF lines[i].excluded THEN g[i - 1] ELSE Append(g[i - 1], lines[i])
  <2>1. i \in 1 .. k \/ (i = k + 1 /\ i - 1 = k)
    OBVIOUS
  <2>2. CASE i = k + 1 /\ i - 1 = k
    BY <1>3, <2>2 DEF last
  <2> QED BY <1>5, <2>1, <2>2
<1> QED BY <1>4, <1>6 DEF KeptUpto

LEMMA BillableIs ==
    ASSUME NEW lines \in Seq(ReviewLine)
    PROVE  Billable(lines) \in Seq(Copied)
<1> DEFINE S == {k \in 0 .. Len(lines) : \E f : KeptUpto(f, lines, k)}
           Is(g) == g = [i \in 0 .. Len(lines) |->
                           IF i = 0 THEN <<>>
                           ELSE IF lines[i].excluded THEN g[i - 1] ELSE Append(g[i - 1], lines[i])]
           upto == CHOOSE g : Is(g)
<1>1. Len(lines) \in Nat /\ Len(lines) \in 0 .. Len(lines) /\ 0 \in 0 .. Len(lines)
  OBVIOUS
<1>2. 0 \in S
  <2>1. KeptUpto([i \in 0 .. 0 |-> <<>>], lines, 0)
    BY DEF KeptUpto
  <2> QED BY <1>1, <2>1
<1>3. ASSUME NEW k \in 0 .. Len(lines) - 1, k \in S PROVE k + 1 \in S
  <2>1. k + 1 \in 0 .. Len(lines)
    OBVIOUS
  <2>2. \E g : KeptUpto(g, lines, k + 1)
    BY <1>3, KeptOn, Zenon
  <2> QED BY <2>1, <2>2, Zenon
<1>4. PICK f : KeptUpto(f, lines, Len(lines))
  <2>1. Len(lines) \in S
    <3> HIDE DEF S
    <3> QED BY <1>1, <1>2, <1>3, Climb, Zenon
  <2> QED BY <2>1, Zenon
<1>5. Is(f)
  <2>1. f = [i \in 0 .. Len(lines) |-> f[i]]
    BY <1>4 DEF KeptUpto
  <2>2. ASSUME NEW i \in 0 .. Len(lines)
        PROVE  f[i] = IF i = 0 THEN <<>>
                      ELSE IF lines[i].excluded THEN f[i - 1] ELSE Append(f[i - 1], lines[i])
    <3>1. i = 0 \/ (i \in 1 .. Len(lines) /\ i # 0)
      OBVIOUS
    <3> QED BY <1>4, <3>1, Zenon DEF KeptUpto
  <2> QED BY <2>1, <2>2
<1>6. Is(upto)
  BY <1>5
<1>7. Billable(lines) = upto[Len(lines)]
  BY Zenon DEF Billable
<1> HIDE DEF upto
<1>8. upto[0] = <<>>
  BY <1>1, <1>6, Zenon
<1>9. ASSUME NEW k \in 0 .. Len(lines) - 1
      PROVE  upto[k + 1] = IF lines[k + 1].excluded THEN upto[k] ELSE Append(upto[k], lines[k + 1])
  <2>1. k + 1 \in 0 .. Len(lines) /\ k + 1 # 0 /\ (k + 1) - 1 = k
    OBVIOUS
  <2>2. upto[k + 1] = IF lines[k + 1].excluded THEN upto[(k + 1) - 1]
                      ELSE Append(upto[(k + 1) - 1], lines[k + 1])
    BY <1>6, <2>1, Zenon
  <2> QED BY <2>1, <2>2, Zenon
<1> HIDE DEF Is, S
<1> DEFINE T == {k \in 0 .. Len(lines) : upto[k] \in Seq(Copied)}
<1>10. 0 \in T
  <2>1. <<>> \in Seq(Copied)
    OBVIOUS
  <2> QED BY <1>1, <1>8, <2>1, Zenon
<1>11. ASSUME NEW k \in 0 .. Len(lines) - 1, k \in T PROVE k + 1 \in T
  <2>1. k + 1 \in 0 .. Len(lines) /\ upto[k] \in Seq(Copied)
    BY <1>11
  <2>2. lines[k + 1] \in ReviewLine
    OBVIOUS
  <2>3. ~ lines[k + 1].excluded => lines[k + 1] \in Copied
    BY <2>2 DEF Copied
  <2>4. upto[k + 1] \in Seq(Copied)
    <3>1. upto[k + 1] = IF lines[k + 1].excluded THEN upto[k] ELSE Append(upto[k], lines[k + 1])
      BY <1>9, Zenon
    <3>2. ~ lines[k + 1].excluded => Append(upto[k], lines[k + 1]) \in Seq(Copied)
      BY <2>1, <2>3
    <3> QED BY <2>1, <3>1, <3>2, Zenon
  <2> QED BY <2>1, <2>4
<1>12. Len(lines) \in T
  <2> HIDE DEF T
  <2> QED BY <1>1, <1>10, <1>11, Climb, Zenon
<1> QED BY <1>7, <1>12

-----------------------------------------------------------------------------
(* The inductive invariant, and what follows from it.                      *)

SheetType == [state : {"none", "draft", "approved", "invoiced"}, lines : Seq(ReviewLine)]

FiguresInv ==
    /\ sheet \in SheetType
    /\ bills \in Seq(RaisedInvoice)
    /\ \A i \in DOMAIN bills : CopiedOK(bills[i]) /\ SettledOK(bills[i])
    /\ offer \in Seq(QuotedLine)

LEMMA TypeFollows == FiguresInv => FiguresTypeOK
<1> SUFFICES ASSUME FiguresInv PROVE FiguresTypeOK
  OBVIOUS
<1>1. /\ sheet.state \in {"none", "draft", "approved", "invoiced"}
      /\ sheet.lines \in Seq(ReviewLine)
  BY DEF FiguresInv, SheetType
<1>2. ASSUME NEW i \in DOMAIN sheet.lines
      PROVE  sheet.lines[i].adjustedTo \in Agreed \cup {NotSet} /\ sheet.lines[i].excluded \in BOOLEAN
  <2>1. sheet.lines[i] \in ReviewLine
    BY <1>1
  <2> QED BY <2>1 DEF ReviewLine
<1>3. ASSUME NEW i \in DOMAIN bills
      PROVE  bills[i].vatBasisPoints \in VatRates /\ bills[i].settlement \in {"issued", "part_paid", "paid"}
  <2>1. bills[i] \in RaisedInvoice
    BY DEF FiguresInv
  <2> QED BY <2>1 DEF RaisedInvoice
<1>4. ASSUME NEW i \in DOMAIN offer PROVE offer[i] \in OfferLines
  <2>1. offer[i] \in QuotedLine
    BY DEF FiguresInv
  <2> QED BY <2>1 DEF QuotedLine
<1> QED BY <1>1, <1>2, <1>3, <1>4 DEF FiguresTypeOK

LEMMA ScreensFollow == FiguresInv => ScreensAgree
<1> SUFFICES ASSUME FiguresInv PROVE ScreensAgree
  OBVIOUS
<1>1. ReadStatement(sheet.lines) =
          [asWorked |-> Added(AsWorked, sheet.lines), total |-> StatementTotal(sheet.lines)]
  <2>1. sheet.lines \in Seq(ReviewLine)
    BY DEF FiguresInv, SheetType
  <2>2. ASSUME NEW i \in DOMAIN sheet.lines
        PROVE  /\ ReadAsWorked(sheet.lines[i]) = AsWorked(sheet.lines[i])
               /\ ReadAmount(sheet.lines[i]) = LineAmount(sheet.lines[i])
    <3>1. sheet.lines[i] \in ReviewLine
      BY <2>1
    <3> QED BY <3>1, LineIs, Zenon
  <2>3. /\ [i \in DOMAIN sheet.lines |-> ReadAsWorked(sheet.lines[i])]
             = [i \in DOMAIN sheet.lines |-> AsWorked(sheet.lines[i])]
        /\ [i \in DOMAIN sheet.lines |-> ReadAmount(sheet.lines[i])]
             = [i \in DOMAIN sheet.lines |-> LineAmount(sheet.lines[i])]
    BY <2>2, Zenon
  <2> QED BY <2>3, Zenon DEF ReadStatement, StatementTotal, Added
<1>2. ASSUME NEW i \in DOMAIN bills
      PROVE  /\ ReadInvoice(bills[i]).total = InvoiceTotal(bills[i])
             /\ ReadInvoice(bills[i]).balance = InvoiceBalance(bills[i])
  <2>1. bills[i] \in RaisedInvoice
    BY DEF FiguresInv
  <2> QED BY <2>1, InvoiceReads, Zenon
<1>3. ReadTotals(offer) = OfferTotals(offer)
  BY TotalsIs DEF FiguresInv
<1> QED BY <1>1, <1>2, <1>3, Zenon DEF ScreensAgree

LEMMA ReviewFollows == FiguresInv => InvoiceIsTheReview
<1> SUFFICES ASSUME FiguresInv, NEW i \in DOMAIN bills
             PROVE  /\ InvoiceNet(bills[i]) = Added(LAMBDA l : LineAmount(l.ofLine), bills[i].lines)
                    /\ \A j \in DOMAIN bills[i].lines : ~ bills[i].lines[j].ofLine.excluded
                    /\ bills[i].settlement = "paid" <=> bills[i].payments # <<>> /\ InvoiceBalance(bills[i]) = 0
  BY Zenon DEF InvoiceIsTheReview
<1>1. CopiedOK(bills[i]) /\ SettledOK(bills[i])
  BY DEF FiguresInv
<1>2. [j \in DOMAIN bills[i].lines |-> bills[i].lines[j].amount]
        = [j \in DOMAIN bills[i].lines |-> LineAmount(bills[i].lines[j].ofLine)]
  BY <1>1, Zenon DEF CopiedOK
<1>3. InvoiceNet(bills[i]) = Added(LAMBDA l : LineAmount(l.ofLine), bills[i].lines)
  BY <1>2, Zenon DEF InvoiceNet, Added
<1> QED BY <1>1, <1>3, Zenon DEF CopiedOK, SettledOK

LEMMA SheetsFollow == FiguresInv => SheetsAddUp
<1> SUFFICES ASSUME FiguresInv PROVE SheetsAddUp
  OBVIOUS
<1>1. ASSUME NEW s \in {InvoiceDocument(bills[i]) : i \in DOMAIN bills} \cup {QuotationDocument(offer)}
      PROVE  Added(LAMBDA amount : amount, s.amounts) + s.tax = s.total
  <2>1. CASE s = QuotationDocument(offer)
    <3>1. offer \in Seq(QuotedLine)
      BY DEF FiguresInv
    <3> QED BY <2>1, <3>1, QuotationAddsUp, Zenon
  <2>2. ASSUME NEW i \in DOMAIN bills, s = InvoiceDocument(bills[i])
        PROVE  Added(LAMBDA amount : amount, s.amounts) + s.tax = s.total
    <3>1. bills[i] \in RaisedInvoice
      BY DEF FiguresInv
    <3> QED BY <2>2, <3>1, InvoiceAddsUp, Zenon
  <2> QED BY <2>1, <2>2, Zenon
<1>2. ASSUME NEW i \in DOMAIN offer PROVE ClientView(offer).rows[i].chargeable >= 0
  <2>1. offer[i] \in QuotedLine
    BY DEF FiguresInv
  <2>2. offer[i] \in Offerable /\ MayOffer(offer[i])
    BY <2>1, FiguresAssumption DEF QuotedLine
  <2>3. OfferCharge(offer[i]) \in Nat
    BY <2>2, OfferIs, Zenon
  <2>4. ClientView(offer).rows[i].chargeable = OfferCharge(offer[i])
    BY Zenon DEF ClientView
  <2> QED BY <2>3, <2>4
<1> QED BY <1>1, <1>2, Zenon DEF SheetsAddUp

LEMMA PrintFollows == FiguresInv => PrintedReaches
<1> SUFFICES ASSUME FiguresInv, NEW i \in DOMAIN bills, NEW j \in DOMAIN bills[i].lines
             PROVE  LET l == bills[i].lines[j]
                        off == l.quantity * l.rate - 100 * l.amount
                        slack == IF l.ofLine.pricing = "fixed" \/ l.ofLine.adjustedTo # NotSet THEN 0
                                 ELSE l.rate \div 2 + 50
                    IN  -slack <= off /\ off <= slack
  BY DEF PrintedReaches
<1> DEFINE l == bills[i].lines[j]
<1>1. CopiedOK(bills[i]) /\ bills[i] \in RaisedInvoice
  BY DEF FiguresInv
<1>2. l.ofLine \in ReviewLine
  <2>1. bills[i].lines \in Seq(BilledLine)
    BY <1>1 DEF RaisedInvoice
  <2>2. l \in BilledLine
    BY <2>1
  <2> QED BY <2>2 DEF BilledLine
<1>3. /\ ~ l.ofLine.excluded /\ l.amount = LineAmount(l.ofLine)
      /\ l.quantity = PrintedAs(l.ofLine).quantity /\ l.rate = PrintedAs(l.ofLine).rate
  BY <1>1 DEF CopiedOK
<1> HIDE DEF l
<1>4. LET off == l.quantity * l.rate - 100 * l.amount
          slack == IF l.ofLine.pricing = "fixed" \/ l.ofLine.adjustedTo # NotSet THEN 0
                   ELSE l.rate \div 2 + 50
      IN  -slack <= off /\ off <= slack
  BY <1>2, <1>3, PrintedIs
<1> QED BY <1>4 DEF l

LEMMA ReportFollows == FiguresInv => ReportAgrees
<1> SUFFICES ASSUME FiguresInv PROVE ReportAgrees
  OBVIOUS
<1> DEFINE n == Len(bills)
           grosses == [i \in DOMAIN bills |-> Gross(bills[i])]
           totals == [i \in DOMAIN bills |-> InvoiceTotal(bills[i])]
           balances == [i \in DOMAIN bills |-> InvoiceBalance(bills[i])]
           paids == [i \in DOMAIN bills |-> Added(LAMBDA p : p.amount, bills[i].payments)]
           forgivens == [i \in DOMAIN bills |-> Added(LAMBDA p : p.discount, bills[i].payments)]
           covers == [i \in DOMAIN bills |-> Covered(bills[i].payments)]
           owings == [i \in DOMAIN bills |-> InvoiceTotal(bills[i]) - Covered(bills[i].payments)]
<1>1. bills \in Seq(RaisedInvoice) /\ DOMAIN bills = 1 .. n /\ n \in Nat
  BY DEF FiguresInv
<1>2. ASSUME NEW i \in 1 .. n
      PROVE  /\ Gross(bills[i]) = InvoiceTotal(bills[i]) /\ InvoiceTotal(bills[i]) \in Nat
             /\ Covered(bills[i].payments) = Added(LAMBDA p : p.amount, bills[i].payments)
                                           + Added(LAMBDA p : p.discount, bills[i].payments)
             /\ Added(LAMBDA p : p.amount, bills[i].payments) \in Nat
             /\ Added(LAMBDA p : p.discount, bills[i].payments) \in Nat
             /\ Covered(bills[i].payments) \in Nat
  <2>1. bills[i] \in RaisedInvoice
    BY <1>1
  <2> QED BY <2>1, InvoiceReads, Zenon
<1>3. ASSUME NEW i \in 1 .. n
      PROVE  /\ InvoiceBalance(bills[i]) \in Int
             /\ InvoiceTotal(bills[i]) - Covered(bills[i].payments) <= InvoiceBalance(bills[i])
             /\ InvoiceBalance(bills[i]) >= 0
             /\ Covered(bills[i].payments) <= InvoiceTotal(bills[i])
                  => InvoiceBalance(bills[i]) = InvoiceTotal(bills[i]) - Covered(bills[i].payments)
  <2>1. InvoiceTotal(bills[i]) \in Nat /\ Covered(bills[i].payments) \in Nat
    BY <1>2
  <2> QED BY <2>1 DEF InvoiceBalance, Owed
<1>4. grosses = totals
  BY <1>1, <1>2, Zenon
<1>5. /\ totals \in [1 .. n -> Int] /\ balances \in [1 .. n -> Int] /\ paids \in [1 .. n -> Int]
      /\ forgivens \in [1 .. n -> Int] /\ covers \in [1 .. n -> Int] /\ owings \in [1 .. n -> Int]
  <2>1. \A i \in 1 .. n :
            /\ InvoiceTotal(bills[i]) \in Int /\ InvoiceBalance(bills[i]) \in Int
            /\ Added(LAMBDA p : p.amount, bills[i].payments) \in Int
            /\ Added(LAMBDA p : p.discount, bills[i].payments) \in Int
            /\ Covered(bills[i].payments) \in Int
            /\ InvoiceTotal(bills[i]) - Covered(bills[i].payments) \in Int
    BY <1>2, <1>3
  <2> HIDE DEF n
  <2> QED BY <1>1, <2>1, Zenon
<1>6. ASSUME NEW i \in 1 .. n
      PROVE  /\ covers[i] = paids[i] + forgivens[i]
             /\ totals[i] = owings[i] + covers[i]
             /\ owings[i] <= balances[i] /\ balances[i] >= 0
             /\ Covered(bills[i].payments) <= InvoiceTotal(bills[i]) => balances[i] = owings[i]
  <2>1. /\ covers[i] = Covered(bills[i].payments)
        /\ paids[i] = Added(LAMBDA p : p.amount, bills[i].payments)
        /\ forgivens[i] = Added(LAMBDA p : p.discount, bills[i].payments)
        /\ totals[i] = InvoiceTotal(bills[i]) /\ balances[i] = InvoiceBalance(bills[i])
        /\ owings[i] = InvoiceTotal(bills[i]) - Covered(bills[i].payments)
    BY <1>1, Zenon
  <2> HIDE DEF covers, paids, forgivens, totals, balances, owings
  <2> QED BY <1>2, <1>3, <2>1
<1>7. /\ Added(Gross, bills) = Total(grosses) /\ Added(InvoiceTotal, bills) = Total(totals)
      /\ Added(InvoiceBalance, bills) = Total(balances)
      /\ Added(LAMBDA b : Added(LAMBDA p : p.amount, b.payments), bills) = Total(paids)
      /\ Added(LAMBDA b : Added(LAMBDA p : p.discount, b.payments), bills) = Total(forgivens)
  BY Zenon DEF Added
<1>8. /\ Profitability(bills).gross = Total(grosses)
      /\ Profitability(bills).outstanding = Owed(Total(grosses) - Total(paids) - Total(forgivens))
  BY <1>7, Zenon DEF Profitability
<1> HIDE DEF grosses, totals, balances, paids, forgivens, covers, owings
<1>9. /\ totals \in Seq(Int) /\ Len(totals) = n /\ balances \in Seq(Int) /\ Len(balances) = n
      /\ paids \in Seq(Int) /\ Len(paids) = n /\ forgivens \in Seq(Int) /\ Len(forgivens) = n
      /\ covers \in Seq(Int) /\ Len(covers) = n /\ owings \in Seq(Int) /\ Len(owings) = n
  <2> HIDE DEF n
  <2> QED BY <1>1, <1>5, AsColumn
<1>10. /\ Total(covers) = Total(paids) + Total(forgivens)
       /\ Total(totals) = Total(owings) + Total(covers)
       /\ Total(owings) <= Total(balances) /\ Total(balances) >= 0
  <2> HIDE DEF n
  <2>1. Total(covers) = Total(paids) + Total(forgivens)
    <3>1. \A i \in 1 .. Len(paids) : covers[i] = paids[i] + forgivens[i]
      BY <1>6, <1>9
    <3>2. Len(forgivens) = Len(paids) /\ Len(covers) = Len(paids)
      BY <1>9
    <3> QED BY <1>9, <3>1, <3>2, TotalPlus, Zenon
  <2>2. Total(totals) = Total(owings) + Total(covers)
    <3>1. \A i \in 1 .. Len(owings) : totals[i] = owings[i] + covers[i]
      BY <1>6, <1>9
    <3>2. Len(covers) = Len(owings) /\ Len(totals) = Len(owings)
      BY <1>9
    <3> QED BY <1>9, <3>1, <3>2, TotalPlus, Zenon
  <2>3. Total(owings) <= Total(balances)
    BY <1>6, <1>9, TotalOrder
  <2>4. Total(balances) >= 0
    BY <1>6, <1>9, TotalNat
  <2> QED BY <2>1, <2>2, <2>3, <2>4
<1>11. /\ Total(covers) \in Int /\ Total(paids) \in Int /\ Total(forgivens) \in Int
       /\ Total(totals) \in Int /\ Total(owings) \in Int /\ Total(balances) \in Int
  BY <1>9, TotalInt, Zenon
<1>12. Profitability(bills).outstanding = IF Total(owings) < 0 THEN 0 ELSE Total(owings)
  <2>1. Total(grosses) - Total(paids) - Total(forgivens) = Total(owings)
    BY <1>4, <1>10, <1>11
  <2> QED BY <1>8, <2>1 DEF Owed
<1>13. Profitability(bills).outstanding <= Total(balances)
  BY <1>10, <1>11, <1>12
<1>14. ASSUME ~ (\E i \in DOMAIN bills : Covered(bills[i].payments) > InvoiceTotal(bills[i]))
       PROVE  Profitability(bills).outstanding = Total(balances)
  <2>1. ASSUME NEW i \in 1 .. n PROVE balances[i] = owings[i]
    <3>1. Covered(bills[i].payments) <= InvoiceTotal(bills[i])
      <4>1. i \in DOMAIN bills
        BY <1>1
      <4>2. ~ (Covered(bills[i].payments) > InvoiceTotal(bills[i]))
        BY <1>14, <4>1, Zenon
      <4>3. Covered(bills[i].payments) \in Nat /\ InvoiceTotal(bills[i]) \in Nat
        BY <1>2
      <4> QED BY <4>2, <4>3
    <3> QED BY <1>6, <3>1
  <2>2. \A i \in 1 .. n : balances[i] = owings[i]
    BY <2>1
  <2>3. balances = owings
    <3> HIDE DEF n
    <3> QED BY <1>9, <2>2
  <2>4. Total(balances) = Total(owings)
    BY <2>3
  <2> QED BY <1>10, <1>11, <1>12, <2>4
<1> QED BY <1>4, <1>7, <1>8, <1>13, <1>14, Zenon DEF ReportAgrees

\* The invariant is all of the figures that ought to hold.
LEMMA FiguresFollow == FiguresInv => FiguresHold
  BY TypeFollows, ScreensFollow, ReviewFollows, SheetsFollow, PrintFollows, ReportFollows,
     Zenon DEF FiguresHold

-----------------------------------------------------------------------------
(* Every step keeps it.                                                    *)

LEMMA FiguresStart == FiguresInit => FiguresInv
<1> SUFFICES ASSUME FiguresInit PROVE FiguresInv
  OBVIOUS
<1>1. sheet \in SheetType
  BY DEF FiguresInit, NoSheet, SheetType
<1>2. bills = <<>> /\ offer = <<>>
  BY DEF FiguresInit
<1> QED BY <1>1, <1>2 DEF FiguresInv

LEMMA DraftKeeps ==
    ASSUME FiguresInv, NEW lines \in SheetsOf, DraftSheet(lines)
    PROVE  FiguresInv'
<1>1. lines \in Seq(ReviewLine)
  <2>1. PICK n \in 1 .. MaxBooked : lines \in [1 .. n -> SheetLines]
    BY DEF SheetsOf
  <2>2. SheetLines \subseteq ReviewLine /\ n \in Nat
    BY FiguresAssumption
  <2> QED BY <2>1, <2>2
<1>2. sheet' \in SheetType /\ bills' = bills /\ offer' = offer
  BY <1>1 DEF DraftSheet, SheetType
<1> QED BY <1>2 DEF FiguresInv

LEMMA ReviseKeeps ==
    ASSUME FiguresInv, NEW i \in DOMAIN sheet.lines, NEW line \in ReviewLine, Revise(i, line)
    PROVE  FiguresInv'
<1>1. sheet.lines \in Seq(ReviewLine) /\ sheet \in SheetType
  BY DEF FiguresInv, SheetType
<1>2. [sheet.lines EXCEPT ![i] = line] \in Seq(ReviewLine)
  BY <1>1
<1>3. sheet' = [sheet EXCEPT !.lines = [sheet.lines EXCEPT ![i] = line]]
  BY DEF Revise
<1>4. sheet' \in SheetType /\ bills' = bills /\ offer' = offer
  BY <1>1, <1>2, <1>3 DEF Revise, SheetType
<1> QED BY <1>4 DEF FiguresInv

LEMMA ReviewKeeps ==
    ASSUME FiguresInv, NEW i \in DOMAIN sheet.lines,
           ExcludeLine(i) \/ RestoreLine(i) \/ (\E a \in Agreed : AdjustLine(i, a))
    PROVE  FiguresInv'
<1>1. sheet.lines[i] \in ReviewLine
  <2>1. sheet.lines \in Seq(ReviewLine)
    BY DEF FiguresInv, SheetType
  <2> QED BY <2>1
<1>2. CASE ExcludeLine(i)
  <2>1. [sheet.lines[i] EXCEPT !.excluded = TRUE] \in ReviewLine
    BY <1>1 DEF ReviewLine
  <2> QED BY <1>2, <2>1, ReviseKeeps DEF ExcludeLine
<1>3. CASE RestoreLine(i)
  <2>1. [sheet.lines[i] EXCEPT !.excluded = FALSE] \in ReviewLine
    BY <1>1 DEF ReviewLine
  <2> QED BY <1>3, <2>1, ReviseKeeps DEF RestoreLine
<1>4. ASSUME NEW a \in Agreed, AdjustLine(i, a) PROVE FiguresInv'
  <2>1. [sheet.lines[i] EXCEPT !.adjustedTo = a] \in ReviewLine
    BY <1>1 DEF ReviewLine
  <2> QED BY <1>4, <2>1, ReviseKeeps DEF AdjustLine
<1> QED BY <1>2, <1>3, <1>4

LEMMA ApproveKeeps == ASSUME FiguresInv, ApproveSheet PROVE FiguresInv'
<1>1. sheet' \in SheetType /\ bills' = bills /\ offer' = offer
  BY DEF ApproveSheet, FiguresInv, SheetType
<1> QED BY <1>1 DEF FiguresInv

\* What a line is printed as is a quantity and a rate.
LEMMA PrintedType ==
    ASSUME NEW l \in ReviewLine
    PROVE  PrintedAs(l).quantity \in Int /\ PrintedAs(l).rate \in Int
<1> DEFINE centi == MathRound(l.worked * 100, Hour)
<1>1. l.worked \in Nat /\ l.price \in Nat /\ LineAmount(l) \in Nat
  BY LineIs DEF ReviewLine
<1>2. centi \in Int
  <2>1. l.worked * 100 \in Nat
    BY <1>1
  <2> QED BY <2>1, Rounded DEF Hour
<1> HIDE DEF centi
<1>3. \/ PrintedAs(l) = [quantity |-> 100, rate |-> LineAmount(l)]
      \/ PrintedAs(l) = [quantity |-> 100, rate |-> l.price]
      \/ PrintedAs(l) = [quantity |-> centi, rate |-> l.price]
  BY DEF PrintedAs, centi
<1> QED BY <1>1, <1>2, <1>3

LEMMA BillKeeps == ASSUME FiguresInv, NEW v \in VatRates, Bill(v) PROVE FiguresInv'
<1> DEFINE kept == Billable(sheet.lines)
           lines == [i \in DOMAIN kept |-> [amount |-> LineAmount(kept[i]),
                                           quantity |-> PrintedAs(kept[i]).quantity,
                                           rate |-> PrintedAs(kept[i]).rate,
                                           ofLine |-> kept[i]]]
           raised == [lines |-> lines, vatBasisPoints |-> v, booked |-> Len(sheet.lines),
                      payments |-> <<>>, settlement |-> "issued"]
<1>1. sheet \in SheetType /\ sheet.lines \in Seq(ReviewLine) /\ bills \in Seq(RaisedInvoice)
      /\ \A i \in DOMAIN bills : CopiedOK(bills[i]) /\ SettledOK(bills[i])
  BY DEF FiguresInv, SheetType
<1>2. bills' = Append(bills, raised) /\ sheet' = [sheet EXCEPT !.state = "invoiced"] /\ offer' = offer
  BY Zenon DEF Bill
<1>3. kept \in Seq(Copied)
  BY <1>1, BillableIs
<1> HIDE DEF kept
<1>4. ASSUME NEW i \in DOMAIN kept
      PROVE  /\ kept[i] \in ReviewLine /\ ~ kept[i].excluded
             /\ LineAmount(kept[i]) \in Nat
             /\ PrintedAs(kept[i]).quantity \in Int /\ PrintedAs(kept[i]).rate \in Int
  <2>1. kept[i] \in Copied
    BY <1>3
  <2>2. kept[i] \in ReviewLine /\ ~ kept[i].excluded
    BY <2>1 DEF Copied
  <2> QED BY <2>2, LineIs, PrintedType, Zenon
<1>5. lines \in Seq(BilledLine)
  <2>1. DOMAIN kept = 1 .. Len(kept) /\ Len(kept) \in Nat
    BY <1>3
  <2>2. ASSUME NEW i \in DOMAIN kept
        PROVE  [amount |-> LineAmount(kept[i]), quantity |-> PrintedAs(kept[i]).quantity,
                rate |-> PrintedAs(kept[i]).rate, ofLine |-> kept[i]] \in BilledLine
    BY <1>4 DEF BilledLine
  <2>3. lines \in [1 .. Len(kept) -> BilledLine]
    BY <2>1, <2>2, Zenon
  <2> HIDE DEF lines
  <2> QED BY <2>1, <2>3
<1>6. ASSUME NEW j \in DOMAIN lines
      PROVE  /\ ~ lines[j].ofLine.excluded
             /\ lines[j].amount = LineAmount(lines[j].ofLine)
             /\ lines[j].quantity = PrintedAs(lines[j].ofLine).quantity
             /\ lines[j].rate = PrintedAs(lines[j].ofLine).rate
  <2>1. j \in DOMAIN kept
    BY Zenon
  <2>2. lines[j] = [amount |-> LineAmount(kept[j]), quantity |-> PrintedAs(kept[j]).quantity,
                    rate |-> PrintedAs(kept[j]).rate, ofLine |-> kept[j]]
    BY <2>1, Zenon
  <2> HIDE DEF lines
  <2>3. /\ lines[j].ofLine = kept[j] /\ lines[j].amount = LineAmount(kept[j])
        /\ lines[j].quantity = PrintedAs(kept[j]).quantity /\ lines[j].rate = PrintedAs(kept[j]).rate
    BY <2>2
  <2> QED BY <1>4, <2>1, <2>3
<1> HIDE DEF lines
<1>7. raised \in RaisedInvoice
  <2>1. Len(sheet.lines) \in Nat /\ <<>> \in Seq(Receivable)
    BY <1>1
  <2> QED BY <1>5, <2>1 DEF RaisedInvoice
<1>8. CopiedOK(raised) /\ SettledOK(raised)
  <2>1. raised.lines = lines /\ raised.payments = <<>> /\ raised.settlement = "issued"
    OBVIOUS
  <2> HIDE DEF raised
  <2> QED BY <1>6, <2>1 DEF CopiedOK, SettledOK
<1> HIDE DEF raised
<1>9. bills' \in Seq(RaisedInvoice)
      /\ \A i \in DOMAIN bills' : CopiedOK(bills'[i]) /\ SettledOK(bills'[i])
  <2>1. bills' \in Seq(RaisedInvoice) /\ DOMAIN bills' = 1 .. Len(bills) + 1 /\ DOMAIN bills = 1 .. Len(bills)
    BY <1>1, <1>2, <1>7
  <2>2. ASSUME NEW i \in DOMAIN bills' PROVE CopiedOK(bills'[i]) /\ SettledOK(bills'[i])
    <3>1. CASE i \in 1 .. Len(bills)
      <4>1. bills'[i] = bills[i]
        BY <1>1, <1>2, <3>1
      <4> QED BY <1>1, <2>1, <3>1, <4>1
    <3>2. CASE i = Len(bills) + 1
      <4>1. bills'[i] = raised
        BY <1>1, <1>2, <3>2
      <4> QED BY <1>8, <4>1
    <3> QED BY <1>1, <2>1, <3>1, <3>2
  <2> QED BY <2>1, <2>2
<1>10. sheet' \in SheetType
  BY <1>1, <1>2 DEF SheetType
<1>11. offer' \in Seq(QuotedLine)
  BY <1>2 DEF FiguresInv
<1> QED BY <1>9, <1>10, <1>11 DEF FiguresInv

\* A paid invoice is one that its payments cover.
LEMMA PaidIs ==
    ASSUME NEW b \in RaisedInvoice
    PROVE  SettledBy(b.payments, InvoiceTotal(b)) <=> InvoiceBalance(b) = 0
<1>1. InvoiceTotal(b) \in Nat /\ Covered(b.payments) \in Nat
  BY InvoiceReads, Zenon
<1> QED BY <1>1 DEF SettledBy, InvoiceBalance, Owed

LEMMA PaymentKeeps ==
    ASSUME FiguresInv, NEW i \in DOMAIN bills, NEW p \in Receivable, RecordPayment(i, p)
    PROVE  FiguresInv'
<1> DEFINE b == bills[i]
           payments == Append(b.payments, p)
           settlement == IF SettledBy(payments, InvoiceTotal(b)) THEN "paid" ELSE "part_paid"
           paid == [b EXCEPT !.payments = payments]
           now == [paid EXCEPT !.settlement = settlement]
<1>1. bills \in Seq(RaisedInvoice) /\ b \in RaisedInvoice
      /\ \A k \in DOMAIN bills : CopiedOK(bills[k]) /\ SettledOK(bills[k])
  BY DEF FiguresInv
<1>2. bills' = [bills EXCEPT ![i] = now] /\ sheet' = sheet /\ offer' = offer
  <2>1. bills' = [bills EXCEPT ![i] = [b EXCEPT !.payments = payments, !.settlement = settlement]]
        /\ sheet' = sheet /\ offer' = offer
    BY Zenon DEF RecordPayment
  <2> QED BY <2>1, Zenon
<1>3. payments \in Seq(Receivable) /\ payments # <<>>
  <2>1. b.payments \in Seq(Receivable)
    BY <1>1 DEF RaisedInvoice
  <2> QED BY <2>1
<1>4. settlement \in {"part_paid", "paid"} /\ (settlement = "paid" <=> SettledBy(payments, InvoiceTotal(b)))
  <2> HIDE DEF payments, b
  <2> QED OBVIOUS
<1> HIDE DEF payments, settlement, b
<1>5. /\ paid \in RaisedInvoice /\ paid.payments = payments /\ paid.lines = b.lines
      /\ paid.vatBasisPoints = b.vatBasisPoints
  BY <1>1, <1>3 DEF RaisedInvoice
<1> HIDE DEF paid
<1>6. /\ now \in RaisedInvoice /\ now.payments = payments /\ now.lines = b.lines
      /\ now.vatBasisPoints = b.vatBasisPoints /\ now.settlement = settlement
  BY <1>4, <1>5 DEF RaisedInvoice
<1> HIDE DEF now
<1>7. InvoiceTotal(now) = InvoiceTotal(b)
  <2>1. InvoiceNet(now) = InvoiceNet(b)
    BY <1>6, Zenon DEF InvoiceNet, Added
  <2> QED BY <1>6, <2>1 DEF InvoiceTotal, InvoiceVat
<1>8. CopiedOK(now) /\ SettledOK(now)
  <2>1. CopiedOK(b)
    BY <1>1 DEF b
  <2>2. CopiedOK(now)
    BY <1>6, <2>1 DEF CopiedOK
  <2>3. SettledBy(now.payments, InvoiceTotal(now)) <=> InvoiceBalance(now) = 0
    BY <1>6, PaidIs
  <2>4. SettledOK(now)
    BY <1>3, <1>4, <1>6, <1>7, <2>3 DEF SettledOK
  <2> QED BY <2>2, <2>4
<1>9. bills' \in Seq(RaisedInvoice)
      /\ \A k \in DOMAIN bills' : CopiedOK(bills'[k]) /\ SettledOK(bills'[k])
  <2>1. bills' \in Seq(RaisedInvoice) /\ DOMAIN bills' = DOMAIN bills
    BY <1>1, <1>2, <1>6
  <2>2. ASSUME NEW k \in DOMAIN bills' PROVE CopiedOK(bills'[k]) /\ SettledOK(bills'[k])
    <3>1. CASE k = i
      <4>1. bills'[k] = now
        BY <1>2, <3>1
      <4> QED BY <1>8, <4>1
    <3>2. CASE k # i
      <4>1. bills'[k] = bills[k] /\ k \in DOMAIN bills
        BY <1>2, <2>1, <3>2
      <4> QED BY <1>1, <4>1
    <3> QED BY <3>1, <3>2
  <2> QED BY <2>1, <2>2
<1>10. sheet' \in SheetType /\ offer' \in Seq(QuotedLine)
  BY <1>2 DEF FiguresInv
<1> QED BY <1>9, <1>10 DEF FiguresInv

LEMMA OfferKeeps ==
    ASSUME FiguresInv, OfferNext
    PROVE  FiguresInv'
<1>1. offer \in Seq(QuotedLine)
  BY DEF FiguresInv
<1>2. ASSUME NEW o \in OfferLines, AddOfferLine(o) PROVE FiguresInv'
  <2>1. o \in QuotedLine
    BY <1>2 DEF AddOfferLine, QuotedLine
  <2>2. offer' = Append(offer, o) /\ sheet' = sheet /\ bills' = bills
    BY <1>2 DEF AddOfferLine
  <2>3. offer' \in Seq(QuotedLine)
    BY <1>1, <2>1, <2>2
  <2> QED BY <2>2, <2>3 DEF FiguresInv
<1>3. ASSUME NEW i \in DOMAIN offer, RemoveOfferLine(i) PROVE FiguresInv'
  <2>1. offer' = SubSeq(offer, 1, i - 1) \o SubSeq(offer, i + 1, Len(offer))
        /\ sheet' = sheet /\ bills' = bills
    BY <1>3 DEF RemoveOfferLine, RemoveAt
  <2>2. i \in 1 .. Len(offer)
    BY <1>1
  <2>3. SubSeq(offer, 1, i - 1) \in Seq(QuotedLine)
    BY <1>1, <2>2
  <2>4. SubSeq(offer, i + 1, Len(offer)) \in Seq(QuotedLine)
    BY <1>1, <2>2
  <2>5. offer' \in Seq(QuotedLine)
    BY <2>1, <2>3, <2>4
  <2> QED BY <2>1, <2>5 DEF FiguresInv
<1> QED BY <1>2, <1>3, Zenon DEF OfferNext

LEMMA FiguresStep == FiguresInv /\ [BillsNext \/ OfferNext]_figuresVars => FiguresInv'
<1> SUFFICES ASSUME FiguresInv, [BillsNext \/ OfferNext]_figuresVars PROVE FiguresInv'
  OBVIOUS
<1>1. CASE BillsNext
  <2>1. CASE \E lines \in SheetsOf : DraftSheet(lines)
    BY <2>1, DraftKeeps, Zenon
  <2>2. CASE \E i \in DOMAIN sheet.lines : \/ ExcludeLine(i) \/ RestoreLine(i)
                                          \/ \E a \in Agreed : AdjustLine(i, a)
    BY <2>2, ReviewKeeps, Zenon
  <2>3. CASE ApproveSheet
    BY <2>3, ApproveKeeps
  <2>4. CASE \E v \in VatRates : Bill(v)
    BY <2>4, BillKeeps, Zenon
  <2>5. CASE \E i \in DOMAIN bills, p \in Receivable : RecordPayment(i, p)
    BY <2>5, PaymentKeeps, Zenon
  <2> QED BY <1>1, <2>1, <2>2, <2>3, <2>4, <2>5, Zenon DEF BillsNext
<1>2. CASE OfferNext
  BY <1>2, OfferKeeps
<1>3. CASE UNCHANGED figuresVars
  <2>1. sheet' = sheet /\ bills' = bills /\ offer' = offer
    BY <1>3 DEF figuresVars
  <2> QED BY <2>1 DEF FiguresInv
<1> QED BY <1>1, <1>2, <1>3

\* For every line a statement may have, every rate of VAT, payment and line of an
\* offer: the screens, the sheets and the report agree with the domain.
THEOREM FiguresHoldForAny == FiguresSpec => []FiguresHold
<1>1. FiguresInv => FiguresHold
  BY FiguresFollow
<1> QED BY <1>1, FiguresStart, FiguresStep, PTL DEF FiguresSpec

=============================================================================
