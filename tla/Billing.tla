------------------------------- MODULE Billing -------------------------------
(***************************************************************************)
(* From recorded hours to an invoice (packages/modules/billing), together  *)
(* with the two operations of time tracking that write the same rows       *)
(* (ApproveTime, TimerService.confirm). One client.                        *)
(*                                                                         *)
(* Every operation of billing is one READ COMMITTED transaction that loads *)
(* an aggregate, decides over the copy and writes the copy back; time      *)
(* tracking does the same with no transaction at all. So each operation is *)
(* two steps, the read with its refusals and the write with its commit,    *)
(* and whatever the others commit in between is what the copy has missed.  *)
(* A refused operation changes nothing and is a stuttering step. Taking an *)
(* invoice number is a third step, because it locks the row it increments. *)
(*                                                                         *)
(* Operators named Mut... are faulty variants of the definition that       *)
(* follows them; no behaviour of the model uses one.                       *)
(***************************************************************************)
EXTENDS Integers, FiniteSets

CONSTANTS
    Entries,      \* time entries: billable, finished, on the client's projects
    Line,         \* Line[e]: the grouping key e is billed under
    Fees,         \* keys that are an agreed fee: a fixed project, a month's retainer
    Flagged,      \* entries recorded with a review_reason
    Periods,      \* the entries a requested period can cover
    Statements,   \* statement ids
    None,         \* NULL
    Clerks,       \* requests being served at once
    Guarded,      \* TRUE: operations that would conflict are never in flight together
    MaxInvoices   \* bound on the numbers issued

ASSUME BillingAssumption ==
    /\ DOMAIN Line = Entries
    /\ Flagged \subseteq Entries
    /\ Periods \subseteq SUBSET Entries
    /\ None \notin Statements \cup Entries \cup Clerks
    /\ Guarded \in BOOLEAN
    /\ MaxInvoices \in Nat

VARIABLES
    \* table time_entries
    recorded,     \* the rows
    approved,     \* approved_at is set
    reviewed,     \* reviewed_at is set
    on,           \* the statement of statement_line_id (its line is Line[e])
    \* tables statements and statement_lines
    state,        \* "none" until the row exists
    carries,      \* the entries whose seconds its lines were made from
    excluded,     \* the keys of the lines taken off
    \* tables invoices, invoice_lines and document_numbers
    invoiceOf,    \* statement_id, by invoice number
    billed,       \* the keys of the lines copied onto the invoice
    nextNumber,   \* next_value, as committed
    numberLock,   \* the request whose transaction has incremented next_value
    \* the request of each clerk: where it is and what it has in memory
    pc,
    target,       \* the statement it works on
    item,         \* the time entry it works on
    linesCopy,    \* the excluded lines of its Statement object
    entriesCopy,  \* entryIds of its Statement object, or the work it is to bill
    approvedCopy, \* requests whose TimeEntry object is approved
    reviewedCopy, \* requests whose TimeEntry object is reviewed
    number        \* the invoice number it was given

timeVars == <<recorded, approved, reviewed, on>>
statementVars == <<state, carries, excluded>>
invoiceVars == <<invoiceOf, billed, nextNumber>>
entryCopies == <<item, approvedCopy, reviewedCopy>>
statementCopies == <<target, linesCopy, entriesCopy>>
requestVars == <<pc, entryCopies, statementCopies, number>>
vars == <<timeVars, statementVars, invoiceVars, numberLock, requestVars>>

-----------------------------------------------------------------------------
(* Reading the tables *)

MutUnbilled(e) == e \in recorded /\ e \in approved

\* unbilledWork: approved, billable, finished and not already on a statement.
\* Nothing here asks whether a flagged entry was reviewed.
Unbilled(e) == e \in recorded /\ e \in approved /\ on[e] = None

Keys == {Line[e] : e \in Entries}
LinesOf(s) == {Line[e] : e \in carries[s]}

\* findById: the entries behind a statement are those attached to it now, not
\* those its lines were made from.
EntryIds(s) == {e \in Entries : on[e] = s}

Idle(c) == pc[c] = "idle"
AtStatement == {"revising", "approving", "releasing", "raising", "numbered"}

\* With Guarded, two operations on one statement are not in flight together,
\* nor two generations, nor a generation and a change to a time entry.
StatementFree(s) ==
    Guarded => \A d \in Clerks : pc[d] \in AtStatement => target[d] # s
NoGeneration == \A d \in Clerks : pc[d] # "generating"
GenerationFree == Guarded => NoGeneration /\ \A d \in Clerks : pc[d] # "entry"
EntryFree(e) ==
    Guarded => NoGeneration /\ \A d \in Clerks : pc[d] = "entry" => item[d] # e

\* The request ends, and what it had in memory is gone.
Forget(c) ==
    /\ pc' = [pc EXCEPT ![c] = "idle"]
    /\ target' = [target EXCEPT ![c] = None]
    /\ item' = [item EXCEPT ![c] = None]
    /\ linesCopy' = [linesCopy EXCEPT ![c] = {}]
    /\ entriesCopy' = [entriesCopy EXCEPT ![c] = {}]
    /\ approvedCopy' = approvedCopy \ {c}
    /\ reviewedCopy' = reviewedCopy \ {c}
    /\ number' = [number EXCEPT ![c] = 0]

-----------------------------------------------------------------------------
(* Time entries *)

\* A timer stops or a manual entry is made; its time may be in any period.
Record(e) ==
    /\ e \notin recorded
    /\ recorded' = recorded \cup {e}
    /\ UNCHANGED <<approved, reviewed, on, statementVars, invoiceVars,
                   numberLock, requestVars>>

ReadEntry(c, e) ==
    /\ Idle(c)
    /\ EntryFree(e)
    /\ e \in recorded
    /\ on[e] = None                  \* isLocked refuses
    /\ pc' = [pc EXCEPT ![c] = "entry"]
    /\ item' = [item EXCEPT ![c] = e]
    /\ UNCHANGED <<timeVars, statementVars, invoiceVars, numberLock,
                   statementCopies, number>>

\* ApproveTime: findById, then TimeEntry.approve on the copy. It refuses time
\* on a statement and nothing else.
ReadToApprove(c, e) ==
    /\ ReadEntry(c, e)
    /\ approvedCopy' = approvedCopy \cup {c}
    /\ reviewedCopy' = IF e \in reviewed THEN reviewedCopy \cup {c} ELSE reviewedCopy

\* confirm: awaitingReview, then TimeEntry.confirm on the copy.
ReadToConfirm(c, e) ==
    /\ ReadEntry(c, e)
    /\ e \in Flagged \ reviewed
    /\ reviewedCopy' = reviewedCopy \cup {c}
    /\ approvedCopy' = IF e \in approved THEN approvedCopy \cup {c} ELSE approvedCopy

\* entries.save writes every column of the copy, statement_line_id among them,
\* which was NULL when the copy was read. The trigger time_entries_stay_put
\* lets any write through that leaves it NULL.
SaveEntry(c) ==
    /\ pc[c] = "entry"
    /\ LET e == item[c]
       IN  /\ approved' = IF c \in approvedCopy THEN approved \cup {e} ELSE approved \ {e}
           /\ reviewed' = IF c \in reviewedCopy THEN reviewed \cup {e} ELSE reviewed \ {e}
           /\ on' = [on EXCEPT ![e] = None]
    /\ Forget(c)
    /\ UNCHANGED <<recorded, statementVars, invoiceVars, numberLock>>

-----------------------------------------------------------------------------
(* GenerateStatement *)

ReadUnbilled(c) ==
    /\ Idle(c)
    /\ GenerationFree
    /\ \E P \in Periods :
          LET work == {e \in P : Unbilled(e)}
          IN  /\ work # {}
              /\ entriesCopy' = [entriesCopy EXCEPT ![c] = work]
    /\ pc' = [pc EXCEPT ![c] = "generating"]
    /\ UNCHANGED <<timeVars, statementVars, invoiceVars, numberLock,
                   entryCopies, target, linesCopy, number>>

MutAttachRefused(E) == FALSE

\* CHECK time_entries_billed_was_approved, for the rows attach() would change.
AttachRefused(E) == \E e \in E : on[e] = None /\ e \notin approved

\* The statement and its lines are inserted, then attach() sets
\* statement_line_id WHERE it IS NULL: an entry another statement took in the
\* meantime is silently passed over, and its seconds stay on the new line.
DraftStatement(c) ==
    /\ pc[c] = "generating"
    /\ ~ AttachRefused(entriesCopy[c])
    /\ \E s \in Statements :
          /\ state[s] = "none"
          /\ state' = [state EXCEPT ![s] = "draft"]
          /\ carries' = [carries EXCEPT ![s] = entriesCopy[c]]
          /\ on' = [e \in Entries |->
                       IF e \in entriesCopy[c] /\ on[e] = None THEN s ELSE on[e]]
    /\ Forget(c)
    /\ UNCHANGED <<recorded, approved, reviewed, excluded, invoiceVars, numberLock>>

-----------------------------------------------------------------------------
(* The review: exclude, restore, approve. An adjustment changes a line the *)
(* way an exclusion does, for a different amount, and is not told apart.   *)

\* findById into the memory of c, with the lines the operation leaves excluded.
Load(c, s, label, lines) ==
    /\ Idle(c)
    /\ StatementFree(s)
    /\ pc' = [pc EXCEPT ![c] = label]
    /\ target' = [target EXCEPT ![c] = s]
    /\ linesCopy' = [linesCopy EXCEPT ![c] = lines]
    /\ entriesCopy' = [entriesCopy EXCEPT ![c] = EntryIds(s)]
    /\ UNCHANGED <<timeVars, statementVars, invoiceVars, numberLock,
                   entryCopies, number>>

ReadToExclude(c, s, k) ==
    /\ state[s] = "draft"
    /\ k \in LinesOf(s)
    /\ Load(c, s, "revising", excluded[s] \cup {k})

ReadToRestore(c, s, k) ==
    /\ state[s] = "draft"
    /\ k \in excluded[s]
    /\ Load(c, s, "revising", excluded[s] \ {k})

MutLinesToApprove(s) == {}

LinesToApprove(s) == excluded[s]

\* total() is not zero: some line is left on.
ReadToApproveStatement(c, s) ==
    /\ state[s] = "draft"
    /\ LinesOf(s) \ excluded[s] # {}
    /\ Load(c, s, "approving", LinesToApprove(s))

\* statements.save: the state and every line of the copy, with no look at what
\* the row holds now.
Save(c, st) ==
    /\ state' = [state EXCEPT ![target[c]] = st]
    /\ excluded' = [excluded EXCEPT ![target[c]] = linesCopy[c]]
    /\ Forget(c)
    /\ UNCHANGED carries

SaveRevised(c) ==
    /\ pc[c] = "revising"
    /\ Save(c, "draft")
    /\ UNCHANGED <<timeVars, invoiceVars, numberLock>>

SaveApproved(c) ==
    /\ pc[c] = "approving"
    /\ Save(c, "approved")
    /\ UNCHANGED <<timeVars, invoiceVars, numberLock>>

-----------------------------------------------------------------------------
(* ReleaseFromStatement *)

MutReleasable(s) == state[s] # "none"

\* Refused once invoiced. (cancel() has no objection to a cancelled statement,
\* but one has no entries left.)
Releasable(s) == state[s] \notin {"none", "invoiced"}

ReadToRelease(c, s) ==
    /\ Releasable(s)
    /\ EntryIds(s) # {}
    /\ Load(c, s, "releasing", excluded[s])

MutFreed(c) == {e \in entriesCopy[c] : Line[e] \notin linesCopy[c]}

\* release() frees the entries it was given, whatever they are on by now.
Freed(c) == entriesCopy[c]

MutAfterReleasing == "draft"

\* cancel
AfterReleasing == "cancelled"

SaveReleased(c) ==
    /\ pc[c] = "releasing"
    /\ on' = [e \in Entries |-> IF e \in Freed(c) THEN None ELSE on[e]]
    /\ Save(c, AfterReleasing)
    /\ UNCHANGED <<recorded, approved, reviewed, invoiceVars, numberLock>>

-----------------------------------------------------------------------------
(* RaiseInvoice *)

ReadToRaise(c, s) ==
    /\ state[s] = "approved"
    /\ LinesOf(s) \ excluded[s] # {}
    /\ Load(c, s, "raising", excluded[s])

MutNumberFree == TRUE

\* The row of document_numbers is locked until the transaction that
\* incremented it ends.
NumberFree == numberLock = None

TakeNumber(c) ==
    /\ pc[c] = "raising"
    /\ NumberFree
    /\ nextNumber <= MaxInvoices
    /\ numberLock' = c
    /\ number' = [number EXCEPT ![c] = nextNumber]
    /\ pc' = [pc EXCEPT ![c] = "numbered"]
    /\ UNCHANGED <<timeVars, statementVars, invoiceVars, entryCopies,
                   statementCopies>>

MutAfterRaising == "approved"

\* markInvoiced
AfterRaising == "invoiced"

RaiseInvoice(c) ==
    /\ pc[c] = "numbered"
    /\ invoiceOf' = [invoiceOf EXCEPT ![number[c]] = target[c]]
    /\ billed' = [billed EXCEPT ![number[c]] = LinesOf(target[c]) \ linesCopy[c]]
    /\ nextNumber' = nextNumber + 1
    /\ numberLock' = None
    /\ Save(c, AfterRaising)
    /\ UNCHANGED timeVars

-----------------------------------------------------------------------------
\* The request fails or the process dies before its commit: the transaction is
\* rolled back, and its increment of next_value with it.
Abandon(c) ==
    /\ ~ Idle(c)
    /\ Forget(c)
    /\ numberLock' = IF numberLock = c THEN None ELSE numberLock
    /\ UNCHANGED <<timeVars, statementVars, invoiceVars>>

Init ==
    /\ recorded = {} /\ approved = {} /\ reviewed = {}
    /\ on = [e \in Entries |-> None]
    /\ state = [s \in Statements |-> "none"]
    /\ carries = [s \in Statements |-> {}]
    /\ excluded = [s \in Statements |-> {}]
    /\ invoiceOf = [n \in 1 .. MaxInvoices |-> None]
    /\ billed = [n \in 1 .. MaxInvoices |-> {}]
    /\ nextNumber = 1
    /\ numberLock = None
    /\ pc = [c \in Clerks |-> "idle"]
    /\ target = [c \in Clerks |-> None]
    /\ item = [c \in Clerks |-> None]
    /\ linesCopy = [c \in Clerks |-> {}]
    /\ entriesCopy = [c \in Clerks |-> {}]
    /\ approvedCopy = {} /\ reviewedCopy = {}
    /\ number = [c \in Clerks |-> 0]

Read(c) ==
    \/ \E e \in Entries : ReadToApprove(c, e) \/ ReadToConfirm(c, e)
    \/ ReadUnbilled(c)
    \/ \E s \in Statements :
          \/ \E k \in Keys : ReadToExclude(c, s, k) \/ ReadToRestore(c, s, k)
          \/ ReadToApproveStatement(c, s)
          \/ ReadToRelease(c, s)
          \/ ReadToRaise(c, s)

Write(c) ==
    \/ SaveEntry(c)
    \/ DraftStatement(c)
    \/ SaveRevised(c)
    \/ SaveApproved(c)
    \/ SaveReleased(c)
    \/ TakeNumber(c)
    \/ RaiseInvoice(c)

Next ==
    \/ \E e \in Entries : Record(e)
    \/ \E c \in Clerks : Read(c) \/ Write(c) \/ Abandon(c)

Spec == Init /\ [][Next]_vars

-----------------------------------------------------------------------------
(* Properties *)

States == {"none", "draft", "approved", "invoiced", "cancelled"}
Labels == {"idle", "entry", "generating"} \cup AtStatement
Issued == {n \in 1 .. MaxInvoices : invoiceOf[n] # None}

\* Types of the tables and of what the requests have in memory.
TypeOK ==
    /\ recorded \subseteq Entries
    /\ approved \subseteq recorded
    /\ reviewed \subseteq Flagged
    /\ on \in [Entries -> Statements \cup {None}]
    /\ state \in [Statements -> States]
    /\ carries \in [Statements -> SUBSET Entries]
    /\ excluded \in [Statements -> SUBSET Keys]
    /\ invoiceOf \in [1 .. MaxInvoices -> Statements \cup {None}]
    /\ billed \in [1 .. MaxInvoices -> SUBSET Keys]
    /\ nextNumber \in 1 .. MaxInvoices + 1
    /\ numberLock \in Clerks \cup {None}
    /\ pc \in [Clerks -> Labels]
    /\ target \in [Clerks -> Statements \cup {None}]
    /\ item \in [Clerks -> Entries \cup {None}]
    /\ linesCopy \in [Clerks -> SUBSET Keys]
    /\ entriesCopy \in [Clerks -> SUBSET Entries]
    /\ approvedCopy \subseteq Clerks
    /\ reviewedCopy \subseteq Clerks
    /\ number \in [Clerks -> 0 .. MaxInvoices]

\* The numbers of the invoices are one unbroken run, whatever requests race
\* for them or are rolled back holding one.
NumbersGapless ==
    /\ nextNumber \in Nat
    /\ Issued = 1 .. nextNumber - 1

\* A cancelled statement holds no hours: cancelling frees all of them, also
\* when another request writes the same rows.
CancelledHoldsNothing ==
    \A e \in Entries : on[e] # None => state[on[e]] # "cancelled"

\* Only approved time is on a statement, although approve and confirm write
\* approved_at from copies (time_entries_billed_was_approved).
OnlyApprovedBilled == \A e \in Entries : on[e] # None => e \in approved

\* The hours an invoice asks money for.
HoursOn(n) == {e \in carries[invoiceOf[n]] : Line[e] \in billed[n]}

\* No hour is on two invoices.
HoursBilledOnce ==
    \A m, n \in Issued : m # n => HoursOn(m) \cap HoursOn(n) = {}

\* No agreed fee is on two invoices.
FeeBilledOnce ==
    \A m, n \in Issued : m # n => billed[m] \cap billed[n] \cap Fees = {}

\* A statement is invoiced once.
OneInvoicePerStatement ==
    \A m, n \in Issued : invoiceOf[m] = invoiceOf[n] => m = n

\* Live statements share no hours: what one was made from is attached to it.
Live(s) == state[s] \in {"draft", "approved", "invoiced"}
CarriedOnce ==
    \A s, t \in Statements :
        s # t /\ Live(s) /\ Live(t) => carries[s] \cap carries[t] = {}

\* The recorded hours behind every invoice stay attached to its statement, and
\* the statement stays invoiced.
InvoiceBacked ==
    \A n \in Issued :
        /\ state[invoiceOf[n]] = "invoiced"
        /\ \A e \in HoursOn(n) : on[e] = invoiceOf[n]

\* Time on a statement is read-only: it leaves the statement in the step that
\* cancels the statement and in no other.
ReleasedOnlyByCancelling ==
    [][\A e \in Entries :
          on[e] # None /\ on'[e] # on[e]
              => on'[e] = None /\ state'[on[e]] = "cancelled"]_vars

\* A line taken off a statement is put back by restore() only, and never after
\* the review: no other request's save undoes it.
ExclusionStands ==
    [][\A s \in Statements : \A k \in excluded[s] \ (excluded[s])' :
          state[s] = "draft" /\ \E c \in Clerks : pc[c] = "revising" /\ target[c] = s]_vars

\* The rows are well formed, the hours a live statement holds are approved ones, and a
\* cancelled statement holds none, although approvals are written back from copies.
HoldsWhatIsDue == TypeOK /\ OnlyApprovedBilled /\ CancelledHoldsNothing

\* From hours to invoices nothing is counted twice: not between live statements, not
\* between the invoices, and no statement is invoiced twice.
BilledOnce == HoursBilledOnce /\ CarriedOnce /\ OneInvoicePerStatement

\* What was decided about a statement stands: its hours stay on it until it is
\* cancelled, and a line taken off it comes back by restore() only.
DecisionsStand == ReleasedOnlyByCancelling /\ ExclusionStands
=============================================================================
