------------------------------ MODULE Settlement ------------------------------
(***************************************************************************)
(* What is still owed on one invoice (packages/modules/billing, settle-    *)
(* invoice.ts): payments recorded by people, and the sweep that marks it   *)
(* late. Each is a READ COMMITTED transaction that reads the invoice row,  *)
(* then its payments, decides over the copy and writes the copy back.      *)
(*                                                                         *)
(* A payment is an id; which sets of them cover the total, discounts       *)
(* counted, is the constant Covering. cancel() has no caller and is left   *)
(* out.                                                                    *)
(***************************************************************************)
EXTENDS Integers

CONSTANTS
    Payments,     \* payment ids: each is one request's amount and discount
    Covering,     \* the sets of payments that come to the invoice's total
    Cashiers,     \* requests and sweeps being served at once
    DueOn,        \* the invoice's due date
    LastDay,      \* bound on the calendar
    NoDay,        \* a NULL date
    NoPayment     \* no payment in memory

ASSUME SettlementAssumption ==
    /\ Covering \subseteq SUBSET Payments
    /\ \A P \in Covering, Q \in SUBSET Payments : P \subseteq Q => Q \in Covering
    /\ {} \notin Covering
    /\ NoPayment \notin Payments
    /\ DueOn \in Nat /\ LastDay \in Nat /\ NoDay \notin Nat

VARIABLES
    today,
    inTurn,         \* TRUE: operations on the invoice are never in flight together
    \* tables invoices and payments
    settlement,
    overdueSince,
    received,       \* the rows of payments
    \* each request: where it is, and the Invoice object it has in memory
    cashierAt,
    settlementCopy,
    overdueCopy,
    receivedCopy,
    paying,         \* the payment it is to record
    asOf            \* the sweep's "now"

invoiceRow == <<settlement, overdueSince, received>>
invoiceCopies == <<settlementCopy, overdueCopy, receivedCopy, paying, asOf>>
settlementVars == <<today, inTurn, invoiceRow, cashierAt, invoiceCopies>>

Days == 0 .. LastDay
Settlements == {"issued", "part_paid", "paid"}
Places == {"idle", "read", "recording", "marking"}

MayServe(c) ==
    /\ cashierAt[c] = "idle"
    /\ inTurn => \A d \in Cashiers : cashierAt[d] = "idle"

\* The invoice row, into the memory of c.
ReadInvoice(c, place) ==
    /\ MayServe(c)
    /\ cashierAt' = [cashierAt EXCEPT ![c] = place]
    /\ settlementCopy' = [settlementCopy EXCEPT ![c] = settlement]
    /\ overdueCopy' = [overdueCopy EXCEPT ![c] = overdueSince]
    /\ UNCHANGED <<today, inTurn, invoiceRow, receivedCopy>>

\* findById, for a payment nobody has recorded: every request has an id of its own.
ReadToPay(c, p) ==
    /\ ReadInvoice(c, "read")
    /\ p \notin received
    /\ \A d \in Cashiers : paying[d] # p
    /\ paying' = [paying EXCEPT ![c] = p]
    /\ UNCHANGED asOf

\* hydrate: a statement of its own, and what others committed since the row
\* was read is in it.
ReadPayments(c) ==
    /\ cashierAt[c] = "read"
    /\ cashierAt' = [cashierAt EXCEPT ![c] = "recording"]
    /\ receivedCopy' = [receivedCopy EXCEPT ![c] = received]
    /\ UNCHANGED <<today, inTurn, invoiceRow, settlementCopy, overdueCopy, paying, asOf>>

\* What it had in memory is gone.
EndRequest(c) ==
    /\ cashierAt' = [cashierAt EXCEPT ![c] = "idle"]
    /\ settlementCopy' = [settlementCopy EXCEPT ![c] = "issued"]
    /\ overdueCopy' = [overdueCopy EXCEPT ![c] = NoDay]
    /\ receivedCopy' = [receivedCopy EXCEPT ![c] = {}]
    /\ paying' = [paying EXCEPT ![c] = NoPayment]
    /\ asOf' = [asOf EXCEPT ![c] = 0]
    /\ UNCHANGED <<today, inTurn>>

\* recordPayment decides over the payments it has read, its own included.
AfterPayment(c) == receivedCopy[c] \cup {paying[c]}

MutStored(c) == AfterPayment(c)

\* save: payments are inserted ON CONFLICT DO NOTHING, so those another request
\* stored meanwhile stay.
Stored(c) == received \cup AfterPayment(c)

MutSettles(c) == AfterPayment(c) # {}
MutSettlesBefore(c) == receivedCopy[c] \in Covering

Settles(c) == AfterPayment(c) \in Covering

MutOverdueAfterPayment(c) == NoDay

\* Settling clears the lateness, and a part payment keeps it.
OverdueAfterPayment(c) == IF Settles(c) THEN NoDay ELSE overdueCopy[c]

RecordPayment(c) ==
    /\ cashierAt[c] = "recording"
    /\ received' = Stored(c)
    /\ settlement' = IF Settles(c) THEN "paid" ELSE "part_paid"
    /\ overdueSince' = OverdueAfterPayment(c)
    /\ EndRequest(c)

MutLate == settlement \in {"issued", "part_paid"}

\* lateAsOf
Late == settlement \in {"issued", "part_paid"} /\ today > DueOn

\* sweepOverdue: the late invoices are read together, and one already marked is
\* skipped. (Nothing in the repository calls the sweep.)
ReadToMark(c) ==
    /\ Late
    /\ overdueSince = NoDay
    /\ ReadInvoice(c, "marking")
    /\ asOf' = [asOf EXCEPT ![c] = today]
    /\ UNCHANGED paying

MutAfterMarking(c) == "overdue"

\* "overdue" is a word for a screen; the settlement stays what the copy says.
AfterMarking(c) == settlementCopy[c]

\* markOverdue, and save of the whole row.
MarkOverdue(c) ==
    /\ cashierAt[c] = "marking"
    /\ settlement' = AfterMarking(c)
    /\ overdueSince' = asOf[c]
    /\ UNCHANGED received
    /\ EndRequest(c)

\* The request fails or its process dies before the commit.
AbandonRequest(c) ==
    /\ cashierAt[c] # "idle"
    /\ EndRequest(c)
    /\ UNCHANGED invoiceRow

NextDay ==
    /\ today < LastDay
    /\ today' = today + 1
    /\ UNCHANGED <<inTurn, invoiceRow, cashierAt, invoiceCopies>>

SettlementInit ==
    /\ today = 0
    /\ inTurn \in BOOLEAN
    /\ settlement = "issued"
    /\ overdueSince = NoDay
    /\ received = {}
    /\ cashierAt = [c \in Cashiers |-> "idle"]
    /\ settlementCopy = [c \in Cashiers |-> "issued"]
    /\ overdueCopy = [c \in Cashiers |-> NoDay]
    /\ receivedCopy = [c \in Cashiers |-> {}]
    /\ paying = [c \in Cashiers |-> NoPayment]
    /\ asOf = [c \in Cashiers |-> 0]

CashierStep(c) ==
    \/ \E p \in Payments : ReadToPay(c, p)
    \/ ReadPayments(c)
    \/ RecordPayment(c)
    \/ ReadToMark(c)
    \/ MarkOverdue(c)
    \/ AbandonRequest(c)

SettlementNext == NextDay \/ \E c \in Cashiers : CashierStep(c)

SettlementSpec == SettlementInit /\ [][SettlementNext]_settlementVars

-----------------------------------------------------------------------------
(* Properties *)

\* Types of the row, its payments and the copies in memory.
SettlementTypeOK ==
    /\ today \in Days
    /\ inTurn \in BOOLEAN
    /\ settlement \in Settlements
    /\ overdueSince \in Days \cup {NoDay}
    /\ received \subseteq Payments
    /\ cashierAt \in [Cashiers -> Places]
    /\ settlementCopy \in [Cashiers -> Settlements]
    /\ overdueCopy \in [Cashiers -> Days \cup {NoDay}]
    /\ receivedCopy \in [Cashiers -> SUBSET Payments]
    /\ paying \in [Cashiers -> Payments \cup {NoPayment}]
    /\ asOf \in [Cashiers -> Days]

\* Whatever races with what, an invoice says "paid" only when the payments
\* stored against it come to its total (recordPayment decides over a copy that
\* may be missing payments, never one that has too many).
PaidIsCovered == settlement = "paid" => received \in Covering

\* Money recorded is never lost: no save takes away a payment another request
\* stored after the copy was read.
PaymentsKept == [][received \subseteq received']_settlementVars

\* When operations take turns, an invoice whose payments come to its total says
\* so and is on no chase list ("the chase list should stop showing it the moment
\* the money arrives", invoice.ts).
CoveredIsPaid == inTurn /\ received \in Covering => settlement = "paid" /\ overdueSince = NoDay

\* When operations take turns, the day an invoice became late is kept until it
\* is settled: "must not reset that day each time" (markOverdue).
LateDayKept ==
    [][inTurn /\ overdueSince # NoDay =>
          overdueSince' = overdueSince \/ settlement' = "paid"]_settlementVars

\* Only an invoice past its due date is on the chase list.
ChasedIsLate == overdueSince # NoDay => overdueSince > DueOn /\ settlement # "paid"

\* The row says of the invoice what its payments say: paid when they cover it, chased
\* only while it is late and not paid; and what was written down of its money and
\* its lateness is not written over.
SettlementHolds ==
    /\ [](SettlementTypeOK /\ PaidIsCovered /\ CoveredIsPaid /\ ChasedIsLate)
    /\ PaymentsKept /\ LateDayKept
=============================================================================
