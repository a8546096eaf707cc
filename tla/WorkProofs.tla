------------------------------ MODULE WorkProofs ------------------------------
(***************************************************************************)
(* Theorems about a piece of work, from the offer to the money: the        *)
(* quotation of Quotation, for any lines, requests and number of links;    *)
(* the project of Project, for any papers, steps and staff; the invoice of *)
(* Settlement, for any payments, requests and due date; and the jobs that  *)
(* come round again in Recurrence, for any clients, periods and actors.    *)
(***************************************************************************)
EXTENDS Settlement, Quotation, Project, Recurrence, FiniteSetTheorems, TLAPS

-----------------------------------------------------------------------------
(* Settlement: the inductive invariant. What a request has in memory is    *)
(* never more than was stored, and never says late what is not.            *)

\* What requests that take turns have in memory is what the row and its payments
\* say; and nobody else has anything.
InMemory(c) ==
    /\ cashierAt[c] # "idle" =>
          /\ settlementCopy[c] = settlement
          /\ overdueCopy[c] = overdueSince
          /\ \A d \in Cashiers : d # c => cashierAt[d] = "idle"
    /\ cashierAt[c] = "recording" => receivedCopy[c] = received

\* However requests overlap.
CashierOK(c) ==
    /\ receivedCopy[c] \subseteq received
    /\ cashierAt[c] \in {"read", "recording"} => paying[c] \in Payments
    /\ overdueCopy[c] # NoDay => overdueCopy[c] > DueOn
    /\ cashierAt[c] = "marking" =>
          settlementCopy[c] # "paid" /\ overdueCopy[c] = NoDay /\ asOf[c] > DueOn

RowHolds == PaidIsCovered /\ CoveredIsPaid /\ ChasedIsLate

SInv ==
    /\ SettlementTypeOK
    /\ RowHolds
    /\ \A c \in Cashiers : CashierOK(c)
    /\ inTurn => \A c \in Cashiers : InMemory(c)

\* What a step may never do to the row.
SettlementMoves ==
    /\ received \subseteq received'
    /\ inTurn /\ overdueSince # NoDay => overdueSince' = overdueSince \/ settlement' = "paid"

LEMMA InitSInv == SettlementInit => SInv
  BY SettlementAssumption
     DEF SettlementInit, SInv, SettlementTypeOK, RowHolds, PaidIsCovered, CoveredIsPaid,
         ChasedIsLate, CashierOK, InMemory, Days, Settlements, Places

\* Reading the row, to pay or to mark it late.
LEMMA ReadInvoiceSInv ==
    ASSUME SInv, NEW c \in Cashiers,
           ReadToMark(c) \/ \E p \in Payments : ReadToPay(c, p)
    PROVE  SInv' /\ SettlementMoves
<1> USE DEF invoiceRow, ReadInvoice, MayServe
<1>1. /\ today' = today /\ inTurn' = inTurn /\ settlement' = settlement
      /\ overdueSince' = overdueSince /\ received' = received /\ receivedCopy' = receivedCopy
  BY DEF ReadToMark, ReadToPay
<1>2. SettlementTypeOK'
  BY DEF ReadToMark, ReadToPay, SInv, SettlementTypeOK, Places
<1>3. RowHolds'
  BY <1>1 DEF SInv, RowHolds, PaidIsCovered, CoveredIsPaid, ChasedIsLate
<1>4. ASSUME NEW d \in Cashiers PROVE CashierOK(d)'
  <2>1. CASE d # c
    BY <1>1, <2>1 DEF ReadToMark, ReadToPay, SInv, SettlementTypeOK, CashierOK
  <2>2. CASE d = c
    BY <1>1, <2>2, SettlementAssumption
       DEF ReadToMark, ReadToPay, SInv, SettlementTypeOK, CashierOK, RowHolds, ChasedIsLate,
           Late, Days
  <2> QED BY <2>1, <2>2
<1>5. ASSUME inTurn', NEW d \in Cashiers PROVE InMemory(d)'
  BY <1>1, <1>5 DEF ReadToMark, ReadToPay, SInv, SettlementTypeOK, InMemory
<1> QED BY <1>1, <1>2, <1>3, <1>4, <1>5 DEF SInv, SettlementMoves

LEMMA ReadPaymentsSInv ==
    ASSUME SInv, NEW c \in Cashiers, ReadPayments(c)
    PROVE  SInv' /\ SettlementMoves
<1> USE DEF invoiceRow, ReadPayments
<1>1. SettlementTypeOK'
  BY DEF SInv, SettlementTypeOK, Places
<1>2. RowHolds'
  BY DEF SInv, RowHolds, PaidIsCovered, CoveredIsPaid, ChasedIsLate
<1>3. ASSUME NEW d \in Cashiers PROVE CashierOK(d)'
  BY DEF SInv, SettlementTypeOK, CashierOK
<1>4. ASSUME inTurn', NEW d \in Cashiers PROVE InMemory(d)'
  BY <1>4 DEF SInv, SettlementTypeOK, InMemory
<1> QED BY <1>1, <1>2, <1>3, <1>4 DEF SInv, SettlementMoves

\* A request that ends has nothing in memory, and types stay.
LEMMA EndRequestCopies ==
    ASSUME SInv, NEW c \in Cashiers, EndRequest(c), received \subseteq received'
    PROVE  /\ \A d \in Cashiers : CashierOK(d)'
           /\ cashierAt' \in [Cashiers -> Places]
           /\ settlementCopy' \in [Cashiers -> Settlements]
           /\ overdueCopy' \in [Cashiers -> Days \cup {NoDay}]
           /\ receivedCopy' \in [Cashiers -> SUBSET Payments]
           /\ paying' \in [Cashiers -> Payments \cup {NoPayment}]
           /\ asOf' \in [Cashiers -> Days]
           /\ today' = today /\ inTurn' = inTurn
<1> USE SettlementAssumption DEF EndRequest
<1>1. ASSUME NEW d \in Cashiers PROVE CashierOK(d)'
  BY DEF SInv, SettlementTypeOK, CashierOK
<1> QED BY <1>1 DEF SInv, SettlementTypeOK, Places, Settlements, Days

\* Where requests take turns, nobody else was at work.
LEMMA EndRequestInTurn ==
    ASSUME SInv, NEW c \in Cashiers, cashierAt[c] # "idle", EndRequest(c)
    PROVE  inTurn' => \A d \in Cashiers : InMemory(d)'
  BY DEF SInv, SettlementTypeOK, EndRequest, InMemory

LEMMA RecordPaymentSInv ==
    ASSUME SInv, NEW c \in Cashiers, RecordPayment(c)
    PROVE  SInv' /\ SettlementMoves
<1>1. received \subseteq received'
  BY DEF RecordPayment, Stored
<1>2. AfterPayment(c) \subseteq received' /\ received' \subseteq Payments
  BY DEF RecordPayment, Stored, AfterPayment, SInv, SettlementTypeOK, CashierOK
<1>3. SettlementTypeOK'
  <2>1. settlement' \in Settlements /\ overdueSince' \in Days \cup {NoDay}
    BY DEF RecordPayment, OverdueAfterPayment, Settlements, SInv, SettlementTypeOK
  <2> QED BY <1>1, <1>2, <2>1, EndRequestCopies DEF RecordPayment, SInv, SettlementTypeOK
<1>4. inTurn => AfterPayment(c) = received'
  BY DEF RecordPayment, Stored, AfterPayment, SInv, InMemory
<1>5. Settles(c) => received' \in Covering
  BY <1>2, SettlementAssumption DEF Settles
<1>6. PaidIsCovered'
  BY <1>5 DEF PaidIsCovered, RecordPayment
<1>7. CoveredIsPaid'
  BY <1>4 DEF CoveredIsPaid, RecordPayment, Settles, OverdueAfterPayment, EndRequest
<1>8. ChasedIsLate'
  BY DEF ChasedIsLate, RecordPayment, OverdueAfterPayment, SInv, CashierOK
<1>9. \A d \in Cashiers : CashierOK(d)'
  BY <1>1, EndRequestCopies DEF RecordPayment
<1>10. inTurn' => \A d \in Cashiers : InMemory(d)'
  BY EndRequestInTurn DEF RecordPayment
<1>11. inTurn /\ overdueSince # NoDay => overdueSince' = overdueSince \/ settlement' = "paid"
  BY DEF RecordPayment, OverdueAfterPayment, SInv, InMemory
<1> QED BY <1>1, <1>3, <1>6, <1>7, <1>8, <1>9, <1>10, <1>11 DEF SInv, RowHolds, SettlementMoves

LEMMA MarkOverdueSInv ==
    ASSUME SInv, NEW c \in Cashiers, MarkOverdue(c)
    PROVE  SInv' /\ SettlementMoves
<1> USE DEF MarkOverdue, AfterMarking
<1>1. received' = received
  OBVIOUS
<1>2. /\ settlementCopy[c] \in Settlements /\ settlementCopy[c] # "paid"
      /\ asOf[c] \in Days /\ asOf[c] > DueOn
  BY DEF SInv, SettlementTypeOK, CashierOK
<1>3. SettlementTypeOK'
  BY <1>1, <1>2, EndRequestCopies DEF SInv, SettlementTypeOK
<1>4. inTurn => settlement # "paid" /\ overdueSince = NoDay
  BY <1>2 DEF SInv, InMemory, CashierOK
<1>5. RowHolds'
  BY <1>1, <1>2, <1>4 DEF SInv, RowHolds, PaidIsCovered, CoveredIsPaid, ChasedIsLate, EndRequest
<1>6. \A d \in Cashiers : CashierOK(d)'
  BY <1>1, EndRequestCopies
<1>7. inTurn' => \A d \in Cashiers : InMemory(d)'
  BY EndRequestInTurn
<1> QED BY <1>1, <1>3, <1>4, <1>5, <1>6, <1>7 DEF SInv, SettlementMoves

LEMMA AbandonRequestSInv ==
    ASSUME SInv, NEW c \in Cashiers, AbandonRequest(c)
    PROVE  SInv' /\ SettlementMoves
<1> USE DEF AbandonRequest, invoiceRow
<1>1. SettlementTypeOK'
  BY EndRequestCopies DEF SInv, SettlementTypeOK
<1>2. RowHolds'
  BY DEF SInv, RowHolds, PaidIsCovered, CoveredIsPaid, ChasedIsLate, EndRequest
<1>3. \A d \in Cashiers : CashierOK(d)'
  BY EndRequestCopies
<1>4. inTurn' => \A d \in Cashiers : InMemory(d)'
  BY EndRequestInTurn
<1> QED BY <1>1, <1>2, <1>3, <1>4 DEF SInv, SettlementMoves

\* A day goes by, or nothing happens.
LEMMA TimeSInv ==
    ASSUME SInv, NextDay \/ UNCHANGED settlementVars
    PROVE  SInv' /\ SettlementMoves
<1> USE SettlementAssumption DEF NextDay, settlementVars, invoiceRow, invoiceCopies
<1>1. SettlementTypeOK'
  BY DEF SInv, SettlementTypeOK, Days
<1>2. RowHolds'
  BY DEF SInv, RowHolds, PaidIsCovered, CoveredIsPaid, ChasedIsLate
<1>3. ASSUME NEW d \in Cashiers PROVE CashierOK(d)'
  BY DEF SInv, CashierOK
<1>4. ASSUME inTurn', NEW d \in Cashiers PROVE InMemory(d)'
  BY <1>4 DEF SInv, InMemory
<1> QED BY <1>1, <1>2, <1>3, <1>4 DEF SInv, SettlementMoves

LEMMA NextSInv == SInv /\ [SettlementNext]_settlementVars => SInv' /\ SettlementMoves
<1> SUFFICES ASSUME SInv, [SettlementNext]_settlementVars PROVE SInv' /\ SettlementMoves
  OBVIOUS
<1>1. CASE NextDay \/ UNCHANGED settlementVars
  BY <1>1, TimeSInv
<1>2. ASSUME NEW c \in Cashiers, CashierStep(c) PROVE SInv' /\ SettlementMoves
  BY <1>2, ReadInvoiceSInv, ReadPaymentsSInv, RecordPaymentSInv, MarkOverdueSInv,
     AbandonRequestSInv
     DEF CashierStep
<1> QED BY <1>1, <1>2 DEF SettlementNext

\* The row says of the invoice what its payments say, and nothing written down of
\* its money or its lateness is written over (settle-invoice.ts).
THEOREM InvoiceSettles == SettlementSpec => SettlementHolds
<1>1. SInv => SettlementTypeOK /\ PaidIsCovered /\ CoveredIsPaid /\ ChasedIsLate
  BY DEF SInv, RowHolds
<1>2. SettlementMoves =>
         /\ received \subseteq received'
         /\ inTurn /\ overdueSince # NoDay => overdueSince' = overdueSince \/ settlement' = "paid"
  BY DEF SettlementMoves
<1> QED
  BY InitSInv, NextSInv, <1>1, <1>2, PTL
     DEF SettlementSpec, SettlementHolds, PaymentsKept, LateDayKept

-----------------------------------------------------------------------------
(* Quotation: the inductive invariant. A copy in memory meets the CHECKs   *)
(* its row meets; an email written down has a job behind it; and requests  *)
(* that take turns decide over the row as it is when they save.            *)

\* What the CHECK constraints ask of a row.
RowChecks(row) ==
    /\ (row.state \in {"none", "draft"}) <=> (row.via = "none")
    /\ (row.state \in Answers) <=> (row.by # "none")

\* An email has a job, or went, or its job failed for good.
MailUnderWay == job # 0 \/ linksMailed # {} \/ gaveUp

\* A row that is not there is blank, and a row has no token that was not made.
RowKnown == offerRow.link <= lastLink /\ (offerRow.state = "none" => offerRow = NoOffer)

RequestOK(r) ==
    /\ requestAt[r] # "idle" =>
          offerRow.state # "none" /\ offerCopy[r].state # "none" /\ RowChecks(offerCopy[r])
    /\ offerCopy[r].link <= lastLink
    /\ requestAt[r] \in Readers /\ offerCopy[r].via = "email" => MailUnderWay
    /\ requestAt[r] = "saving" /\ offerCopy[r].via = "email" => MailUnderWay \/ jobBy = r
    /\ requestAt[r] = "delivering" => offerCopy[r].link # 0
    /\ jobBy = r => requestAt[r] = "saving" /\ offerCopy[r].link # 0
    /\ event[r] = "answered" => requestAt[r] = "saving" /\ offerCopy[r].state \in Answers

\* What a request has decided, against the row it decided over: a draft may get other
\* lines or be sent, what is sent may be answered, expire or get a newer link, and
\* anything else stays what it is.
Decided(r) ==
    /\ offerCopy[r].link >= offerRow.link
    /\ linesCopy[r] # lines => offerRow.state = "draft" /\ event[r] = "none"
    /\ event[r] = "none" =>
          \/ offerCopy[r].state = offerRow.state /\ offerCopy[r].by = offerRow.by
          \/ offerRow.state = "sent" /\ offerCopy[r].state = "expired"
    /\ event[r] = "sent" => offerRow.state = "draft" /\ offerCopy[r].state = "sent"
    /\ event[r] = "answered" => offerRow.state = "sent" /\ offerCopy[r].state \in Answers

\* Where requests take turns.
InTurnOK(r) ==
    requestAt[r] # "idle" =>
        /\ \A q \in Requests : q # r => requestAt[q] = "idle"
        /\ requestAt[r] \in Readers => offerCopy[r] = offerRow
        /\ requestAt[r] \in {"delivering", "saving"} => Decided(r)

\* The events of the log say what became of the row.
LogOK ==
    /\ offer = {} <=> offerRow.state \in {"none", "draft"}
    /\ offer # {} => offer = {lines}
    /\ answer # {} => offerRow.state \in Answers /\ answer = {<<offerRow.state, offerRow.by>>}

OrderOK == inOrder => LogOK /\ \A r \in Requests : InTurnOK(r)

QInv ==
    /\ QuotationTypeOK
    /\ ChecksHold
    /\ offerRow.via = "email" => MailUnderWay
    /\ RowKnown
    /\ \A r \in Requests : RequestOK(r)
    /\ OrderOK

LinkStays == inOrder => offerRow'.link >= offerRow.link

LEMMA InitQInv == QuotationInit => QInv
<1> SUFFICES ASSUME QuotationInit PROVE QInv
  OBVIOUS
<1> USE QuotationAssumption DEF QuotationInit, NoOffer
<1>1. QuotationTypeOK
  <2>1. inOrder \in BOOLEAN /\ lapsed \in BOOLEAN /\ gaveUp \in BOOLEAN
    OBVIOUS
  <2> QED BY <2>1 DEF QuotationTypeOK, OfferRows, Links, Readers, States
<1>2. ChecksHold /\ (offerRow.via = "email" => MailUnderWay) /\ RowKnown
  BY DEF ChecksHold, Answers, RowKnown
<1>3. \A r \in Requests : RequestOK(r)
  BY DEF RequestOK, Readers
<1>4. OrderOK
  BY DEF OrderOK, LogOK, InTurnOK
<1> QED BY <1>1, <1>2, <1>3, <1>4 DEF QInv

LEMMA ReadRowQInv ==
    ASSUME QInv, NEW r \in Requests, NEW reader \in Readers, ReadRow(r, reader)
    PROVE  QInv' /\ LinkStays
<1> USE DEF ReadRow, rowVars, mailVars, Readers
<1>1. QuotationTypeOK'
  BY DEF QInv, QuotationTypeOK
<1>2. ChecksHold' /\ (offerRow'.via = "email" => MailUnderWay') /\ RowKnown'
  BY DEF QInv, ChecksHold, MailUnderWay, RowKnown
<1>3. ASSUME NEW q \in Requests PROVE RequestOK(q)'
  <2>1. CASE q = r
    <3>1. /\ requestAt'[r] = reader /\ offerCopy'[r] = offerRow /\ event'[r] = event[r]
          /\ requestAt[r] = "idle" /\ lastLink' = lastLink
      BY DEF QInv, QuotationTypeOK
    <3> QED BY <2>1, <3>1 DEF QInv, RequestOK, RowChecks, RowKnown, ChecksHold, MailUnderWay
  <2>2. CASE q # r
    BY <2>2 DEF QInv, QuotationTypeOK, RequestOK, RowChecks, MailUnderWay
  <2> QED BY <2>1, <2>2
<1>4. OrderOK'
  BY DEF QInv, QuotationTypeOK, OrderOK, LogOK, InTurnOK, Decided
<1>5. LinkStays
  BY DEF LinkStays, QInv, QuotationTypeOK, OfferRows, Links
<1> QED BY <1>1, <1>2, <1>3, <1>4, <1>5 DEF QInv

\* A decision over the copy: the conditions under which it leaves everything in order.
LEMMA DecideQInv ==
    ASSUME QInv, NEW r \in Requests, requestAt[r] \in Readers,
           NEW place \in {"delivering", "saving"}, NEW records \in {"none", "sent", "answered"},
           NEW becomes \in OfferRows, NEW newLines \in SUBSET Lines,
           DecideOffer(r, place, records, becomes, newLines),
           lastLink' \in Links, lastLink' >= lastLink,
           becomes.state # "none", RowChecks(becomes),
           becomes.via = "email" => offerCopy[r].via = "email" \/ place = "delivering",
           place = "delivering" => becomes.link # 0,
           becomes.link = offerCopy[r].link \/ becomes.link = lastLink',
           newLines # lines => offerCopy[r].state = "draft" /\ records = "none",
           records = "none" =>
              \/ becomes.state = offerCopy[r].state /\ becomes.by = offerCopy[r].by
              \/ offerCopy[r].state = "sent" /\ becomes.state = "expired",
           records = "sent" => offerCopy[r].state = "draft" /\ becomes.state = "sent",
           records = "answered" =>
              offerCopy[r].state = "sent" /\ becomes.state \in Answers /\ place = "saving"
    PROVE  QInv' /\ LinkStays
<1> USE DEF DecideOffer, rowVars, mailVars
<1>1. QuotationTypeOK'
  BY DEF QInv, QuotationTypeOK
<1>2. ChecksHold' /\ (offerRow'.via = "email" => MailUnderWay') /\ RowKnown'
  BY DEF QInv, QuotationTypeOK, ChecksHold, MailUnderWay, RowKnown, OfferRows, Links
<1>3. ASSUME NEW q \in Requests PROVE RequestOK(q)'
  <2>1. CASE q = r
    <3>1. requestAt'[r] = place /\ offerCopy'[r] = becomes /\ event'[r] = records
      BY DEF QInv, QuotationTypeOK
    <3>2. requestAt[r] \notin {"idle", "saving"} /\ RequestOK(r)
      BY DEF QInv, Readers
    <3>3. /\ jobBy # r /\ offerRow.state # "none"
          /\ offerCopy[r].via = "email" => MailUnderWay
      BY <3>2 DEF RequestOK
    <3>4. becomes.link <= lastLink'
      BY <3>2 DEF RequestOK, QInv, QuotationTypeOK, OfferRows, Links
    <3> QED BY <2>1, <3>1, <3>3, <3>4 DEF RequestOK, RowChecks, MailUnderWay, Readers
  <2>2. CASE q # r
    <3>1. /\ requestAt'[q] = requestAt[q] /\ event'[q] = event[q]
          /\ offerCopy'[q] = offerCopy[q]
          /\ offerCopy[q].link <= lastLink => offerCopy[q].link <= lastLink'
      BY <2>2 DEF QInv, QuotationTypeOK, OfferRows, Links
    <3> QED BY <3>1 DEF QInv, RequestOK, RowChecks, MailUnderWay
  <2> QED BY <2>1, <2>2
<1>4. OrderOK'
  <2> SUFFICES ASSUME inOrder PROVE LogOK' /\ \A q \in Requests : InTurnOK(q)'
    BY DEF OrderOK
  <2>1. LogOK'
    BY DEF QInv, OrderOK, LogOK
  <2>2. offerCopy[r] = offerRow
    BY DEF QInv, OrderOK, InTurnOK, Readers
  <2>3. Decided(r)'
    BY <2>2 DEF QInv, QuotationTypeOK, Decided, OfferRows, Links, RowKnown
  <2>4. ASSUME NEW q \in Requests PROVE InTurnOK(q)'
    BY <2>3 DEF QInv, QuotationTypeOK, OrderOK, InTurnOK, Readers
  <2> QED BY <2>1, <2>4
<1>5. LinkStays
  BY DEF LinkStays, QInv, QuotationTypeOK, OfferRows, Links
<1> QED BY <1>1, <1>2, <1>3, <1>4, <1>5 DEF QInv

\* Changes of a draft.
LEMMA DraftingQInv ==
    ASSUME QInv, NEW r \in Requests,
           SetBranch(r) \/ \E l \in Lines : AddLine(r, l) \/ RemoveLine(r, l)
    PROVE  QInv' /\ LinkStays
<1>1. PICK newLines \in SUBSET Lines :
         DecideOffer(r, "saving", "none", offerCopy[r], newLines)
  BY DEF SetBranch, AddLine, RemoveLine, QInv, QuotationTypeOK
<1>2. requestAt[r] = "firm" /\ offerCopy[r].state = "draft" /\ lastLink' = lastLink
  BY DEF SetBranch, AddLine, RemoveLine, IsDraft
<1>3. /\ requestAt[r] \in Readers /\ offerCopy[r] \in OfferRows /\ RowChecks(offerCopy[r])
      /\ lastLink' \in Links /\ lastLink' >= lastLink
  BY <1>2 DEF QInv, QuotationTypeOK, RequestOK, Readers, Links
<1> QED BY <1>1, <1>2, <1>3, DecideQInv

\* Sending, by hand, by email, or again.
LEMMA SendingQInv ==
    ASSUME QInv, NEW r \in Requests, SendByHand(r) \/ SendByEmail(r) \/ SendAgain(r)
    PROVE  QInv' /\ LinkStays
<1> DEFINE row == offerCopy[r]
<1>1. row \in OfferRows /\ lastLink \in Links /\ lines \in SUBSET Lines
  BY DEF QInv, QuotationTypeOK
<1>2. requestAt[r] = "firm" /\ requestAt[r] \in Readers /\ RowChecks(row)
  BY DEF SendByHand, SendByEmail, SendAgain, IssueLink, QInv, RequestOK, Readers
<1>3. CASE SendByHand(r)
  <2> DEFINE becomes == [row EXCEPT !.state = "sent", !.via = "by_hand"]
  <2>1. row.state = "draft" /\ lastLink' = lastLink
    BY <1>3 DEF SendByHand, CanSend, IsDraft
  <2>2. /\ becomes \in OfferRows /\ RowChecks(becomes) /\ becomes.state = "sent"
        /\ becomes.via = "by_hand" /\ becomes.link = row.link
    BY <1>1, <1>2, <2>1 DEF OfferRows, RowChecks, States, Answers
  <2>3. DecideOffer(r, "saving", "sent", becomes, lines)
    BY <1>3 DEF SendByHand
  <2>4. lastLink' \in Links /\ lastLink' >= lastLink
    BY <1>1, <2>1 DEF Links
  <2> HIDE DEF becomes
  <2> QED BY <1>1, <1>2, <2>1, <2>2, <2>3, <2>4, DecideQInv
<1>4. CASE SendByEmail(r) \/ SendAgain(r)
  <2>1. lastLink' = lastLink + 1 /\ lastLink' \in Links /\ lastLink' >= lastLink
    BY <1>1, <1>4, QuotationAssumption DEF SendByEmail, SendAgain, IssueLink, Links
  <2>2. CASE SendByEmail(r)
    <3> DEFINE becomes == [row EXCEPT !.state = "sent", !.via = Channel, !.link = lastLink + 1]
    <3>1. row.state = "draft"
      BY <2>2 DEF SendByEmail, CanSend, IsDraft
    <3>2. /\ becomes.state = "sent" /\ becomes.via = "email" /\ becomes.by = row.by
          /\ becomes.link = lastLink' /\ becomes \in OfferRows
      BY <1>1, <2>1 DEF OfferRows, States, Channel
    <3>4. RowChecks(becomes) /\ becomes.link # 0
      BY <1>1, <1>2, <2>1, <3>1, <3>2, QuotationAssumption DEF RowChecks, Answers, Links
    <3>3. DecideOffer(r, "delivering", "sent", becomes, lines)
      BY <1>1, <2>2 DEF SendByEmail, IssueLink, OfferRows
    <3> HIDE DEF becomes
    <3> QED BY <1>1, <1>2, <2>1, <3>1, <3>2, <3>3, <3>4, DecideQInv
  <2>3. CASE SendAgain(r)
    <3> DEFINE becomes == [row EXCEPT !.link = lastLink + 1]
    <3>1. row.state = "sent"
      BY <2>3 DEF SendAgain
    <3>2. /\ becomes \in OfferRows /\ RowChecks(becomes) /\ becomes.state = row.state
          /\ becomes.by = row.by /\ becomes.via = row.via
          /\ becomes.link = lastLink' /\ becomes.link # 0
      BY <1>1, <1>2, <2>1, QuotationAssumption DEF OfferRows, RowChecks, States, Answers, Links
    <3>3. DecideOffer(r, "delivering", "none", becomes, lines)
      BY <2>3 DEF SendAgain, IssueLink
    <3> HIDE DEF becomes
    <3> QED BY <1>1, <1>2, <2>1, <3>1, <3>2, <3>3, DecideQInv
  <2> QED BY <1>4, <2>2, <2>3
<1> QED BY <1>3, <1>4

\* Answering, opening, expiring.
LEMMA AnsweringQInv ==
    ASSUME QInv, NEW r \in Requests,
           ClientOpens(r) \/ Expire(r) \/ \E state \in Answers : AnswerOffer(r, state)
    PROVE  QInv' /\ LinkStays
<1> DEFINE row == offerCopy[r]
<1>1. row \in OfferRows /\ lastLink \in Links /\ lines \in SUBSET Lines
  BY DEF QInv, QuotationTypeOK
<1>2. requestAt[r] \in Readers /\ requestAt[r] # "idle"
  BY DEF ClientOpens, Expire, AnswerOffer, Readers
<1>3. RowChecks(row) /\ row.state # "none"
  BY <1>2 DEF QInv, RequestOK
<1>4. lastLink' = lastLink /\ lastLink' \in Links /\ lastLink' >= lastLink
  <2>1. lastLink' = lastLink
    BY DEF ClientOpens, Expire, AnswerOffer
  <2> QED BY <1>1, <2>1 DEF Links
<1>5. CASE ClientOpens(r)
  <2>1. DecideOffer(r, "saving", "none", row, lines)
    BY <1>5 DEF ClientOpens, Opened
  <2> QED BY <1>1, <1>2, <1>3, <1>4, <2>1, DecideQInv
<1>6. CASE Expire(r)
  <2> DEFINE becomes == [row EXCEPT !.state = "expired"]
  <2>1. row.state = "sent" /\ DecideOffer(r, "saving", "none", becomes, lines)
    BY <1>6 DEF Expire
  <2>2. /\ becomes \in OfferRows /\ RowChecks(becomes) /\ becomes.state = "expired"
        /\ becomes.via = row.via /\ becomes.link = row.link
    BY <1>1, <1>3, <2>1 DEF OfferRows, RowChecks, States, Answers
  <2> HIDE DEF becomes
  <2> QED BY <1>1, <1>2, <1>3, <1>4, <2>1, <2>2, DecideQInv
<1>7. ASSUME NEW state \in Answers, AnswerOffer(r, state) PROVE QInv' /\ LinkStays
  <2> DEFINE becomes == [row EXCEPT !.state = state,
                              !.by = IF requestAt[r] = "client" THEN "client" ELSE "staff"]
  <2>1. row.state = "sent" /\ DecideOffer(r, "saving", "answered", becomes, lines)
    BY <1>7 DEF AnswerOffer, Answerable
  <2>2. /\ becomes \in OfferRows /\ RowChecks(becomes) /\ becomes.state \in Answers
        /\ becomes.state # "none" /\ becomes.via = row.via /\ becomes.link = row.link
    BY <1>1, <1>3, <2>1 DEF OfferRows, RowChecks, States, Answers
  <2> HIDE DEF becomes
  <2> QED BY <1>1, <1>2, <1>3, <1>4, <2>1, <2>2, DecideQInv
<1> QED BY <1>5, <1>6, <1>7

LEMMA DeliverQInv ==
    ASSUME QInv, NEW r \in Requests, DeliverOffer(r)
    PROVE  QInv' /\ LinkStays
<1> USE QuotationAssumption DEF DeliverOffer, rowVars
<1>1. QuotationTypeOK'
  BY DEF QInv, QuotationTypeOK
<1>2. ChecksHold' /\ (offerRow'.via = "email" => MailUnderWay') /\ RowKnown'
  BY DEF QInv, ChecksHold, MailUnderWay, RowKnown
<1>3. ASSUME NEW q \in Requests PROVE RequestOK(q)'
  BY DEF QInv, QuotationTypeOK, RequestOK, RowChecks, MailUnderWay, Readers
<1>4. OrderOK'
  BY DEF QInv, QuotationTypeOK, OrderOK, LogOK, InTurnOK, Decided, Readers
<1>5. LinkStays
  BY DEF LinkStays, QInv, QuotationTypeOK, OfferRows, Links
<1> QED BY <1>1, <1>2, <1>3, <1>4, <1>5 DEF QInv

LEMMA SaveQInv ==
    ASSUME QInv, NEW r \in Requests, SaveOffer(r)
    PROVE  QInv' /\ LinkStays
<1> USE QuotationAssumption DEF SaveOffer, End, RowAfter, JobAfter
<1>1. /\ offerCopy[r] \in OfferRows /\ linesCopy[r] \in SUBSET Lines
      /\ event[r] \in {"none", "sent", "answered"}
      /\ offerCopy[r].link \in Links /\ offerCopy[r].state # "none" /\ RowChecks(offerCopy[r])
      /\ NoOffer \in OfferRows
  BY DEF QInv, QuotationTypeOK, RequestOK, OfferRows, NoOffer, States, Links
<1>2. MailUnderWay => MailUnderWay'
  BY <1>1 DEF MailUnderWay, QInv, RequestOK
<1>3. offerCopy[r].via = "email" => MailUnderWay'
  BY <1>2 DEF MailUnderWay, QInv, RequestOK
<1>4. QuotationTypeOK'
  <2>1. event[r] = "answered" =>
           offerCopy[r].state \in Answers /\ offerCopy[r].by \in {"client", "staff"}
    BY <1>1 DEF QInv, RequestOK, RowChecks, OfferRows
  <2>2. answer' \subseteq Answers \X {"client", "staff"}
    BY <2>1 DEF QInv, QuotationTypeOK
  <2> QED BY <1>1, <2>2 DEF QInv, QuotationTypeOK
<1>5. ChecksHold' /\ (offerRow'.via = "email" => MailUnderWay')
  BY <1>1, <1>3 DEF ChecksHold, RowChecks
<1>6. RowKnown'
  BY <1>1 DEF QInv, RequestOK, RowKnown
<1>7. ASSUME NEW q \in Requests PROVE RequestOK(q)'
  <2>1. CASE q = r
    <3>1. requestAt'[q] = "idle" /\ event'[q] = "none" /\ offerCopy'[q] = NoOffer /\ jobBy' # q
      BY <2>1 DEF QInv, QuotationTypeOK
    <3>2. NoOffer.link <= lastLink'
      BY DEF QInv, QuotationTypeOK, NoOffer, Links
    <3> QED BY <3>1, <3>2 DEF RequestOK, Readers
  <2>2. CASE q # r
    <3>1. /\ requestAt'[q] = requestAt[q] /\ event'[q] = event[q]
          /\ offerCopy'[q] = offerCopy[q] /\ lastLink' = lastLink
          /\ jobBy' = q => jobBy = q
          /\ jobBy = q => jobBy' = q
      BY <2>2 DEF QInv, QuotationTypeOK
    <3> QED BY <1>1, <1>2, <3>1 DEF QInv, RequestOK, RowChecks
  <2> QED BY <2>1, <2>2
<1>8. OrderOK'
  <2> SUFFICES ASSUME inOrder PROVE LogOK' /\ \A q \in Requests : InTurnOK(q)'
    BY DEF OrderOK
  <2>1. Decided(r) /\ LogOK /\ offerRow.state # "none"
    BY DEF QInv, OrderOK, InTurnOK, RequestOK
  <2>2. LogOK'
    BY <1>1, <2>1 DEF Decided, LogOK, Answers
  <2>3. ASSUME NEW q \in Requests PROVE InTurnOK(q)'
    BY DEF QInv, QuotationTypeOK, OrderOK, InTurnOK
  <2> QED BY <2>2, <2>3
<1>9. LinkStays
  BY DEF LinkStays, QInv, OrderOK, InTurnOK, Decided
<1> QED BY <1>4, <1>5, <1>6, <1>7, <1>8, <1>9 DEF QInv

LEMMA AbandonQInv ==
    ASSUME QInv, NEW r \in Requests, AbandonOffer(r)
    PROVE  QInv' /\ LinkStays
<1> USE QuotationAssumption DEF AbandonOffer, End, rowVars
<1>1. QuotationTypeOK'
  BY DEF QInv, QuotationTypeOK, OfferRows, NoOffer, States, Links
<1>2. ChecksHold' /\ (offerRow'.via = "email" => MailUnderWay') /\ RowKnown'
  BY DEF QInv, ChecksHold, MailUnderWay, RowKnown
<1>3. ASSUME NEW q \in Requests PROVE RequestOK(q)'
  <2>1. CASE q = r
    <3>1. requestAt'[q] = "idle" /\ event'[q] = "none" /\ offerCopy'[q] = NoOffer /\ jobBy' # q
      BY <2>1 DEF QInv, QuotationTypeOK
    <3>2. NoOffer.link <= lastLink'
      BY DEF QInv, QuotationTypeOK, NoOffer, Links
    <3> QED BY <3>1, <3>2 DEF RequestOK, Readers
  <2>2. CASE q # r
    BY <2>2 DEF QInv, QuotationTypeOK, RequestOK, RowChecks, MailUnderWay
  <2> QED BY <2>1, <2>2
<1>4. OrderOK'
  BY DEF QInv, QuotationTypeOK, OrderOK, LogOK, InTurnOK, Decided
<1>5. LinkStays
  BY DEF LinkStays, QInv, QuotationTypeOK, OfferRows, Links
<1> QED BY <1>1, <1>2, <1>3, <1>4, <1>5 DEF QInv

\* The firm's new row; the worker; the calendar; and nothing.
LEMMA DraftQInv == ASSUME QInv, Draft PROVE QInv' /\ LinkStays
<1> USE DEF Draft, mailVars, requestVars
<1>1. \A r \in Requests : requestAt[r] = "idle"
  BY DEF QInv, RequestOK
<1>2. QuotationTypeOK'
  BY QuotationAssumption DEF QInv, QuotationTypeOK, OfferRows, NoOffer, States, Links
<1>3. ChecksHold' /\ offerRow'.via # "email" /\ offerRow'.link = 0
  BY DEF ChecksHold, NoOffer, Answers
<1>4. ASSUME NEW q \in Requests PROVE RequestOK(q)'
  BY <1>1 DEF QInv, RequestOK, Readers
<1>5. RowKnown'
  BY <1>3, QuotationAssumption DEF QInv, QuotationTypeOK, Links, RowKnown, NoOffer
<1>6. OrderOK'
  <2>1. offerRow'.state = "draft"
    BY DEF NoOffer
  <2>2. inOrder => LogOK'
    BY <2>1 DEF QInv, OrderOK, LogOK, Answers
  <2> QED BY <1>1, <2>2 DEF OrderOK, InTurnOK
<1>7. LinkStays
  <2>1. inOrder => offerRow.link = 0
    BY DEF QInv, RowKnown, NoOffer
  <2> QED BY <1>3, <2>1 DEF LinkStays
<1> QED BY <1>2, <1>3, <1>4, <1>5, <1>6, <1>7 DEF QInv

LEMMA AroundQInv ==
    ASSUME QInv, WorkerStep \/ ValidityEnds \/ UNCHANGED quotationVars
    PROVE  QInv' /\ LinkStays
<1> USE DEF WorkerStep, ValidityEnds, MailGoes, JobCompletes, JobFails, quotationVars, rowVars,
            mailVars, requestVars
<1>1. QuotationTypeOK'
  <2>1. inOrder' \in BOOLEAN /\ lapsed' \in BOOLEAN /\ gaveUp' \in BOOLEAN
    BY DEF QInv, QuotationTypeOK
  <2>2. linksMailed' \subseteq Links /\ job' \in Links
    <3>1. linksMailed \subseteq Links /\ job \in Links /\ 0 \in Links
      BY QuotationAssumption DEF QInv, QuotationTypeOK, Links
    <3>2. job' \in {job, 0} /\ linksMailed' \subseteq linksMailed \cup {job}
      OBVIOUS
    <3> QED BY <3>1, <3>2
  <2>3. UNCHANGED <<offerRow, lines, offer, answer, lastLink, jobBy, requestAt, event,
                    offerCopy, linesCopy>>
    OBVIOUS
  <2> QED BY <2>1, <2>2, <2>3 DEF QInv, QuotationTypeOK
<1>2. MailUnderWay => MailUnderWay'
  BY DEF MailUnderWay
<1>3. ChecksHold' /\ (offerRow'.via = "email" => MailUnderWay') /\ RowKnown'
  BY <1>2 DEF QInv, ChecksHold, RowKnown
<1>4. ASSUME NEW q \in Requests PROVE RequestOK(q)'
  BY <1>2 DEF QInv, RequestOK, RowChecks
<1>5. OrderOK'
  BY DEF QInv, OrderOK, LogOK, InTurnOK, Decided
<1>6. LinkStays
  <2>1. offerRow' = offerRow /\ offerRow.link \in 0 .. MaxLinks
    BY DEF QInv, QuotationTypeOK, OfferRows, Links
  <2> QED BY <2>1 DEF LinkStays
<1> QED BY <1>1, <1>3, <1>4, <1>5, <1>6 DEF QInv

LEMMA NextQInv == QInv /\ [QuotationNext]_quotationVars => QInv' /\ LinkStays
<1> SUFFICES ASSUME QInv, [QuotationNext]_quotationVars PROVE QInv' /\ LinkStays
  OBVIOUS
<1>1. CASE WorkerStep \/ ValidityEnds \/ UNCHANGED quotationVars
  BY <1>1, AroundQInv
<1>2. CASE Draft
  BY <1>2, DraftQInv
<1>3. ASSUME NEW r \in Requests, RequestStep(r) PROVE QInv' /\ LinkStays
  <2>1. CASE ReadById(r) \/ ReadByLink(r) \/ ReadLapsed(r)
    BY <2>1, ReadRowQInv DEF ReadById, ReadByLink, ReadLapsed, Readers
  <2>2. CASE SetBranch(r) \/ \E l \in Lines : AddLine(r, l) \/ RemoveLine(r, l)
    BY <2>2, DraftingQInv
  <2>3. CASE SendByHand(r) \/ SendByEmail(r) \/ SendAgain(r)
    BY <2>3, SendingQInv
  <2>4. CASE ClientOpens(r) \/ Expire(r) \/ \E state \in Answers : AnswerOffer(r, state)
    BY <2>4, AnsweringQInv
  <2>5. CASE DeliverOffer(r) \/ SaveOffer(r) \/ AbandonOffer(r)
    BY <2>5, DeliverQInv, SaveQInv, AbandonQInv
  <2> QED BY <1>3, <2>1, <2>2, <2>3, <2>4, <2>5 DEF RequestStep
<1> QED BY <1>1, <1>2, <1>3 DEF QuotationNext

\* Whatever the requests, the sweep and the worker do: the row meets its CHECKs, the
\* client's offer is the one in the system and is answered once, a replaced link stays
\* replaced, and what is recorded as emailed has its mail (manage-quotations.ts,
\* delivery.ts).
THEOREM OfferStandsThroughout == QuotationSpec => QuotationHolds
<1>1. QInv => /\ QuotationTypeOK /\ ChecksHold /\ AnsweredOnce /\ OfferStands
              /\ offerRow.via = "email" => job # 0 \/ linksMailed # {} \/ gaveUp
  BY DEF QInv, OrderOK, LogOK, AnsweredOnce, OfferStands, MailUnderWay
<1>2. LinkStays => (inOrder => offerRow'.link >= offerRow.link)
  BY DEF LinkStays
<1> QED
  BY InitQInv, NextQInv, <1>1, <1>2, PTL
     DEF QuotationSpec, QuotationHolds, RevokedStaysRevoked

-----------------------------------------------------------------------------
(* A project.                                                              *)

\* The copy of a request taking its turn is what the tables say.
CopyIsTrue(r) ==
    stage[r] # "idle" =>
        /\ present /\ stateCopy[r] = projectState
        /\ stage[r] # "row" => papersCopy[r] = papersHere

ProjectInv ==
    /\ ProjectTypeOK /\ FinishedHasDate /\ BookedIsKept
    /\ \A r \in Staff : finishedCopy[r] <=> stateCopy[r] = "completed"
    /\ alone => /\ \A q, r \in Staff : stage[q] # "idle" /\ stage[r] # "idle" => q = r
                /\ \A r \in Staff : CopyIsTrue(r)

\* The bodies of StartsWithPapers, ChangesAreTold and RemovedStaysRemoved.
ProjectMoves ==
    /\ lastEvent' # lastEvent /\ lastEvent' # NoEvent /\ lastEvent'.to = "in_progress"
         => Missing(papersHere') = {}
    /\ alone /\ projectState' # projectState =>
         \E said \in BOOLEAN :
             /\ lastEvent' = StateChange(projectState, projectState', said)
             /\ GoingBack(projectState, projectState')
                  => said \/ papersHere' # papersHere
    /\ alone /\ ~ present => ~ present'

LEMMA ProjectStarts == ProjectInit => ProjectInv
  BY DEF ProjectInit, ProjectInv, ProjectTypeOK, FinishedHasDate, BookedIsKept, CopyIsTrue, ProjectStates

\* The copies of a request that has answered hold nothing.
LEMMA CopiesDropped ==
  ASSUME ProjectInv, NEW r \in Staff, Answered(r)
  PROVE  /\ stage' \in [Staff -> {"idle", "row", "deciding", "removing"}]
         /\ stateCopy' \in [Staff -> ProjectStates] /\ finishedCopy' \in [Staff -> BOOLEAN]
         /\ papersCopy' \in [Staff -> SUBSET Papers] /\ stepsCopy' \in [Staff -> SUBSET Steps]
         /\ \A q \in Staff : finishedCopy'[q] <=> stateCopy'[q] = "completed"
         /\ stage'[r] = "idle" /\ \A q \in Staff : q # r => stage'[q] = stage[q]
<1>1. /\ stage' \in [Staff -> {"idle", "row", "deciding", "removing"}]
      /\ stateCopy' \in [Staff -> ProjectStates]
      /\ papersCopy' \in [Staff -> SUBSET Papers] /\ stepsCopy' \in [Staff -> SUBSET Steps]
      /\ stage'[r] = "idle" /\ \A q \in Staff : q # r => stage'[q] = stage[q]
  BY DEF Answered, ProjectInv, ProjectTypeOK, ProjectStates
<1>2. finishedCopy' \in [Staff -> BOOLEAN] /\ finishedCopy'[r] = FALSE
      /\ \A q \in Staff : q # r => finishedCopy'[q] = finishedCopy[q]
  BY DEF Answered, ProjectInv, ProjectTypeOK
<1>3. stateCopy'[r] = "ready" /\ \A q \in Staff : q # r => stateCopy'[q] = stateCopy[q]
  BY DEF Answered, ProjectInv, ProjectTypeOK
<1>4. ASSUME NEW q \in Staff PROVE finishedCopy'[q] <=> stateCopy'[q] = "completed"
  BY <1>2, <1>3 DEF ProjectInv
<1> QED BY <1>1, <1>2, <1>4

\* In turn, a request that has answered leaves none in hand.
LEMMA NobodyLeft ==
  ASSUME ProjectInv, alone, NEW r \in Staff, stage[r] # "idle", Answered(r)
  PROVE  \A q \in Staff : stage'[q] = "idle"
  BY CopiesDropped DEF ProjectInv

LEMMA Saved ==
  ASSUME ProjectInv, NEW r \in Staff, stage[r] = "deciding",
         NEW to \in ProjectStates, NEW papers \in SUBSET Papers, NEW steps \in SUBSET Steps,
         NEW change \in StateChanges \cup {NoEvent},
         SaveProject(r, to, papers, steps, change),
         change # NoEvent /\ change.to = "in_progress" => Missing(papers) = {},
         to = stateCopy[r]
           \/ \E said \in BOOLEAN :
                 /\ change = StateChange(stateCopy[r], to, said)
                 /\ GoingBack(stateCopy[r], to) => said \/ papers # papersCopy[r]
  PROVE  ProjectInv' /\ ProjectMoves
<1>1. /\ present' = TRUE /\ projectState' = to /\ papersHere' = papers /\ stepsDone' = steps
      /\ finishedAt' = FinishedAfter(stateCopy[r], to, finishedCopy[r])
      /\ lastEvent' = change /\ Answered(r) /\ UNCHANGED <<alone, timeBooked>>
  BY DEF SaveProject
<1>2. finishedCopy[r] \in BOOLEAN /\ (finishedCopy[r] <=> stateCopy[r] = "completed")
  BY DEF ProjectInv, ProjectTypeOK
<1>3. finishedAt' \in BOOLEAN /\ (finishedAt' <=> to = "completed")
  BY <1>1, <1>2 DEF FinishedAfter
<1>4. ProjectTypeOK' /\ FinishedHasDate' /\ BookedIsKept'
  BY <1>1, <1>3, CopiesDropped DEF ProjectInv, ProjectTypeOK, FinishedHasDate, BookedIsKept
<1>5. ProjectInv'
  BY <1>1, <1>4, CopiesDropped, NobodyLeft DEF ProjectInv, CopyIsTrue
<1>6. ProjectMoves
  <2>1. lastEvent' # NoEvent /\ lastEvent'.to = "in_progress" => Missing(papersHere') = {}
    BY <1>1
  <2>2. ASSUME alone PROVE present /\ stateCopy[r] = projectState /\ papersCopy[r] = papersHere
    BY <2>2 DEF ProjectInv, CopyIsTrue
  <2> QED BY <1>1, <2>1, <2>2 DEF ProjectMoves
<1> QED BY <1>5, <1>6

LEMMA CopyTyped ==
  ASSUME ProjectInv, NEW r \in Staff
  PROVE  /\ stateCopy[r] \in ProjectStates /\ papersCopy[r] \in SUBSET Papers
         /\ stepsCopy[r] \in SUBSET Steps
  BY DEF ProjectInv, ProjectTypeOK

LEMMA ProjectGoesOn == ProjectInv /\ [ProjectNext]_projectVars => ProjectInv' /\ ProjectMoves
<1> SUFFICES ASSUME ProjectInv, [ProjectNext]_projectVars PROVE ProjectInv' /\ ProjectMoves
  OBVIOUS
<1>1. ASSUME NEW r \in Staff, ReadProject(r) PROVE ProjectInv' /\ ProjectMoves
  <2>1. /\ stage[r] = "idle" /\ present
        /\ stage' = [stage EXCEPT ![r] = "row"]
        /\ stateCopy' = [stateCopy EXCEPT ![r] = projectState]
        /\ finishedCopy' = [finishedCopy EXCEPT ![r] = finishedAt]
        /\ UNCHANGED <<alone, projectTables, timeBooked, lastEvent, papersCopy, stepsCopy>>
        /\ alone => \A q \in Staff : stage[q] = "idle"
    BY <1>1 DEF ReadProject, Found
  <2>2. ProjectTypeOK' /\ FinishedHasDate' /\ BookedIsKept'
    BY <2>1 DEF ProjectInv, ProjectTypeOK, projectTables, FinishedHasDate, BookedIsKept
  <2>3. \A q \in Staff : finishedCopy'[q] <=> stateCopy'[q] = "completed"
    BY <2>1 DEF ProjectInv, ProjectTypeOK, FinishedHasDate
  <2>4. alone' => /\ \A p, q \in Staff : stage'[p] # "idle" /\ stage'[q] # "idle" => p = q
                  /\ \A q \in Staff : CopyIsTrue(q)'
    BY <2>1 DEF ProjectInv, ProjectTypeOK, projectTables, CopyIsTrue
  <2>5. ProjectMoves
    BY <2>1 DEF ProjectMoves, projectTables
  <2> QED BY <2>2, <2>3, <2>4, <2>5 DEF ProjectInv
<1>2. ASSUME NEW r \in Staff, ReadDocuments(r) PROVE ProjectInv' /\ ProjectMoves
  <2>1. /\ stage[r] = "row"
        /\ stage' = [stage EXCEPT ![r] = "deciding"]
        /\ papersCopy' = [papersCopy EXCEPT ![r] = IF present THEN papersHere ELSE {}]
        /\ stepsCopy' = [stepsCopy EXCEPT ![r] = IF present THEN stepsDone ELSE {}]
        /\ UNCHANGED <<alone, projectTables, timeBooked, lastEvent, stateCopy, finishedCopy>>
    BY <1>2 DEF ReadDocuments
  <2>2. ProjectTypeOK' /\ FinishedHasDate' /\ BookedIsKept'
    BY <2>1 DEF ProjectInv, ProjectTypeOK, projectTables, FinishedHasDate, BookedIsKept
  <2>3. alone' => /\ \A p, q \in Staff : stage'[p] # "idle" /\ stage'[q] # "idle" => p = q
                  /\ \A q \in Staff : CopyIsTrue(q)'
    BY <2>1 DEF ProjectInv, ProjectTypeOK, projectTables, CopyIsTrue
  <2>4. ProjectMoves
    BY <2>1 DEF ProjectMoves, projectTables
  <2> QED BY <2>1, <2>2, <2>3, <2>4 DEF ProjectInv
<1>3. ASSUME NEW r \in Staff, NEW to \in ProjectStates, NEW said \in BOOLEAN, Move(r, to, said)
      PROVE  ProjectInv' /\ ProjectMoves
  <2> DEFINE change == StateChange(stateCopy[r], to, said)
  <2>1. /\ stage[r] = "deciding" /\ MayMove(r, to) /\ said = GoingBack(stateCopy[r], to)
        /\ SaveProject(r, to, papersCopy[r], stepsCopy[r], change)
    BY <1>3 DEF Move, ReasonGiven
  <2>2. change \in StateChanges /\ change.to = to
    BY CopyTyped DEF StateChange, StateChanges
  <2>3. to = "in_progress" => Missing(papersCopy[r]) = {}
    BY <2>1 DEF MayMove
  <2>4. change = StateChange(stateCopy[r], to, said) /\ (GoingBack(stateCopy[r], to) => said)
    BY <2>1
  <2> HIDE DEF change
  <2> QED BY <2>1, <2>2, <2>3, <2>4, CopyTyped, Saved
<1>4. ASSUME NEW r \in Staff, NEW type \in Papers, AttachDocument(r, type)
      PROVE  ProjectInv' /\ ProjectMoves
  <2> DEFINE papers == papersCopy[r] \cup {type}
             change == StateChange("awaiting_documents", "ready", FALSE)
  <2>1. stage[r] = "deciding" /\ papers \in SUBSET Papers
    BY <1>4, CopyTyped DEF AttachDocument
  <2>2. change \in StateChanges /\ change.to = "ready"
    BY DEF StateChange, StateChanges, ProjectStates
  <2>3. ~ GoingBack("awaiting_documents", "ready")
    BY DEF GoingBack, PROGRESS, ProjectStates
  <2>4. CASE stateCopy[r] = "awaiting_documents" /\ SaveProject(r, "ready", papers, stepsCopy[r], change)
    <3>1. change = StateChange(stateCopy[r], "ready", FALSE) /\ "ready" \in ProjectStates
      BY <2>4 DEF ProjectStates
    <3> HIDE DEF change, papers
    <3> QED BY <2>1, <2>2, <2>3, <2>4, <3>1, CopyTyped, Saved
  <2>5. CASE SaveProject(r, stateCopy[r], papers, stepsCopy[r], NoEvent)
    <3> HIDE DEF change, papers
    <3> QED BY <2>1, <2>5, CopyTyped, Saved
  <2> QED BY <1>4, <2>4, <2>5 DEF AttachDocument
<1>5. ASSUME NEW r \in Staff, NEW type \in Papers, DetachDocument(r, type)
      PROVE  ProjectInv' /\ ProjectMoves
  <2> DEFINE papers == papersCopy[r] \ {type}
             change == StateChange("ready", "awaiting_documents", FALSE)
  <2>1. stage[r] = "deciding" /\ papers \in SUBSET Papers /\ papers # papersCopy[r]
    BY <1>5, CopyTyped DEF DetachDocument
  <2>2. change \in StateChanges /\ change.to = "awaiting_documents"
    BY DEF StateChange, StateChanges, ProjectStates
  <2>3. CASE stateCopy[r] = "ready" /\ SaveProject(r, "awaiting_documents", papers, stepsCopy[r], change)
    <3>1. change = StateChange(stateCopy[r], "awaiting_documents", FALSE)
          /\ "awaiting_documents" \in ProjectStates
      BY <2>3 DEF ProjectStates
    <3> HIDE DEF change, papers
    <3> QED BY <2>1, <2>2, <2>3, <3>1, CopyTyped, Saved
  <2>4. CASE SaveProject(r, stateCopy[r], papers, stepsCopy[r], NoEvent)
    <3> HIDE DEF change, papers
    <3> QED BY <2>1, <2>4, CopyTyped, Saved
  <2> QED BY <1>5, <2>3, <2>4 DEF DetachDocument
<1>6. ASSUME NEW r \in Staff, NEW step \in Steps, CompleteTask(r, step)
      PROVE  ProjectInv' /\ ProjectMoves
  <2>1. stepsCopy[r] \cup {step} \in SUBSET Steps
    BY CopyTyped
  <2> QED BY <1>6, <2>1, CopyTyped, Saved DEF CompleteTask
<1>7. ASSUME NEW r \in Staff, SetTaskDue(r) PROVE ProjectInv' /\ ProjectMoves
  BY <1>7, CopyTyped, Saved DEF SetTaskDue
<1>8. ASSUME NEW r \in Staff, FindUnused(r) PROVE ProjectInv' /\ ProjectMoves
  <2>1. /\ stage[r] = "deciding" /\ stage' = [stage EXCEPT ![r] = "removing"]
        /\ UNCHANGED <<alone, projectTables, timeBooked, lastEvent, projectCopies>>
    BY <1>8 DEF FindUnused
  <2>2. ProjectTypeOK' /\ FinishedHasDate' /\ BookedIsKept'
    BY <2>1 DEF ProjectInv, ProjectTypeOK, projectTables, projectCopies, FinishedHasDate, BookedIsKept
  <2>3. alone' => /\ \A p, q \in Staff : stage'[p] # "idle" /\ stage'[q] # "idle" => p = q
                  /\ \A q \in Staff : CopyIsTrue(q)'
    BY <2>1 DEF ProjectInv, ProjectTypeOK, projectTables, projectCopies, CopyIsTrue
  <2>4. ProjectMoves
    BY <2>1 DEF ProjectMoves, projectTables
  <2> QED BY <2>1, <2>2, <2>3, <2>4 DEF ProjectInv, projectCopies
<1>9. ASSUME NEW r \in Staff, Remove(r) PROVE ProjectInv' /\ ProjectMoves
  <2>1. /\ stage[r] # "idle" /\ Answered(r)
        /\ UNCHANGED <<alone, projectState, finishedAt, timeBooked, lastEvent>>
        /\ \/ ~ timeBooked /\ present' = FALSE /\ papersHere' = {} /\ stepsDone' = {}
           \/ UNCHANGED <<present, papersHere, stepsDone>>
    BY <1>9 DEF Remove, MayDelete
  <2>2. ProjectTypeOK' /\ FinishedHasDate' /\ BookedIsKept'
    <3>1. /\ present' \in BOOLEAN /\ papersHere' \subseteq Papers /\ stepsDone' \subseteq Steps
          /\ ~ present' => papersHere' = {} /\ stepsDone' = {}
          /\ timeBooked' => present'
      <4>1. /\ present \in BOOLEAN /\ papersHere \subseteq Papers /\ stepsDone \subseteq Steps
            /\ ~ present => papersHere = {} /\ stepsDone = {}
            /\ timeBooked => present
        BY DEF ProjectInv, ProjectTypeOK, BookedIsKept
      <4>2. CASE UNCHANGED <<present, papersHere, stepsDone>>
        BY <2>1, <4>1, <4>2
      <4>3. CASE ~ timeBooked /\ present' = FALSE /\ papersHere' = {} /\ stepsDone' = {}
        BY <2>1, <4>3
      <4> QED BY <2>1, <4>2, <4>3
    <3>2. ProjectTypeOK'
      BY <2>1, <3>1, CopiesDropped DEF ProjectInv, ProjectTypeOK
    <3> QED BY <2>1, <3>1, <3>2 DEF ProjectInv, FinishedHasDate, BookedIsKept
  <2>3. ProjectMoves
    BY <2>1 DEF ProjectMoves
  <2> QED BY <2>1, <2>2, <2>3, CopiesDropped, NobodyLeft DEF ProjectInv, CopyIsTrue
<1>10. ASSUME NEW r \in Staff, Refused(r) PROVE ProjectInv' /\ ProjectMoves
  <2>1. /\ stage[r] # "idle" /\ Answered(r)
        /\ UNCHANGED <<alone, projectTables, timeBooked, lastEvent>>
    BY <1>10 DEF Refused
  <2>2. ProjectTypeOK' /\ FinishedHasDate' /\ BookedIsKept'
    BY <2>1, CopiesDropped DEF ProjectInv, ProjectTypeOK, FinishedHasDate, BookedIsKept, projectTables
  <2>3. ProjectMoves
    BY <2>1 DEF ProjectMoves, projectTables
  <2> QED BY <2>1, <2>2, <2>3, CopiesDropped, NobodyLeft DEF ProjectInv, CopyIsTrue, projectTables
<1>11. CASE BookTime
  <2>1. present /\ timeBooked' = TRUE
        /\ UNCHANGED <<alone, projectTables, lastEvent, stage, projectCopies>>
    BY <1>11 DEF BookTime
  <2>2. ProjectTypeOK' /\ FinishedHasDate' /\ BookedIsKept'
    BY <2>1 DEF ProjectInv, ProjectTypeOK, projectTables, projectCopies, FinishedHasDate, BookedIsKept
  <2> QED BY <2>1, <2>2 DEF ProjectInv, ProjectMoves, CopyIsTrue, projectTables, projectCopies
<1>12. CASE UNCHANGED projectVars
  BY <1>12 DEF projectVars, projectTables, projectCopies, ProjectInv, ProjectTypeOK, FinishedHasDate,
     BookedIsKept, CopyIsTrue, ProjectMoves
<1>13. CASE ProjectNext
  <2>1. ASSUME NEW r \in Staff, StaffStep(r) PROVE ProjectInv' /\ ProjectMoves
    BY <1>1, <1>2, <1>3, <1>4, <1>5, <1>6, <1>7, <1>8, <1>9, <1>10, <2>1 DEF StaffStep
  <2> QED BY <1>11, <1>13, <2>1 DEF ProjectNext
<1> QED BY <1>12, <1>13

\* What the firm can rely on about a project, for any documents, steps and requests at
\* once (project.ts, project-workflow.ts).
THEOREM ProjectStands == ProjectSpec => ProjectHolds
<1>1. ProjectInv => ProjectTypeOK /\ FinishedHasDate /\ BookedIsKept
  BY DEF ProjectInv
<1>2. ProjectMoves
        => /\ lastEvent' # lastEvent /\ lastEvent' # NoEvent /\ lastEvent'.to = "in_progress"
                => Missing(papersHere') = {}
           /\ alone /\ projectState' # projectState =>
                \E said \in BOOLEAN :
                    /\ lastEvent' = StateChange(projectState, projectState', said)
                    /\ GoingBack(projectState, projectState')
                         => said \/ papersHere' # papersHere
           /\ alone /\ ~ present => ~ present'
  BY DEF ProjectMoves
<1> QED BY <1>1, <1>2, ProjectStarts, ProjectGoesOn, PTL
        DEF ProjectSpec, ProjectHolds, StartsWithPapers, ChangesAreTold, RemovedStaysRemoved

-----------------------------------------------------------------------------
(* Recurrence: what an actor read is still so while it is the only one at  *)
(* work, and each job without its papers has a writer or lost it.          *)

\* What is known of an actor: what it has in hand and is yet to sweep are rows of
\* client_services and projects, as they were when it read them.
ActorOK(a) ==
    /\ doing[a] \in Doings
    /\ doing[a] \in {"idle", "sweeping"} <=> inHand[a] = Nothing
    /\ inHand[a] # Nothing => inHand[a] \in Clients \X Nat \X Periods
    /\ doing[a] \in {"found", "opening", "papers", "carrying"} =>
         inHand[a] \in Jobs /\ Engagement(inHand[a]) <= begun[Client(inHand[a])]
    /\ toSweep[a] \subseteq UNION {{c} \X (1 .. begun[c]) : c \in Clients}
    /\ sweptPeriod[a] \in Periods

\* Nobody has a job of the client's for the period.
Unopened(piece) == \A other \in jobs : ~ (Client(other) = Client(piece) /\ Period(other) = Period(piece))

\* What an actor read is still so while it is the only one at work.
StillSo(a) ==
    /\ doing[a] # "idle" => \A b \in Actors \ {a} : doing[b] = "idle"
    /\ doing[a] \in {"found", "carrying"} => Unopened(inHand[a])
    /\ doing[a] = "starting" /\ Client(inHand[a]) \in engaged => Unopened(inHand[a])
    /\ doing[a] = "subscribing" => Client(inHand[a]) \notin engaged
    /\ doing[a] = "opening" => Client(inHand[a]) \in restarted \/ Unopened(inHand[a])

Unpapered == jobs \ papered
Writers == {a \in Actors : doing[a] = "papers"}

\* Each writer has an unpapered job of its own in hand, and the others were left by the
\* dead.
PapersOK ==
    /\ IsFiniteSet(Unpapered) /\ IsFiniteSet(Writers)
    /\ Cardinality(Unpapered) <= deaths + Cardinality(Writers)
    /\ \A a \in Writers : inHand[a] \in Unpapered
    /\ \A a, b \in Writers : inHand[a] = inHand[b] => a = b

TablesOK ==
    /\ closed \in Periods /\ oneByOne \in BOOLEAN
    /\ restarted \subseteq Clients /\ deaths \in 0 .. MaxDeaths
    /\ begun \in [Clients -> Nat]
    /\ \A c \in Clients : begun[c] \in 0 .. Engagements(c)
    /\ engaged \subseteq {c \in Clients : begun[c] > 0}
    /\ jobs \subseteq {piece \in Jobs : Engagement(piece) <= begun[Client(piece)]}
    /\ papered \subseteq jobs

ActorsAre ==
    /\ doing \in [Actors -> Doings]
    /\ inHand \in [Actors -> (Clients \X Nat \X Periods) \cup {Nothing}]
    /\ toSweep \in [Actors -> SUBSET (Clients \X Nat)]
    /\ sweptPeriod \in [Actors -> Periods]

RecurrenceInv ==
    /\ TablesOK /\ ActorsAre
    /\ \A a \in Actors : ActorOK(a)
    /\ oneByOne => \A a \in Actors : StillSo(a)
    /\ OnePerPeriod
    /\ PapersOK

LEMMA Bounds == LastPeriod \in Nat \ {0} /\ MaxDeaths \in Nat /\ Sweepers \cap People = {} 
  BY RecurrenceAssumption

LEMMA JobIs ==
  ASSUME NEW piece
  PROVE  piece \in Jobs <=> \E c \in Clients : \E n \in 1 .. Engagements(c), p \in Periods : piece = <<c, n, p>>
  BY DEF Jobs

LEMMA JobParts ==
  ASSUME NEW piece \in Jobs
  PROVE  /\ Client(piece) \in Clients /\ Engagement(piece) \in 1 .. Engagements(Client(piece)) /\ Period(piece) \in Periods
         /\ piece = <<Client(piece), Engagement(piece), Period(piece)>>
         /\ piece \in Clients \X Nat \X Periods
         /\ piece # Nothing
<1>a. PICK c \in Clients : \E n \in 1 .. Engagements(c), p \in Periods : piece = <<c, n, p>>
  BY JobIs
<1>1. PICK n \in 1 .. Engagements(c), p \in Periods : piece = <<c, n, p>>
  BY <1>a
<1>2. Client(piece) = c /\ Engagement(piece) = n /\ Period(piece) = p
  BY <1>1 DEF Client, Engagement, Period
<1>3. n \in Nat /\ p \in Nat /\ Engagements(c) \in Nat
  BY DEF Periods, Engagements
<1>4. piece \in Clients \X Nat \X Nat /\ piece \in Clients \X Nat \X Periods
  BY <1>1, <1>3
<1>5. piece # Nothing
  BY <1>4, RecurrenceAssumption
<1> QED BY <1>1, <1>2, <1>4, <1>5

LEMMA HandParts ==
  ASSUME NEW c \in Clients, NEW n \in Nat, NEW p \in Periods
  PROVE  /\ <<c, n, p>> # Nothing /\ <<c, n, p>> \in Clients \X Nat \X Periods
         /\ Client(<<c, n, p>>) = c /\ Engagement(<<c, n, p>>) = n /\ Period(<<c, n, p>>) = p
         /\ n \in 1 .. Engagements(c) => <<c, n, p>> \in Jobs
<1>1. p \in Nat
  BY DEF Periods
<1>2. <<c, n, p>> # Nothing
  BY <1>1, RecurrenceAssumption
<1>3. n \in 1 .. Engagements(c) => <<c, n, p>> \in Jobs
  BY JobIs
<1> QED BY <1>2, <1>3 DEF Client, Engagement, Period

LEMMA SweptIs ==
  ASSUME NEW e, e \in UNION {{c} \X (1 .. begun[c]) : c \in Clients}
  PROVE  e[1] \in Clients /\ e[2] \in 1 .. begun[e[1]] /\ e = <<e[1], e[2]>>
  OBVIOUS

LEMMA TypeFollows == TablesOK /\ ActorsAre /\ (\A a \in Actors : ActorOK(a)) => RecurrenceTypeOK
  BY DEF TablesOK, ActorsAre, ActorOK, RecurrenceTypeOK

LEMMA RecurrenceStart == RecurrenceInit => RecurrenceInv
<1> SUFFICES ASSUME RecurrenceInit PROVE RecurrenceInv
  OBVIOUS
<1>1. TablesOK /\ ActorsAre
  BY Bounds DEF RecurrenceInit, TablesOK, ActorsAre, Periods, Engagements, Doings
<1>2. ASSUME NEW a \in Actors PROVE ActorOK(a) /\ StillSo(a)
  BY Bounds DEF RecurrenceInit, ActorOK, StillSo, Periods, Doings
<1>3. OnePerPeriod
  BY DEF RecurrenceInit, OnePerPeriod
<1>4. Unpapered = {} /\ Writers = {} /\ deaths = 0
  BY DEF RecurrenceInit, Unpapered, Writers
<1>5. PapersOK
  BY <1>4, FS_EmptySet DEF PapersOK
<1> QED BY <1>1, <1>2, <1>3, <1>5 DEF RecurrenceInv

\* Engagements are never taken back, so what the others have in hand still exists.
LEMMA OthersHold ==
  ASSUME TablesOK, NEW b \in Actors, ActorOK(b), begun' \in [Clients -> Nat],
         \A c \in Clients : begun[c] <= begun'[c],
         doing'[b] = doing[b], inHand'[b] = inHand[b], toSweep'[b] = toSweep[b], sweptPeriod'[b] = sweptPeriod[b]
  PROVE  ActorOK(b)'
<1>1. doing[b] \in {"found", "opening", "papers", "carrying"} =>
         inHand[b] \in Jobs /\ Engagement(inHand[b]) <= begun'[Client(inHand[b])]
  <2> SUFFICES ASSUME doing[b] \in {"found", "opening", "papers", "carrying"}
               PROVE  Engagement(inHand[b]) <= begun'[Client(inHand[b])]
    BY DEF ActorOK
  <2>1. inHand[b] \in Jobs /\ Engagement(inHand[b]) <= begun[Client(inHand[b])]
    BY DEF ActorOK
  <2>2. Client(inHand[b]) \in Clients /\ Engagement(inHand[b]) \in Nat
    BY <2>1, JobParts DEF Engagements
  <2>3. /\ begun[Client(inHand[b])] \in Nat /\ begun'[Client(inHand[b])] \in Nat
        /\ begun[Client(inHand[b])] <= begun'[Client(inHand[b])]
    BY <2>2 DEF TablesOK
  <2> QED BY <2>1, <2>2, <2>3
<1>2. toSweep[b] \subseteq UNION {{c} \X (1 .. begun'[c]) : c \in Clients}
  <2> SUFFICES ASSUME NEW e \in toSweep[b] PROVE e \in UNION {{c} \X (1 .. begun'[c]) : c \in Clients}
    OBVIOUS
  <2>1. e[1] \in Clients /\ e[2] \in 1 .. begun[e[1]] /\ e = <<e[1], e[2]>>
    BY SweptIs DEF ActorOK
  <2>2. e[2] \in 1 .. begun'[e[1]]
    BY <2>1 DEF TablesOK
  <2>3. e \in {e[1]} \X (1 .. begun'[e[1]])
    BY <2>1, <2>2
  <2> QED BY <2>1, <2>3
<1> QED BY <1>1, <1>2 DEF ActorOK, Client, Engagement

\* One at a time: while one actor is at work the others are idle, and stay so.
LEMMA OthersIdle ==
  ASSUME NEW a \in Actors, \A b \in Actors \ {a} : doing'[b] = doing[b],
         doing[a] # "idle" \/ MayBegin(a), oneByOne, \A b \in Actors : StillSo(b)
  PROVE  \A b \in Actors \ {a} : doing[b] = "idle" /\ doing'[b] = "idle"
  BY DEF StillSo, MayBegin

\* Nobody starts or stops writing papers, and no job comes to be: the count stays.
LEMMA PapersStay ==
  ASSUME PapersOK, jobs' = jobs, papered' = papered, deaths' = deaths,
         \A b \in Actors : (doing'[b] = "papers" <=> doing[b] = "papers") /\ (doing[b] = "papers" => inHand'[b] = inHand[b])
  PROVE  PapersOK'
<1>1. Unpapered' = Unpapered /\ Writers' = Writers
  BY DEF Unpapered, Writers
<1> QED BY <1>1 DEF PapersOK, Writers

LEMMA OneStays ==
  ASSUME OnePerPeriod, jobs' = jobs, oneByOne' = oneByOne, restarted \subseteq restarted'
  PROVE  OnePerPeriod'
  BY DEF OnePerPeriod, Client, Period

\* An actor's step, put together.
LEMMA PutTogether ==
  ASSUME RecurrenceInv, NEW a \in Actors, doing[a] # "idle" \/ MayBegin(a),
         TablesOK', ActorsAre', ActorOK(a)', oneByOne' = oneByOne,
         \A c \in Clients : begun[c] <= begun'[c],
         \A b \in Actors \ {a} : /\ doing'[b] = doing[b] /\ inHand'[b] = inHand[b]
                                 /\ toSweep'[b] = toSweep[b] /\ sweptPeriod'[b] = sweptPeriod[b],
         oneByOne => StillSo(a)',
         OnePerPeriod', PapersOK'
  PROVE  RecurrenceInv'
<1>1. \A b \in Actors : ActorOK(b)'
  <2>1. ASSUME NEW b \in Actors \ {a} PROVE ActorOK(b)'
    <3>1. TablesOK /\ ActorOK(b) /\ begun' \in [Clients -> Nat]
      BY DEF RecurrenceInv, TablesOK
    <3> QED BY <3>1, OthersHold
  <2> QED BY <2>1
<1>2. oneByOne' => \A b \in Actors : StillSo(b)'
  <2>1. ASSUME oneByOne, NEW b \in Actors \ {a} PROVE StillSo(b)'
    <3>1. doing'[b] = "idle"
      BY <2>1, OthersIdle DEF RecurrenceInv
    <3> QED BY <3>1 DEF StillSo
  <2> QED BY <2>1
<1> QED BY <1>1, <1>2 DEF RecurrenceInv

\* What Turn does.
LEMMA TurnIs ==
  ASSUME ActorsAre, NEW a \in Actors, NEW what \in Doings,
         NEW piece \in (Clients \X Nat \X Periods) \cup {Nothing}, Turn(a, what, piece)
  PROVE  /\ doing' \in [Actors -> Doings]
         /\ inHand' \in [Actors -> (Clients \X Nat \X Periods) \cup {Nothing}]
         /\ doing'[a] = what /\ inHand'[a] = piece
         /\ \A b \in Actors \ {a} : doing'[b] = doing[b] /\ inHand'[b] = inHand[b]
  BY DEF Turn, ActorsAre

LEMMA ForgetIs ==
  ASSUME ActorsAre, NEW a \in Actors, Forget(a)
  PROVE  /\ toSweep' \in [Actors -> SUBSET (Clients \X Nat)]
         /\ sweptPeriod' \in [Actors -> Periods]
         /\ toSweep'[a] = {} /\ sweptPeriod'[a] = 1 /\ 1 \in Periods
         /\ \A b \in Actors \ {a} : toSweep'[b] = toSweep[b] /\ sweptPeriod'[b] = sweptPeriod[b]
<1>1. 1 \in Periods
  BY Bounds DEF Periods
<1> QED BY <1>1 DEF Forget, ActorsAre

\* Steps that open nothing.
LEMMA QuietStep ==
  ASSUME RecurrenceInv, NEW a \in Actors, doing[a] # "idle" \/ MayBegin(a), doing[a] # "papers", doing'[a] # "papers",
         TablesOK', ActorsAre', ActorOK(a)', oneByOne' = oneByOne, restarted \subseteq restarted',
         jobs' = jobs, papered' = papered, deaths' = deaths,
         \A c \in Clients : begun[c] <= begun'[c],
         \A b \in Actors \ {a} : /\ doing'[b] = doing[b] /\ inHand'[b] = inHand[b]
                                 /\ toSweep'[b] = toSweep[b] /\ sweptPeriod'[b] = sweptPeriod[b],
         oneByOne => StillSo(a)'
  PROVE  RecurrenceInv'
<1>1. OnePerPeriod'
  BY OneStays DEF RecurrenceInv
<1>2. PapersOK'
  <2>1. \A b \in Actors : (doing'[b] = "papers" <=> doing[b] = "papers") /\ (doing[b] = "papers" => inHand'[b] = inHand[b])
    OBVIOUS
  <2> QED BY <2>1, PapersStay DEF RecurrenceInv
<1> QED BY <1>1, <1>2, PutTogether

LEMMA InHandIs ==
  ASSUME ActorsAre, NEW a \in Actors, ActorOK(a), doing[a] \notin {"idle", "sweeping"}
  PROVE  /\ inHand[a] \in Clients \X Nat \X Periods
         /\ Client(inHand[a]) \in Clients /\ Engagement(inHand[a]) \in Nat /\ Period(inHand[a]) \in Periods
         /\ inHand[a] = <<Client(inHand[a]), Engagement(inHand[a]), Period(inHand[a])>>
<1>1. inHand[a] \in Clients \X Nat \X Periods
  BY DEF ActorsAre, ActorOK
<1> QED BY <1>1 DEF Client, Engagement, Period

LEMMA StartSweepKeeps ==
  ASSUME RecurrenceInv, NEW a \in Sweepers, StartSweep(a)
  PROVE  RecurrenceInv'
<1> USE DEF recurrenceTables
<1>1. a \in Actors /\ TablesOK /\ ActorsAre /\ ActorOK(a) /\ MayBegin(a) /\ doing[a] = "idle"
  BY DEF RecurrenceInv, Actors, StartSweep, MayBegin
<1>2. /\ doing' \in [Actors -> Doings]
      /\ inHand' \in [Actors -> (Clients \X Nat \X Periods) \cup {Nothing}]
      /\ doing'[a] = "sweeping" /\ inHand'[a] = Nothing
      /\ \A b \in Actors \ {a} : doing'[b] = doing[b] /\ inHand'[b] = inHand[b]
  BY <1>1, TurnIs DEF StartSweep, Doings
<1>3. /\ {<<c, begun[c]>> : c \in engaged} \subseteq UNION {{c} \X (1 .. begun[c]) : c \in Clients}
      /\ {<<c, begun[c]>> : c \in engaged} \subseteq Clients \X Nat
  <2> SUFFICES ASSUME NEW c \in engaged
               PROVE  <<c, begun[c]>> \in UNION {{d} \X (1 .. begun[d]) : d \in Clients} /\ <<c, begun[c]>> \in Clients \X Nat
    OBVIOUS
  <2>1. c \in Clients /\ begun[c] \in Nat /\ begun[c] > 0
    BY <1>1 DEF TablesOK
  <2>2. <<c, begun[c]>> \in {c} \X (1 .. begun[c])
    BY <2>1
  <2> QED BY <2>1, <2>2
<1>4. /\ toSweep'[a] = {<<c, begun[c]>> : c \in engaged} /\ sweptPeriod'[a] = closed
      /\ \A b \in Actors \ {a} : toSweep'[b] = toSweep[b] /\ sweptPeriod'[b] = sweptPeriod[b]
      /\ UNCHANGED <<closed, oneByOne, restarted, deaths, begun, engaged, jobs, papered>>
  BY <1>1 DEF StartSweep, ActorsAre
<1>5. ActorsAre'
  BY <1>1, <1>2, <1>3 DEF StartSweep, ActorsAre, TablesOK
<1>6. TablesOK'
  BY <1>1, <1>4 DEF TablesOK, Client, Engagement
<1>7. ActorOK(a)'
  BY <1>1, <1>2, <1>3, <1>4 DEF ActorOK, TablesOK, Doings
<1>8. oneByOne => StillSo(a)'
  BY <1>1, <1>2, OthersIdle DEF StillSo, RecurrenceInv
<1>9. \A c \in Clients : begun[c] <= begun'[c]
  BY <1>1, <1>4 DEF TablesOK
<1> QED BY <1>1, <1>2, <1>4, <1>5, <1>6, <1>7, <1>8, <1>9, QuietStep

LEMMA SweepClientKeeps ==
  ASSUME RecurrenceInv, NEW a \in Sweepers, SweepClient(a)
  PROVE  RecurrenceInv'
<1> USE DEF recurrenceTables
<1>1. a \in Actors /\ TablesOK /\ ActorsAre /\ ActorOK(a) /\ doing[a] = "sweeping" /\ inHand[a] = Nothing
  BY DEF RecurrenceInv, Actors, SweepClient, ActorOK
<1>2. PICK e \in toSweep[a] :
        /\ toSweep' = [toSweep EXCEPT ![a] = @ \ {e}]
        /\ IF ExistsForPeriod(e[1], e[2], sweptPeriod[a])
             THEN UNCHANGED <<doing, inHand>>
             ELSE Turn(a, "found", <<e[1], e[2], sweptPeriod[a]>>)
  BY DEF SweepClient
<1>3. e[1] \in Clients /\ e[2] \in 1 .. begun[e[1]] /\ begun[e[1]] \in 0 .. Engagements(e[1]) /\ begun[e[1]] \in Nat
  BY <1>1, SweptIs DEF ActorOK, TablesOK
<1>4. e[2] \in Nat /\ e[2] \in 1 .. Engagements(e[1]) /\ sweptPeriod[a] \in Periods
  BY <1>1, <1>3 DEF ActorOK, Engagements
<1>d. PICK piece : piece = <<e[1], e[2], sweptPeriod[a]>>
  OBVIOUS
<1>5. /\ piece \in Jobs /\ piece \in Clients \X Nat \X Periods /\ piece # Nothing
      /\ Client(piece) = e[1] /\ Engagement(piece) = e[2] /\ Period(piece) = sweptPeriod[a]
  BY <1>3, <1>4, <1>d, HandParts
<1>6. /\ toSweep' \in [Actors -> SUBSET (Clients \X Nat)]
      /\ toSweep'[a] \subseteq toSweep[a]
      /\ \A b \in Actors \ {a} : toSweep'[b] = toSweep[b]
      /\ UNCHANGED <<closed, oneByOne, restarted, deaths, begun, engaged, jobs, papered, sweptPeriod>>
  BY <1>1, <1>2 DEF SweepClient, ActorsAre
<1>7. /\ doing' \in [Actors -> Doings]
      /\ inHand' \in [Actors -> (Clients \X Nat \X Periods) \cup {Nothing}]
      /\ \A b \in Actors \ {a} : doing'[b] = doing[b] /\ inHand'[b] = inHand[b]
      /\ \/ doing'[a] = "sweeping" /\ inHand'[a] = Nothing
         \/ doing'[a] = "found" /\ inHand'[a] = piece /\ Unopened(piece)
  <2>1. CASE ExistsForPeriod(e[1], e[2], sweptPeriod[a])
    BY <1>1, <1>2, <2>1 DEF ActorsAre
  <2>2. CASE ~ ExistsForPeriod(e[1], e[2], sweptPeriod[a])
    <3>1. Turn(a, "found", piece)
      BY <1>2, <1>d, <2>2
    <3>2. Unopened(piece)
      BY <1>5, <2>2 DEF ExistsForPeriod, Unopened
    <3> QED BY <1>1, <1>5, <3>1, <3>2, TurnIs DEF Doings
  <2> QED BY <2>1, <2>2
<1>8. TablesOK'
  BY <1>1, <1>6 DEF TablesOK, Client, Engagement
<1>9. ActorsAre'
  BY <1>1, <1>6, <1>7 DEF ActorsAre
<1>10. ActorOK(a)'
  <2>1. piece \in Jobs /\ Engagement(piece) <= begun'[Client(piece)]
    BY <1>3, <1>5, <1>6
  <2>2. toSweep'[a] \subseteq UNION {{c} \X (1 .. begun'[c]) : c \in Clients}
    BY <1>1, <1>6 DEF ActorOK
  <2> QED BY <1>1, <1>4, <1>5, <1>6, <1>7, <2>1, <2>2 DEF ActorOK, Doings
<1>11. oneByOne => StillSo(a)'
  <2> SUFFICES ASSUME oneByOne PROVE StillSo(a)'
    OBVIOUS
  <2>1. \A b \in Actors \ {a} : doing'[b] = "idle"
    BY <1>1, <1>7, OthersIdle DEF RecurrenceInv
  <2>2. Unopened(piece) => Unopened(piece)'
    BY <1>6 DEF Unopened
  <2> QED BY <1>7, <2>1, <2>2 DEF StillSo, Unopened
<1>12. \A c \in Clients : begun[c] <= begun'[c]
  BY <1>1, <1>6 DEF TablesOK
<1> QED BY <1>1, <1>6, <1>7, <1>8, <1>9, <1>10, <1>11, <1>12, QuietStep

LEMMA SweepEndsKeeps ==
  ASSUME RecurrenceInv, NEW a \in Sweepers, SweepEnds(a)
  PROVE  RecurrenceInv'
<1> USE DEF recurrenceTables
<1>1. a \in Actors /\ TablesOK /\ ActorsAre /\ ActorOK(a) /\ doing[a] = "sweeping"
  BY DEF RecurrenceInv, Actors, SweepEnds
<1>2. /\ doing' \in [Actors -> Doings]
      /\ inHand' \in [Actors -> (Clients \X Nat \X Periods) \cup {Nothing}]
      /\ doing'[a] = "idle" /\ inHand'[a] = Nothing
      /\ \A b \in Actors \ {a} : doing'[b] = doing[b] /\ inHand'[b] = inHand[b]
  BY <1>1, TurnIs DEF SweepEnds, Done, Doings
<1>3. /\ toSweep' \in [Actors -> SUBSET (Clients \X Nat)]
      /\ sweptPeriod' \in [Actors -> Periods]
      /\ toSweep'[a] = {} /\ sweptPeriod'[a] = 1 /\ 1 \in Periods
      /\ \A b \in Actors \ {a} : toSweep'[b] = toSweep[b] /\ sweptPeriod'[b] = sweptPeriod[b]
  BY <1>1, ForgetIs DEF SweepEnds
<1>4. UNCHANGED <<closed, oneByOne, restarted, deaths, begun, engaged, jobs, papered>>
  BY DEF SweepEnds
<1>5. TablesOK' /\ ActorsAre'
  BY <1>1, <1>2, <1>3, <1>4 DEF TablesOK, ActorsAre, Client, Engagement
<1>6. ActorOK(a)'
  BY <1>1, <1>2, <1>3 DEF ActorOK, Doings
<1>7. StillSo(a)'
  BY <1>2 DEF StillSo
<1>8. \A c \in Clients : begun[c] <= begun'[c]
  BY <1>1, <1>4 DEF TablesOK
<1> QED BY <1>1, <1>2, <1>3, <1>4, <1>5, <1>6, <1>7, <1>8, QuietStep

\* A request's step that opens nothing: what it takes in hand is a row it has just read.
LEMMA RequestTurns ==
  ASSUME RecurrenceInv, NEW a \in Actors, doing[a] # "idle" \/ MayBegin(a), doing[a] # "papers",
         NEW what \in Doings \ {"papers", "sweeping"}, NEW piece \in (Clients \X Nat \X Periods) \cup {Nothing},
         Turn(a, what, piece), TablesOK',
         UNCHANGED <<oneByOne, deaths, jobs, papered, toSweep, sweptPeriod>>, restarted \subseteq restarted',
         \A c \in Clients : begun[c] <= begun'[c],
         what = "idle" <=> piece = Nothing,
         what \in {"found", "opening", "carrying"} => piece \in Jobs /\ Engagement(piece) <= begun'[Client(piece)],
         what \in {"found", "carrying"} /\ oneByOne => Unopened(piece),
         what = "starting" /\ oneByOne /\ Client(piece) \in engaged' => Unopened(piece),
         what = "subscribing" /\ oneByOne => Client(piece) \notin engaged',
         what = "opening" /\ oneByOne => Client(piece) \in restarted' \/ Unopened(piece)
  PROVE  RecurrenceInv'
<1>1. TablesOK /\ ActorsAre /\ ActorOK(a)
  BY DEF RecurrenceInv
<1>2. /\ doing' \in [Actors -> Doings]
      /\ inHand' \in [Actors -> (Clients \X Nat \X Periods) \cup {Nothing}]
      /\ doing'[a] = what /\ inHand'[a] = piece
      /\ \A b \in Actors \ {a} : doing'[b] = doing[b] /\ inHand'[b] = inHand[b]
  BY <1>1, TurnIs
<1>3. ActorsAre'
  BY <1>1, <1>2 DEF ActorsAre
<1>4. ActorOK(a)'
  <2>1. toSweep[a] \subseteq UNION {{c} \X (1 .. begun'[c]) : c \in Clients}
    <3> SUFFICES ASSUME NEW e \in toSweep[a] PROVE e \in UNION {{c} \X (1 .. begun'[c]) : c \in Clients}
      OBVIOUS
    <3>1. e[1] \in Clients /\ e[2] \in 1 .. begun[e[1]] /\ e = <<e[1], e[2]>>
      BY <1>1, SweptIs DEF ActorOK
    <3>2. begun[e[1]] \in Nat /\ begun'[e[1]] \in Nat /\ begun[e[1]] <= begun'[e[1]]
      BY <1>1, <3>1 DEF TablesOK
    <3>3. e[2] \in 1 .. begun'[e[1]]
      BY <3>1, <3>2
    <3>4. e \in {e[1]} \X (1 .. begun'[e[1]])
      BY <3>1, <3>3
    <3> QED BY <3>1, <3>4
  <2>2. toSweep'[a] = toSweep[a] /\ sweptPeriod'[a] = sweptPeriod[a] /\ sweptPeriod[a] \in Periods
    BY <1>1 DEF ActorOK
  <2>3. what \notin {"papers", "sweeping"} /\ what \in Doings
    OBVIOUS
  <2> QED BY <1>2, <2>1, <2>2, <2>3 DEF ActorOK
<1>5. oneByOne => StillSo(a)'
  <2> SUFFICES ASSUME oneByOne PROVE StillSo(a)'
    OBVIOUS
  <2>1. \A b \in Actors \ {a} : doing'[b] = "idle"
    BY <1>2, OthersIdle DEF RecurrenceInv
  <2>2. jobs' = jobs
    OBVIOUS
  <2> QED BY <1>2, <2>1, <2>2 DEF StillSo, Unopened
<1>6. what # "papers"
  OBVIOUS
<1> QED BY <1>2, <1>3, <1>4, <1>5, <1>6, QuietStep

LEMMA ReadToStartKeeps ==
  ASSUME RecurrenceInv, NEW a \in People, NEW c \in Clients, NEW p \in Periods, ReadToStart(a, c, p)
  PROVE  RecurrenceInv'
<1> USE DEF recurrenceTables
<1>1. a \in Actors /\ TablesOK /\ MayBegin(a) /\ doing[a] = "idle" /\ begun[c] \in Nat
  BY DEF RecurrenceInv, Actors, ReadToStart, MayBegin, TablesOK
<1>2. PICK piece : piece = <<c, begun[c], p>>
  OBVIOUS
<1>3. piece # Nothing /\ piece \in Clients \X Nat \X Periods /\ Client(piece) = c /\ Period(piece) = p
  BY <1>1, <1>2, HandParts
<1>4. Client(piece) \in engaged => Unopened(piece)
  BY <1>3 DEF ReadToStart, ExistsForPeriod, Unopened
<1>5. /\ Turn(a, "starting", piece)
      /\ UNCHANGED <<closed, oneByOne, restarted, deaths, begun, engaged, jobs, papered, toSweep, sweptPeriod>>
  BY <1>2 DEF ReadToStart
<1>6. TablesOK' /\ \A d \in Clients : begun[d] <= begun'[d]
  BY <1>1, <1>5 DEF TablesOK, Client, Engagement
<1> QED BY <1>1, <1>3, <1>4, <1>5, <1>6, RequestTurns DEF Doings

LEMMA FindEngagementKeeps ==
  ASSUME RecurrenceInv, NEW a \in People, FindEngagement(a)
  PROVE  RecurrenceInv'
<1> USE DEF recurrenceTables
<1>1. a \in Actors /\ TablesOK /\ ActorsAre /\ ActorOK(a) /\ doing[a] = "starting"
  BY DEF RecurrenceInv, Actors, FindEngagement
<1>2. /\ inHand[a] \in Clients \X Nat \X Periods
      /\ Client(inHand[a]) \in Clients /\ Period(inHand[a]) \in Periods
      /\ inHand[a] # Nothing
  BY <1>1, InHandIs DEF ActorOK
<1>3. PICK who \in Clients : who = Client(inHand[a])
  BY <1>2
<1>4. UNCHANGED <<closed, oneByOne, restarted, deaths, begun, engaged, jobs, papered, toSweep, sweptPeriod>>
  BY DEF FindEngagement
<1>5. TablesOK' /\ \A d \in Clients : begun[d] <= begun'[d]
  BY <1>1, <1>4 DEF TablesOK, Client, Engagement
<1>6. oneByOne => StillSo(a)
  BY <1>1 DEF RecurrenceInv
<1>7. CASE who \in engaged
  <2>1. PICK piece : piece = <<who, begun[who], Period(inHand[a])>>
    OBVIOUS
  <2>2. begun[who] \in Nat /\ begun[who] \in 1 .. Engagements(who)
    BY <1>1, <1>7 DEF TablesOK, Engagements
  <2>3. /\ piece \in Jobs /\ piece \in Clients \X Nat \X Periods /\ piece # Nothing
        /\ Client(piece) = who /\ Engagement(piece) = begun[who] /\ Period(piece) = Period(inHand[a])
    BY <1>2, <2>1, <2>2, HandParts
  <2>4. oneByOne => Unopened(piece)
    BY <1>1, <1>3, <1>6, <1>7, <2>3 DEF StillSo, Unopened
  <2>5. Turn(a, "opening", piece)
    BY <1>3, <1>7, <2>1 DEF FindEngagement
  <2>6. Engagement(piece) <= begun'[Client(piece)]
    BY <1>4, <2>2, <2>3
  <2> QED BY <1>1, <1>4, <1>5, <2>3, <2>4, <2>5, <2>6, RequestTurns DEF Doings
<1>8. CASE who \notin engaged
  <2>1. Turn(a, "subscribing", inHand[a])
    BY <1>3, <1>8 DEF FindEngagement
  <2> QED BY <1>1, <1>2, <1>3, <1>4, <1>5, <1>8, <2>1, RequestTurns DEF Doings
<1> QED BY <1>7, <1>8

\* A new engagement is the next row of its client's.
LEMMA EngageIs ==
  ASSUME TablesOK, NEW c \in Clients, EngageClient(c), UNCHANGED <<closed, oneByOne, deaths, jobs, papered>>,
         restarted' \subseteq Clients
  PROVE  /\ TablesOK' /\ \A d \in Clients : begun[d] <= begun'[d]
         /\ begun'[c] = begun[c] + 1 /\ begun[c] + 1 \in 1 .. Engagements(c)
<1>1. /\ \A d \in Clients : begun'[d] = (IF d = c THEN begun[c] + 1 ELSE begun[d])
      /\ begun' \in [Clients -> Nat] /\ engaged' = engaged \cup {c}
  BY DEF EngageClient, TablesOK
<1>2. begun[c] < Engagements(c) /\ Engagements(c) \in Nat
  BY DEF EngageClient, Engagements
<1>3. \A d \in Clients : begun[d] \in Nat /\ Engagements(d) \in Nat
  BY DEF TablesOK, Engagements
<1>4. \A d \in Clients : begun[d] <= begun'[d] /\ begun'[d] \in 0 .. Engagements(d)
  BY <1>1, <1>2, <1>3 DEF TablesOK
<1>5. jobs' \subseteq {piece \in Jobs : Engagement(piece) <= begun'[Client(piece)]}
  <2> SUFFICES ASSUME NEW piece \in jobs PROVE piece \in Jobs /\ Engagement(piece) <= begun'[Client(piece)]
    OBVIOUS
  <2>1. piece \in Jobs /\ Engagement(piece) <= begun[Client(piece)]
    BY DEF TablesOK
  <2>2. Client(piece) \in Clients /\ Engagement(piece) \in Nat
    BY <2>1, JobParts DEF Engagements
  <2>3. begun[Client(piece)] <= begun'[Client(piece)] /\ begun[Client(piece)] \in Nat /\ begun'[Client(piece)] \in Nat
    BY <1>1, <1>4, <2>2 DEF TablesOK
  <2> QED BY <2>1, <2>2, <2>3
<1>6. engaged' \subseteq {d \in Clients : begun'[d] > 0}
  <2> SUFFICES ASSUME NEW d \in engaged' PROVE d \in Clients /\ begun'[d] > 0
    OBVIOUS
  <2>1. d \in Clients
    BY <1>1 DEF TablesOK
  <2>2. d # c => begun[d] > 0
    BY <1>1 DEF TablesOK
  <2> QED BY <1>1, <1>3, <2>1, <2>2
<1>7. TablesOK'
  BY <1>1, <1>4, <1>5, <1>6 DEF TablesOK
<1> QED BY <1>1, <1>2, <1>3, <1>4, <1>7

LEMMA SubscribeKeeps ==
  ASSUME RecurrenceInv, NEW a \in People, Subscribe(a)
  PROVE  RecurrenceInv'
<1>1. a \in Actors /\ TablesOK /\ ActorsAre /\ ActorOK(a) /\ doing[a] = "subscribing"
  BY DEF RecurrenceInv, Actors, Subscribe
<1>2. Client(inHand[a]) \in Clients /\ Period(inHand[a]) \in Periods
  BY <1>1, InHandIs
<1>3. PICK who \in Clients : who = Client(inHand[a])
  BY <1>2
<1>4. UNCHANGED <<closed, oneByOne, deaths, jobs, papered, toSweep, sweptPeriod>>
  BY DEF Subscribe
<1>5. CASE /\ EngageClient(who)
           /\ restarted' = IF begun[who] > 0 THEN restarted \cup {who} ELSE restarted
           /\ Turn(a, "opening", <<who, begun[who] + 1, Period(inHand[a])>>)
  <2>1. restarted' \subseteq Clients /\ restarted \subseteq restarted'
    BY <1>1, <1>5 DEF TablesOK
  <2>2. /\ TablesOK' /\ \A d \in Clients : begun[d] <= begun'[d]
        /\ begun'[who] = begun[who] + 1 /\ begun[who] + 1 \in 1 .. Engagements(who)
    BY <1>1, <1>4, <1>5, <2>1, EngageIs
  <2>3. PICK piece : piece = <<who, begun[who] + 1, Period(inHand[a])>>
    OBVIOUS
  <2>4. begun[who] \in Nat /\ begun[who] + 1 \in Nat
    BY <1>1 DEF TablesOK
  <2>5. /\ piece \in Jobs /\ piece \in Clients \X Nat \X Periods /\ piece # Nothing
        /\ Client(piece) = who /\ Engagement(piece) = begun[who] + 1
    BY <1>2, <2>2, <2>3, <2>4, HandParts
  <2>6. who \in restarted' \/ Unopened(piece)
    <3>1. CASE begun[who] > 0
      BY <1>5, <3>1
    <3>2. CASE ~ (begun[who] > 0)
      <4>1. begun[who] = 0
        BY <2>4, <3>2
      <4>2. ASSUME NEW other \in jobs, Client(other) = who PROVE FALSE
        <5>1. other \in Jobs /\ Engagement(other) <= begun[Client(other)]
          BY <1>1 DEF TablesOK
        <5>2. Engagement(other) \in 1 .. Engagements(who)
          BY <4>2, <5>1, JobParts
        <5> QED BY <4>1, <4>2, <5>1, <5>2 DEF Engagements
      <4> QED BY <2>5, <4>2 DEF Unopened
    <3> QED BY <3>1, <3>2
  <2>7. Turn(a, "opening", piece) /\ Engagement(piece) <= begun'[Client(piece)]
    BY <1>5, <2>2, <2>3, <2>4, <2>5
  <2> QED BY <1>1, <1>4, <2>1, <2>2, <2>5, <2>6, <2>7, RequestTurns DEF Doings
<1>6. CASE Done(a) /\ UNCHANGED <<restarted, begun, engaged>>
  <2>1. TablesOK' /\ \A d \in Clients : begun[d] <= begun'[d]
    <3>1. closed' = closed
      BY DEF Subscribe
    <3> QED BY <1>1, <1>4, <1>6, <3>1 DEF TablesOK, Client, Engagement
  <2> QED BY <1>1, <1>4, <1>6, <2>1, RequestTurns DEF Doings, Done
<1> QED BY <1>3, <1>5, <1>6 DEF Subscribe

LEMMA ReadToCarryOnKeeps ==
  ASSUME RecurrenceInv, NEW a \in People, ReadToCarryOn(a)
  PROVE  RecurrenceInv'
<1> USE DEF recurrenceTables
<1>1. a \in Actors /\ TablesOK /\ MayBegin(a) /\ doing[a] = "idle"
  BY DEF RecurrenceInv, Actors, ReadToCarryOn, MayBegin
<1>2. PICK done \in jobs :
        /\ Period(done) < LastPeriod
        /\ ~ ExistsForPeriod(Client(done), Engagement(done), Period(done) + 1)
        /\ Turn(a, "carrying", <<Client(done), Engagement(done), Period(done) + 1>>)
  BY DEF ReadToCarryOn
<1>3. done \in Jobs /\ Engagement(done) <= begun[Client(done)]
  BY <1>1 DEF TablesOK
<1>4. Client(done) \in Clients /\ Engagement(done) \in 1 .. Engagements(Client(done)) /\ Period(done) \in Periods
  BY <1>3, JobParts
<1>5. Engagement(done) \in Nat /\ Period(done) + 1 \in Periods
  BY <1>2, <1>4, Bounds DEF Engagements, Periods
<1>6. PICK piece : piece = <<Client(done), Engagement(done), Period(done) + 1>>
  OBVIOUS
<1>7. /\ piece # Nothing /\ piece \in Clients \X Nat \X Periods /\ piece \in Jobs
      /\ Client(piece) = Client(done) /\ Engagement(piece) = Engagement(done) /\ Period(piece) = Period(done) + 1
  BY <1>4, <1>5, <1>6, HandParts
<1>8. Unopened(piece)
  BY <1>2, <1>7 DEF ExistsForPeriod, Unopened
<1>9. /\ Turn(a, "carrying", piece)
      /\ UNCHANGED <<closed, oneByOne, restarted, deaths, begun, engaged, jobs, papered, toSweep, sweptPeriod>>
  BY <1>2, <1>6 DEF ReadToCarryOn
<1>10. TablesOK' /\ \A d \in Clients : begun[d] <= begun'[d]
  BY <1>1, <1>9 DEF TablesOK, Client, Engagement
<1>11. Engagement(piece) <= begun'[Client(piece)]
  BY <1>3, <1>7, <1>9
<1> QED BY <1>1, <1>7, <1>8, <1>9, <1>10, <1>11, RequestTurns DEF Doings

LEMMA ReadToToggleKeeps ==
  ASSUME RecurrenceInv, NEW a \in People, ReadToToggle(a)
  PROVE  RecurrenceInv'
<1> USE DEF recurrenceTables
<1>1. a \in Actors /\ TablesOK /\ MayBegin(a) /\ doing[a] = "idle"
  BY DEF RecurrenceInv, Actors, ReadToToggle, MayBegin
<1>2. PICK done \in jobs :
        Turn(a, IF Client(done) \in engaged THEN "stopping" ELSE "resuming",
             <<Client(done), begun[Client(done)], Period(done)>>)
  BY DEF ReadToToggle
<1>3. Client(done) \in Clients /\ Period(done) \in Periods
  BY <1>1, JobParts DEF TablesOK
<1>4. begun[Client(done)] \in Nat
  BY <1>1, <1>3 DEF TablesOK
<1>5. PICK piece, what : /\ piece = <<Client(done), begun[Client(done)], Period(done)>>
                       /\ what = (IF Client(done) \in engaged THEN "stopping" ELSE "resuming")
  OBVIOUS
<1>6. piece # Nothing /\ piece \in Clients \X Nat \X Periods
  BY <1>3, <1>4, <1>5, HandParts
<1>7. /\ Turn(a, what, piece) /\ what \in {"stopping", "resuming"}
      /\ UNCHANGED <<closed, oneByOne, restarted, deaths, begun, engaged, jobs, papered, toSweep, sweptPeriod>>
  BY <1>2, <1>5 DEF ReadToToggle
<1>8. TablesOK' /\ \A d \in Clients : begun[d] <= begun'[d]
  BY <1>1, <1>7 DEF TablesOK, Client, Engagement
<1>9. what \in Doings \ {"papers", "sweeping"}
  BY <1>7 DEF Doings
<1> QED BY <1>1, <1>6, <1>7, <1>8, <1>9, RequestTurns

LEMMA StopKeeps ==
  ASSUME RecurrenceInv, NEW a \in People, Stop(a)
  PROVE  RecurrenceInv'
<1>1. a \in Actors /\ TablesOK /\ doing[a] = "stopping"
  BY DEF RecurrenceInv, Actors, Stop
<1>2. /\ engaged' \subseteq engaged /\ Turn(a, "idle", Nothing)
      /\ UNCHANGED <<closed, oneByOne, restarted, deaths, begun, jobs, papered, toSweep, sweptPeriod>>
  BY DEF Stop, Done
<1>3. TablesOK' /\ \A d \in Clients : begun[d] <= begun'[d]
  BY <1>1, <1>2 DEF TablesOK, Client, Engagement
<1> QED BY <1>1, <1>2, <1>3, RequestTurns DEF Doings

LEMMA ResumeKeeps ==
  ASSUME RecurrenceInv, NEW a \in People, Resume(a)
  PROVE  RecurrenceInv'
<1>1. a \in Actors /\ TablesOK /\ ActorsAre /\ ActorOK(a) /\ doing[a] = "resuming"
  BY DEF RecurrenceInv, Actors, Resume
<1>2. /\ Turn(a, "idle", Nothing) /\ Client(inHand[a]) \in Clients
      /\ UNCHANGED <<closed, oneByOne, restarted, deaths, jobs, papered, toSweep, sweptPeriod>>
  BY <1>1, InHandIs DEF Resume, Done
<1>3. TablesOK' /\ \A d \in Clients : begun[d] <= begun'[d]
  <2>1. CASE EngageClient(Client(inHand[a]))
    <3>1. restarted' \subseteq Clients
      BY <1>1, <1>2 DEF TablesOK
    <3> QED BY <1>1, <1>2, <2>1, <3>1, EngageIs
  <2>2. CASE UNCHANGED <<begun, engaged>>
    BY <1>1, <1>2, <2>2 DEF TablesOK, Client, Engagement
  <2> QED BY <2>1, <2>2 DEF Resume
<1> QED BY <1>1, <1>2, <1>3, RequestTurns DEF Doings

\* The insert, and the writer that follows it: the new job is nobody else's.
LEMMA InsertKeeps ==
  ASSUME RecurrenceInv, NEW a \in Actors, NEW next \in {"papers", "idle"}, InsertJob(a, next),
         doing[a] \in {"found", "opening", "carrying"},
         UNCHANGED <<closed, oneByOne, restarted, deaths, begun, engaged>>,
         Forget(a) \/ UNCHANGED <<toSweep, sweptPeriod>>
  PROVE  RecurrenceInv'
<1>1. TablesOK /\ ActorsAre /\ ActorOK(a) /\ PapersOK /\ OnePerPeriod
  BY DEF RecurrenceInv
<1>2. PICK piece : piece = inHand[a]
  OBVIOUS
<1>3. piece \in Jobs /\ Engagement(piece) <= begun[Client(piece)] /\ piece \in Clients \X Nat \X Periods /\ piece # Nothing
  BY <1>1, <1>2, JobParts DEF ActorOK
<1>4. /\ toSweep' \in [Actors -> SUBSET (Clients \X Nat)] /\ sweptPeriod' \in [Actors -> Periods]
      /\ toSweep'[a] \subseteq toSweep[a] /\ sweptPeriod'[a] \in Periods
      /\ \A b \in Actors \ {a} : toSweep'[b] = toSweep[b] /\ sweptPeriod'[b] = sweptPeriod[b]
  <2>1. CASE Forget(a)
    BY <1>1, <2>1, ForgetIs
  <2>2. CASE UNCHANGED <<toSweep, sweptPeriod>>
    BY <1>1, <2>2 DEF ActorsAre
  <2> QED BY <2>1, <2>2
<1>5. toSweep'[a] \subseteq UNION {{c} \X (1 .. begun'[c]) : c \in Clients}
  BY <1>1, <1>4 DEF ActorOK
<1>6. \A c \in Clients : begun[c] <= begun'[c]
  BY <1>1 DEF TablesOK
<1>7. CASE piece \in jobs
  <2>1. Turn(a, "idle", Nothing) /\ UNCHANGED <<jobs, papered>>
    BY <1>2, <1>7 DEF InsertJob, Done
  <2>2. /\ doing' \in [Actors -> Doings]
        /\ inHand' \in [Actors -> (Clients \X Nat \X Periods) \cup {Nothing}]
        /\ doing'[a] = "idle" /\ inHand'[a] = Nothing
        /\ \A b \in Actors \ {a} : doing'[b] = doing[b] /\ inHand'[b] = inHand[b]
    BY <1>1, <2>1, TurnIs DEF Doings
  <2>3. TablesOK'
    BY <1>1, <2>1 DEF TablesOK, Client, Engagement
  <2>4. ActorsAre'
    BY <1>4, <2>2 DEF ActorsAre
  <2>5. ActorOK(a)'
    BY <1>4, <1>5, <2>2 DEF ActorOK, Doings
  <2>6. StillSo(a)'
    BY <2>2 DEF StillSo
  <2> QED BY <1>4, <1>6, <2>1, <2>2, <2>3, <2>4, <2>5, <2>6, QuietStep
<1>8. CASE piece \notin jobs
  <2>1. PICK then : then = (IF next = "papers" THEN piece ELSE Nothing)
    OBVIOUS
  <2>2. /\ Turn(a, next, then) /\ jobs' = jobs \cup {piece}
        /\ papered' = (IF next = "papers" THEN papered ELSE papered \cup {piece})
    BY <1>2, <1>8, <2>1 DEF InsertJob
  <2>3. /\ doing' \in [Actors -> Doings]
        /\ inHand' \in [Actors -> (Clients \X Nat \X Periods) \cup {Nothing}]
        /\ doing'[a] = next /\ inHand'[a] = then
        /\ \A b \in Actors \ {a} : doing'[b] = doing[b] /\ inHand'[b] = inHand[b]
    BY <1>1, <1>3, <2>1, <2>2, TurnIs DEF Doings
  <2>4. TablesOK'
    BY <1>1, <1>3, <2>2 DEF TablesOK, Client, Engagement
  <2>5. ActorsAre'
    BY <1>4, <2>3 DEF ActorsAre
  <2>6. ActorOK(a)'
    <3>1. then # Nothing => then = piece /\ next = "papers"
      BY <2>1
    <3>2. next = "papers" => then = piece
      BY <2>1
    <3>3. next = "idle" => then = Nothing
      BY <2>1
    <3>4. Engagement(piece) <= begun'[Client(piece)]
      BY <1>3
    <3> QED BY <1>3, <1>4, <1>5, <2>3, <3>1, <3>2, <3>3, <3>4 DEF ActorOK, Doings
  <2>7. oneByOne => StillSo(a)'
    <3> SUFFICES ASSUME oneByOne PROVE StillSo(a)'
      OBVIOUS
    <3>1. \A b \in Actors \ {a} : doing'[b] = "idle"
      BY <2>3, OthersIdle DEF RecurrenceInv
    <3> QED BY <2>3, <3>1 DEF StillSo
  <2>8. OnePerPeriod'
    <3> SUFFICES ASSUME oneByOne, NEW x \in jobs', NEW y \in jobs',
                        Client(x) = Client(y), Period(x) = Period(y), Client(x) \notin restarted
                 PROVE  x = y
      BY DEF OnePerPeriod, Client, Period
    <3>1. StillSo(a)
      BY DEF RecurrenceInv
    <3>2. Client(piece) \in restarted \/ Unopened(piece)
      BY <1>2, <3>1 DEF StillSo
    <3>3. CASE x \in jobs /\ y \in jobs
      BY <1>1, <3>3 DEF OnePerPeriod
    <3>4. CASE x = piece \/ y = piece
      BY <2>2, <3>2, <3>4 DEF Unopened
    <3> QED BY <2>2, <3>3, <3>4
  <2>9. PapersOK'
    <3>1. piece \notin Unpapered /\ a \notin Writers /\ papered \subseteq jobs
      BY <1>1, <1>8 DEF Unpapered, Writers, TablesOK
    <3>2. CASE next = "papers"
      <4>1. Unpapered' = Unpapered \cup {piece}
        BY <1>8, <2>2, <3>1, <3>2 DEF Unpapered
      <4>2. Writers' = Writers \cup {a}
        BY <2>3, <3>2 DEF Writers
      <4>3. /\ IsFiniteSet(Unpapered') /\ Cardinality(Unpapered') = Cardinality(Unpapered) + 1
            /\ IsFiniteSet(Writers') /\ Cardinality(Writers') = Cardinality(Writers) + 1
        BY <1>1, <3>1, <4>1, <4>2, FS_AddElement DEF PapersOK
      <4>4. Cardinality(Unpapered) \in Nat /\ Cardinality(Writers) \in Nat /\ deaths \in Nat
        BY <1>1, FS_CardinalityType, Bounds DEF PapersOK, TablesOK
      <4>5. Cardinality(Unpapered') <= deaths' + Cardinality(Writers')
        BY <1>1, <4>3, <4>4 DEF PapersOK
      <4>6. inHand'[a] = piece /\ \A b \in Writers : inHand'[b] = inHand[b] /\ inHand[b] \in Unpapered
        BY <1>1, <2>1, <2>3, <3>1, <3>2 DEF PapersOK, Writers
      <4>7. /\ \A b \in Writers' : inHand'[b] \in Unpapered'
            /\ \A b, d \in Writers' : inHand'[b] = inHand'[d] => b = d
        BY <1>1, <3>1, <4>1, <4>2, <4>6 DEF PapersOK
      <4> QED BY <4>3, <4>5, <4>7 DEF PapersOK
    <3>3. CASE next = "idle"
      <4>1. Unpapered' = Unpapered
        BY <1>8, <2>2, <3>1, <3>3 DEF Unpapered
      <4>2. Writers' = Writers
        BY <2>3, <3>1, <3>3 DEF Writers
      <4>3. \A b \in Writers : inHand'[b] = inHand[b]
        BY <2>3, <3>1 DEF Writers
      <4> QED BY <1>1, <4>1, <4>2, <4>3 DEF PapersOK
    <3> QED BY <3>2, <3>3
  <2> QED BY <1>4, <1>6, <2>3, <2>4, <2>5, <2>6, <2>7, <2>8, <2>9, PutTogether
<1> QED BY <1>7, <1>8

LEMMA OpensKeep ==
  ASSUME RecurrenceInv, NEW a \in Actors, SweepOpens(a) \/ PersonOpens(a) \/ CarryOn(a)
  PROVE  RecurrenceInv'
<1>1. CASE SweepOpens(a)
  <2>1. Forget(a) \/ UNCHANGED <<toSweep, sweptPeriod>>
    BY <1>1 DEF SweepOpens
  <2> QED BY <1>1, <2>1, InsertKeeps DEF SweepOpens
<1>2. CASE PersonOpens(a)
  BY <1>2, InsertKeeps DEF PersonOpens
<1>3. CASE CarryOn(a)
  BY <1>3, InsertKeeps DEF CarryOn
<1> QED BY <1>1, <1>2, <1>3

\* The job loses its place among the unpapered with its writer, or to a death.
LEMMA WritePapersKeeps ==
  ASSUME RecurrenceInv, NEW a \in Actors, WritePapers(a)
  PROVE  RecurrenceInv'
<1>1. TablesOK /\ ActorsAre /\ ActorOK(a) /\ PapersOK /\ OnePerPeriod /\ doing[a] = "papers"
  BY DEF RecurrenceInv, WritePapers
<1>2. PICK piece, what : piece = inHand[a] /\ what = (IF a \in Sweepers THEN "sweeping" ELSE "idle")
  OBVIOUS
<1>3. /\ papered' = papered \cup {piece} /\ Turn(a, what, Nothing) /\ what \in {"sweeping", "idle"}
      /\ UNCHANGED <<closed, oneByOne, restarted, deaths, begun, engaged, jobs, toSweep, sweptPeriod>>
  BY <1>2 DEF WritePapers
<1>4. /\ doing' \in [Actors -> Doings]
      /\ inHand' \in [Actors -> (Clients \X Nat \X Periods) \cup {Nothing}]
      /\ doing'[a] = what /\ inHand'[a] = Nothing
      /\ \A b \in Actors \ {a} : doing'[b] = doing[b] /\ inHand'[b] = inHand[b]
  <2>1. what \in Doings
    BY <1>3 DEF Doings
  <2> QED BY <1>1, <1>3, <2>1, TurnIs
<1>5. a \in Writers /\ piece \in Unpapered /\ piece \in jobs
  BY <1>1, <1>2 DEF PapersOK, Writers, Unpapered
<1>6. TablesOK' /\ ActorsAre'
  BY <1>1, <1>3, <1>4, <1>5 DEF TablesOK, ActorsAre, Client, Engagement
<1>7. ActorOK(a)'
  <2>1. toSweep'[a] \subseteq UNION {{c} \X (1 .. begun'[c]) : c \in Clients} /\ sweptPeriod'[a] \in Periods
    BY <1>1, <1>3 DEF ActorOK
  <2> QED BY <1>3, <1>4, <2>1 DEF ActorOK, Doings
<1>8. oneByOne => StillSo(a)'
  <2>1. oneByOne => \A b \in Actors \ {a} : doing'[b] = "idle"
    BY <1>1, <1>4, OthersIdle DEF RecurrenceInv
  <2> QED BY <1>3, <1>4, <2>1 DEF StillSo
<1>9. OnePerPeriod'
  BY <1>1, <1>3, OneStays
<1>10. PapersOK'
  <2>1. Unpapered' = Unpapered \ {piece}
    BY <1>3 DEF Unpapered
  <2>2. Writers' = Writers \ {a}
    BY <1>3, <1>4 DEF Writers
  <2>3. /\ IsFiniteSet(Unpapered') /\ Cardinality(Unpapered') = Cardinality(Unpapered) - 1
        /\ IsFiniteSet(Writers') /\ Cardinality(Writers') = Cardinality(Writers) - 1
    BY <1>1, <1>5, <2>1, <2>2, FS_RemoveElement DEF PapersOK
  <2>4. Cardinality(Unpapered) \in Nat /\ Cardinality(Writers) \in Nat /\ deaths \in Nat
    BY <1>1, FS_CardinalityType, Bounds DEF PapersOK, TablesOK
  <2>5. Cardinality(Unpapered') <= deaths' + Cardinality(Writers')
    BY <1>1, <1>3, <2>3, <2>4 DEF PapersOK
  <2>6. \A b \in Writers' : inHand'[b] = inHand[b] /\ inHand[b] # piece /\ b \in Writers
    BY <1>1, <1>2, <1>4, <1>5, <2>2 DEF PapersOK, Writers
  <2> QED BY <1>1, <2>1, <2>3, <2>5, <2>6 DEF PapersOK
<1>11. \A c \in Clients : begun[c] <= begun'[c]
  BY <1>1, <1>3 DEF TablesOK
<1> QED BY <1>1, <1>3, <1>4, <1>6, <1>7, <1>8, <1>9, <1>10, <1>11, PutTogether

LEMMA DiesKeeps ==
  ASSUME RecurrenceInv, NEW a \in Actors, Dies(a)
  PROVE  RecurrenceInv'
<1>1. TablesOK /\ ActorsAre /\ ActorOK(a) /\ PapersOK /\ OnePerPeriod /\ doing[a] # "idle"
  BY DEF RecurrenceInv, Dies
<1>2. /\ deaths' = deaths + 1 /\ deaths < MaxDeaths /\ Turn(a, "idle", Nothing)
      /\ UNCHANGED <<closed, oneByOne, restarted, begun, engaged, jobs, papered>>
  BY DEF Dies, Done, recurrenceTables
<1>3. /\ doing' \in [Actors -> Doings]
      /\ inHand' \in [Actors -> (Clients \X Nat \X Periods) \cup {Nothing}]
      /\ doing'[a] = "idle" /\ inHand'[a] = Nothing
      /\ \A b \in Actors \ {a} : doing'[b] = doing[b] /\ inHand'[b] = inHand[b]
  BY <1>1, <1>2, TurnIs DEF Doings
<1>4. /\ toSweep' \in [Actors -> SUBSET (Clients \X Nat)]
      /\ sweptPeriod' \in [Actors -> Periods]
      /\ toSweep'[a] = {} /\ sweptPeriod'[a] = 1 /\ 1 \in Periods
      /\ \A b \in Actors \ {a} : toSweep'[b] = toSweep[b] /\ sweptPeriod'[b] = sweptPeriod[b]
  BY <1>1, ForgetIs DEF Dies
<1>5. deaths \in Nat /\ deaths' \in 0 .. MaxDeaths
  BY <1>1, <1>2, Bounds DEF TablesOK
<1>6. TablesOK' /\ ActorsAre'
  BY <1>1, <1>2, <1>3, <1>4, <1>5 DEF TablesOK, ActorsAre, Client, Engagement
<1>7. ActorOK(a)' /\ StillSo(a)'
  BY <1>3, <1>4 DEF ActorOK, StillSo, Doings
<1>8. OnePerPeriod'
  BY <1>1, <1>2, OneStays
<1>9. PapersOK'
  <2>1. Unpapered' = Unpapered /\ Writers' = Writers \ {a}
    BY <1>2, <1>3 DEF Unpapered, Writers
  <2>2. /\ IsFiniteSet(Writers')
        /\ Cardinality(Writers') = (IF a \in Writers THEN Cardinality(Writers) - 1 ELSE Cardinality(Writers))
    BY <1>1, <2>1, FS_RemoveElement DEF PapersOK
  <2>3. Cardinality(Unpapered) \in Nat /\ Cardinality(Writers) \in Nat
    BY <1>1, FS_CardinalityType DEF PapersOK
  <2>4. Cardinality(Unpapered') <= deaths' + Cardinality(Writers')
    BY <1>1, <1>2, <1>5, <2>1, <2>2, <2>3 DEF PapersOK
  <2>5. \A b \in Writers' : inHand'[b] = inHand[b] /\ b \in Writers
    BY <1>3, <2>1 DEF Writers
  <2> QED BY <1>1, <2>1, <2>2, <2>4, <2>5 DEF PapersOK
<1>10. \A c \in Clients : begun[c] <= begun'[c]
  BY <1>1, <1>2 DEF TablesOK
<1> QED BY <1>1, <1>2, <1>3, <1>4, <1>6, <1>7, <1>8, <1>9, <1>10, PutTogether

LEMMA PeriodClosesKeeps ==
  ASSUME RecurrenceInv, PeriodCloses \/ UNCHANGED recurrenceVars
  PROVE  RecurrenceInv'
<1>1. TablesOK /\ ActorsAre /\ PapersOK /\ OnePerPeriod
  BY DEF RecurrenceInv
<1>2. /\ closed' \in Periods
      /\ UNCHANGED <<oneByOne, restarted, deaths, begun, engaged, jobs, papered, doing, inHand, toSweep, sweptPeriod>>
  BY <1>1, Bounds DEF PeriodCloses, recurrenceVars, recurrenceTables, actorVars, TablesOK, Periods
<1>3. TablesOK' /\ ActorsAre'
  BY <1>1, <1>2 DEF TablesOK, ActorsAre, Client, Engagement
<1>4. \A a \in Actors : ActorOK(a)'
  BY <1>2 DEF RecurrenceInv, ActorOK, Client, Engagement
<1>5. oneByOne' => \A a \in Actors : StillSo(a)'
  BY <1>2 DEF RecurrenceInv, StillSo, Client, Unopened, Period
<1>6. OnePerPeriod'
  BY <1>1, <1>2, OneStays
<1>7. PapersOK'
  BY <1>1, <1>2, PapersStay
<1> QED BY <1>3, <1>4, <1>5, <1>6, <1>7 DEF RecurrenceInv

LEMMA RecurrenceStep == RecurrenceInv /\ [RecurrenceNext]_recurrenceVars => RecurrenceInv'
<1> SUFFICES ASSUME RecurrenceInv, [RecurrenceNext]_recurrenceVars PROVE RecurrenceInv'
  OBVIOUS
<1>1. ASSUME NEW w \in Sweepers, StartSweep(w) \/ SweepGoesOn(w) PROVE RecurrenceInv'
  <2>1. w \in Actors
    BY DEF Actors
  <2> QED BY <1>1, <2>1, StartSweepKeeps, SweepClientKeeps, SweepEndsKeeps, OpensKeep, WritePapersKeeps DEF SweepGoesOn
<1>2. ASSUME NEW h \in People, PersonStep(h) PROVE RecurrenceInv'
  <2>1. h \in Actors
    BY DEF Actors
  <2> QED BY <1>2, <2>1, ReadToStartKeeps, FindEngagementKeeps, SubscribeKeeps, ReadToCarryOnKeeps,
             ReadToToggleKeeps, StopKeeps, ResumeKeeps, OpensKeep, WritePapersKeeps DEF PersonStep
<1> QED BY <1>1, <1>2, DiesKeeps, PeriodClosesKeeps DEF RecurrenceNext

\* A recurring job is opened once for its period, and whole unless its writer died, for
\* any clients, periods, sweeps and people at once (recurrence.ts, continue-work.ts,
\* start-project.ts).
THEOREM OpenedOnceForAny == RecurrenceSpec => []RecurrenceHolds
<1>1. RecurrenceInv => RecurrenceHolds
  BY TypeFollows DEF RecurrenceHolds, RecurrenceInv, PapersOK, PapersUnlessDied, Unpapered, Writers
<1>2. RecurrenceSpec => []RecurrenceInv
  BY RecurrenceStart, RecurrenceStep, PTL DEF RecurrenceSpec
<1> QED BY <1>1, <1>2, PTL
=============================================================================
