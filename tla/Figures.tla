------------------------------ MODULE Figures ------------------------------
(***************************************************************************)
(* One client's figures, which the program works out in five places:       *)
(*   - the domain (statement.ts, invoice.ts, quotation.ts over kernel's    *)
(*     Money), whose figures go on the audit log;                          *)
(*   - billing.reader.ts, whose figures go on the screens;                 *)
(*   - raise-invoice.ts, which prices the lines it copies;                 *)
(*   - document.tsx, the sheets the client is sent;                        *)
(*   - reports.reader.ts, in SQL.                                          *)
(* Each rounds for itself. The state is a statement under review, the      *)
(* invoices raised so far and a quotation being drafted; whether two       *)
(* requests may write them at once is Billing, Settlement and Quotation.   *)
(*                                                                         *)
(* Money is whole fils, time whole seconds, quantities hundredths, rates   *)
(* of VAT basis points. No amount is negative where one is rounded: the    *)
(* domain and the tables' CHECKs refuse it.                                *)
(***************************************************************************)
EXTENDS Integers, Sequences, SequencesExt

CONSTANTS
    SheetLines,   \* what a generated statement line may be, before review
    MaxOffered,   \* bound: lines of the quotation
    Agreed,       \* the amounts a line may be adjusted to
    VatRates,     \* the setting vatBasisPoints, which may change
    MaxBooked,    \* bound: lines on the statements, all together
    Receivable,   \* payments: [amount, discount]
    MaxReceived,  \* bound on the payments of an invoice
    OfferLines,   \* what a quotation's line may be
    NotSet        \* a NULL column

\* What a line may be on the way to its invoice; what a quotation's line may be.
ReviewLine ==
    [people : {l.people : l \in SheetLines}, worked : Nat, pricing : {"fixed", "hourly"},
     price : Nat, excluded : BOOLEAN, adjustedTo : Agreed \cup {NotSet}]
Offerable ==
    [kind : {"fixed", "hours"}, centi : Nat, price : Nat, discount : Int,
     vat : Nat \cup {NotSet}]

ASSUME FiguresAssumption ==
    /\ SheetLines \subseteq ReviewLine /\ OfferLines \subseteq Offerable
    /\ Agreed \subseteq Nat /\ VatRates \subseteq 0 .. 10000
    /\ Receivable \subseteq [amount : Nat, discount : Nat]
    /\ NotSet \notin Nat
    /\ MaxBooked \in Nat /\ MaxOffered \in Nat /\ MaxReceived \in Nat

VARIABLES
    sheet,    \* the statement: its state and lines
    bills,    \* the invoices, in the order they were raised
    offer     \* the lines of the quotation in draft

figuresVars == <<sheet, bills, offer>>

----------------------------------------------------------------------------
(* Sums and the ways the code rounds.                                      *)

Total(numbers) ==
    LET sum[i \in 0 .. Len(numbers)] == IF i = 0 THEN 0 ELSE sum[i - 1] + numbers[i]
    IN  sum[Len(numbers)]
Added(amount(_), s) == Total([i \in DOMAIN s |-> amount(s[i])])

\* Money.scaleByRatio: half away from zero.
HalfAway(n, d) == IF 2 * (n % d) >= d THEN n \div d + 1 ELSE n \div d

MutScaleByRatio(minor, numerator, denominator) == (minor * numerator) \div denominator

ScaleByRatio(minor, numerator, denominator) == HalfAway(minor * numerator, denominator)
Percentage(minor, basisPoints) == ScaleByRatio(minor, basisPoints, 10000)

\* Math.round: the nearest whole number, a half upwards.
MathRound(n, d) == (2 * n + d) \div (2 * d)

\* Never negative: more than enough is shown as settled.
Owed(outstanding) == IF outstanding < 0 THEN 0 ELSE outstanding

Hour == 3600

----------------------------------------------------------------------------
(* What the domain says.                                                   *)

AsWorked(l) == IF l.pricing = "fixed" THEN l.price ELSE ScaleByRatio(l.price, l.worked, Hour)

LineAmount(l) ==
    CASE l.excluded -> 0
      [] ~ l.excluded /\ l.adjustedTo # NotSet -> l.adjustedTo
      [] OTHER -> AsWorked(l)

StatementTotal(lines) == Added(LineAmount, lines)

InvoiceNet(b) == Added(LAMBDA l : l.amount, b.lines)
InvoiceVat(b) == Percentage(InvoiceNet(b), b.vatBasisPoints)
InvoiceTotal(b) == InvoiceNet(b) + InvoiceVat(b)
Covered(payments) == Added(LAMBDA p : p.amount + p.discount, payments)

InvoiceBalance(b) == Owed(InvoiceTotal(b) - Covered(b.payments))

QuotedPrice(o) == IF o.kind = "fixed" THEN o.price ELSE ScaleByRatio(o.price, o.centi, 100)
OfferNet(o) == QuotedPrice(o) - o.discount
OfferVat(o) == IF o.vat = NotSet THEN 0 ELSE Percentage(OfferNet(o), o.vat)
OfferCharge(o) == OfferNet(o) + OfferVat(o)

OfferTotals(lines) ==
    [subtotal |-> Added(QuotedPrice, lines), net |-> Added(OfferNet, lines),
     vat |-> Added(OfferVat, lines), total |-> Added(OfferCharge, lines)]

\* The page a client opens from their link: a row a line, and the sums.
ClientView(lines) ==
    [rows |-> [i \in DOMAIN lines |->
                 [amount |-> QuotedPrice(lines[i]), discount |-> lines[i].discount,
                  vat |-> OfferVat(lines[i]), chargeable |-> OfferCharge(lines[i])]],
     totals |-> OfferTotals(lines)]

----------------------------------------------------------------------------
(* What the reader says.                                                   *)

ReadAsWorked(l) ==
    IF l.pricing = "fixed" THEN l.price
    ELSE LET product == l.worked * l.price
         IN  IF 2 * (product % Hour) >= Hour THEN product \div Hour + 1 ELSE product \div Hour

MutReadAmount(l) == IF l.adjustedTo # NotSet THEN l.adjustedTo ELSE ReadAsWorked(l)

ReadAmount(l) ==
    IF l.excluded THEN 0
    ELSE IF l.adjustedTo # NotSet THEN l.adjustedTo ELSE ReadAsWorked(l)

ReadStatement(lines) ==
    [asWorked |-> Added(ReadAsWorked, lines), total |-> Added(ReadAmount, lines)]

\* withDetail.
MutReadBalance(total, paid, discounted) == Owed(total - paid)
ReadBalance(total, paid, discounted) == Owed(total - paid - discounted)

ReadVat(net, basisPoints) == MathRound(net * basisPoints, 10000)

ReadInvoice(b) ==
    LET net == Added(LAMBDA l : l.amount, b.lines)
        vat == ReadVat(net, b.vatBasisPoints)
        paid == Added(LAMBDA p : p.amount, b.payments)
        discounted == Added(LAMBDA p : p.discount, b.payments)
    IN  [net |-> net, vat |-> vat, total |-> net + vat,
         balance |-> ReadBalance(net + vat, paid, discounted)]

\* quotationLine, and the sums withLines makes of it.
ReadOffer(o) ==
    LET amount == IF o.kind = "fixed" THEN o.price ELSE HalfAway(o.centi * o.price, 100)
        net == amount - o.discount
        vat == IF o.vat = NotSet THEN 0 ELSE HalfAway(net * o.vat, 10000)
    IN  [amount |-> amount, discount |-> o.discount, net |-> net, vat |-> vat,
         chargeable |-> net + vat]

ReadTotals(lines) ==
    [subtotal |-> Added(LAMBDA o : ReadOffer(o).amount, lines),
     net |-> Added(LAMBDA o : ReadOffer(o).net, lines),
     vat |-> Added(LAMBDA o : ReadOffer(o).vat, lines),
     total |-> Added(LAMBDA o : ReadOffer(o).chargeable, lines)]

----------------------------------------------------------------------------
(* What the sheets say: rows of quantity, rate and amount.                 *)

MutPrintedAs(l) ==
    LET centi == MathRound(l.worked * 100, Hour)
    IN  IF l.pricing = "fixed" THEN [quantity |-> 100, rate |-> l.price]
        ELSE IF centi > 0 THEN [quantity |-> centi, rate |-> l.price]
        ELSE [quantity |-> 100, rate |-> LineAmount(l)]

PrintedAs(l) ==
    LET centi == MathRound(l.worked * 100, Hour)
    IN  IF l.adjustedTo # NotSet \/ l.excluded \/ (l.pricing # "fixed" /\ centi <= 0)
        THEN [quantity |-> 100, rate |-> LineAmount(l)]
        ELSE IF l.pricing = "fixed" THEN [quantity |-> 100, rate |-> l.price]
        ELSE [quantity |-> centi, rate |-> l.price]

\* A discount is a row of its own, under the line it came off.
MutOfferRows(o) ==
    <<[quantity |-> IF o.kind = "hours" THEN o.centi ELSE 100,
       rate |-> ReadOffer(o).amount, amount |-> ReadOffer(o).amount]>>

OfferRows(o) ==
    LET charged == [quantity |-> IF o.kind = "hours" THEN o.centi ELSE 100,
                    rate |-> IF o.kind = "hours" THEN o.price ELSE ReadOffer(o).amount,
                    amount |-> ReadOffer(o).amount]
    IN  IF o.discount <= 0 THEN <<charged>>
        ELSE <<charged, [quantity |-> -100, rate |-> o.discount, amount |-> - o.discount]>>

\* The rows between the lines and the total, when there is any VAT.
InvoiceTaxRow(b) == IF b.vatBasisPoints > 0 THEN ReadInvoice(b).vat ELSE 0
OfferTaxRow(lines) == IF ReadTotals(lines).vat > 0 THEN ReadTotals(lines).vat ELSE 0

\* Both documents are one sheet: rows, a row of VAT under them, a total.
Sheet(amounts, tax, total) == [amounts |-> amounts, tax |-> tax, total |-> total]
InvoiceDocument(b) ==
    Sheet([i \in DOMAIN b.lines |-> b.lines[i].amount], InvoiceTaxRow(b), ReadInvoice(b).total)
QuotationDocument(lines) ==
    LET upTo[i \in 0 .. Len(lines)] ==
            IF i = 0 THEN <<>> ELSE upTo[i - 1] \o OfferRows(lines[i])
        rows == upTo[Len(lines)]
    IN  Sheet([i \in DOMAIN rows |-> rows[i].amount], OfferTaxRow(lines), ReadTotals(lines).total)

----------------------------------------------------------------------------
(* What the reports say, of a period that holds everything.                *)

\* The CTE "charged": what each statement line was charged.
Charged(l) ==
    CASE l.excluded -> 0
      [] ~ l.excluded /\ l.adjustedTo # NotSet -> l.adjustedTo
      [] ~ l.excluded /\ l.adjustedTo = NotSet /\ l.pricing = "fixed" -> l.price
      [] OTHER -> HalfAway(l.worked * l.price, Hour)

SumOfSet(S) == FoldSet(+, 0, S)

\* One row of the hours report over the lines an entry of the group is on:
\* sum(DISTINCT amount_minor).
BilledAmount(lines) == SumOfSet({Charged(lines[i]) : i \in DOMAIN lines})

OfPerson(lines, p) == SelectSeq(lines, LAMBDA l : p \in l.people)
PeopleOf(lines) == UNION {lines[i].people : i \in DOMAIN lines}

BilledByPerson(lines) ==
    FoldSet(LAMBDA p, sum : BilledAmount(OfPerson(lines, p)) + sum, 0, PeopleOf(lines))

MutGross(b) == InvoiceNet(b) + Added(LAMBDA l : HalfAway(l.amount * b.vatBasisPoints, 10000), b.lines)
Gross(b) == InvoiceNet(b) + HalfAway(InvoiceNet(b) * b.vatBasisPoints, 10000)

\* One row of the profitability report, of the client's invoices.
Profitability(invoices) ==
    LET gross == Added(Gross, invoices)
        paid == Added(LAMBDA b : Added(LAMBDA p : p.amount, b.payments), invoices)
        forgiven == Added(LAMBDA b : Added(LAMBDA p : p.discount, b.payments), invoices)
    IN  [net |-> Added(InvoiceNet, invoices), gross |-> gross,
         outstanding |-> Owed(gross - paid - forgiven)]

----------------------------------------------------------------------------
(* The operations.                                                         *)

NoSheet == [state |-> "none", lines |-> <<>>]

\* A statement is generated from the period's approved hours.
DraftSheet(lines) ==
    /\ sheet.state \in {"none", "invoiced"}
    /\ Len(lines) + Added(LAMBDA b : b.booked, bills) <= MaxBooked
    /\ sheet' = [state |-> "draft", lines |-> lines]
    /\ UNCHANGED <<bills, offer>>

Revise(i, line) ==
    /\ sheet.state = "draft"
    /\ sheet' = [sheet EXCEPT !.lines[i] = line]
    /\ UNCHANGED <<bills, offer>>

ExcludeLine(i) == Revise(i, [sheet.lines[i] EXCEPT !.excluded = TRUE])

\* Only an excluded line can be restored.
RestoreLine(i) ==
    /\ sheet.lines[i].excluded
    /\ Revise(i, [sheet.lines[i] EXCEPT !.excluded = FALSE])

AdjustLine(i, amount) == Revise(i, [sheet.lines[i] EXCEPT !.adjustedTo = amount])

ApproveSheet ==
    /\ sheet.state = "draft"
    /\ sheet' = [sheet EXCEPT !.state = "approved"]
    /\ UNCHANGED <<bills, offer>>

\* The lines that were not excluded.
Billable(lines) ==
    LET upTo[i \in 0 .. Len(lines)] ==
            IF i = 0 THEN <<>>
            ELSE IF lines[i].excluded THEN upTo[i - 1] ELSE Append(upTo[i - 1], lines[i])
    IN  upTo[Len(lines)]

\* They are copied, at what they come to and as
\* they will print, with the rate of VAT of the day.
Bill(vatBasisPoints) ==
    LET kept == Billable(sheet.lines)
    IN  /\ sheet.state = "approved"
        /\ kept # <<>>
        /\ bills' = Append(bills,
             [lines |-> [i \in DOMAIN kept |->
                            [amount |-> LineAmount(kept[i]),
                             quantity |-> PrintedAs(kept[i]).quantity,
                             rate |-> PrintedAs(kept[i]).rate,
                             ofLine |-> kept[i]]],
              vatBasisPoints |-> vatBasisPoints,
              booked |-> Len(sheet.lines),   \* of MaxBooked
              payments |-> <<>>,
              settlement |-> "issued"])
        /\ sheet' = [sheet EXCEPT !.state = "invoiced"]
        /\ UNCHANGED offer

MutSettledBy(payments, total) == Added(LAMBDA p : p.amount, payments) >= total
SettledBy(payments, total) == Covered(payments) >= total

\* Nothing refuses more than is owed, nor a payment on an invoice that is paid.
RecordPayment(i, p) ==
    LET payments == Append(bills[i].payments, p)
    IN  /\ Len(bills[i].payments) < MaxReceived
        /\ bills' = [bills EXCEPT ![i] =
              [@ EXCEPT !.payments = payments,
                        !.settlement = IF SettledBy(payments, InvoiceTotal(bills[i]))
                                       THEN "paid" ELSE "part_paid"]]
        /\ UNCHANGED <<sheet, offer>>

MutMayOffer(o) == o.kind = "hours" => o.centi > 0

\* A discount is never more than the line it comes off.
MayOffer(o) ==
    /\ o.kind = "hours" => o.centi > 0
    /\ o.discount >= 0 /\ o.discount <= QuotedPrice(o)

AddOfferLine(o) ==
    /\ Len(offer) < MaxOffered
    /\ MayOffer(o)
    /\ offer' = Append(offer, o)
    /\ UNCHANGED <<sheet, bills>>

RemoveOfferLine(i) ==
    /\ offer' = RemoveAt(offer, i)
    /\ UNCHANGED <<sheet, bills>>

SheetsOf == UNION {[1 .. n -> SheetLines] : n \in 1 .. MaxBooked}

FiguresInit == sheet = NoSheet /\ bills = <<>> /\ offer = <<>>

BillsNext ==
    \/ \E lines \in SheetsOf : DraftSheet(lines)
    \/ \E i \in DOMAIN sheet.lines : \/ ExcludeLine(i) \/ RestoreLine(i)
                                     \/ \E a \in Agreed : AdjustLine(i, a)
    \/ ApproveSheet
    \/ \E v \in VatRates : Bill(v)
    \/ \E i \in DOMAIN bills, p \in Receivable : RecordPayment(i, p)

OfferNext ==
    \/ \E o \in OfferLines : AddOfferLine(o)
    \/ \E i \in DOMAIN offer : RemoveOfferLine(i)

FiguresSpec == FiguresInit /\ [][BillsNext \/ OfferNext]_figuresVars

----------------------------------------------------------------------------
(* What ought to hold.                                                     *)

FiguresTypeOK ==
    /\ sheet.state \in {"none", "draft", "approved", "invoiced"}
    /\ \A i \in DOMAIN sheet.lines :
          sheet.lines[i].adjustedTo \in Agreed \cup {NotSet} /\ sheet.lines[i].excluded \in BOOLEAN
    /\ \A i \in DOMAIN bills :
          /\ bills[i].vatBasisPoints \in VatRates
          /\ bills[i].settlement \in {"issued", "part_paid", "paid"}
    /\ \A i \in DOMAIN offer : offer[i] \in OfferLines

\* The screens show the figures of the audit log, to the fils, though each
\* side rounds for itself: statements, invoices, and quotations with every sum
\* under them.
ScreensAgree ==
    /\ ReadStatement(sheet.lines) =
          [asWorked |-> Added(AsWorked, sheet.lines), total |-> StatementTotal(sheet.lines)]
    /\ \A i \in DOMAIN bills :
          ReadInvoice(bills[i]).total = InvoiceTotal(bills[i])
          /\ ReadInvoice(bills[i]).balance = InvoiceBalance(bills[i])
    /\ ReadTotals(offer) = OfferTotals(offer)

\* What an invoice charges is what the reviewed lines it was copied from came
\* to, and an invoice that is paid is one that has nothing left to pay.
InvoiceIsTheReview ==
    \A i \in DOMAIN bills :
        /\ InvoiceNet(bills[i]) = Added(LAMBDA l : LineAmount(l.ofLine), bills[i].lines)
        /\ \A j \in DOMAIN bills[i].lines : ~ bills[i].lines[j].ofLine.excluded
        /\ bills[i].settlement = "paid" <=> bills[i].payments # <<>> /\ InvoiceBalance(bills[i]) = 0

\* The client can add the sheet up: rows, then VAT, make the printed total;
\* and no line of a quotation charges less than nothing.
SheetsAddUp ==
    /\ \A s \in {InvoiceDocument(bills[i]) : i \in DOMAIN bills} \cup {QuotationDocument(offer)} :
          Added(LAMBDA amount : amount, s.amounts) + s.tax = s.total
    /\ \A i \in DOMAIN offer : ClientView(offer).rows[i].chargeable >= 0

\* Quantity times rate reaches the amount printed beside it, but for an hourly
\* line, whose hours are printed to the nearest hundredth: there it misses by at
\* most half a hundredth of an hour, and the rounding of one fils.
PrintedReaches ==
    \A i \in DOMAIN bills : \A j \in DOMAIN bills[i].lines :
        LET l == bills[i].lines[j]
            off == l.quantity * l.rate - 100 * l.amount
            slack == IF l.ofLine.pricing = "fixed" \/ l.ofLine.adjustedTo # NotSet THEN 0
                     ELSE l.rate \div 2 + 50
        IN  -slack <= off /\ off <= slack

\* The profitability report is the sum of the invoices: VAT rounded once on each,
\* and as much outstanding as they have, unless one of them was overpaid, which
\* the report sets off against the others and no invoice does.
ReportAgrees ==
    LET report == Profitability(bills)
        overpaid == \E i \in DOMAIN bills : Covered(bills[i].payments) > InvoiceTotal(bills[i])
    IN  /\ report.gross = Added(InvoiceTotal, bills)
        /\ report.outstanding <= Added(InvoiceBalance, bills)
        /\ ~ overpaid => report.outstanding = Added(InvoiceBalance, bills)

\* All of the above, of figures that are figures.
FiguresHold ==
    FiguresTypeOK /\ ScreensAgree /\ InvoiceIsTheReview /\ SheetsAddUp /\ PrintedReaches /\ ReportAgrees

\* reports.reader.ts:82-83: "shared across the entries that make it up so a line
\* is never counted twice". The hours report, by person as by client, charges
\* each statement line once.
LineChargedOnce ==
    /\ BilledAmount(sheet.lines) = StatementTotal(sheet.lines)
    /\ BilledByPerson(sheet.lines) = StatementTotal(sheet.lines)
=============================================================================
