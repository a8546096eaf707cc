\* Two workers that share two events, one of which its subscriber always fails
\* on; a person who wants email and one who does not; two faults anywhere.
\* An invoice of three payments, and a quotation two requests work on.
\* A settled invoice and an answered quotation with no link are the end.
SPECIFICATION SendingSpec
CONSTANTS
    e1 = e1  e2 = e2  ann = ann  bob = bob  None = None
    Events = {e1, e2}
    OccurredAt <- Ages
    People = {ann, bob}
    Audience <- Everybody
    WantEmail = {ann}
    Poison = {e2}
    Workers = {v, w}
    BatchSize = 2
    MaxFaults = 2
  Payments = {t1, t2, t3}
  Covering <- CoveringPayments
  Cashiers = {h1, h2}
  DueOn = 1
  LastDay = 3
  NoDay = NoDay
  NoPayment = NoPayment
  Lines = {n1}
  MaxLinks = 2
  MaxRacing = 1
  Requests = {r1, r2}
  NoRequest = NoRequest
INVARIANTS RecordsTellTrue
PROPERTIES SettlementHolds QuotationHolds MailArrives
CHECK_DEADLOCK FALSE
