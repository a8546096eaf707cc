------------------------------- MODULE Quotation -------------------------------
(***************************************************************************)
(* One quotation (packages/modules/billing): the firm drafts and sends it, *)
(* the client opens and answers it by an emailed link, and every one of    *)
(* these is a READ COMMITTED transaction that reads the row, then the      *)
(* lines, decides over the copy and writes the whole copy back.            *)
(*                                                                         *)
(* The email is a job of the queue, put there by the same transaction      *)
(* under the quotation's natural key: while one is live another is not     *)
(* added. A link is the number of its token; the row keeps its hash.       *)
(***************************************************************************)
EXTENDS Integers

CONSTANTS
    Lines,        \* line ids
    MaxLinks,     \* bound: tokens issued, where requests take turns; 0 is no token
    MaxRacing,    \* bound: tokens issued, where they overlap
    Requests,     \* requests being served at once
    NoRequest        \* no request

Answers == {"accepted", "declined"}

ASSUME QuotationAssumption == MaxLinks \in Nat /\ MaxRacing \in 0 .. MaxLinks /\ NoRequest \notin Requests

VARIABLES
    inOrder,      \* TRUE: two requests for it are never in flight together
    lapsed,       \* valid_until has passed
    \* tables quotations and quotation_lines, and the audit log
    offerRow,
    lines,
    offer,        \* {the lines of its first billing.quotation.sent event}, or {}
    answer,       \* {its first billing.quotation.accepted or declined event}, or {}
    lastLink,     \* the newest token made
    \* the email job
    job,          \* the token in the payload of the live job, or 0
    jobBy,        \* the request whose transaction has inserted the job
    linksMailed,       \* the tokens of the emails that went
    gaveUp,       \* a job failed for good
    \* each request: where it is (who has read, at first), the event its
    \* Quotation has recorded, and that Quotation
    requestAt,
    event,
    offerCopy,
    linesCopy

rowVars == <<offerRow, lines, offer, answer>>
mailVars == <<job, jobBy, linksMailed, gaveUp>>
requestVars == <<requestAt, event, offerCopy, linesCopy>>
quotationVars == <<inOrder, lapsed, rowVars, lastLink, mailVars, requestVars>>

States == {"none", "draft", "sent", "accepted", "declined", "expired"}
Links == 0 .. MaxLinks
OfferRows == [state: States, via: {"none", "email", "by_hand"}, link: Links,
         by: {"none", "client", "staff"}]
NoOffer == [state |-> "none", via |-> "none", link |-> 0, by |-> "none"]

Readers == {"firm", "client", "sweep"}

-----------------------------------------------------------------------------
(* Starting a request *)

ReadRow(r, reader) ==
    /\ requestAt[r] = "idle"
    /\ inOrder => \A q \in Requests : requestAt[q] = "idle"
    /\ offerRow.state # "none"
    /\ requestAt' = [requestAt EXCEPT ![r] = reader]
    /\ offerCopy' = [offerCopy EXCEPT ![r] = offerRow]
    /\ UNCHANGED <<inOrder, lapsed, rowVars, lastLink, mailVars, event, linesCopy>>

\* draft: a new row, with no lines. (Its number is not modelled.)
Draft ==
    /\ offerRow.state = "none"
    /\ offerRow' = [NoOffer EXCEPT !.state = "draft"]
    /\ UNCHANGED <<inOrder, lapsed, lines, offer, answer, lastLink,
                   mailVars, requestVars>>

\* findById, for whatever somebody of the firm has asked.
ReadById(r) == ReadRow(r, "firm")

\* findByLinkHash, which does not ask the state of the quotation. Only somebody
\* who was sent a token has one, and whoever comes after link_expires_at might
\* as well not have come.
ReadByLink(r) == offerRow.link \in linksMailed /\ ReadRow(r, "client")

\* lapsed: the expiry sweep reads all its quotations before it decides on the
\* first. (Nothing in the repository calls the sweep.)
ReadLapsed(r) == offerRow.state = "sent" /\ lapsed /\ ReadRow(r, "sweep")

-----------------------------------------------------------------------------
(* Deciding over the copy. hydrate reads the lines in a statement of its    *)
(* own, and what others committed since the row was read is in them.       *)

\* The request is over: refused, failed, or committed.
End(r) ==
    /\ requestAt' = [requestAt EXCEPT ![r] = "idle"]
    /\ event' = [event EXCEPT ![r] = "none"]
    /\ offerCopy' = [offerCopy EXCEPT ![r] = NoOffer]
    /\ linesCopy' = [linesCopy EXCEPT ![r] = {}]

DecideOffer(r, place, records, becomes, newLines) ==
    /\ requestAt' = [requestAt EXCEPT ![r] = place]
    /\ event' = [event EXCEPT ![r] = records]
    /\ offerCopy' = [offerCopy EXCEPT ![r] = becomes]
    /\ linesCopy' = [linesCopy EXCEPT ![r] = newLines]
    /\ UNCHANGED <<inOrder, lapsed, rowVars, mailVars>>

MutIsDraft(r) == offerCopy[r].state \in {"draft", "sent"}

\* mustBeDraft
IsDraft(r) == offerCopy[r].state = "draft"

\* Every line added has an id of its own.
AddLine(r, l) ==
    /\ requestAt[r] = "firm"
    /\ IsDraft(r)
    /\ \A q \in Requests : l \notin lines \cup linesCopy[q]
    /\ DecideOffer(r, "saving", "none", offerCopy[r], lines \cup {l})
    /\ UNCHANGED lastLink

RemoveLine(r, l) ==
    /\ requestAt[r] = "firm"
    /\ IsDraft(r)
    /\ l \in lines
    /\ DecideOffer(r, "saving", "none", offerCopy[r], lines \ {l})
    /\ UNCHANGED lastLink

\* setBranch changes a column of the copy that is not told apart.
SetBranch(r) ==
    /\ requestAt[r] = "firm"
    /\ IsDraft(r)
    /\ DecideOffer(r, "saving", "none", offerCopy[r], lines)
    /\ UNCHANGED lastLink

\* canSend
CanSend(r) == IsDraft(r) /\ lines # {} /\ ~ lapsed

SendByHand(r) ==
    /\ requestAt[r] = "firm"
    /\ CanSend(r)
    /\ DecideOffer(r, "saving", "sent", [offerCopy[r] EXCEPT !.state = "sent", !.via = "by_hand"], lines)
    /\ UNCHANGED lastLink

\* issueLink in memory, and on to the delivery.
IssueLink(r, records, becomes) ==
    /\ requestAt[r] = "firm"
    /\ lastLink < (IF inOrder THEN MaxLinks ELSE MaxRacing)
    /\ lastLink' = lastLink + 1
    /\ DecideOffer(r, "delivering", records, [becomes EXCEPT !.link = lastLink + 1], lines)

MutChannel == "null"

\* The channel the delivery names; with no address it is null and a refusal.
Channel == "email"

SendByEmail(r) ==
    /\ CanSend(r)
    /\ IssueLink(r, "sent", [offerCopy[r] EXCEPT !.state = "sent", !.via = Channel])

SendAgain(r) ==
    /\ offerCopy[r].state = "sent"
    /\ IssueLink(r, "none", offerCopy[r])

MutAnswerable(r) == offerCopy[r].state \notin {"draft", "expired"}

\* decide: only a quotation that is out with the client.
Answerable(r) == offerCopy[r].state = "sent"

\* accept, decline, and the client's answer.
AnswerOffer(r, state) ==
    /\ requestAt[r] \in {"firm", "client"}
    /\ Answerable(r)
    /\ DecideOffer(r, "saving", "answered",
              [offerCopy[r] EXCEPT !.state = state,
                              !.by = IF requestAt[r] = "client" THEN "client" ELSE "staff"], lines)
    /\ UNCHANGED lastLink

MutOpened(r) == [offerCopy[r] EXCEPT !.link = 0]

\* openedByClient, whatever the state: the copy is saved as it was read, but
\* for the time it was first opened.
Opened(r) == offerCopy[r]

ClientOpens(r) ==
    /\ requestAt[r] = "client"
    /\ DecideOffer(r, "saving", "none", Opened(r), lines)
    /\ UNCHANGED lastLink

Expire(r) ==
    /\ requestAt[r] = "sweep"
    /\ offerCopy[r].state = "sent"
    /\ DecideOffer(r, "saving", "none", [offerCopy[r] EXCEPT !.state = "expired"], lines)
    /\ UNCHANGED lastLink

-----------------------------------------------------------------------------
(* Delivery and the commit *)

\* DocumentDelivery.quotation, in a savepoint of the transaction: the insert
\* waits for another transaction that holds the key, then does nothing if the
\* key's job is live.
DeliverOffer(r) ==
    /\ requestAt[r] = "delivering"
    /\ jobBy = NoRequest
    /\ jobBy' = IF job = 0 THEN r ELSE NoRequest
    /\ requestAt' = [requestAt EXCEPT ![r] = "saving"]
    /\ UNCHANGED <<inOrder, lapsed, rowVars, lastLink, job, linksMailed, gaveUp,
                   event, offerCopy, linesCopy>>

MutJobAfter(r) == job

\* The payload carries the token of the request that inserted it.
JobAfter(r) == IF jobBy = r THEN offerCopy[r].link ELSE job

MutRowAfter(r) == [offerCopy[r] EXCEPT !.by = offerRow.by, !.via = offerRow.via]

\* save: every column of the copy, with no look at what the row holds now.
RowAfter(r) == offerCopy[r]

\* The lines are deleted and inserted again, and the commit writes the
\* aggregate's events to the audit log.
SaveOffer(r) ==
    /\ requestAt[r] = "saving"
    /\ offerRow' = RowAfter(r)
    /\ lines' = linesCopy[r]
    /\ offer' = IF offer = {} /\ event[r] = "sent"
                THEN {linesCopy[r]} ELSE offer
    /\ answer' = IF answer = {} /\ event[r] = "answered"
                 THEN {<<offerCopy[r].state, offerCopy[r].by>>} ELSE answer
    /\ job' = JobAfter(r)
    /\ jobBy' = IF jobBy = r THEN NoRequest ELSE jobBy
    /\ End(r)
    /\ UNCHANGED <<inOrder, lapsed, lastLink, linksMailed, gaveUp>>

\* A refusal, an error or a crash: nothing was committed, the job included.
AbandonOffer(r) ==
    /\ requestAt[r] # "idle"
    /\ jobBy' = IF jobBy = r THEN NoRequest ELSE jobBy
    /\ End(r)
    /\ UNCHANGED <<inOrder, lapsed, rowVars, lastLink, job, linksMailed, gaveUp>>

-----------------------------------------------------------------------------
(* The worker, as the queue promises it: the job is run until a run of it   *)
(* has ended well, more than once at times, or is given up; and time.       *)

MailGoes ==
    /\ job # 0
    /\ linksMailed' = linksMailed \cup {job}
    /\ UNCHANGED <<inOrder, lapsed, rowVars, lastLink, job, jobBy, gaveUp,
                   requestVars>>

JobCompletes ==
    /\ job \in linksMailed
    /\ job' = 0
    /\ UNCHANGED <<inOrder, lapsed, rowVars, lastLink, jobBy, linksMailed, gaveUp,
                   requestVars>>

JobFails ==
    /\ job # 0
    /\ job' = 0
    /\ gaveUp' = TRUE
    /\ UNCHANGED <<inOrder, lapsed, rowVars, lastLink, jobBy, linksMailed,
                   requestVars>>

ValidityEnds ==
    /\ ~ lapsed
    /\ lapsed' = TRUE
    /\ UNCHANGED <<inOrder, rowVars, lastLink, mailVars, requestVars>>

QuotationInit ==
    /\ inOrder \in BOOLEAN
    /\ lapsed = FALSE
    /\ offerRow = NoOffer
    /\ lines = {}
    /\ offer = {} /\ answer = {}
    /\ lastLink = 0
    /\ job = 0 /\ jobBy = NoRequest
    /\ linksMailed = {} /\ gaveUp = FALSE
    /\ requestAt = [r \in Requests |-> "idle"]
    /\ event = [r \in Requests |-> "none"]
    /\ offerCopy = [r \in Requests |-> NoOffer]
    /\ linesCopy = [r \in Requests |-> {}]

RequestStep(r) ==
    \/ ReadById(r) \/ ReadByLink(r) \/ ReadLapsed(r)
    \/ \E l \in Lines : AddLine(r, l) \/ RemoveLine(r, l)
    \/ SetBranch(r)
    \/ SendByHand(r) \/ SendByEmail(r) \/ SendAgain(r)
    \/ \E state \in Answers : AnswerOffer(r, state)
    \/ ClientOpens(r)
    \/ Expire(r)
    \/ DeliverOffer(r)
    \/ SaveOffer(r)
    \/ AbandonOffer(r)

WorkerStep == MailGoes \/ JobCompletes \/ JobFails

QuotationNext ==
    \/ Draft
    \/ \E r \in Requests : RequestStep(r)
    \/ WorkerStep
    \/ ValidityEnds

\* The workers keep polling the queue.
QuotationSpec ==
    QuotationInit /\ [][QuotationNext]_quotationVars /\ WF_quotationVars(MailGoes)

-----------------------------------------------------------------------------
(* Properties *)

\* Types of the row, the job and the copies in memory.
QuotationTypeOK ==
    /\ inOrder \in BOOLEAN /\ lapsed \in BOOLEAN /\ gaveUp \in BOOLEAN
    /\ linksMailed \subseteq Links
    /\ offerRow \in OfferRows
    /\ lines \subseteq Lines
    /\ offer \subseteq SUBSET Lines
    /\ answer \subseteq Answers \X {"client", "staff"}
    /\ lastLink \in Links /\ job \in Links
    /\ jobBy \in Requests \cup {NoRequest}
    /\ requestAt \in [Requests -> Readers \cup {"idle", "delivering", "saving"}]
    /\ event \in [Requests -> {"none", "sent", "answered"}]
    /\ offerCopy \in [Requests -> OfferRows]
    /\ linesCopy \in [Requests -> SUBSET Lines]

\* No save is ever refused by the CHECK constraints of the table, whatever
\* copies race: a draft was not sent, anything else was sent somehow, and it
\* says who answered exactly when it is answered.
ChecksHold ==
    /\ (offerRow.state \in {"none", "draft"}) <=> (offerRow.via = "none")
    /\ (offerRow.state \in Answers) <=> (offerRow.by # "none")

\* When requests take turns, a quotation is answered once and keeps its answer:
\* "one answer per quotation" (client-quotation.ts).
AnsweredOnce == inOrder /\ answer # {} => answer = {<<offerRow.state, offerRow.by>>}

\* When requests take turns, the lines the client was sent are the lines in the
\* system: "From here the document is fixed" (Quotation.send).
OfferStands == inOrder /\ offer # {} => offer = {lines}

\* When requests take turns, a link only ever gives way to a newer one, so one
\* that was replaced never opens the quotation again (sendAgain: "The previous
\* link stops working").
RevokedStaysRevoked == [][inOrder => offerRow'.link >= offerRow.link]_quotationVars

\* A quotation recorded as emailed does reach the client, unless its job fails
\* for good.
EmailedIsMailed == (offerRow.via = "email") ~> (linksMailed # {} \/ gaveUp)

\* The offer the client has is the one in the system, answered once, through a link
\* that was not revoked, and the row meets its CHECKs throughout. A quotation
\* recorded as emailed has a job on the queue, or an email that went, or a job that
\* failed for good: never nothing (delivery.ts: "never recorded as emailed without
\* the mail being queued").
QuotationHolds ==
    /\ [](QuotationTypeOK /\ ChecksHold /\ AnsweredOnce /\ OfferStands)
    /\ RevokedStaysRevoked
    /\ [](offerRow.via = "email" => job # 0 \/ linksMailed # {} \/ gaveUp)
=============================================================================
