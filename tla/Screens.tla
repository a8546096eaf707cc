------------------------------- MODULE Screens -------------------------------
(***************************************************************************)
(* What the firm's pages (apps/web) offer, against what the server carries *)
(* out. A page shows one thing as it was when the page last heard of it;   *)
(* pressing a button sends its act, whatever has happened since. An act    *)
(* that was carried out brings the page up to date, unless its answer is   *)
(* lost; a refused one changes neither the thing nor the page.             *)
(*                                                                         *)
(* For each kind of thing, Offers gives the acts its page offers of what   *)
(* it shows, Serves the acts the server carries out with what becomes of   *)
(* the thing, and Passing what happens to it elsewhere. An act is a verb   *)
(* and its object. The firm has branches, and asks for one.                *)
(***************************************************************************)
EXTENDS Integers, FiniteSets

CONSTANTS
    Desks,      \* people with the page of the thing open
    NoPage,
    Lines,      \* the lines a quotation or a statement can ever have
    MaxOwed

\* Something can be billed, and a sum is counted.
ASSUME ScreensAssumption == Lines # {} /\ MaxOwed \in Nat

VARIABLES
    thing,      \* the one thing of a behaviour, as the server has it
    shown       \* what each desk's page shows of it

screenVars == <<thing, shown>>

When(condition, acts) == IF condition THEN acts ELSE {}

\* An act the server carries out, and the thing after it.
Done(act, to) == [act |-> act, to |-> to]

----------------------------------------------------------------------------
(* A quotation: its page, and the page a client's link opens.              *)

\* lines: what it has; dropped: what it had. late: past its date.
Quotations ==
    [kind : {"quotation"}, state : {"draft", "sent", "accepted", "declined", "expired"},
     lines : SUBSET Lines, dropped : SUBSET Lines, branch : BOOLEAN,
     address : BOOLEAN, link : BOOLEAN, late : BOOLEAN]

NewQuotations == {q \in Quotations : q.state = "draft" /\ q.lines = {} /\ q.dropped = {} /\ ~ q.link}

\* The form checks what is typed, so that what it sends is a line. (Lines bounds
\* how many there can be.)
AddLine(q) == When(q.state = "draft" /\ q.lines \cup q.dropped # Lines, {<<"add", "line">>})

MutQuotationOffers(q) ==
    When(q.state = "draft",
         {<<"choose", "branch">>} \cup {<<"remove", l>> : l \in q.lines}
           \cup When(q.branch, {<<"email", "client">>, <<"mark", "sent">>}))

QuotationOffers(q) ==
    When(q.state = "draft",
         {<<"choose", "branch">>} \cup {<<"remove", l>> : l \in q.lines}
           \cup When(q.branch, {<<"email", "client">>, <<"mark", "sent">>}))
      \cup When(q.state = "sent", {<<"record", "accepted">>, <<"record", "declined">>})

\* A link that is no longer good opens nothing.
LinkOffers(q) == When(q.link /\ q.state = "sent", {<<"answer", "accepted">>, <<"answer", "declined">>})

MutMustBeDraft(q) == q.state \in {"draft", "sent"}

MustBeDraft(q) == q.state = "draft"

\* addLine, removeLine and setBranch.
QuotationEdits(q) ==
    When(MustBeDraft(q),
         {Done(<<"add", "line">>, [q EXCEPT !.lines = @ \cup {l}]) : l \in Lines \ (q.lines \cup q.dropped)}
           \cup {Done(<<"remove", l>>, [q EXCEPT !.lines = @ \ {l}, !.dropped = @ \cup {l}]) : l \in q.lines}
           \cup {Done(<<"choose", "branch">>, [q EXCEPT !.branch = TRUE])})

\* send: nothing is sent empty, late or under no branch, nor emailed to nowhere.
QuotationSends(q) ==
    When(MustBeDraft(q) /\ q.lines # {} /\ ~ q.late /\ q.branch,
         {Done(<<"mark", "sent">>, [q EXCEPT !.state = "sent"])}
           \cup When(q.address, {Done(<<"email", "client">>, [q EXCEPT !.state = "sent", !.link = TRUE])}))

\* decide: for whoever records it, and for the client with a good link.
QuotationDecisions(q) ==
    When(q.state = "sent",
         {Done(<<"record", s>>, [q EXCEPT !.state = s]) : s \in {"accepted", "declined"}}
           \cup When(q.link, {Done(<<"answer", s>>, [q EXCEPT !.state = s]) : s \in {"accepted", "declined"}}))

\* Its date passes, and the sweep finds it; its link lapses.
QuotationPassing(q) ==
    {[q EXCEPT !.late = TRUE], [q EXCEPT !.link = FALSE]}
      \cup When(q.state = "sent" /\ q.late, {[q EXCEPT !.state = "expired"]})

----------------------------------------------------------------------------
(* A statement and its lines, and an invoice.                              *)

\* out: the lines excluded; nil: the lines adjusted to nothing.
StatementRows ==
    [kind : {"statement"}, state : {"draft", "approved", "invoiced"},
     out : SUBSET Lines, nil : SUBSET Lines]

NewStatementRows == [kind : {"statement"}, state : {"draft"}, out : {{}}, nil : {{}}]

\* Approving a draft; raising an approved one, once a branch is chosen.
StatementOffers(s) ==
    When(s.state = "draft", {<<"approve", "statement">>})
      \cup When(s.state = "approved", {<<"raise", "invoice">>})

\* A line is excluded or adjusted, or restored if it is out.
LineOffers(s) ==
    When(s.state = "draft",
         {<<"restore", l>> : l \in s.out}
           \cup {<<verb, l>> : verb \in {"exclude", "adjust", "adjust to nothing"}, l \in Lines \ s.out})

MutStatementEdits(s) ==
    When(s.state # "invoiced",
         {Done(<<"exclude", l>>, [s EXCEPT !.out = @ \cup {l}]) : l \in Lines})

\* exclude, adjust and restore.
StatementEdits(s) ==
    When(s.state = "draft",
         {Done(<<"exclude", l>>, [s EXCEPT !.out = @ \cup {l}]) : l \in Lines}
           \cup {Done(<<"restore", l>>, [s EXCEPT !.out = @ \ {l}]) : l \in s.out}
           \cup {Done(<<"adjust", l>>, [s EXCEPT !.nil = @ \ {l}]) : l \in Lines}
           \cup {Done(<<"adjust to nothing", l>>, [s EXCEPT !.nil = @ \cup {l}]) : l \in Lines})

\* approve: a statement of nothing is refused. markInvoiced, by raising.
StatementMoves(s) ==
    When(s.state = "draft" /\ ~ Lines \subseteq s.out \cup s.nil,
         {Done(<<"approve", "statement">>, [s EXCEPT !.state = "approved"])})
      \cup When(s.state = "approved", {Done(<<"raise", "invoice">>, [s EXCEPT !.state = "invoiced"])})

\* owed: what is still to be paid.
Invoices == [kind : {"invoice"}, owed : 0 .. MaxOwed]

NewInvoices == [kind : {"invoice"}, owed : {MaxOwed}]

\* The form goes once nothing is owed, and checks that the amount is one.
InvoiceOffers(i) == When(i.owed > 0, {<<"record", "payment">>})

\* recordPayment, of any sum and discount; what is over is not owed back.
InvoiceServes(i) == {Done(<<"record", "payment">>, [i EXCEPT !.owed = left]) :
                        left \in {o \in 0 .. MaxOwed : o < i.owed \/ o = 0}}

----------------------------------------------------------------------------
(* A project, an enquiry.                                                  *)

ProjectMoves ==
    [awaiting_documents    |-> {"ready", "cancelled"},
     ready                 |-> {"in_progress", "awaiting_documents", "cancelled"},
     in_progress           |-> {"waiting_for_client", "waiting_for_authority", "completed",
                                "cancelled", "ready", "awaiting_documents"},
     waiting_for_client    |-> {"in_progress", "cancelled", "awaiting_documents", "ready"},
     waiting_for_authority |-> {"in_progress", "completed", "cancelled", "ready"},
     completed             |-> {"in_progress"},
     cancelled             |-> {"ready"},
     removed               |-> {}]

\* lacking: a mandatory document; onFile: the client has it; stepDone: the one
\* step; timed: whether time is recorded on it.
Projects ==
    [kind : {"project"}, state : DOMAIN ProjectMoves,
     lacking : BOOLEAN, onFile : BOOLEAN, stepDone : BOOLEAN, timed : BOOLEAN]

NewProjects ==
    {p \in Projects : /\ p.state = IF p.lacking THEN "awaiting_documents" ELSE "ready"
                      /\ ~ p.stepDone /\ ~ p.timed}

MutMoveOffers(p) == {<<"move", s>> : s \in ProjectMoves[p.state]}

\* Starting is shown and cannot be pressed while a document lacks. A step back is
\* only sent with a reason the server takes.
MoveOffers(p) == {<<"move", s>> : s \in ProjectMoves[p.state] \ (IF p.lacking THEN {"in_progress"} ELSE {})}

DocumentOffers(p) == When(p.state # "removed" /\ p.lacking /\ p.onFile, {<<"attach", "document">>})

StepOffers(p) == When(p.state # "removed" /\ ~ p.stepDone, {<<"finish", "step">>})

DeleteProject(p) == When(p.state # "removed", {<<"delete", "project">>})

\* move, with the gate in front of in_progress.
ProjectMoved(p) ==
    {Done(<<"move", s>>, [p EXCEPT !.state = s]) :
        s \in {t \in ProjectMoves[p.state] : t = "in_progress" => ~ p.lacking}}

\* attachDocument and completeTask; remove, of a project nobody worked on.
ProjectChanged(p) ==
    When(p.state # "removed",
         {Done(<<"attach", "document">>,
               [p EXCEPT !.lacking = FALSE, !.state = IF @ = "awaiting_documents" THEN "ready" ELSE @])}
           \cup When(~ p.stepDone, {Done(<<"finish", "step">>, [p EXCEPT !.stepDone = TRUE])})
           \cup When(~ p.timed, {Done(<<"delete", "project">>, [p EXCEPT !.state = "removed"])}))

\* Time is recorded; the client brings the document.
ProjectPassing(p) ==
    When(p.state # "removed", {[p EXCEPT !.timed = TRUE], [p EXCEPT !.onFile = TRUE]})

LeadMoves ==
    [new       |-> {"contacted", "declined"},
     contacted |-> {"quoted", "declined", "contacted"},
     quoted    |-> {"confirmed", "declined", "contacted"},
     confirmed |-> {},
     declined  |-> {}]

\* client: whether a record was made for who is asking.
Enquiries == [kind : {"enquiry"}, state : DOMAIN LeadMoves, client : BOOLEAN]

NewEnquiries == [kind : {"enquiry"}, state : {"new"}, client : {FALSE}]

MutLeadOffers(e) ==
    {<<"move", s>> : s \in LeadMoves[e.state]}
      \cup When("quoted" \in LeadMoves[e.state], {<<"make", "quotation">>})
      \cup When(e.state \in {"quoted", "confirmed"}, {<<"make", "client">>})

\* LeadCard: what may follow, and a quotation or a client where they may.
LeadOffers(e) ==
    {<<"move", s>> : s \in LeadMoves[e.state]}
      \cup When("quoted" \in LeadMoves[e.state], {<<"make", "quotation">>})
      \cup When(e.state = "quoted", {<<"make", "client">>})

\* moveTo, under the CHECK that a client's record comes with the quotation;
\* quotedAs and convertTo.
LeadServes(e) ==
    {Done(<<"move", s>>, [e EXCEPT !.state = s]) :
        s \in {t \in LeadMoves[e.state] : e.client => t \in {"quoted", "confirmed"}}}
      \cup When("quoted" \in LeadMoves[e.state] /\ ~ e.client,
                {Done(<<"make", "quotation">>, [e EXCEPT !.state = "quoted", !.client = TRUE])})
      \cup When(e.state \notin {"confirmed", "declined"},
                {Done(<<"make", "client">>, [e EXCEPT !.state = "confirmed", !.client = TRUE])})

----------------------------------------------------------------------------
(* An entry of somebody's time, and their timer.                           *)

EntryRows == [kind : {"entry"}, state : {"recorded", "approved", "billed"}, doubt : BOOLEAN]

NewEntryRows == {e \in EntryRows : e.state = "recorded"}

\* On its owner's page: an entry in doubt asks to be confirmed.
EntryOffers(e) == When(e.doubt, {<<"confirm", "entry">>})

\* On the approvals page: what is finished, not approved and not billed.
ApprovalOffers(e) == When(e.state = "recorded", {<<"approve", "entry">>})

\* confirm, of an entry still open to change; approve, again too.
EntryServes(e) ==
    When(e.state # "billed",
         When(e.doubt, {Done(<<"confirm", "entry">>, [e EXCEPT !.doubt = FALSE])})
           \cup {Done(<<"approve", "entry">>, [e EXCEPT !.state = "approved"])})

EntryPassing(e) == When(e.state = "approved", {[e EXCEPT !.state = "billed"]})

Timers == [kind : {"timer"}, state : {"none", "running", "held"}]

MutRunningOffers(t) == When(t.state # "none", {<<"hold", "timer">>, <<"resume", "timer">>, <<"stop", "timer">>})

RunningOffers(t) ==
    When(t.state = "running", {<<"hold", "timer">>, <<"stop", "timer">>})
      \cup When(t.state = "held", {<<"resume", "timer">>, <<"stop", "timer">>})

StartTimerButton(t) == {<<"start", "timer">>}

\* start stops whatever was running; stopping nothing is no error.
TimerServes(t) ==
    {Done(<<"start", "timer">>, [t EXCEPT !.state = "running"]),
     Done(<<"stop", "timer">>, [t EXCEPT !.state = "none"])}
      \cup When(t.state = "running", {Done(<<"hold", "timer">>, [t EXCEPT !.state = "held"])})
      \cup When(t.state = "held", {Done(<<"resume", "timer">>, [t EXCEPT !.state = "running"])})

----------------------------------------------------------------------------
(* Pages and presses.                                                      *)

Things == UNION {Quotations, StatementRows, Invoices, Projects, Enquiries, EntryRows, Timers}

Offers(x) ==
    CASE x.kind = "quotation" -> QuotationOffers(x) \cup AddLine(x) \cup LinkOffers(x)
      [] x.kind = "statement" -> StatementOffers(x) \cup LineOffers(x)
      [] x.kind = "invoice" -> InvoiceOffers(x)
      [] x.kind = "project" -> MoveOffers(x) \cup DocumentOffers(x) \cup StepOffers(x) \cup DeleteProject(x)
      [] x.kind = "enquiry" -> LeadOffers(x)
      [] x.kind = "entry" -> EntryOffers(x) \cup ApprovalOffers(x)
      [] x.kind = "timer" -> RunningOffers(x) \cup StartTimerButton(x)

Serves(x) ==
    CASE x.kind = "quotation" -> QuotationEdits(x) \cup QuotationSends(x) \cup QuotationDecisions(x)
      [] x.kind = "statement" -> StatementEdits(x) \cup StatementMoves(x)
      [] x.kind = "invoice" -> InvoiceServes(x)
      [] x.kind = "project" -> ProjectMoved(x) \cup ProjectChanged(x)
      [] x.kind = "enquiry" -> LeadServes(x)
      [] x.kind = "entry" -> EntryServes(x)
      [] x.kind = "timer" -> TimerServes(x)

Passing(x) ==
    CASE x.kind = "quotation" -> QuotationPassing(x)
      [] x.kind = "project" -> ProjectPassing(x)
      [] x.kind = "entry" -> EntryPassing(x)
      [] OTHER -> {}

ScreensInit ==
    /\ thing \in UNION {NewQuotations, NewStatementRows, NewInvoices, NewProjects,
                        NewEnquiries, NewEntryRows, Timers}
    /\ shown = [d \in Desks |-> NoPage]

\* The page is opened, or asks again.
Look(d) == shown' = [shown EXCEPT ![d] = thing] /\ UNCHANGED thing

\* What is carried out of what the page offers, and the page afterwards.
Press(d) ==
    /\ shown[d] # NoPage
    /\ \E s \in Serves(thing) :
          /\ s.act \in Offers(shown[d])
          /\ thing' = s.to
          /\ shown' \in {shown, [shown EXCEPT ![d] = s.to]}

Elsewhere == thing' \in Passing(thing) /\ UNCHANGED shown

ScreensNext == Elsewhere \/ \E d \in Desks : Look(d) \/ Press(d)

ScreensSpec == ScreensInit /\ [][ScreensNext]_screenVars

----------------------------------------------------------------------------

\* A thing of some kind, and pages that show one of the same.
ScreensTypeOK ==
    /\ thing \in Things
    /\ \A d \in Desks : shown[d] = NoPage \/ (shown[d] \in Things /\ shown[d].kind = thing.kind)

\* What a page that is up to date offers all the same, and the server refuses:
\* to send a quotation that is empty or past its date, or by email to nobody; to
\* approve a statement of nothing; to delete a project with time on it; to turn
\* down, or go back to, somebody who was quoted; to confirm time already billed.
RefusedAnyway(x) ==
    CASE x.kind = "quotation" ->
           When(x.state = "draft" /\ x.branch,
                When(x.lines = {} \/ x.late, {<<"mark", "sent">>})
                  \cup When(x.lines = {} \/ x.late \/ ~ x.address, {<<"email", "client">>}))
      [] x.kind = "statement" ->
           When(x.state = "draft" /\ Lines \subseteq x.out \cup x.nil, {<<"approve", "statement">>})
      [] x.kind = "project" -> When(x.state # "removed" /\ x.timed, {<<"delete", "project">>})
      [] x.kind = "enquiry" ->
           When(x.state = "quoted" /\ x.client, {<<"move", "declined">>, <<"move", "contacted">>})
      [] x.kind = "entry" -> When(x.doubt /\ x.state = "billed", {<<"confirm", "entry">>})
      [] OTHER -> {}

Served(x) == {s.act : s \in Serves(x)}

\* "A screen can never offer a task the domain would refuse": a page that is up
\* to date is refused nothing it offers, but for what is named above, so that
\* any other refusal is the work of somebody who got there first.
PagesAreHonest == Offers(thing) \ Served(thing) = RefusedAnyway(thing)

Onward(x) == {s.to : s \in {s \in Serves(x) : s.act \in Offers(x)}}

\* Done with: nothing more is asked of it. A draft past its date is stuck: the
\* refusal says to change the date first, and nothing changes it.
Finished(x) ==
    CASE x.kind = "quotation" ->
           \/ x.state \in {"accepted", "declined", "expired"}
           \/ x.state = "draft" /\ (x.late \/ (x.lines = {} /\ x.dropped = Lines))
      [] x.kind = "statement" -> x.state = "invoiced"
      [] x.kind = "invoice" -> x.owed = 0
      [] x.kind = "project" -> x.state = "removed" \/ (x.state = "completed" /\ x.lacking)
      [] x.kind = "enquiry" -> x.state \in {"confirmed", "declined"}
      [] x.kind = "entry" -> x.state # "recorded"
      [] x.kind = "timer" -> x.state = "none"

Stage(x) == IF x.kind = "invoice" THEN x.owed ELSE x.state

\* Whatever is not done with, its own page takes further: at most two acts that
\* prepare it, and one that moves it to another state.
WorkMovesOn ==
    Finished(thing) \/
    LET once == Onward(thing)
        twice == once \cup UNION {Onward(y) : y \in once}
    IN \E z \in twice \cup UNION {Onward(y) : y \in twice} : Stage(z) # Stage(thing)

\* Each press adds a line, or takes money, of its own.
Repeated == {<<"add", "line">>, <<"record", "payment">>}

\* Pressing again what was carried out and never answered changes nothing more.
AgainIsHarmless ==
    \A s \in Serves(thing) : s.act \in Offers(thing) \ Repeated =>
        \A again \in Serves(s.to) : again.act = s.act => again.to = s.to

\* A quotation is accepted at the lines, and a statement invoiced at the lines,
\* that every page offering it shows, however old the page is.
AgreedAsShown ==
    \A d \in Desks : shown[d] # NoPage =>
        /\ shown[d].kind = "quotation" /\ shown[d].state = "sent" => shown[d].lines = thing.lines
        /\ shown[d].kind = "statement" /\ shown[d].state = "approved" =>
              shown[d].out = thing.out /\ shown[d].nil = thing.nil

ScreensHold == ScreensTypeOK /\ PagesAreHonest /\ WorkMovesOn /\ AgainIsHarmless /\ AgreedAsShown
=============================================================================
