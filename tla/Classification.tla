---------------------------- MODULE Classification ----------------------------
(***************************************************************************)
(* Branch, salesperson and who did the work, from the first enquiry to the *)
(* invoice (migration 0052_classification, apps/api classification, the    *)
(* panel of apps/web and the form of a new client).                        *)
(*                                                                         *)
(* Each document starts with what the one before it holds, by triggers,    *)
(* and any of the three may be chosen on the document itself. A choice is  *)
(* sent from a list that ages, checked, and written in a statement of its  *)
(* own. Who does a job is its responsible member, chosen in its team.      *)
(* The lists change meanwhile: branches and salespeople retire, accounts   *)
(* are suspended, deleted, or become a client's.                           *)
(*                                                                         *)
(* One document of each kind. The branch of a quotation and of an invoice  *)
(* is theirs to choose (Quotation, Billing); the report, and who may see   *)
(* which client, are left out.                                             *)
(***************************************************************************)
EXTENDS Naturals, FiniteSets

CONSTANTS
    Offices,      \* branch codes
    Employees,    \* accounts, each a salesperson too
    Agents,       \* salespeople with no account
    Pickers,      \* people with a panel open
    Unset,        \* NULL
    MaxPicks,     \* bound on the choices made
    MaxChanges    \* bound on the rows retired, suspended or gone at one time

ASSUME ClassificationAssumption == Unset \notin Offices \cup Employees \cup Agents

VARIABLES
    lone,         \* TRUE: no list changes between a choice's check and its writing
    made,         \* the documents that exist
    converted,    \* leads.converted_client_id is the client
    value,        \* by document and field; a job's performer is its responsible member
    assigned,     \* table project_assignments: who ever was on the job's team
    sellers,      \* table salespeople: the rows
    retiredSellers, retiredOffices,
    accounts,     \* table users: the rows
    suspended,    \* accounts that cannot sign in
    pick,         \* each picker: the choice checked and not written
    picks

lists == <<sellers, retiredSellers, retiredOffices, accounts, suspended>>
documents == <<made, converted, value, assigned>>
classificationVars == <<lone, documents, lists, pick, picks>>

Documents == {"lead", "client", "quotation", "project", "invoice"}
Fields == {"branch", "seller", "performer"}

\* TABLES: what each kind of record keeps that may be chosen on it.
Choosable(d) ==
    CASE d = "client" -> Fields
      [] d \in {"lead", "project"} -> {"branch", "seller"}
      [] OTHER -> {"seller", "performer"}

NoPick == [document |-> Unset, field |-> Unset, to |-> Unset]
NothingSet == [f \in Fields |-> Unset]

-----------------------------------------------------------------------------
(* Carrying forward: only what was left empty is filled.                   *)

Coalesce(x, y) == IF x # Unset THEN x ELSE y

From(d, fields) == [f \in Fields |-> IF f \in fields THEN value[d][f] ELSE Unset]

Make(d, row) ==
    /\ d \notin made
    /\ made' = made \cup {d}
    /\ value' = [value EXCEPT ![d] = row]
    /\ UNCHANGED <<lone, lists>>

WriteLead == Make("lead", NothingSet) /\ UNCHANGED <<converted, assigned, pick, picks>>

\* A client written down at once; the choices of its form follow it (Choose).
WriteClient == Make("client", NothingSet) /\ UNCHANGED <<converted, assigned, pick, picks>>

MutHandedOver == NothingSet
\* An enquiry that becomes a client hands over its branch and salesperson.
HandedOver == From("lead", {"branch", "seller"})

ConvertLead ==
    /\ "lead" \in made
    /\ Make("client", HandedOver)
    /\ converted' = TRUE
    /\ UNCHANGED <<assigned, pick, picks>>

DraftQuotation ==
    /\ "client" \in made
    /\ Make("quotation", From("client", {"seller", "performer"}))
    /\ UNCHANGED <<converted, assigned, pick, picks>>

\* The client's performer becomes the responsible member of a new job.
StartProject ==
    /\ "client" \in made
    /\ Make("project", From("client", Fields))
    /\ assigned' = assigned \cup ({value["client"].performer} \ {Unset})
    /\ UNCHANGED <<converted, pick, picks>>

MutBilledPerformer == value["client"].performer
\* Failing the client's, who is responsible for the work it bills.
BilledPerformer == Coalesce(value["client"].performer, value["project"].performer)

InvoiceWork ==
    /\ "project" \in made
    /\ Make("invoice", [From("client", {"seller"}) EXCEPT !.performer = BilledPerformer])
    /\ UNCHANGED <<converted, assigned, pick, picks>>

\* The team of the job (Project).
AssignResponsible(u) ==
    /\ "project" \in made /\ u \in accounts \ suspended /\ value["project"].performer # u
    /\ value' = [value EXCEPT !["project"].performer = u]
    /\ assigned' = assigned \cup {u}
    /\ UNCHANGED <<lone, made, converted, lists, pick, picks>>

\* Taken off the job, or kept on it to help.
LeaveResponsible ==
    /\ value["project"].performer # Unset
    /\ value' = [value EXCEPT !["project"].performer = Unset]
    /\ UNCHANGED <<lone, made, converted, assigned, lists, pick, picks>>

-----------------------------------------------------------------------------
(* Choosing.                                                               *)

\* Lists on a screen may be a minute old, so they offer rows retired since.
Offered(f) == IF f = "branch" THEN Offices ELSE IF f = "seller" THEN sellers ELSE accounts

MutOnList(f, v) == v = Unset \/ f = "branch" \/ v \in sellers \cup accounts
OnList(f, v) ==
    \/ v = Unset
    \/ f = "branch" /\ v \notin retiredOffices
    \/ f = "seller" /\ v \in sellers \ retiredSellers
    \/ f = "performer" /\ v \in accounts \ suspended

\* A value of the aged list, sent and found on the list as it is.
Choose(p, d, f) ==
    /\ d \in made /\ f \in Choosable(d)
    /\ pick[p] = NoPick /\ picks < MaxPicks
    /\ \E v \in Offered(f) \cup {Unset} :
          /\ v # value[d][f] /\ OnList(f, v)
          /\ pick' = [pick EXCEPT ![p] = [document |-> d, field |-> f, to |-> v]]
    /\ picks' = picks + 1
    /\ UNCHANGED <<lone, documents, lists>>

\* Only the columns that were sent are written; the foreign keys still hold.
MutChosen(p) == [NothingSet EXCEPT ![pick[p].field] = pick[p].to]
Chosen(p) == [value[pick[p].document] EXCEPT ![pick[p].field] = pick[p].to]

RowThere(f, v) ==
    \/ v = Unset \/ f = "branch"
    \/ f = "seller" /\ v \in sellers
    \/ f = "performer" /\ v \in accounts

WriteChoice(p) ==
    /\ pick[p] # NoPick /\ RowThere(pick[p].field, pick[p].to)
    /\ value' = [value EXCEPT ![pick[p].document] = Chosen(p)]
    /\ pick' = [pick EXCEPT ![p] = NoPick]
    /\ UNCHANGED <<lone, made, converted, assigned, lists, picks>>

\* Refused, or lost.
DropChoice(p) ==
    /\ pick[p] # NoPick
    /\ pick' = [pick EXCEPT ![p] = NoPick]
    /\ UNCHANGED <<lone, documents, lists, picks>>

-----------------------------------------------------------------------------
(* The lists.                                                              *)

Quiet ==
    /\ lone => \A p \in Pickers : pick[p] = NoPick
    /\ Cardinality(retiredSellers) + Cardinality(retiredOffices) + Cardinality(suspended)
         + Cardinality(Employees \ accounts) + Cardinality(Employees \ sellers) < MaxChanges

AddAgent(a) ==
    /\ a \notin sellers
    /\ sellers' = sellers \cup {a}
    /\ UNCHANGED <<lone, documents, retiredSellers, retiredOffices, accounts, suspended, pick, picks>>

RetireSeller(s) ==
    /\ Quiet /\ s \in sellers \ retiredSellers
    /\ retiredSellers' = retiredSellers \cup {s}
    /\ UNCHANGED <<lone, documents, sellers, retiredOffices, accounts, suspended, pick, picks>>

RetireOffice(o) ==
    /\ Quiet /\ o \notin retiredOffices
    /\ retiredOffices' = retiredOffices \cup {o}
    /\ UNCHANGED <<lone, documents, sellers, retiredSellers, accounts, suspended, pick, picks>>

\* Suspended, or removed but kept for the name.
Suspend(u) ==
    /\ Quiet /\ u \in accounts \ suspended
    /\ suspended' = suspended \cup {u}
    /\ UNCHANGED <<lone, documents, sellers, retiredSellers, retiredOffices, accounts, pick, picks>>

\* An account nothing keeps is deleted: ON DELETE SET NULL, and its salesperson
\* stays without it. An assignment keeps one.
MutKeptForName(u) == FALSE
KeptForName(u) == u \in assigned

DeleteAccount(u) ==
    /\ Quiet /\ u \in accounts /\ ~ KeptForName(u)
    /\ accounts' = accounts \ {u}
    /\ suspended' = suspended \ {u}
    /\ value' = [d \in Documents |->
                   [value[d] EXCEPT !.performer = IF @ = u THEN Unset ELSE @]]
    /\ UNCHANGED <<lone, made, converted, assigned, sellers, retiredSellers, retiredOffices, pick, picks>>

\* An account that becomes a client's is no salesperson, unless a client was
\* sold by it; the other documents forget it.
MutSoldAClient(u) == FALSE
SoldAClient(u) == value["client"].seller = u

BecomeClients(u) ==
    /\ Quiet /\ u \in accounts \cap sellers /\ ~ SoldAClient(u)
    /\ sellers' = sellers \ {u}
    /\ retiredSellers' = retiredSellers \ {u}
    /\ value' = [d \in Documents |-> [value[d] EXCEPT !.seller = IF @ = u THEN Unset ELSE @]]
    /\ UNCHANGED <<lone, made, converted, assigned, retiredOffices, accounts, suspended, pick, picks>>

ClassificationInit ==
    /\ lone \in BOOLEAN
    /\ made = {} /\ converted = FALSE /\ value = [d \in Documents |-> NothingSet] /\ assigned = {}
    /\ sellers = Employees /\ accounts = Employees
    /\ retiredSellers = {} /\ retiredOffices = {} /\ suspended = {}
    /\ pick = [p \in Pickers |-> NoPick] /\ picks = 0

ClassificationNext ==
    \/ WriteLead \/ WriteClient \/ ConvertLead \/ DraftQuotation \/ StartProject \/ InvoiceWork
    \/ LeaveResponsible
    \/ \E p \in Pickers :
          \/ WriteChoice(p) \/ DropChoice(p)
          \/ \E d \in Documents : \E f \in Fields : Choose(p, d, f)
    \/ \E a \in Agents : AddAgent(a)
    \/ \E s \in Employees \cup Agents : RetireSeller(s)
    \/ \E o \in Offices : RetireOffice(o)
    \/ \E u \in Employees : Suspend(u) \/ DeleteAccount(u) \/ BecomeClients(u) \/ AssignResponsible(u)

ClassificationSpec == ClassificationInit /\ [][ClassificationNext]_classificationVars

-----------------------------------------------------------------------------
\* Types: a document names rows that are there.
ClassificationTypeOK ==
    /\ made \subseteq Documents /\ retiredSellers \subseteq sellers /\ suspended \subseteq accounts
    /\ \A d \in Documents : /\ value[d].branch \in Offices \cup {Unset}
                            /\ value[d].seller \in sellers \cup {Unset}
                            /\ value[d].performer \in accounts \cup {Unset}

WasChosen(d, f) ==
    \E p \in Pickers : /\ pick[p] # NoPick /\ pick'[p] = NoPick
                       /\ pick[p].document = d /\ pick[p].field = f

\* What a document holds changes only as somebody chose for that field of that
\* document, whatever others choose on it or on the one it came from; or in the
\* job's team; or with an account deleted outright or made a client's
\* (0052_classification, "a value chosen on the document itself always wins").
ChoicesStand ==
    [][\A d \in made, f \in Fields :
          value'[d][f] # value[d][f] =>
             \/ WasChosen(d, f)
             \/ d = "project" /\ f = "performer" /\ value'[d][f] \in assigned' \cup {Unset}
             \/ f = "performer" /\ value[d][f] \notin accounts'
             \/ f = "seller" /\ value[d][f] \notin sellers']_classificationVars

\* A branch, salesperson or performer chosen was on the list, unless the list
\* changed while the choice was being written (classification.ts change).
ChosenFromList ==
    [][\A d \in Documents, f \in Fields :
          lone /\ WasChosen(d, f) /\ value'[d][f] # value[d][f] =>
             value'[d][f] \notin
                CASE f = "branch" -> retiredOffices
                  [] f = "seller" -> retiredSellers
                  [] OTHER -> suspended]_classificationVars

\* An enquiry's branch and salesperson reach the client made from it, the
\* client's reach its documents, and an invoice names whoever is known to have
\* done the work (0052_classification).
CarriedForward ==
    [][/\ converted' # converted =>
             \A f \in {"branch", "seller"} : value'["client"][f] = value["lead"][f]
       /\ \A d \in made' \ made : d \notin {"lead", "client"} =>
             value'[d].seller = value["client"].seller
       /\ "invoice" \in made' \ made =>
             (value'["invoice"].performer = Unset
                => Unset = value["client"].performer /\ Unset = value["project"].performer)]_classificationVars

\* The account of somebody who was on the job's team is never deleted outright,
\* so that the firm can say who did the work (user.repository.ts remove); nor is
\* the salesperson of a client forgotten.
NamesKept ==
    [][/\ assigned \subseteq accounts'
       /\ value["client"].seller # Unset => value["client"].seller \in sellers']_classificationVars

ClassificationHolds ==
    /\ []ClassificationTypeOK
    /\ ChoicesStand /\ ChosenFromList /\ CarriedForward /\ NamesKept
=============================================================================
