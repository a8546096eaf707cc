----------------------------- MODULE ContactLog -----------------------------
(***************************************************************************)
(* What was said to a client, and the screenshots that prove it            *)
(* (packages/modules/clients contact-log, the panel of apps/web).          *)
(*                                                                         *)
(* Somebody fills the form for a conversation and sends it. The request    *)
(* puts the files in the store one at a time, and then writes the entry    *)
(* and a row for each file, every statement on its own: the process may    *)
(* die between any two, or the answer be lost, and the form is still there *)
(* to be sent again.                                                       *)
(*                                                                         *)
(* One client, and one panel at it. Channels and summaries are left out,   *)
(* and so are the entries that quotations and WhatsApp write (Quotation,   *)
(* Conversation).                                                          *)
(***************************************************************************)
EXTENDS Naturals, FiniteSets

CONSTANTS
    Talks,      \* conversations that happened
    Shots,      \* files on the person's machine
    Strange,    \* those of a type the store does not keep
    Serving,    \* requests
    None,
    MaxCuts     \* bound on processes that die and answers that are lost

ASSUME ContactAssumption ==
    /\ Strange \subseteq Shots /\ MaxCuts \in Nat
    /\ None \notin Serving \cup [talk : Talks, ahead : BOOLEAN]

VARIABLES
    resolute,   \* TRUE: nobody leaves a form they chose files in
    \* the form: [open, talk, ahead (the time in the box is still to come),
    \* files (what would be sent), shown (what the box of files shows), waits]
    form,
    entry,      \* client_contact_log, by request: [talk, ahead], or None
    proof,      \* contact_log_attachments: <<request, file>>
    bytes,      \* the store: <<request, file>>
    \* each request: [at, talk, ahead, files, left, shown]
    serving,
    cut         \* requests whose process died, or whose answer was lost

logTables == <<entry, proof, bytes>>
contactVars == <<resolute, form, logTables, serving, cut>>

Closed == [open |-> FALSE, talk |-> None, ahead |-> FALSE, files |-> {}, shown |-> {}, waits |-> None]

Unsent == [at |-> "unsent", talk |-> None, ahead |-> FALSE, files |-> {}, left |-> {}, shown |-> {}]

-----------------------------------------------------------------------------
(* The panel.                                                              *)

\* A conversation nobody knows to be in the log. The boxes hold what they held
\* when the form was last sent, or first drawn.
OpenForm(t) ==
    /\ ~ form.open
    /\ \A r \in Serving \ cut : serving[r].at = "done" => serving[r].talk # t
    /\ form' = [form EXCEPT !.open = TRUE, !.talk = t, !.shown = {}]
    /\ UNCHANGED <<resolute, logTables, serving, cut>>

ChooseFiles(files) ==
    /\ form.open /\ form.waits = None
    /\ form.files # files \/ form.shown # files
    /\ form' = [form EXCEPT !.files = files, !.shown = files]
    /\ UNCHANGED <<resolute, logTables, serving, cut>>

\* The time it happened, or one mistyped: tomorrow's, or next year's.
TypeTime(ahead) ==
    /\ form.open /\ form.waits = None /\ form.ahead # ahead
    /\ form' = [form EXCEPT !.ahead = ahead]
    /\ UNCHANGED <<resolute, logTables, serving, cut>>

\* The button closes the form and clears nothing.
LeaveForm ==
    /\ form.open /\ (resolute => form.files = {})
    /\ form' = [form EXCEPT !.open = FALSE, !.talk = None, !.shown = {}]
    /\ UNCHANGED <<resolute, logTables, serving, cut>>

Press(r) ==
    /\ form.open /\ form.waits = None /\ serving[r] = Unsent
    /\ form' = [form EXCEPT !.waits = r]
    /\ serving' = [serving EXCEPT ![r] =
                     [at |-> "sent", talk |-> form.talk, ahead |-> form.ahead,
                      files |-> form.files, left |-> form.files, shown |-> form.shown]]
    /\ UNCHANGED <<resolute, logTables, cut>>

-----------------------------------------------------------------------------
(* The request.                                                            *)

Step(r, to) == serving' = [serving EXCEPT ![r].at = to]
Refused(r) == Step(r, "refused") /\ UNCHANGED <<resolute, form, logTables, cut>>

MutHappened(r) == TRUE
\* A conversation cannot have happened tomorrow.
Happened(r) == ~ serving[r].ahead

Judge(r) ==
    /\ serving[r].at = "sent"
    /\ IF Happened(r)
       THEN Step(r, "storing") /\ UNCHANGED <<resolute, form, logTables, cut>>
       ELSE Refused(r)

\* The files are stored before the row is written; a strange one ends it, and
\* what was stored before it stays without a row.
StoreShot(r, f) ==
    /\ serving[r].at = "storing" /\ f \in serving[r].left \ Strange
    /\ bytes' = bytes \cup {<<r, f>>}
    /\ serving' = [serving EXCEPT ![r].left = @ \ {f}]
    /\ UNCHANGED <<resolute, form, entry, proof, cut>>

RefuseShot(r) ==
    /\ serving[r].at = "storing" /\ serving[r].left \cap Strange # {}
    /\ Refused(r)

MutAllStored(r) == TRUE
AllStored(r) == serving[r].left = {}

WriteEntry(r) ==
    /\ serving[r].at = "storing" /\ AllStored(r)
    /\ entry' = [entry EXCEPT ![r] = [talk |-> serving[r].talk, ahead |-> serving[r].ahead]]
    /\ serving' = [serving EXCEPT ![r].at = "attaching", ![r].left = serving[r].files]
    /\ UNCHANGED <<resolute, form, proof, bytes, cut>>

WriteProof(r, f) ==
    /\ serving[r].at = "attaching" /\ f \in serving[r].left
    /\ proof' = proof \cup {<<r, f>>}
    /\ serving' = [serving EXCEPT ![r].left = @ \ {f}]
    /\ UNCHANGED <<resolute, form, entry, bytes, cut>>

MutAllAttached(r) == TRUE
AllAttached(r) == serving[r].left = {}

MutSentForm == [form EXCEPT !.waits = None]
\* What was recorded leaves the form, which closes with the time of the moment.
SentForm == Closed

\* The answer is the list; a refusal keeps the form.
AnswerForm(r) ==
    /\ form.waits = r
    /\ \/ /\ serving[r].at = "attaching" /\ AllAttached(r)
          /\ Step(r, "done")
          /\ form' = SentForm
       \/ /\ serving[r].at = "refused"
          /\ Step(r, "answered")
          /\ form' = [form EXCEPT !.waits = None]
    /\ UNCHANGED <<resolute, logTables, cut>>

\* The process dies where it is.
ProcessDies(r) ==
    /\ Cardinality(cut) < MaxCuts
    /\ serving[r].at \in {"sent", "storing", "attaching"}
    /\ cut' = cut \cup {r}
    /\ Step(r, "dead")
    /\ form' = IF form.waits = r THEN [form EXCEPT !.waits = None] ELSE form
    /\ UNCHANGED <<resolute, logTables>>

\* The connection goes; the request goes on without it.
AnswerLost(r) ==
    /\ Cardinality(cut) < MaxCuts /\ form.waits = r
    /\ cut' = cut \cup {r}
    /\ form' = [form EXCEPT !.waits = None]
    /\ UNCHANGED <<resolute, logTables, serving>>

ContactInit ==
    /\ resolute \in BOOLEAN
    /\ form = Closed
    /\ entry = [r \in Serving |-> None] /\ proof = {} /\ bytes = {}
    /\ serving = [r \in Serving |-> Unsent] /\ cut = {}

ContactNext ==
    \/ \E t \in Talks : OpenForm(t)
    \/ \E files \in SUBSET Shots : ChooseFiles(files)
    \/ \E ahead \in BOOLEAN : TypeTime(ahead)
    \/ LeaveForm
    \/ \E r \in Serving :
          \/ Press(r) \/ Judge(r) \/ RefuseShot(r) \/ WriteEntry(r)
          \/ AnswerForm(r) \/ ProcessDies(r) \/ AnswerLost(r)
          \/ \E f \in Shots : StoreShot(r, f) \/ WriteProof(r, f)

ContactSpec == ContactInit /\ [][ContactNext]_contactVars

-----------------------------------------------------------------------------
WrittenUp == {r \in Serving : entry[r] # None}

\* Types.
ContactTypeOK ==
    /\ serving \in [Serving -> [at : {"unsent", "sent", "storing", "attaching", "refused",
                                      "answered", "done", "dead"},
                                talk : Talks \cup {None}, ahead : BOOLEAN,
                                files : SUBSET Shots, left : SUBSET Shots, shown : SUBSET Shots]]
    /\ \A p \in proof : p[1] \in WrittenUp

\* A screenshot in the log is in the store: no row claims one "that was never
\* written", wherever the process dies (contact-log.ts record).
ProofWasStored == proof \subseteq bytes

\* An entry keeps every file it was sent with, unless its process died: a file
\* is refused before anything is in the log.
ProofIsWhole ==
    \A r \in WrittenUp : serving[r].at \in {"done", "refused", "answered"} =>
        /\ serving[r].at = "done"
        /\ \A f \in serving[r].files : <<r, f>> \in proof

\* What an entry keeps is what the form showed when it was sent, where nobody
\* left one with files chosen.
ProofWasShown ==
    resolute => \A r \in WrittenUp : serving[r].files = serving[r].shown

\* A conversation is in the log twice only when the first sending was cut off.
WrittenOnce ==
    \A r, s \in WrittenUp :
        r # s /\ entry[r].talk = entry[s].talk => {r, s} \cap cut # {}

\* No entry is of a conversation still to come when it was written up: "a
\* mistyped year sits in the log unnoticed".
HadHappened == \A r \in WrittenUp : ~ entry[r].ahead

ContactHolds ==
    ContactTypeOK /\ ProofWasStored /\ ProofIsWhole /\ ProofWasShown /\ WrittenOnce /\ HadHappened
=============================================================================
