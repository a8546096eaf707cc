----------------------------- MODULE PaperList ------------------------------
(***************************************************************************)
(* The papers of a client chosen together and sent one after another       *)
(* (document-upload.tsx of apps/web), up to the row the server writes of   *)
(* each (packages/modules/clients document.ts; replacing is ClientPapers). *)
(*                                                                         *)
(* Every file chosen becomes a row of the list, with a kind guessed from   *)
(* its name, its dates and a note. Upload sends them in turn; one that is  *)
(* refused stays on the list with the reason, and the others go through.   *)
(*                                                                         *)
(* One page, and each file chosen once. Numbers and authorities are left   *)
(* out; dates are missing, in order, or the wrong way round.               *)
(***************************************************************************)
EXTENDS Naturals, FiniteSets

CONSTANTS
    Scans,          \* files on the person's machine
    Kinds,          \* document types
    Guess,          \* [Scans -> Kinds], from the file's name
    MustExpire,     \* kinds with an expiry date the reminders hang on
    Noted,          \* kinds whose fields include the note
    NotListed,
    MaxMissed       \* bound on answers that are lost

Dates == {"missing", "in order", "backwards"}
ListRows == [kind : Kinds, dates : Dates, note : BOOLEAN, error : BOOLEAN]

ASSUME ListAssumption ==
    /\ MustExpire \subseteq Kinds /\ Noted \subseteq Kinds
    /\ Guess \in [Scans -> Kinds]
    /\ MaxMissed \in Nat /\ NotListed \notin ListRows

VARIABLES
    careful,    \* TRUE: no file is chosen while others go, no kind changed under a note
    wanted,     \* files chosen, and not taken off the list since
    shown,      \* the list: a row for a file, or NotListed
    sending,    \* rows the upload has still to send; the list it began with
    left,       \* rows that stay after it
    filing,     \* TRUE while it goes on
    answered,   \* the documents in its last answer
    shelf,      \* the rows written, by file
    copies,     \* how many
    missed,     \* files whose answer was lost
    inPage      \* files the page shows as held

listVars == <<careful, wanted, shown, sending, left, filing, answered, shelf, copies, missed, inPage>>

Empty == [s \in Scans |-> NotListed]
OnList(rows) == {s \in Scans : rows[s] # NotListed}

-----------------------------------------------------------------------------
(* The list.                                                               *)

\* The fields and buttons of a row are disabled while the upload goes on; the box
\* that takes files is not.
MutMayEdit(s) == shown[s] # NotListed
MayEdit(s) == shown[s] # NotListed /\ ~ filing

Take(files) ==
    /\ files # {} /\ files \cap wanted = {}
    /\ filing => ~ careful
    /\ wanted' = wanted \cup files
    /\ shown' = [s \in Scans |->
                    IF s \in files
                    THEN [kind |-> Guess[s], dates |-> "missing", note |-> FALSE, error |-> FALSE]
                    ELSE shown[s]]
    /\ UNCHANGED <<careful, sending, left, filing, answered, shelf, copies, missed, inPage>>

\* A change takes the error away; the note stays under a kind that does not ask for it.
ChangeKind(s, kind) ==
    /\ MayEdit(s)
    /\ careful => ~ shown[s].note
    /\ shown' = [shown EXCEPT ![s].kind = kind, ![s].error = FALSE]
    /\ UNCHANGED <<careful, wanted, sending, left, filing, answered, shelf, copies, missed, inPage>>

TypeDates(s, dates) ==
    /\ MayEdit(s)
    /\ shown' = [shown EXCEPT ![s].dates = dates, ![s].error = FALSE]
    /\ UNCHANGED <<careful, wanted, sending, left, filing, answered, shelf, copies, missed, inPage>>

TypeNote(s) ==
    /\ MayEdit(s)
    /\ shown[s].kind \in Noted
    /\ shown' = [shown EXCEPT ![s].note = TRUE, ![s].error = FALSE]
    /\ UNCHANGED <<careful, wanted, sending, left, filing, answered, shelf, copies, missed, inPage>>

TakeOff(files) ==
    /\ files # {} /\ \A s \in files : MayEdit(s)
    /\ wanted' = wanted \ files
    /\ shown' = [s \in Scans |-> IF s \in files THEN NotListed ELSE shown[s]]
    /\ UNCHANGED <<careful, sending, left, filing, answered, shelf, copies, missed, inPage>>

-----------------------------------------------------------------------------
(* The upload.                                                             *)

MissingExpiry(row) == row.kind \in MustExpire /\ row.dates = "missing"

Upload ==
    /\ ~ filing
    /\ OnList(shown) # {}
    /\ \A s \in OnList(shown) : ~ MissingExpiry(shown[s])
    /\ filing' = TRUE
    /\ sending' = shown
    /\ left' = Empty
    /\ answered' = {}
    /\ UNCHANGED <<careful, wanted, shown, shelf, copies, missed, inPage>>

\* receive: a kind that expires needs its date, and an expiry comes after its issue.
MutRefuses(row) == row.kind \in MustExpire /\ row.dates = "missing"
Refuses(row) == MissingExpiry(row) \/ row.dates = "backwards"

FileRow(s) ==
    /\ ~ Refuses(sending[s])
    /\ shelf' = [shelf EXCEPT ![s] = @ \cup {sending[s]}]
    /\ copies' = [copies EXCEPT ![s] = @ + 1]

MutStays(s) == UNCHANGED left
Stays(s) == left' = [left EXCEPT ![s] = [sending[s] EXCEPT !.error = TRUE]]

Sent(s) == sending' = [sending EXCEPT ![s] = NotListed]

\* The answer carries the documents the client has by then.
SendRow(s) ==
    /\ sending[s] # NotListed /\ Sent(s)
    /\ \/ /\ FileRow(s)
          /\ answered' = {f \in Scans : copies'[f] > 0}
          /\ UNCHANGED <<left, missed>>
       \/ /\ Refuses(sending[s])
          /\ Stays(s)
          /\ UNCHANGED <<answered, shelf, copies, missed>>
       \/ /\ Cardinality(missed) < MaxMissed
          /\ FileRow(s)
          /\ missed' = missed \cup {s}
          /\ Stays(s)
          /\ UNCHANGED answered
    /\ UNCHANGED <<careful, wanted, shown, filing, inPage>>

\* The list becomes what stayed: not what was on it, and not what came meanwhile.
EndUpload ==
    /\ filing /\ OnList(sending) = {}
    /\ shown' = left
    /\ filing' = FALSE
    /\ inPage' = IF answered # {} THEN answered ELSE inPage
    /\ UNCHANGED <<careful, wanted, sending, left, answered, shelf, copies, missed>>

ListInit ==
    /\ careful \in BOOLEAN
    /\ wanted = {} /\ shown = Empty /\ sending = Empty /\ left = Empty
    /\ filing = FALSE /\ answered = {}
    /\ shelf = [s \in Scans |-> {}] /\ copies = [s \in Scans |-> 0]
    /\ missed = {} /\ inPage = {}

ListNext ==
    \/ \E files \in SUBSET Scans : Take(files) \/ TakeOff(files)
    \/ \E s \in Scans :
          \/ \E kind \in Kinds : ChangeKind(s, kind)
          \/ \E dates \in Dates : TypeDates(s, dates)
          \/ TypeNote(s) \/ SendRow(s)
    \/ Upload \/ EndUpload

ListSpec == ListInit /\ [][ListNext]_listVars

-----------------------------------------------------------------------------
(* What must hold.                                                         *)

\* Types of the list, of the upload and of what is filed.
ListTypeOK ==
    /\ careful \in BOOLEAN /\ filing \in BOOLEAN
    /\ wanted \subseteq Scans /\ answered \subseteq Scans /\ missed \subseteq Scans
    /\ inPage \subseteq Scans
    /\ shown \in [Scans -> ListRows \cup {NotListed}]
    /\ sending \in [Scans -> ListRows \cup {NotListed}]
    /\ left \in [Scans -> ListRows \cup {NotListed}]
    /\ shelf \in [Scans -> SUBSET ListRows]
    /\ copies \in [Scans -> Nat]

\* A file that was chosen is filed or is on the list, refused or not: "nobody has
\* to start again" (document-upload.tsx). What is chosen while an upload goes on
\* vanishes at its end, which is why this is said of careful people.
NothingVanishes ==
    careful => \A s \in wanted : shown[s] # NotListed \/ shelf[s] # {}

\* A paper on file says what its row showed, with the dates its kind is chased by;
\* and nobody took it off the list before it went.
FiledAsShown ==
    \A s \in Scans : \A row \in shelf[s] :
        /\ row.dates # "backwards"
        /\ row.kind \in MustExpire => row.dates = "in order"
        /\ careful /\ row.note => row.kind \in Noted
        /\ s \in wanted \/ s \in missed

\* One paper is filed once for each time its answer was lost, and once.
FiledOnce == \A s \in Scans : copies[s] > 1 => s \in missed

\* Between uploads, the page shows what is on file and the list what is not, where
\* every answer came.
PageIsTrue ==
    ~ filing /\ missed = {} =>
        /\ inPage = {s \in Scans : shelf[s] # {}}
        /\ \A s \in inPage : shown[s] = NotListed

\* The list of papers: the five above.
ListHolds == ListTypeOK /\ NothingVanishes /\ FiledAsShown /\ FiledOnce /\ PageIsTrue
=============================================================================
