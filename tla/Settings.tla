------------------------------ MODULE Settings ------------------------------
(***************************************************************************)
(* The lists a manager keeps for the firm (apps/web settings-page and the  *)
(* panels beside it, staff-page; the use cases and repositories behind     *)
(* them): services with their steps, branches, letters, campaigns, options *)
(* of the drop-down lists, and the records of the staff.                   *)
(*                                                                         *)
(* Each panel lists the rows it last heard of and opens a form filled from *)
(* one of them. A request reads the row, merges what was sent into it and  *)
(* writes it back, whole for most kinds, in two statements another request *)
(* may come between. Nothing is deleted: a row is retired, and restored.   *)
(* A letter is written from the template and the client's facts of the     *)
(* moment and kept as it was written.                                      *)
(*                                                                         *)
(* One kind of list moves in a behaviour. All new rows would get the same  *)
(* code. Left out: what a branch's half an account or a date out of range  *)
(* is refused for, the order of the lists, the document types of a service *)
(* (those retired since are accepted), who may open which client.          *)
(***************************************************************************)
EXTENDS Naturals, Sequences, FiniteSets

CONSTANTS
    Managers,
    Kinds,        \* of "service", "branch", "letter", "campaign", "option", "person"
    RowNames,       \* what a row may be called
    Texts,        \* a step's name; a letter's wording; what else a row holds
    Blank,        \* the empty text
    Facts,        \* what a letter may ask about a client
    Asks,         \* Asks[t]: the facts a wording asks for
    MaxRows,
    MaxRequests,  \* bound on the requests sent
    NoRow

\* What may be listed.
ListRow == [label : RowNames, details : Seq(Texts), retired : BOOLEAN]

ASSUME SettingsAssumption ==
    /\ Texts # {} /\ RowNames # {} /\ Blank \notin Texts
    /\ NoRow \notin 0 .. MaxRows /\ NoRow \notin ListRow
    /\ Asks \in [Texts -> SUBSET Facts]
    /\ MaxRows \in Nat \ {0} /\ MaxRequests \in Nat

VARIABLES
    kind,
    alone,      \* TRUE: no two requests are at work at once
    emptied,    \* TRUE: somebody may empty the boxes of a step that exists
    rows,       \* by code: [label, details, retired], or NoRow
    liveTexts,  \* the types a campaign may have
    known,      \* the facts the client's record holds
    letters,    \* as written: [asked, gaps, told]
    \* each manager: the list last heard, the form, the request under way
    heard, editor, request,
    requests

settingsRows == <<rows, liveTexts, known, letters>>
settingsVars == <<kind, alone, emptied, settingsRows, heard, editor, request, requests>>

Codes == 1 .. MaxRows
NoEditor == [on |-> NoRow, from |-> NoRow, label |-> Blank, details |-> <<>>]
Waiting == [verb |-> "none", code |-> NoRow, label |-> Blank, details |-> <<>>,
            base |-> NoRow, begun |-> FALSE]
New == 0

Known == {c \in Codes : rows[c] # NoRow}

-----------------------------------------------------------------------------
(* The panels.                                                             *)

\* Every panel may ask again.
Hear(m) ==
    /\ heard[m] # rows
    /\ heard' = [heard EXCEPT ![m] = rows]
    /\ UNCHANGED <<kind, alone, emptied, settingsRows, editor, request, requests>>

Fresh(m, c) ==
    [on |-> c, from |-> c, label |-> heard[m][c].label, details |-> heard[m][c].details]

\* A form of one row that is asked for another is begun again, for it is keyed
\* by the row; the staff page's is not.
MutFilled(m, c) ==
    IF editor[m].on # NoRow THEN [editor[m] EXCEPT !.on = c] ELSE Fresh(m, c)
Filled(m, c) ==
    IF kind = "person" /\ editor[m].on # NoRow
    THEN [editor[m] EXCEPT !.on = c] ELSE Fresh(m, c)

Edit(m, c) ==
    /\ kind # "option" /\ heard[m][c] # NoRow /\ editor[m].on # c
    /\ editor' = [editor EXCEPT ![m] = Filled(m, c)]
    /\ UNCHANGED <<kind, alone, emptied, settingsRows, heard, request, requests>>

AddNew(m) ==
    /\ kind # "person" /\ editor[m].on = NoRow
    /\ editor' = [editor EXCEPT ![m] =
                    [on |-> New, from |-> New, label |-> Blank, details |-> <<Blank>>]]
    /\ UNCHANGED <<kind, alone, emptied, settingsRows, heard, request, requests>>

Cancel(m) ==
    /\ editor[m].on # NoRow
    /\ editor' = [editor EXCEPT ![m] = NoEditor]
    /\ UNCHANGED <<kind, alone, emptied, settingsRows, heard, request, requests>>

\* What may be typed over some details: the steps of a service are renamed and
\* added to, those before added ones emptied; a letter has a body in each of two
\* languages; the rest has one.
Written == IF kind = "service" /\ emptied THEN Texts \cup {Blank} ELSE Texts
Typed(details) ==
    CASE kind = "service" -> {details} \cup UNION {[1 .. n -> Written] :
                                   n \in Len(details) .. 2}
      [] kind = "letter" -> {<<t, u>> : t \in Texts, u \in Texts}
      [] OTHER -> {<<t>> : t \in Texts}

Ready(details) == \E i \in DOMAIN details : details[i] # Blank

SendForm(m, asked) ==
    /\ request[m] = Waiting /\ requests < MaxRequests
    /\ request' = [request EXCEPT ![m] = asked]
    /\ requests' = requests + 1
    /\ UNCHANGED <<kind, alone, emptied, settingsRows, heard>>

\* The code of an option is typed, that of any other new row is made up for it.
SaveForm(m) ==
    \E label \in RowNames, details \in Typed(editor[m].details) :
       /\ editor[m].on # NoRow /\ Ready(details)
       /\ \E c \in IF editor[m].on # New THEN {editor[m].on}
                   ELSE IF kind = "option" THEN Codes ELSE {New} :
             SendForm(m, [verb |-> IF editor[m].on = New THEN "add" ELSE "save", code |-> c,
                      label |-> label, details |-> details, base |-> NoRow, begun |-> FALSE])
       /\ editor' = [editor EXCEPT ![m] = [@ EXCEPT !.label = label, !.details = details]]

\* A row listed as in use is retired, one listed as retired restored.
Retire(m, c) ==
    /\ kind \notin {"campaign", "person"} /\ heard[m][c] # NoRow
    /\ SendForm(m, [verb |-> IF heard[m][c].retired THEN "restore" ELSE "retire", code |-> c,
                label |-> Blank, details |-> <<>>, base |-> NoRow, begun |-> FALSE])
    /\ UNCHANGED editor

-----------------------------------------------------------------------------
(* The requests.                                                           *)

MutTaken == {c \in Known : ~ rows[c].retired}
\* Every code in use, those of retired rows too.
Taken == Known

FirstFree == CHOOSE c \in Codes \ Taken : \A d \in Codes \ Taken : c <= d

\* A service has no fewer steps than it had; a campaign's type is one in use.
MutAccepts(asked) == TRUE
Accepts(asked) ==
    asked.verb \in {"add", "save"} =>
        /\ kind = "service" /\ asked.verb = "save" =>
              Len(asked.details) >= Len(rows[asked.code].details)
        /\ kind = "campaign" => asked.details[1] \in liveTexts

NobodyElse(m) == \A n \in Managers \ {m} : ~ request[n].begun

Begin(m, asked) ==
    /\ request[m].verb \notin {"none", "letter"} /\ ~ request[m].begun
    /\ alone => NobodyElse(m)
    /\ Accepts(request[m])
    /\ request' = [request EXCEPT ![m] = [asked EXCEPT !.begun = TRUE]]
    /\ UNCHANGED <<kind, alone, emptied, settingsRows, heard, editor, requests>>

\* A new row takes the first code nobody uses. An option is one statement.
ReadCodes(m) ==
    /\ request[m].verb = "add" /\ kind # "option" /\ Taken # Codes
    /\ Begin(m, [request[m] EXCEPT !.code = FirstFree])

ReadRow(m) ==
    /\ request[m].verb # "add" \/ kind = "option"
    /\ Begin(m, [request[m] EXCEPT !.base = rows[request[m].code]])

\* Refused, or lost on the way. The form stays as it is.
Refuse(m) ==
    /\ request[m] # Waiting
    /\ request' = [request EXCEPT ![m] = Waiting]
    /\ UNCHANGED <<kind, alone, emptied, settingsRows, heard, editor, requests>>

\* Boxes left empty are no steps.
Defined(details) ==
    LET steps[i \in 0 .. Len(details)] ==
            IF i = 0 THEN <<>>
            ELSE IF details[i] = Blank THEN steps[i - 1] ELSE Append(steps[i - 1], details[i])
    IN  IF kind = "service" THEN steps[Len(details)] ELSE details

\* retired_at is worked out by the statement that writes it, or from the copy.
MutRetiredBase(asked) == asked.base.retired
RetiredBase(asked) ==
    IF kind \in {"branch", "option"} THEN rows[asked.code].retired ELSE asked.base.retired

RetiredNow(asked) ==
    CASE asked.verb = "retire" -> TRUE
      [] asked.verb = "restore" -> FALSE
      [] OTHER -> RetiredBase(asked)

\* What is sent is merged into the copy; an option's names are not sent again.
Merged(asked) ==
    LET base == IF kind = "option" THEN rows[asked.code] ELSE asked.base
        sent == IF asked.verb = "save" THEN asked ELSE base
    IN  [label |-> sent.label, details |-> Defined(sent.details), retired |-> RetiredNow(asked)]

Added(asked) == [label |-> asked.label, details |-> Defined(asked.details), retired |-> FALSE]

MutKeyAllows(asked) == TRUE
\* The primary key, or ON CONFLICT DO NOTHING.
KeyAllows(asked) == asked.verb = "add" => rows[asked.code] = NoRow

\* The answer closes whatever form is open and brings the list.
Commit(m) ==
    LET asked == request[m] IN
    /\ asked.begun /\ KeyAllows(asked)
    /\ rows' = [rows EXCEPT ![asked.code] =
                  IF asked.verb = "add" THEN Added(asked) ELSE Merged(asked)]
    /\ request' = [request EXCEPT ![m] = Waiting]
    /\ editor' = [editor EXCEPT ![m] =
                    IF asked.verb \in {"add", "save"} THEN NoEditor ELSE @]
    /\ heard' = [heard EXCEPT ![m] = rows']
    /\ UNCHANGED <<kind, alone, emptied, liveTexts, known, letters, requests>>

-----------------------------------------------------------------------------
(* Letters. The facts of the client are read, then the template in use.    *)

AskLetter(m, c, language) ==
    /\ kind = "letter" /\ heard[m][c] # NoRow /\ ~ heard[m][c].retired
    /\ SendForm(m, [verb |-> "letter", code |-> c, label |-> language,
                details |-> <<>>, base |-> NoRow, begun |-> FALSE])
    /\ UNCHANGED editor

Body(row, language) == IF language = "en" THEN row.details[1] ELSE row.details[2]

MutNeeded(row, language) == UNION {Asks[row.details[i]] : i \in DOMAIN row.details}
\* What the language chosen asks for, not the other.
Needed(row, language) == Asks[Body(row, language)]

WriteLetter(m) ==
    LET row == rows[request[m].code] IN
    /\ request[m].verb = "letter" /\ ~ row.retired
    /\ letters' = letters \cup
          {[asked |-> Asks[Body(row, request[m].label)],
            gaps |-> Asks[Body(row, request[m].label)] \ known,
            told |-> Needed(row, request[m].label) \ known]}
    /\ request' = [request EXCEPT ![m] = Waiting]
    /\ UNCHANGED <<kind, alone, emptied, rows, liveTexts, known, heard, editor, requests>>

\* Elsewhere: a type is retired from its list, the client's record is filled in.
TypeRetires ==
    /\ kind = "campaign" /\ Cardinality(liveTexts) > 1
    /\ \E t \in liveTexts : liveTexts' = liveTexts \ {t}
    /\ UNCHANGED <<kind, alone, emptied, rows, known, letters, heard, editor, request, requests>>

Learn(f) ==
    /\ kind = "letter" /\ f \notin known
    /\ known' = known \cup {f}
    /\ UNCHANGED <<kind, alone, emptied, rows, liveTexts, letters, heard, editor, request, requests>>

FirstRow(label) ==
    [label |-> label, retired |-> FALSE,
     details |-> [i \in 1 .. IF kind = "letter" THEN 2 ELSE 1 |-> CHOOSE t \in Texts : TRUE]]

SettingsInit ==
    /\ kind \in Kinds /\ alone \in BOOLEAN
    /\ emptied \in BOOLEAN /\ (emptied => kind = "service" /\ alone)
    /\ rows = [c \in Codes |-> IF c < MaxRows THEN FirstRow(CHOOSE l \in RowNames : TRUE) ELSE NoRow]
    /\ liveTexts = Texts /\ known = {} /\ letters = {}
    /\ heard = [m \in Managers |-> rows]
    /\ editor = [m \in Managers |-> NoEditor]
    /\ request = [m \in Managers |-> Waiting]
    /\ requests = 0

SettingsNext ==
    \/ \E m \in Managers :
          \/ Hear(m) \/ AddNew(m) \/ Cancel(m) \/ SaveForm(m) \/ ReadCodes(m)
          \/ ReadRow(m) \/ Refuse(m) \/ Commit(m) \/ WriteLetter(m)
          \/ \E c \in Codes : Edit(m, c) \/ Retire(m, c)
                               \/ \E l \in {"en", "ar"} : AskLetter(m, c, l)
    \/ TypeRetires
    \/ \E f \in Facts : Learn(f)

SettingsSpec == SettingsInit /\ [][SettingsNext]_settingsVars

-----------------------------------------------------------------------------
\* Types.
SettingsTypeOK ==
    /\ kind \in Kinds
    /\ \A c \in Known : rows[c].retired \in BOOLEAN /\ rows[c].details # <<>>
    /\ letters \subseteq [asked : SUBSET Facts, gaps : SUBSET Facts, told : SUBSET Facts]

\* A form open on a row was filled from that row, so that saving it puts one
\* row's values on no other (services-panel.tsx, "Keyed so opening a different
\* service starts from that service's values"). Not so the staff page.
FormsShowTheirRow ==
    kind # "person" => \A m \in Managers : editor[m].from = editor[m].on

\* A code worked out for a new row is free when the row is written, retired rows
\* among those looked at, unless another request came between (custom-service.ts
\* codeFor).
NewCodesFree ==
    alone /\ kind # "option" =>
        \A m \in Managers : request[m].begun => KeyAllows(request[m])

\* Who is handed a letter is told of every fact missing from it, and of no other
\* (generate-letter.ts generate).
GapsAreTold == \A l \in letters : l.gaps = l.told

\* A retired row comes back only by being restored: saving a form, however old,
\* does not bring it back. The rows written whole are exposed to a request that
\* came between (branches.repository.ts change).
RetirementStands ==
    [][\A c \in Codes :
          /\ rows[c] # NoRow /\ rows'[c] # rows[c]
          /\ rows[c].retired /\ ~ rows'[c].retired
          /\ alone \/ kind \in {"branch", "option"}
          => \E m \in Managers : /\ request[m].verb = "restore" /\ request[m].code = c
                                 /\ request'[m] = Waiting]_settingsVars

\* No step of a service goes: the work done under it is recorded by number
\* (manage-services.ts change), unless requests overlap or somebody empties the
\* boxes of one.
StepsStay ==
    [][kind = "service" /\ alone /\ ~ emptied =>
          \A c \in Known : Len(rows'[c].details) >= Len(rows[c].details)]_settingsVars

\* A new row replaces none that is there, whoever adds at the same time.
NothingOverwritten ==
    [][\A c \in Known, m \in Managers :
          request[m].verb = "add" /\ request'[m] = Waiting
          => rows'[c] = rows[c]]_settingsVars

SettingsHold ==
    /\ [](SettingsTypeOK /\ FormsShowTheirRow /\ NewCodesFree /\ GapsAreTold)
    /\ RetirementStands /\ StepsStay /\ NothingOverwritten
=============================================================================
