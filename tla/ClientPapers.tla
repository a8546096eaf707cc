---------------------------- MODULE ClientPapers ----------------------------
(***************************************************************************)
(* The documents of one client (packages/modules/clients: documents). A    *)
(* person uploads a file: it is put in storage first, and then one         *)
(* transaction supersedes the document it replaces and records the new one.*)
(* The replaced one is named by the request, or is the client's current    *)
(* document of the same kind, a kind being a type and a label.             *)
(*                                                                         *)
(* Two rules of the table pull against each other: one live document of a  *)
(* kind (a partial unique index), and a superseding document that exists   *)
(* (a foreign key, deferred to commit so that superseding comes first).    *)
(* Left out: dates and the checks on them, which refuse before anything is *)
(* written, and markRenewing, which nothing calls.                         *)
(***************************************************************************)
EXTENDS FiniteSets

CONSTANTS
    Papers,      \* document ids, minted by the uploads
    Sorts,       \* a type and a label
    Uploads,     \* requests being served at once
    Nothing      \* NULL, and no document

ASSUME PapersAssumption == Nothing \notin Papers \cup Sorts

VARIABLES
    alike,       \* TRUE: a request that names what it replaces names one of the same kind
    bucket,      \* the files in storage, by document id
    \* table client_documents
    kindOf,      \* Nothing until the row exists
    newer,       \* superseded_by_id
    \* the request of each upload
    stageOf,     \* "idle", "stored" or "decided"
    paper,       \* the id it minted
    kind,        \* of the file it brings
    replaces,    \* the document it replaces, as it read it
    wasReplaced  \* whether that one was superseded when it read it

papersVars == <<alike, bucket, kindOf, newer, stageOf, paper, kind, replaces, wasReplaced>>

Live(p) == kindOf[p] # Nothing /\ newer[p] = Nothing

PutAway(u) ==
    /\ stageOf' = [stageOf EXCEPT ![u] = "idle"]
    /\ paper' = [paper EXCEPT ![u] = Nothing]
    /\ kind' = [kind EXCEPT ![u] = Nothing]
    /\ replaces' = [replaces EXCEPT ![u] = Nothing]
    /\ wasReplaced' = [wasReplaced EXCEPT ![u] = FALSE]

MutPutFile(u, p, k) ==
    /\ stageOf[u] = "idle"
    /\ kindOf[p] = Nothing /\ \A v \in Uploads : paper[v] # p
    /\ stageOf' = [stageOf EXCEPT ![u] = "stored"]
    /\ paper' = [paper EXCEPT ![u] = p]
    /\ kind' = [kind EXCEPT ![u] = k]
    /\ UNCHANGED <<alike, bucket, kindOf, newer, replaces, wasReplaced>>

\* The file goes to storage under a fresh id.
PutFile(u, p, k) ==
    /\ stageOf[u] = "idle"
    /\ kindOf[p] = Nothing /\ p \notin bucket
    /\ bucket' = bucket \cup {p}
    /\ stageOf' = [stageOf EXCEPT ![u] = "stored"]
    /\ paper' = [paper EXCEPT ![u] = p]
    /\ kind' = [kind EXCEPT ![u] = k]
    /\ UNCHANGED <<alike, kindOf, newer, replaces, wasReplaced>>

\* whatThisReplaces: the document named, whichever it is; else the current one
\* of the kind, if there is one.
MutReplaceable(k) ==
    LET current == {p \in Papers : Live(p)}
    IN  IF current = {} THEN {Nothing} ELSE current
Replaceable(k) ==
    LET current == {p \in Papers : Live(p) /\ kindOf[p] = k}
    IN  IF current = {} THEN {Nothing} ELSE current

Named(k) == {p \in Papers : kindOf[p] # Nothing /\ (alike => kindOf[p] = k)}

ReadReplaced(u) ==
    /\ stageOf[u] = "stored"
    /\ \E p \in Replaceable(kind[u]) \cup Named(kind[u]) :
          /\ replaces' = [replaces EXCEPT ![u] = p]
          /\ wasReplaced' = [wasReplaced EXCEPT ![u] = p # Nothing /\ newer[p] # Nothing]
    /\ stageOf' = [stageOf EXCEPT ![u] = "decided"]
    /\ UNCHANGED <<alike, bucket, kindOf, newer, paper, kind>>

\* client_documents_current_idx, with the replaced one out of the way.
MutIndexAllows(p, k, old) == TRUE
IndexAllows(p, k, old) ==
    \A other \in Papers \ {p, old} : Live(other) => kindOf[other] # k

\* The old one is superseded whether or not the new one can be written.
MutRecord(u) ==
    /\ stageOf[u] = "decided" /\ ~ wasReplaced[u]
    /\ kindOf' = IF IndexAllows(paper[u], kind[u], replaces[u])
                 THEN [kindOf EXCEPT ![paper[u]] = kind[u]] ELSE kindOf
    /\ newer' = IF replaces[u] = Nothing THEN newer
                ELSE [newer EXCEPT ![replaces[u]] = paper[u]]
    /\ PutAway(u)
    /\ UNCHANGED <<alike, bucket>>

\* The documents, with the one that was received and the one it superseded.
Received(u) == [kindOf EXCEPT ![paper[u]] = kind[u]]
Superseded(u) ==
    IF replaces[u] = Nothing THEN newer ELSE [newer EXCEPT ![replaces[u]] = paper[u]]

\* supersede and save the old one, save the new one, commit.
Record(u) ==
    /\ stageOf[u] = "decided" /\ ~ wasReplaced[u]
    /\ IndexAllows(paper[u], kind[u], replaces[u])
    /\ kindOf' = Received(u)
    /\ newer' = Superseded(u)
    /\ PutAway(u)
    /\ UNCHANGED <<alike, bucket>>

\* The upload is refused, the transaction fails or the process dies: the file
\* stays in storage with no row.
Abandon(u) ==
    /\ stageOf[u] # "idle"
    /\ PutAway(u)
    /\ UNCHANGED <<alike, bucket, kindOf, newer>>

PapersInit ==
    /\ alike \in BOOLEAN /\ bucket = {}
    /\ kindOf = [p \in Papers |-> Nothing]
    /\ newer = [p \in Papers |-> Nothing]
    /\ stageOf = [u \in Uploads |-> "idle"]
    /\ paper = [u \in Uploads |-> Nothing]
    /\ kind = [u \in Uploads |-> Nothing]
    /\ replaces = [u \in Uploads |-> Nothing]
    /\ wasReplaced = [u \in Uploads |-> FALSE]

PapersNext ==
    \E u \in Uploads :
        \/ \E p \in Papers, k \in Sorts : PutFile(u, p, k)
        \/ ReadReplaced(u)
        \/ Record(u)
        \/ Abandon(u)

PapersSpec == PapersInit /\ [][PapersNext]_papersVars

(***************************************************************************)

\* Everything is of its type, and what has been replaced was replaced by a
\* document on record.
PapersTypeOK ==
    /\ alike \in BOOLEAN /\ bucket \subseteq Papers
    /\ kindOf \in [Papers -> Sorts \cup {Nothing}]
    /\ newer \in [Papers -> Papers \cup {Nothing}]
    /\ \A p \in Papers : newer[p] # Nothing => kindOf[p] # Nothing /\ kindOf[newer[p]] # Nothing
    /\ stageOf \in [Uploads -> {"idle", "stored", "decided"}]
    /\ paper \in [Uploads -> Papers \cup {Nothing}]
    /\ kind \in [Uploads -> Sorts \cup {Nothing}]
    /\ replaces \in [Uploads -> Papers \cup {Nothing}]
    /\ wasReplaced \in [Uploads -> BOOLEAN]

\* However many uploads race, a kind of document the client once had stays
\* current: the old one is superseded only together with its replacement.
KindStaysCurrent ==
    [][alike => \A k \in Sorts :
          (\E p \in Papers : Live(p) /\ kindOf[p] = k)
            => \E p \in Papers : kindOf'[p] = k /\ newer'[p] = Nothing]_papersVars

\* What a document was replaced by stays on record: of two uploads that
\* replace one document the second is refused, though it read the document
\* as current.
HistoryStands ==
    [][alike => \A p \in Papers :
          newer[p] # Nothing => newer'[p] = newer[p]]_papersVars

\* Whatever fails and wherever it dies, a document on record has its file:
\* the other order is "a document the firm believes it holds and cannot
\* produce"; its kind keeps a current one, and the history of both stands.
PapersStand ==
    /\ []PapersTypeOK
    /\ [](\A p \in Papers : kindOf[p] # Nothing => p \in bucket)
    /\ KindStaysCurrent
    /\ HistoryStands
=============================================================================
