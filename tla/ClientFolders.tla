--------------------------- MODULE ClientFolders ---------------------------
(***************************************************************************)
(* The folder every client has (packages/modules/clients, client-files.ts) *)
(* and the panel it is used from (client-files-panel.tsx): folders made,   *)
(* renamed and removed, files moved and removed, and files dropped into a  *)
(* folder, whole folders of a computer among them. One client.             *)
(*                                                                         *)
(* A request reads what it needs, checks, and writes the whole row in a    *)
(* later statement. The bytes of a file are stored before its row. A drop  *)
(* is several requests of one panel, over the list of folders it loaded.   *)
(***************************************************************************)
EXTENDS Integers, Sequences, FiniteSets

CONSTANTS
    Folders, Files,  \* ids
    Top,             \* NULL: the top of the client's folder
    Names,           \* what a folder is called, case aside
    Cleaned,         \* cleanFolderName: the name a name becomes
    Desks,           \* the people at work on the folder
    Panels,          \* those of them who drop files on it
    Paths,           \* the folders of a computer that files are dropped in
    MaxDepth,        \* MAX_FOLDER_DEPTH
    MaxFaults,       \* bound on refused files and lost requests
    Nil

ASSUME FoldersAssumption ==
    /\ Cleaned \in [Names -> Names]
    /\ \A n \in Names : Cleaned[Cleaned[n]] = Cleaned[n]
    /\ Top \notin Folders /\ Nil \notin Folders \cup Files /\ MaxDepth \in Nat \ {0}
    /\ Panels \subseteq Desks /\ Paths \subseteq Seq(Names)

VARIABLES
    folders,    \* table client_folders: [parent, name, removed]
    files,      \* table client_files: [place, removed]
    bytes,      \* the files whose bytes are in the document store
    \* each desk: where its request is, what it is about, the row it read,
    \* what it is to become
    deskAt, about, deskCopy, becoming,
    \* each panel: the folders it listed, and the files and path of its drop
    listed, dropping, path,
    oneAtATime, \* TRUE: no two desks are at work at once, each on a fresh list
    faults,
    failures    \* why drops came to nothing

folderTables == <<folders, files, bytes>>
deskVars == <<deskAt, about, deskCopy, becoming>>
panelVars == <<listed, dropping, path>>
foldersVars == <<folderTables, deskVars, panelVars, oneAtATime, faults, failures>>

Put(table, id, row) == [x \in DOMAIN table \cup {id} |-> IF x = id THEN row ELSE table[x]]

OpenFolder(f) == f \in DOMAIN folders /\ ~ folders[f].removed
OpenPlace(p) == p = Top \/ OpenFolder(p)
LiveFile(x) == x \in DOMAIN files /\ ~ files[x].removed

\* How far below the top a place is.
DepthOf(p) ==
    LET depth[q \in DOMAIN folders \cup {Top}] ==
            IF q = Top THEN 0 ELSE 1 + depth[folders[q].parent]
    IN  depth[p]

\* nameTaken, and the unique index behind it.
MutNameFree(f, parent, name) ==
    \A g \in DOMAIN folders \ {f} : folders[g].parent = parent => folders[g].name # name

NameFree(f, parent, name) ==
    \A g \in DOMAIN folders \ {f} :
        OpenFolder(g) /\ folders[g].parent = parent => folders[g].name # name

\* folderHasContents.
MutHasContents(f) == \E x \in DOMAIN files : LiveFile(x) /\ files[x].place = f

HasContents(f) ==
    \/ \E x \in DOMAIN files : LiveFile(x) /\ files[x].place = f
    \/ \E g \in DOMAIN folders : OpenFolder(g) /\ folders[g].parent = f

Listing == {[id |-> f, parent |-> folders[f].parent, name |-> folders[f].name] :
                f \in {g \in DOMAIN folders : OpenFolder(g)}}

Begin(d) ==
    /\ deskAt[d] = "idle"
    /\ oneAtATime => \A o \in Desks : deskAt[o] = "idle"

Holding(d, at, id, copy, to) ==
    /\ deskAt' = [deskAt EXCEPT ![d] = at]
    /\ about' = [about EXCEPT ![d] = id]
    /\ deskCopy' = [deskCopy EXCEPT ![d] = copy]
    /\ becoming' = [becoming EXCEPT ![d] = to]

Leave(d) ==
    /\ Holding(d, "idle", Nil, Nil, Nil)
    /\ listed' = [o \in Panels |-> IF o = d THEN {} ELSE listed[o]]
    /\ dropping' = [dropping EXCEPT ![d] = {}]
    /\ path' = [path EXCEPT ![d] = <<>>]

ReadOnly == UNCHANGED <<folderTables, panelVars, oneAtATime, faults, failures>>

----------------------------------------------------------------------------
(* Folders, and the files in them.                                         *)

MayHold(parent) == parent = Top \/ DepthOf(parent) < MaxDepth

ReadToCreate(d, parent, name) ==
    /\ Begin(d)
    /\ OpenPlace(parent) /\ MayHold(parent)
    /\ Holding(d, "creating", Nil, Nil, [parent |-> parent, name |-> name])
    /\ ReadOnly

ReadToRename(d, f, name) ==
    /\ Begin(d) /\ OpenFolder(f)
    /\ Holding(d, "renaming", f, folders[f], name)
    /\ ReadOnly

ReadToRemoveFolder(d, f) ==
    /\ Begin(d) /\ OpenFolder(f) /\ ~ HasContents(f)
    /\ Holding(d, "removing folder", f, folders[f], Nil)
    /\ ReadOnly

ReadToMove(d, x, to) ==
    /\ Begin(d) /\ LiveFile(x) /\ OpenPlace(to)
    /\ Holding(d, "moving", x, files[x], to)
    /\ ReadOnly

ReadToRemove(d, x) ==
    /\ Begin(d) /\ LiveFile(x)
    /\ Holding(d, "removing", x, files[x], Nil)
    /\ ReadOnly

\* The row is written as it was read, removal and all, with the one change.
SaveFolder(f, row) == NameFree(f, row.parent, row.name) \/ row.removed

WriteRow(d) ==
    LET was == deskCopy[d]
        id == about[d]
        to == becoming[d]
    IN  /\ CASE deskAt[d] = "renaming" ->
                  LET row == [was EXCEPT !.name = to]
                  IN  /\ folders' = IF SaveFolder(id, row) THEN Put(folders, id, row) ELSE folders
                      /\ UNCHANGED files
             [] deskAt[d] = "removing folder" ->
                  folders' = Put(folders, id, [was EXCEPT !.removed = TRUE]) /\ UNCHANGED files
             [] deskAt[d] = "moving" ->
                  files' = Put(files, id, [was EXCEPT !.place = to]) /\ UNCHANGED folders
             [] deskAt[d] = "removing" ->
                  files' = Put(files, id, [was EXCEPT !.removed = TRUE]) /\ UNCHANGED folders
             [] OTHER -> FALSE
        /\ Leave(d)
        /\ UNCHANGED <<bytes, oneAtATime, faults, failures>>

----------------------------------------------------------------------------
(* The panel, and what is dropped on it.                                   *)

\* A drop into an open folder, or the top, of files that sat in a folder of the
\* computer or in none. The panel has the folders as they were at that moment.
Drop(d, X, names, here) ==
    /\ Begin(d)
    /\ OpenPlace(here) /\ listed' = [listed EXCEPT ![d] = Listing]
    /\ X # {} /\ X \cap (DOMAIN files \cup bytes) = {}
    /\ \A o \in Desks : X \cap dropping[o] = {}
    /\ dropping' = [dropping EXCEPT ![d] = X]
    /\ path' = [path EXCEPT ![d] = names]
    /\ Holding(d, "finding", Nil, Nil, here)
    /\ UNCHANGED <<folderTables, oneAtATime, faults, failures>>

Here(d) == becoming[d]
Found(d, list) == {r \in list : r.parent = Here(d) /\ r.name = Head(path[d])}

\* Kept only where a property asks for it.
Failing(why) == failures' = IF oneAtATime THEN failures \cup {why} ELSE failures

Fail(d, why) ==
    /\ Leave(d)
    /\ Failing(why)
    /\ UNCHANGED <<folderTables, oneAtATime, faults>>

\* What a failed drop is put down to: a name the server spells in another way
\* is never found, nor made, by the panel.
Why(d, why) == IF path[d] # <<>> /\ Cleaned[Head(path[d])] # Head(path[d]) THEN "spelling" ELSE why

\* folderMaker: a folder of the path is found in the list, or asked for.
FindOrMake(d) ==
    /\ deskAt[d] = "finding" /\ path[d] # <<>>
    /\ IF Found(d, listed[d]) # {}
       THEN /\ \E r \in Found(d, listed[d]) : Holding(d, "finding", Nil, Nil, r.id)
            /\ path' = [path EXCEPT ![d] = Tail(@)]
            /\ UNCHANGED <<folderTables, listed, dropping, oneAtATime, faults, failures>>
       ELSE IF ~ OpenPlace(Here(d)) THEN Fail(d, "no such folder")
       ELSE IF ~ MayHold(Here(d)) THEN Fail(d, "too deep")
       ELSE /\ Holding(d, "creating", Nil, Nil,
                       [parent |-> Here(d), name |-> Head(path[d])])
            /\ UNCHANGED <<folderTables, panelVars, oneAtATime, faults, failures>>

\* createFolder's insert. To a panel with a drop it answers with the new list,
\* in which the panel looks for the name it asked for.
Create(d) ==
    /\ deskAt[d] = "creating"
    /\ LET asked == becoming[d].name
           row == [parent |-> becoming[d].parent, name |-> Cleaned[asked], removed |-> FALSE]
       IN  \/ /\ ~ NameFree(Nil, row.parent, row.name)
              /\ Leave(d)
              /\ IF dropping[d] = {} THEN UNCHANGED failures ELSE Failing(Why(d, "name taken"))
              /\ UNCHANGED <<folderTables, oneAtATime, faults>>
           \/ \E f \in Folders \ DOMAIN folders :
              /\ NameFree(f, row.parent, row.name)
              /\ folders' = Put(folders, f, row)
              /\ IF dropping[d] = {} \/ Cleaned[asked] # asked
                 THEN /\ Leave(d)
                      /\ IF dropping[d] = {} THEN UNCHANGED failures ELSE Failing("spelling")
                 ELSE /\ Holding(d, "finding", Nil, Nil, f)
                      /\ path' = [path EXCEPT ![d] = Tail(@)]
                      /\ listed' = [listed EXCEPT ![d] = Listing']
                      /\ UNCHANGED <<dropping, failures>>
              /\ UNCHANGED <<files, bytes, oneAtATime, faults>>

\* upload: the place is looked at once, for all the files of the request.
Sendable(d) == OpenPlace(Here(d))

Send(d) ==
    /\ deskAt[d] = "finding" /\ path[d] = <<>>
    /\ IF Sendable(d)
       THEN /\ Holding(d, "keeping", Nil, Nil, Here(d))
            /\ UNCHANGED <<folderTables, panelVars, oneAtATime, faults, failures>>
       ELSE Fail(d, "no such folder")

\* keep: the bytes first, then the row. A file that is refused is left out.
StoreFile(d, x) ==
    /\ deskAt[d] = "keeping" /\ about[d] = Nil /\ x \in dropping[d]
    /\ bytes' = bytes \cup {x}
    /\ about' = [about EXCEPT ![d] = x]
    /\ UNCHANGED <<folders, files, deskAt, deskCopy, becoming, panelVars,
                   oneAtATime, faults, failures>>

RefuseFile(d, x) ==
    /\ deskAt[d] = "keeping" /\ about[d] = Nil /\ x \in dropping[d]
    /\ faults < MaxFaults /\ faults' = faults + 1
    /\ dropping' = [dropping EXCEPT ![d] = @ \ {x}]
    /\ UNCHANGED <<folderTables, deskVars, listed, path, oneAtATime, failures>>

Kept(d) == [place |-> Here(d), removed |-> FALSE]

RecordFile(d) ==
    /\ deskAt[d] = "keeping" /\ about[d] # Nil
    /\ files' = Put(files, about[d], Kept(d))
    /\ about' = [about EXCEPT ![d] = Nil]
    /\ dropping' = [dropping EXCEPT ![d] = @ \ {about[d]}]
    /\ UNCHANGED <<folders, bytes, deskAt, deskCopy, becoming, listed, path,
                   oneAtATime, faults, failures>>

Finish(d) ==
    /\ deskAt[d] = "keeping" /\ dropping[d] = {}
    /\ Leave(d)
    /\ UNCHANGED <<folderTables, oneAtATime, faults, failures>>

\* A request is lost between two of its statements.
Lost(d) ==
    /\ deskAt[d] # "idle"
    /\ faults < MaxFaults /\ faults' = faults + 1
    /\ Leave(d)
    /\ UNCHANGED <<folderTables, oneAtATime, failures>>

FoldersInit ==
    /\ folders = << >> /\ files = << >> /\ bytes = {}
    /\ deskAt = [d \in Desks |-> "idle"]
    /\ about = [d \in Desks |-> Nil]
    /\ deskCopy = [d \in Desks |-> Nil]
    /\ becoming = [d \in Desks |-> Nil]
    /\ listed = [d \in Panels |-> {}]
    /\ dropping = [d \in Desks |-> {}]
    /\ path = [d \in Desks |-> <<>>]
    /\ oneAtATime \in BOOLEAN
    /\ faults = 0 /\ failures = {}

\* What a name typed by hand comes to.
Spelled == {Cleaned[n] : n \in Names}

FoldersNext ==
    \E d \in Desks :
        \/ \E p \in DOMAIN folders \cup {Top}, n \in Spelled : ReadToCreate(d, p, n)
        \/ \E f \in DOMAIN folders :
              \/ \E n \in Spelled : ReadToRename(d, f, n)
              \/ ReadToRemoveFolder(d, f)
        \/ \E x \in DOMAIN files :
              \/ \E p \in DOMAIN folders \cup {Top} : ReadToMove(d, x, p)
              \/ ReadToRemove(d, x)
        \/ WriteRow(d)
        \/ \E X \in SUBSET Files, ns \in Paths, p \in DOMAIN folders \cup {Top} :
              d \in Panels /\ Drop(d, X, ns, p)
        \/ FindOrMake(d) \/ Create(d) \/ Send(d)
        \/ \E x \in Files : StoreFile(d, x) \/ RefuseFile(d, x)
        \/ RecordFile(d) \/ Finish(d) \/ Lost(d)

FoldersSpec == FoldersInit /\ [][FoldersNext]_foldersVars

----------------------------------------------------------------------------

FoldersTypeOK ==
    /\ DOMAIN folders \subseteq Folders /\ DOMAIN files \subseteq Files /\ bytes \subseteq Files
    /\ \A f \in DOMAIN folders : folders[f].parent \in Folders \cup {Top}
                                 /\ folders[f].name \in Names
    /\ \A x \in DOMAIN files : files[x].place \in Folders \cup {Top}
    /\ deskAt \in [Desks -> {"idle", "creating", "renaming", "removing folder", "moving",
                             "removing", "finding", "keeping"}]

\* Whatever is at work at once: two open folders of one place are never called
\* the same, no folder is deeper than the limit, and a file in the list has its
\* bytes in the store.
FoldersSound ==
    /\ \A f \in DOMAIN folders : OpenFolder(f) => NameFree(f, folders[f].parent, folders[f].name)
    /\ \A f \in DOMAIN folders : DepthOf(f) <= MaxDepth
    /\ DOMAIN files \subseteq bytes

\* "Only an empty folder": while the desks take turns, what was not removed is
\* in a folder that was not removed, and that in another, up to the top. An upload
\* or a move that looked at the folder before it was removed does hide its file.
NothingOutOfSight ==
    oneAtATime =>
        /\ \A x \in DOMAIN files : LiveFile(x) => OpenPlace(files[x].place)
        /\ \A f \in DOMAIN folders : OpenFolder(f) => OpenPlace(folders[f].parent)

\* "Finds or makes the folder for a path of names": while the desks take turns, a
\* drop fails only for a path too deep, or a name the server spells otherwise.
FoundOrMade == oneAtATime => failures \subseteq {"too deep", "spelling"}

\* Once a drop is over and nothing was lost, each of its files has a row or was
\* refused: none has its bytes in the store alone.
NoneHalfKept ==
    faults = 0 =>
        \A x \in bytes \ DOMAIN files : \E d \in Desks : about[d] = x

FoldersHold ==
    FoldersTypeOK /\ FoldersSound /\ NothingOutOfSight /\ FoundOrMade /\ NoneHalfKept
=============================================================================
