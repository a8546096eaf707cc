------------------------------- MODULE Project -------------------------------
(***************************************************************************)
(* The life of one project (packages/modules/projects, domain/project.ts   *)
(* and application/project-workflow.ts): its state, the documents it needs *)
(* and its steps, changed by people, each in a READ COMMITTED transaction  *)
(* that reads the row, then its documents and steps, decides over the copy *)
(* and writes the whole of the copy back; and its removal.                 *)
(*                                                                         *)
(* Due dates of the project and of its steps are left out: setTaskDue is a *)
(* save that changes nothing here. Optional documents gate nothing.        *)
(***************************************************************************)
EXTENDS Integers

CONSTANTS
    Papers,         \* the types of document the template makes mandatory
    Steps,          \* the steps of the template
    Staff,          \* requests being served at once
    NoEvent         \* a save that records no change of state

VARIABLES
    alone,          \* TRUE: no two requests on the project are in flight together
    \* tables projects, project_documents and task_steps
    present,        \* whether the row is there
    projectState,
    finishedAt,     \* whether completed_at is set
    papersHere,     \* the types with a document attached
    stepsDone,
    \* time_entries and invoice_lines of the project
    timeBooked,
    lastEvent,      \* the state_changed event of the save that committed last
    \* each request, and the Project it has in memory
    stage,
    stateCopy, finishedCopy, papersCopy, stepsCopy

projectTables == <<present, projectState, finishedAt, papersHere, stepsDone>>
projectCopies == <<stateCopy, finishedCopy, papersCopy, stepsCopy>>
projectVars == <<alone, projectTables, timeBooked, lastEvent, stage, projectCopies>>

ProjectStates == {"awaiting_documents", "ready", "in_progress", "waiting_for_client",
                  "waiting_for_authority", "completed", "cancelled"}

PROGRESS == [s \in ProjectStates |->
    CASE s = "awaiting_documents" -> 0
      [] s = "ready" -> 1
      [] s \in {"in_progress", "waiting_for_client", "waiting_for_authority"} -> 2
      [] s \in {"completed", "cancelled"} -> 3]

ALLOWED == [s \in ProjectStates |->
    CASE s = "awaiting_documents" -> {"ready", "cancelled"}
      [] s = "ready" -> {"in_progress", "awaiting_documents", "cancelled"}
      [] s = "in_progress" -> {"waiting_for_client", "waiting_for_authority", "completed",
                               "cancelled", "ready", "awaiting_documents"}
      [] s = "waiting_for_client" -> {"in_progress", "cancelled", "awaiting_documents", "ready"}
      [] s = "waiting_for_authority" -> {"in_progress", "completed", "cancelled", "ready"}
      [] s = "completed" -> {"in_progress"}
      [] s = "cancelled" -> {"ready"}]

GoingBack(from, to) == PROGRESS[to] < PROGRESS[from]

StateChange(from, to, said) == [from |-> from, to |-> to, said |-> said]

StateChanges == [from : ProjectStates, to : ProjectStates, said : BOOLEAN]

----------------------------------------------------------------------------
(* Reading.                                                                *)

\* A project that is gone is read as a new one.
MutFound == TRUE

Found == present

\* findById, first statement: a project that is gone is refused.
ReadProject(r) ==
    /\ stage[r] = "idle"
    /\ alone => \A q \in Staff : stage[q] = "idle"
    /\ Found
    /\ stage' = [stage EXCEPT ![r] = "row"]
    /\ stateCopy' = [stateCopy EXCEPT ![r] = projectState]
    /\ finishedCopy' = [finishedCopy EXCEPT ![r] = finishedAt]
    /\ UNCHANGED <<alone, projectTables, timeBooked, lastEvent, papersCopy, stepsCopy>>

\* toAggregate: the documents and steps, as they are by now.
ReadDocuments(r) ==
    /\ stage[r] = "row"
    /\ stage' = [stage EXCEPT ![r] = "deciding"]
    /\ papersCopy' = [papersCopy EXCEPT ![r] = IF present THEN papersHere ELSE {}]
    /\ stepsCopy' = [stepsCopy EXCEPT ![r] = IF present THEN stepsDone ELSE {}]
    /\ UNCHANGED <<alone, projectTables, timeBooked, lastEvent, stateCopy, finishedCopy>>

Answered(r) ==
    /\ stage' = [stage EXCEPT ![r] = "idle"]
    /\ stateCopy' = [stateCopy EXCEPT ![r] = "ready"]
    /\ finishedCopy' = [finishedCopy EXCEPT ![r] = FALSE]
    /\ papersCopy' = [papersCopy EXCEPT ![r] = {}]
    /\ stepsCopy' = [stepsCopy EXCEPT ![r] = {}]

----------------------------------------------------------------------------
(* Changing: change() finds, applies and saves.                            *)

Missing(papers) == Papers \ papers

MutFinishedAfter(from, to, was) == to = "completed" \/ was

\* transitionTo: re-opened, it no longer says when it was finished.
FinishedAfter(from, to, was) == to = "completed" \/ (from # "completed" /\ was)

\* save: the row, every requirement and every step of the copy, inserted or
\* overwritten, whatever the tables have by now.
SaveProject(r, to, papers, steps, event) ==
    /\ present' = TRUE
    /\ projectState' = to
    /\ finishedAt' = FinishedAfter(stateCopy[r], to, finishedCopy[r])
    /\ papersHere' = papers
    /\ stepsDone' = steps
    /\ lastEvent' = event
    /\ Answered(r)
    /\ UNCHANGED <<alone, timeBooked>>

MutMayMove(r, to) == to \in ALLOWED[stateCopy[r]]

\* The gate in front of in_progress, in start() and in moveTo().
MayMove(r, to) ==
    /\ to \in ALLOWED[stateCopy[r]]
    /\ to = "in_progress" => Missing(papersCopy[r]) = {}

MutReasonGiven(from, to, said) == TRUE

\* A step back needs a reason, and only a step back keeps the one it is given.
ReasonGiven(from, to, said) == said = GoingBack(from, to)

Move(r, to, said) ==
    /\ stage[r] = "deciding"
    /\ MayMove(r, to)
    /\ ReasonGiven(stateCopy[r], to, said)
    /\ SaveProject(r, to, papersCopy[r], stepsCopy[r], StateChange(stateCopy[r], to, said))

\* Satisfying the last mandatory requirement moves the project to ready. The same
\* document again is saved, and changes nothing.
AttachDocument(r, type) ==
    /\ stage[r] = "deciding"
    /\ LET papers == papersCopy[r] \cup {type}
           unblocked == stateCopy[r] = "awaiting_documents" /\ Missing(papers) = {}
       IN \/ /\ unblocked
             /\ SaveProject(r, "ready", papers, stepsCopy[r],
                            StateChange("awaiting_documents", "ready", FALSE))
          \/ /\ ~ unblocked \/ type \in papersCopy[r]
             /\ SaveProject(r, stateCopy[r], papers, stepsCopy[r], NoEvent)

\* A completed project keeps its documents; one that is ready goes back to awaiting.
DetachDocument(r, type) ==
    /\ stage[r] = "deciding"
    /\ type \in papersCopy[r]
    /\ stateCopy[r] # "completed"
    /\ IF stateCopy[r] = "ready"
         THEN SaveProject(r, "awaiting_documents", papersCopy[r] \ {type}, stepsCopy[r],
                          StateChange("ready", "awaiting_documents", FALSE))
         ELSE SaveProject(r, stateCopy[r], papersCopy[r] \ {type}, stepsCopy[r], NoEvent)

CompleteTask(r, step) ==
    /\ stage[r] = "deciding"
    /\ step \notin stepsCopy[r]
    /\ SaveProject(r, stateCopy[r], papersCopy[r], stepsCopy[r] \cup {step}, NoEvent)

SetTaskDue(r) ==
    /\ stage[r] = "deciding"
    /\ SaveProject(r, stateCopy[r], papersCopy[r], stepsCopy[r], NoEvent)

----------------------------------------------------------------------------
(* Removing.                                                               *)

\* usage: only a project with no time and nothing billed.
FindUnused(r) ==
    /\ stage[r] = "deciding"
    /\ ~ timeBooked
    /\ stage' = [stage EXCEPT ![r] = "removing"]
    /\ UNCHANGED <<alone, projectTables, timeBooked, lastEvent, projectCopies>>

MutMayDelete == TRUE

\* ON DELETE RESTRICT under time entries and billed lines.
MayDelete == ~ timeBooked

\* The documents and steps are left behind.
MutRemove(r) ==
    /\ stage[r] = "removing"
    /\ IF MayDelete THEN present' = FALSE ELSE UNCHANGED present
    /\ Answered(r)
    /\ UNCHANGED <<alone, projectState, finishedAt, papersHere, stepsDone, timeBooked, lastEvent>>

\* ON DELETE CASCADE takes the documents and the steps.
Remove(r) ==
    /\ stage[r] = "removing"
    /\ IF MayDelete THEN present' = FALSE /\ papersHere' = {} /\ stepsDone' = {}
                    ELSE UNCHANGED <<present, papersHere, stepsDone>>
    /\ Answered(r)
    /\ UNCHANGED <<alone, projectState, finishedAt, timeBooked, lastEvent>>

\* Time is booked on it, by an assignment of the project's.
BookTime ==
    /\ present /\ ~ timeBooked
    /\ timeBooked' = TRUE
    /\ UNCHANGED <<alone, projectTables, lastEvent, stage, projectCopies>>

\* Refused, or the connection is lost.
Refused(r) ==
    /\ stage[r] # "idle"
    /\ Answered(r)
    /\ UNCHANGED <<alone, projectTables, timeBooked, lastEvent>>

ProjectInit ==
    /\ alone \in BOOLEAN
    /\ present = TRUE
    /\ projectState = IF Papers = {} THEN "ready" ELSE "awaiting_documents"
    /\ finishedAt = FALSE /\ papersHere = {} /\ stepsDone = {}
    /\ timeBooked = FALSE
    /\ lastEvent = NoEvent
    /\ stage = [r \in Staff |-> "idle"]
    /\ stateCopy = [r \in Staff |-> "ready"]
    /\ finishedCopy = [r \in Staff |-> FALSE]
    /\ papersCopy = [r \in Staff |-> {}]
    /\ stepsCopy = [r \in Staff |-> {}]

StaffStep(r) ==
    \/ ReadProject(r) \/ ReadDocuments(r)
    \/ \E to \in ProjectStates, said \in BOOLEAN : Move(r, to, said)
    \/ \E type \in Papers : AttachDocument(r, type) \/ DetachDocument(r, type)
    \/ \E step \in Steps : CompleteTask(r, step)
    \/ SetTaskDue(r) \/ FindUnused(r) \/ Remove(r) \/ Refused(r)

ProjectNext == BookTime \/ \E r \in Staff : StaffStep(r)

ProjectSpec == ProjectInit /\ [][ProjectNext]_projectVars

----------------------------------------------------------------------------
(* Properties.                                                             *)

\* The type invariant: nothing is attached to a project that is gone.
ProjectTypeOK ==
    /\ alone \in BOOLEAN /\ present \in BOOLEAN
    /\ projectState \in ProjectStates /\ finishedAt \in BOOLEAN
    /\ papersHere \subseteq Papers /\ stepsDone \subseteq Steps
    /\ ~ present => papersHere = {} /\ stepsDone = {}
    /\ timeBooked \in BOOLEAN
    /\ lastEvent \in StateChanges \cup {NoEvent}
    /\ stage \in [Staff -> {"idle", "row", "deciding", "removing"}]
    /\ stateCopy \in [Staff -> ProjectStates] /\ finishedCopy \in [Staff -> BOOLEAN]
    /\ papersCopy \in [Staff -> SUBSET Papers] /\ stepsCopy \in [Staff -> SUBSET Steps]

\* A project says when it was finished exactly while it is finished, re-opened,
\* cancelled or written over by an older copy (tasks_completed_has_date).
FinishedHasDate == finishedAt <=> projectState = "completed"

\* A move into progress that commits leaves every mandatory document attached in the
\* tables, even if one was taken off by somebody else after the copy was read
\* (project.ts start: the gate of FR-12).
StartsWithPapers ==
    [][lastEvent' # lastEvent /\ lastEvent' # NoEvent /\ lastEvent'.to = "in_progress"
       => Missing(papersHere') = {}]_projectVars

\* A project on which time was booked is never removed, booked between the check
\* and the removal included (project-workflow.ts remove).
BookedIsKept == timeBooked => present

\* While requests take turns, the log's last entry tells of every change of state,
\* and a step back has a reason or comes of a document taken off the project.
ChangesAreTold ==
    [][alone /\ projectState' # projectState =>
        \E said \in BOOLEAN :
            /\ lastEvent' = StateChange(projectState, projectState', said)
            /\ GoingBack(projectState, projectState')
                 => said \/ papersHere' # papersHere]_projectVars

\* While requests take turns, a removed project stays removed: nothing saves it again.
RemovedStaysRemoved == [][alone /\ ~ present => ~ present']_projectVars

\* What the firm can rely on about a project, whoever changes it at once: booked time
\* and finishing dates stay true, the gate before the work holds, every change is
\* told, and a removed project stays removed.
ProjectHolds ==
    /\ [](ProjectTypeOK /\ FinishedHasDate /\ BookedIsKept)
    /\ StartsWithPapers /\ ChangesAreTold /\ RemovedStaysRemoved
=============================================================================
