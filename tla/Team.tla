-------------------------------- MODULE Team --------------------------------
(***************************************************************************)
(* Who is on a job, and who was (apps/api projects assignments, the        *)
(* people card of a project's page, the assignment a timer books against;  *)
(* migrations 0010_task_assignments and 0028_projects).                    *)
(*                                                                         *)
(* Naming a responsible member moves the one there was to helper and then  *)
(* writes the row of the new one, in statements of one transaction: what   *)
(* it changed stays locked, and unseen, until it commits. Somebody who     *)
(* times a job they are not on joins it as a helper, in a statement of its *)
(* own. Hours are booked at a row, so rows end and are not rewritten.      *)
(*                                                                         *)
(* One job. Left out: who may see its client, which an assignment opens    *)
(* and nothing closes, and the rest of the timer (Timer).                  *)
(***************************************************************************)
EXTENDS Naturals, FiniteSets

CONSTANTS
    Colleagues,
    Errands,    \* requests about the job
    MaxPlaces,  \* bound on the rows of the job
    MaxHours,   \* bound on the hours booked
    NoPlace

VARIABLES
    inTurn,     \* TRUE: no two errands are run at once
    working,    \* the accounts that are active
    place,      \* project_assignments: [who, role, live], or NoPlace
    hours,      \* [at, who]: the row an hour is booked at, who worked it
    errand      \* each: [verb, who, role, at, others (rows), own (a row)]

teamVars == <<inTurn, working, place, hours, errand>>

Places == 1 .. MaxPlaces
Roles == {"responsible", "collaborator"}
Rows == [who : Colleagues, role : Roles, live : BOOLEAN]

ASSUME TeamAssumption ==
    MaxPlaces \in Nat /\ MaxHours \in Nat /\ NoPlace \notin Places \cup Rows

NoErrand == [verb |-> "none", who |-> NoPlace, role |-> "collaborator", at |-> "new",
             others |-> {}, own |-> NoPlace]

RowsIn(t) == {i \in Places : t[i] # NoPlace}
LiveIn(t) == {i \in RowsIn(t) : t[i].live}

MutLiveOf(u) == {i \in RowsIn(place) : place[i].who = u}
LiveOf(u) == {i \in LiveIn(place) : place[i].who = u}

MutIndexesAllow(t) == TRUE
\* A person has the job once at a time, and one person is responsible.
IndexesAllow(t) ==
    \A i, j \in LiveIn(t) :
        i # j => /\ t[i].who # t[j].who
                 /\ {t[i].role, t[j].role} # {"responsible"}

\* Rows another errand changed and has not committed.
Locked(e) == UNION {errand[x].others : x \in {x \in Errands \ {e} : errand[x].at \in {"moved", "found"}}}

Ends(e) == errand' = [errand EXCEPT ![e] = NoErrand]
NobodyAtWork(e) == \A x \in Errands \ {e} : errand[x] = NoErrand

-----------------------------------------------------------------------------
\* Refused, rolled back, or lost.
GiveUpErrand(e) ==
    /\ errand[e] # NoErrand
    /\ Ends(e)
    /\ UNCHANGED <<inTurn, working, place, hours>>

FindPerson(e, u, role) ==
    /\ errand[e] = NoErrand /\ (inTurn => NobodyAtWork(e))
    /\ u \in working
    /\ errand' = [errand EXCEPT ![e] =
                    [verb |-> "assign", who |-> u, role |-> role, at |-> "looked", own |-> NoPlace,
                     others |-> IF role = "collaborator" THEN {}
                                ELSE {i \in LiveIn(place) : /\ place[i].role = "responsible"
                                                            /\ place[i].who # u}]]
    /\ UNCHANGED <<inTurn, working, place, hours>>

\* The UPDATE waits for a row another errand holds, and then looks at it again.
MoveOthers(e) ==
    /\ errand[e].at = "looked"
    /\ errand[e].others \cap Locked(e) = {}
    /\ errand' = [errand EXCEPT ![e].at = "moved",
                    ![e].others = {i \in @ : place[i].live /\ place[i].role = "responsible"}]
    /\ UNCHANGED <<inTurn, working, place, hours>>

OwnOf(u) == IF LiveOf(u) = {} THEN {NoPlace} ELSE LiveOf(u)

FindOwn(e) ==
    /\ errand[e].at = "moved"
    /\ \E i \in OwnOf(errand[e].who) :
          errand' = [errand EXCEPT ![e].at = "found", ![e].own = i]
    /\ UNCHANGED <<inTurn, working, place, hours>>

MutMoved(row) == [row EXCEPT !.live = FALSE]
\* Naming a new one moves the old one to helper.
Moved(row) == [row EXCEPT !.role = "collaborator"]

MutFreePlaces == {i \in Places : i \notin LiveIn(place)}
FreePlaces == Places \ RowsIn(place)
FirstPlace == CHOOSE i \in FreePlaces : \A j \in FreePlaces : i <= j

\* The row there is gets the part; failing one, a row is added.
Named(e) ==
    LET moved == [i \in Places |-> IF i \in errand[e].others THEN Moved(place[i]) ELSE place[i]]
    IN  IF errand[e].own # NoPlace THEN [moved EXCEPT ![errand[e].own].role = errand[e].role]
        ELSE [moved EXCEPT ![FirstPlace] =
                [who |-> errand[e].who, role |-> errand[e].role, live |-> TRUE]]

Assign(e) ==
    /\ errand[e].verb = "assign" /\ errand[e].at = "found"
    /\ IF errand[e].own = NoPlace THEN FreePlaces # {} ELSE errand[e].own \notin Locked(e)
    /\ IndexesAllow(Named(e))
    /\ place' = Named(e)
    /\ Ends(e)
    /\ UNCHANGED <<inTurn, working, hours>>

Unassign(u) ==
    /\ inTurn => \A e \in Errands : errand[e] = NoErrand
    /\ \E i \in LiveOf(u) : /\ \A e \in Errands : i \notin Locked(e)
                            /\ place' = [place EXCEPT ![i].live = FALSE]
    /\ UNCHANGED <<inTurn, working, hours, errand>>

FindTimed(e, u) ==
    /\ errand[e] = NoErrand /\ (inTurn => NobodyAtWork(e))
    /\ Cardinality(hours) < MaxHours
    /\ \E i \in OwnOf(u) :
          errand' = [errand EXCEPT ![e] = [verb |-> "book", who |-> u, role |-> "collaborator",
                                           at |-> "found", others |-> {}, own |-> i]]
    /\ UNCHANGED <<inTurn, working, place, hours>>

\* Whoever times or writes down an hour is put on the job first, and stays on it
\* if the hour is refused.
Join(e) ==
    /\ errand[e].verb = "book" /\ errand[e].at = "found" /\ errand[e].own = NoPlace
    /\ FreePlaces # {} /\ IndexesAllow(Named(e))
    /\ place' = Named(e)
    /\ errand' = [errand EXCEPT ![e].own = FirstPlace]
    /\ UNCHANGED <<inTurn, working, hours>>

BookHour(e) ==
    /\ errand[e].verb = "book" /\ errand[e].at = "found" /\ errand[e].own # NoPlace
    /\ hours' = hours \cup {[at |-> errand[e].own, who |-> errand[e].who]}
    /\ Ends(e)
    /\ UNCHANGED <<inTurn, working, place>>

SuspendColleague(u) ==
    /\ u \in working /\ (inTurn => \A e \in Errands : errand[e] = NoErrand)
    /\ working' = working \ {u}
    /\ UNCHANGED <<inTurn, place, hours, errand>>

TeamInit ==
    /\ inTurn \in BOOLEAN /\ working = Colleagues
    /\ place = [i \in Places |-> NoPlace] /\ hours = {}
    /\ errand = [e \in Errands |-> NoErrand]

TeamNext ==
    \/ \E e \in Errands :
          \/ GiveUpErrand(e) \/ MoveOthers(e) \/ FindOwn(e) \/ Assign(e) \/ Join(e) \/ BookHour(e)
          \/ \E u \in Colleagues : \/ FindTimed(e, u)
                                   \/ \E role \in Roles : FindPerson(e, u, role)
    \/ \E u \in Colleagues : Unassign(u) \/ SuspendColleague(u)

TeamSpec == TeamInit /\ [][TeamNext]_teamVars

-----------------------------------------------------------------------------
\* Types.
TeamTypeOK ==
    /\ place \in [Places -> Rows \cup {NoPlace}]
    /\ \A e \in Errands : errand[e].own \in RowsIn(place) \cup {NoPlace}

\* One person is responsible at a time, "or 'whose task is this?' has more than
\* one answer", and nobody has a job twice, whoever names whom at once.
OneResponsible ==
    \A i, j \in LiveIn(place) :
        i # j => /\ place[i].who # place[j].who
                 /\ ~ (place[i].role = "responsible" /\ place[j].role = "responsible")

\* An hour stays with the person who worked it, whoever has the job afterwards
\* (0010_task_assignments, "reassignment never rewrites who did past work").
HoursStayTheirs == \A h \in hours : place[h.at] # NoPlace /\ place[h.at].who = h.who

OnTeam(t) == {t[i].who : i \in LiveIn(t)}

\* Nobody leaves the job but by being taken off it: naming somebody else, or
\* booking an hour, keeps on it whoever is (assignments.ts assign).
HelpersStay == [][errand' # errand => OnTeam(place) \subseteq OnTeam(place')]_teamVars

\* Whoever was named has the part they were named for when the answer comes.
NamedHasIt ==
    [][\A e \in Errands :
          inTurn /\ errand[e].verb = "assign" /\ errand[e].at = "found" /\ place' # place
          => \E i \in LiveIn(place') : /\ place'[i].who = errand[e].who
                                       /\ place'[i].role = errand[e].role]_teamVars

TeamHolds ==
    /\ [](TeamTypeOK /\ OneResponsible /\ HoursStayTheirs)
    /\ HelpersStay /\ NamedHasIt
=============================================================================
