------------------------------ MODULE MCOffice ------------------------------
(***************************************************************************)
(* What runs the firm itself on small instances: the mornings' jobs, with  *)
(* one rung of the ladder, due on the last of three days, since each has   *)
(* its own job and its own alert; who may sign in; and what a role may do. *)
(* They share no state, so a behaviour of all is a behaviour of each; a    *)
(* run lets one of them move, chosen at the start.                         *)
(***************************************************************************)
EXTENDS DailySweep, Staff, RoleChoices

VARIABLE office

DueOnDayThree == [s \in Stages |-> 3]

\* Nothing chosen; then a choice that asks for more than has a tick box.
TickedForOne ==
    [v \in Choices |->
        [role \in EditableRoles |->
            IF v = 1 /\ role = "accountant" THEN {"audit.read", "users.manage"} ELSE Blank]]

Init ==
    /\ office \in {"mornings", "staff", "roles"}
    /\ DailyInit
    /\ StaffInit
    /\ ChoicesInit
    /\ office # "staff" => ~ calm /\ ~ rolesKept
    /\ office # "mornings" => awaited = "moving"

Next ==
    /\ UNCHANGED office
    /\ \/ office = "mornings" /\ DailyNext /\ UNCHANGED <<staffVars, choicesVars>>
       \/ office = "staff" /\ StaffNext /\ UNCHANGED <<dailyVars, choicesVars>>
       \/ office = "roles" /\ ChoicesNext /\ UNCHANGED <<dailyVars, staffVars>>

Alone(step) == office = "mornings" /\ step /\ UNCHANGED <<staffVars, choicesVars>>

Spec ==
    /\ Init
    /\ [][Next]_<<office, dailyVars, staffVars, choicesVars>>
    /\ \A w \in Workers : WF_dailyVars(Alone(WorkerStep(w)))
    /\ WF_dailyVars(Alone(DayPasses))

\* What the mornings come to, of the behaviours in which the mornings move: the chain
\* goes on to the last of them, and a project that waits for good is chased.
MorningsArrive == office = "mornings" => MorningsGoOn /\ WaitingIsChased
=============================================================================
