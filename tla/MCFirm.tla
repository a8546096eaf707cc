------------------------------- MODULE MCFirm -------------------------------
(***************************************************************************)
(* What the firm keeps about its work on small instances: its lists, the   *)
(* classification of a client's documents by them, the log of what was     *)
(* said to a client, and the team of a job. They share no state: a run     *)
(* lets one of them move.                                                  *)
(***************************************************************************)
EXTENDS Settings, Classification, ContactLog, Team, TLC

CONSTANTS t1, t2, fa, fb, m1, m2, p1, p2, w1, w2, u1, u2

VARIABLE firm

\* A wording that asks for one fact about the client, one that asks for two.
Wordings == (t1 :> {fa}) @@ (t2 :> {fa, fb})

\* Where one does not move, it is as it starts, in one way.
FirmInit ==
    /\ firm \in {"lists", "classification", "log", "team"}
    /\ SettingsInit
    /\ ClassificationInit
    /\ ContactInit
    /\ TeamInit
    /\ firm # "lists" => kind = "option" /\ alone
    /\ lone \/ firm = "classification"
    /\ resolute \/ firm = "log"
    /\ inTurn \/ firm = "team"

\* Two of each sort change places together: nothing tells them apart.
Twins == <<<<m1, m2>>, <<p1, p2>>, <<w1, w2>>, <<u1, u2>>>>
FirmSymmetry ==
    {f \in Permutations({m1, m2, p1, p2, w1, w2, u1, u2}) :
        \/ \A i \in 1 .. 4 : f[Twins[i][1]] = Twins[i][2] /\ f[Twins[i][2]] = Twins[i][1]
        \/ \A i \in 1 .. 4 : f[Twins[i][1]] = Twins[i][1] /\ f[Twins[i][2]] = Twins[i][2]}

FirmNext ==
    /\ UNCHANGED firm
    /\ \/ /\ firm = "lists" /\ SettingsNext
          /\ UNCHANGED <<classificationVars, contactVars, teamVars>>
       \/ /\ firm = "classification" /\ ClassificationNext
          /\ UNCHANGED <<settingsVars, contactVars, teamVars>>
       \/ /\ firm = "log" /\ ContactNext
          /\ UNCHANGED <<settingsVars, classificationVars, teamVars>>
       \/ /\ firm = "team" /\ TeamNext
          /\ UNCHANGED <<settingsVars, classificationVars, contactVars>>

FirmSpec ==
    FirmInit /\ [][FirmNext]_<<firm, settingsVars, classificationVars, contactVars, teamVars>>
=============================================================================
