------------------------------ MODULE MCRacing ------------------------------
(***************************************************************************)
(* Requests that overlap, on small instances: at billing, with nothing to  *)
(* keep them apart; at the records of two clients; or from pages that show *)
(* something as it was. The three share no state: a run lets one of them   *)
(* move.                                                                   *)
(***************************************************************************)
EXTENDS MCBilling, ClientRecord, Screens

CONSTANTS c1, n1, k1

VARIABLE at

Unregistered == [client \in OnBooks |-> Absent]

\* One of the clients may be registered at the start, and has a login. Where
\* the others do not move, they are as they start, in one way.
RacingInit ==
    /\ at \in {"billing", "clients", "screens"}
    /\ Init
    /\ RecordInit
    /\ ScreensInit
    /\ vatNumber \in {Unregistered, [Unregistered EXCEPT ![c1] = n1]}
    /\ opens[k1] = [client |-> c1, portal |-> "tax"]
    /\ at # "clients" => apart /\ vatNumber = Unregistered
    /\ at # "screens" => thing.kind = "timer" /\ thing.state = "none"

RacingNext ==
    /\ UNCHANGED at
    /\ \/ at = "billing" /\ Next /\ UNCHANGED <<recordVars, screenVars>>
       \/ at = "clients" /\ RecordNext /\ UNCHANGED <<vars, screenVars>>
       \/ at = "screens" /\ ScreensNext /\ UNCHANGED <<vars, recordVars>>

RacingSpec == RacingInit /\ [][RacingNext]_<<at, vars, recordVars, screenVars>>
=============================================================================
