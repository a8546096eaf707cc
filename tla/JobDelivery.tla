----------------------------- MODULE JobDelivery -----------------------------
(***************************************************************************)
(* What the queue promises about a job, with no worker, lease or clock in  *)
(* sight: a job put on the queue is live until it has one outcome, and     *)
(* keeps it. It is completed only if a handler has run it to its end, and  *)
(* given up only after a run that ended in an error. Handlers may run it   *)
(* any number of times, even after its outcome: delivery is at least once. *)
(***************************************************************************)
CONSTANTS Jobs, Key, NoKey

VARIABLES
    status,    \* of each job
    returned,  \* jobs a handler ran to its end for
    troubled   \* jobs a run of which ended in an error

vars == <<status, returned, troubled>>

Status == {"absent", "live", "completed", "failed"}

TypeOK ==
    /\ status \in [Jobs -> Status]
    /\ returned \subseteq Jobs
    /\ troubled \subseteq Jobs

Init ==
    /\ status = [j \in Jobs |-> "absent"]
    /\ returned = {}
    /\ troubled = {}

\* One live job per natural key.
Submit(j) ==
    /\ status[j] = "absent"
    /\ Key[j] # NoKey => \A k \in Jobs : Key[k] = Key[j] => status[k] # "live"
    /\ status' = [status EXCEPT ![j] = "live"]
    /\ UNCHANGED <<returned, troubled>>

RunReturns(j) ==
    /\ status[j] # "absent"
    /\ returned' = returned \cup {j}
    /\ UNCHANGED <<status, troubled>>

RunErrs(j) ==
    /\ status[j] # "absent"
    /\ troubled' = troubled \cup {j}
    /\ UNCHANGED <<status, returned>>

\* An error while the completion is recorded: the outcome may stand.
CompleteInDoubt(j) ==
    /\ status[j] = "live"
    /\ j \in returned
    /\ status' = [status EXCEPT ![j] = "completed"]
    /\ troubled' = troubled \cup {j}
    /\ UNCHANGED returned

Complete(j) ==
    /\ status[j] = "live"
    /\ j \in returned
    /\ status' = [status EXCEPT ![j] = "completed"]
    /\ UNCHANGED <<returned, troubled>>

GiveUp(j) ==
    /\ status[j] = "live"
    /\ j \in troubled
    /\ status' = [status EXCEPT ![j] = "failed"]
    /\ UNCHANGED <<returned, troubled>>

Next ==
    \E j \in Jobs :
        \/ Submit(j)
        \/ RunReturns(j)
        \/ RunErrs(j)
        \/ Complete(j)
        \/ CompleteInDoubt(j)
        \/ GiveUp(j)

Spec == Init /\ [][Next]_vars
=============================================================================
