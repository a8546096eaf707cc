--------------------------- MODULE JobQueueProofs ---------------------------
(***************************************************************************)
(* Theorems about JobQueue for any number of jobs and workers, any lease,  *)
(* batch size and number of attempts, and without bounding the faults.     *)
(***************************************************************************)
EXTENDS JobQueue, TLAPS

USE JobQueueAssumption

-----------------------------------------------------------------------------
(* The inductive invariant: the type, and what a runner's position implies. *)

\* What a runner holds exists, and was attempted at least as often as the
\* runner's copy says.
HeldOK ==
    \A w \in Workers : \A j \in Jobs :
        batch[w][j] > 0 => j \in created /\ batch[w][j] <= attempts[j]

\* A runner at work on a job holds it; one between batches holds nothing.
PositionOK ==
    \A w \in Workers :
        /\ pc[w] \in {"running", "completing", "failing"} =>
              current[w] \in Jobs /\ batch[w][current[w]] > 0
        /\ pc[w] \notin {"running", "completing", "failing"} => current[w] = NoJob
        /\ pc[w] \in {"top", "claim", "stopped", "crashed"} =>
              \A j \in Jobs : batch[w][j] = 0

\* An outcome is written only after the run that justifies it.
ReasonOK ==
    \A w \in Workers :
        /\ pc[w] = "completing" => current[w] \in returned
        /\ pc[w] = "failing" => current[w] \in troubled
        /\ permanent[w] => pc[w] = "failing" /\ current[w] \in condemned

IInv ==
    /\ TypeOK
    /\ HeldOK
    /\ PositionOK
    /\ ReasonOK
    /\ OutcomesExclude
    /\ GivenUpForAReason

-----------------------------------------------------------------------------
(* What the helpers do. *)

\* A backoff is a number of seconds.
LEMMA BackoffType == \A n \in Nat : BackoffSeconds(n) \in Nat
  BY DEF BackoffSeconds, Doublings

-----------------------------------------------------------------------------
(* Type correctness and the safety invariants. *)

\* The invariant holds of an empty table and idle runners.
LEMMA InitIInv == Init => IInv
  BY DEF Init, IInv, TypeOK, HeldOK, PositionOK, ReasonOK, OutcomesExclude,
         GivenUpForAReason, NoBatch, Labels

\* The steps of a runner that only move it through its loop.
LEMMA MoveIInv ==
    ASSUME IInv, NEW w \in Workers,
           \/ ReleaseExpiredClaims(w)
           \/ LeaveLoop(w)
           \/ StartJob(w)
           \/ HandlerReturns(w)
           \/ HandlerThrows(w)
           \/ CompleteThrows(w)
    PROVE  IInv'
<1> USE DEF Goto, Held, rowVars, faultVars, historyVars
<1>1. CASE ReleaseExpiredClaims(w)
  <2>1. TypeOK'
    BY <1>1 DEF IInv, TypeOK, ReleaseExpiredClaims, Labels
  <2>2. HeldOK' /\ PositionOK' /\ ReasonOK'
    BY <1>1 DEF IInv, TypeOK, HeldOK, PositionOK, ReasonOK, ReleaseExpiredClaims
  <2>3. OutcomesExclude' /\ GivenUpForAReason'
    BY <1>1 DEF IInv, TypeOK, OutcomesExclude, GivenUpForAReason, ReleaseExpiredClaims
  <2> QED BY <2>1, <2>2, <2>3 DEF IInv
<1>2. CASE LeaveLoop(w)
  BY <1>2 DEF IInv, TypeOK, HeldOK, PositionOK, ReasonOK, OutcomesExclude,
              GivenUpForAReason, LeaveLoop, Labels
<1>3. CASE StartJob(w)
  <2>1. TypeOK'
    <3> PICK j \in Held(w) :
            /\ current' = [current EXCEPT ![w] = j]
            /\ IF j \in Handled
               THEN Goto(w, "running") /\ UNCHANGED <<permanent, troubled, condemned>>
               ELSE /\ Goto(w, "failing")
                    /\ permanent' = [permanent EXCEPT ![w] = TRUE]
                    /\ troubled' = troubled \cup {j}
                    /\ condemned' = condemned \cup {j}
      BY <1>3 DEF StartJob
    <3>1. j \in Jobs /\ j \in created
      BY DEF IInv, TypeOK, HeldOK
    <3>2. UNCHANGED <<rowVars, batch, until, stopping, returned, faultVars>>
      BY <1>3 DEF StartJob
    <3>3. CASE j \in Handled
      BY <3>1, <3>2, <3>3 DEF IInv, TypeOK, Labels
    <3>4. CASE j \notin Handled
      BY <3>1, <3>2, <3>4 DEF IInv, TypeOK, Labels
    <3> QED BY <3>3, <3>4
  <2>2. HeldOK' /\ PositionOK'
    BY <1>3 DEF IInv, TypeOK, HeldOK, PositionOK, StartJob
  <2>3. ReasonOK'
    BY <1>3 DEF IInv, TypeOK, HeldOK, PositionOK, ReasonOK, StartJob
  <2>4. OutcomesExclude' /\ GivenUpForAReason'
    BY <1>3 DEF IInv, TypeOK, OutcomesExclude, GivenUpForAReason, StartJob
  <2> QED BY <2>1, <2>2, <2>3, <2>4 DEF IInv
<1>4. CASE HandlerReturns(w)
  <2>1. TypeOK'
    BY <1>4 DEF IInv, TypeOK, HeldOK, PositionOK, HandlerReturns, Labels
  <2>2. HeldOK' /\ PositionOK' /\ ReasonOK'
    BY <1>4 DEF IInv, TypeOK, HeldOK, PositionOK, ReasonOK, HandlerReturns
  <2>3. OutcomesExclude' /\ GivenUpForAReason'
    BY <1>4 DEF IInv, TypeOK, OutcomesExclude, GivenUpForAReason, HandlerReturns
  <2> QED BY <2>1, <2>2, <2>3 DEF IInv
<1>5. CASE HandlerThrows(w)
  <2>1. TypeOK'
    BY <1>5 DEF IInv, TypeOK, HeldOK, PositionOK, HandlerThrows, Labels
  <2>2. HeldOK' /\ PositionOK'
    BY <1>5 DEF IInv, TypeOK, HeldOK, PositionOK, HandlerThrows
  <2>3. ReasonOK'
    BY <1>5 DEF IInv, TypeOK, PositionOK, ReasonOK, HandlerThrows
  <2>4. OutcomesExclude' /\ GivenUpForAReason'
    BY <1>5 DEF IInv, TypeOK, OutcomesExclude, GivenUpForAReason, HandlerThrows
  <2> QED BY <2>1, <2>2, <2>3, <2>4 DEF IInv
<1>6. CASE CompleteThrows(w)
  <2>1. TypeOK'
    BY <1>6 DEF IInv, TypeOK, HeldOK, PositionOK, CompleteThrows, CatchCompleteError, Labels
  <2>2. HeldOK' /\ PositionOK' /\ ReasonOK'
    BY <1>6 DEF IInv, TypeOK, HeldOK, PositionOK, ReasonOK, CompleteThrows,
                CatchCompleteError
  <2>3. OutcomesExclude' /\ GivenUpForAReason'
    BY <1>6 DEF IInv, TypeOK, OutcomesExclude, GivenUpForAReason, CompleteThrows,
                CatchCompleteError
  <2> QED BY <2>1, <2>2, <2>3 DEF IInv
<1> QED BY <1>1, <1>2, <1>3, <1>4, <1>5, <1>6

\* Dropping the batch, with or without a change to the rows, keeps a runner
\* consistent with what it holds, which is nothing.
LEMMA DropBatchOK ==
    ASSUME IInv, NEW w \in Workers, NEW label \in {"top", "stopped", "crashed"},
           DropBatch(w, label), UNCHANGED historyVars,
           created' = created, \A j \in Jobs : attempts'[j] = attempts[j]
    PROVE  /\ HeldOK' /\ PositionOK' /\ ReasonOK'
           /\ pc' \in [Workers -> Labels]
           /\ batch' \in [Workers -> [Jobs -> Nat]]
           /\ current' \in [Workers -> Jobs \cup {NoJob}]
           /\ permanent' \in [Workers -> BOOLEAN]
           /\ until' \in [Workers -> -1 .. Lease]
<1> USE DEF DropBatch, NoBatch, Goto, historyVars
<1>1. HeldOK' /\ PositionOK'
  BY DEF IInv, TypeOK, HeldOK, PositionOK
<1>2. ReasonOK'
  BY DEF IInv, TypeOK, ReasonOK
<1>3. /\ pc' \in [Workers -> Labels]
      /\ batch' \in [Workers -> [Jobs -> Nat]]
      /\ current' \in [Workers -> Jobs \cup {NoJob}]
      /\ permanent' \in [Workers -> BOOLEAN]
      /\ until' \in [Workers -> -1 .. Lease]
  BY DEF IInv, TypeOK, Labels
<1> QED BY <1>1, <1>2, <1>3

\* So does the end of a job.
LEMMA EndOfJobOK ==
    ASSUME IInv, NEW w \in Workers, pc[w] \in {"completing", "failing"},
           EndOfJob(w), UNCHANGED historyVars,
           created' = created, \A j \in Jobs : attempts'[j] = attempts[j]
    PROVE  /\ HeldOK' /\ PositionOK' /\ ReasonOK'
           /\ pc' \in [Workers -> Labels]
           /\ batch' \in [Workers -> [Jobs -> Nat]]
           /\ current' \in [Workers -> Jobs \cup {NoJob}]
           /\ permanent' \in [Workers -> BOOLEAN]
           /\ until' \in [Workers -> -1 .. Lease]
<1>1. CASE Held(w) \ {current[w]} = {}
  BY <1>1, DropBatchOK DEF EndOfJob
<1>2. CASE Held(w) \ {current[w]} # {}
  <2>1. /\ pc' = [pc EXCEPT ![w] = "batch"]
        /\ batch' = [batch EXCEPT ![w][current[w]] = 0]
        /\ current' = [current EXCEPT ![w] = NoJob]
        /\ permanent' = [permanent EXCEPT ![w] = FALSE]
        /\ until' = until
    BY <1>2 DEF EndOfJob, Goto
  <2>2. current[w] \in Jobs
    BY DEF IInv, PositionOK
  <2>3. HeldOK' /\ PositionOK'
    BY <2>1, <2>2 DEF IInv, TypeOK, HeldOK, PositionOK
  <2>4. ReasonOK'
    BY <2>1, <2>2 DEF IInv, TypeOK, ReasonOK, historyVars
  <2>5. /\ pc' \in [Workers -> Labels]
        /\ batch' \in [Workers -> [Jobs -> Nat]]
        /\ current' \in [Workers -> Jobs \cup {NoJob}]
        /\ permanent' \in [Workers -> BOOLEAN]
        /\ until' \in [Workers -> -1 .. Lease]
    BY <2>1, <2>2 DEF IInv, TypeOK, Labels
  <2> QED BY <2>3, <2>4, <2>5
<1> QED BY <1>1, <1>2

\* What the rows must satisfy, apart from the runners.
RowsOK ==
    /\ created \subseteq Jobs
    /\ completed \subseteq created
    /\ failed \subseteq created
    /\ wait \in [Jobs -> Nat]
    /\ claimedBy \in [Jobs -> Workers \cup {NoWorker}]
    /\ lease \in [Jobs -> -1 .. Lease]
    /\ attempts \in [Jobs -> Nat]
    /\ OutcomesExclude
    /\ GivenUpForAReason

\* Recording an outcome or a retry leaves the rows in order.
LEMMA SettleRows ==
    ASSUME IInv, NEW w \in Workers, pc[w] \in {"completing", "failing"},
           condemned' = condemned,
           \/ pc[w] = "completing" /\ ~ CompleteRefused(current[w]) /\ MarkCompleted(current[w])
           \/ pc[w] = "failing" /\ ApplyFail(w, current[w])
    PROVE  RowsOK' /\ created' = created /\ attempts' = attempts
<1> DEFINE j == current[w]
<1>1. j \in Jobs /\ j \in created /\ batch[w][j] \in Nat /\ batch[w][j] <= attempts[j]
  BY DEF IInv, TypeOK, HeldOK, PositionOK
<1>2. CASE pc[w] = "completing" /\ ~ CompleteRefused(j) /\ MarkCompleted(j)
  BY <1>1, <1>2 DEF IInv, TypeOK, RowsOK, OutcomesExclude, GivenUpForAReason,
                    CompleteRefused, MarkCompleted, ClearClaim
<1>3. CASE pc[w] = "failing" /\ ApplyFail(w, j)
  <2>1. CASE Exhausted(w, j)
    <3>1. j \in condemned \/ attempts[j] >= MaxAttempts
      BY <1>1, <2>1 DEF IInv, TypeOK, ReasonOK, Exhausted
    <3>2. j \notin completed /\ MarkFailed(j)
      BY <1>3, <2>1 DEF ApplyFail, FailRefused
    <3> QED
      BY <1>1, <3>1, <3>2 DEF IInv, TypeOK, RowsOK, OutcomesExclude,
                              GivenUpForAReason, MarkFailed, ClearClaim
  <2>2. CASE ~ Exhausted(w, j)
    <3>1. Postpone(j, BackoffSeconds(batch[w][j]))
      BY <1>3, <2>2 DEF ApplyFail
    <3>2. BackoffSeconds(batch[w][j]) \in Nat
      BY <1>1, BackoffType
    <3> QED
      BY <1>1, <3>1, <3>2 DEF IInv, TypeOK, RowsOK, OutcomesExclude,
                              GivenUpForAReason, Postpone, ClearClaim
  <2> QED BY <2>1, <2>2
<1> QED BY <1>2, <1>3

\* Rows a statement did not touch stay in order.
LEMMA SameRows ==
    ASSUME IInv, UNCHANGED rowVars, condemned' = condemned
    PROVE  RowsOK' /\ created' = created /\ attempts' = attempts
  BY DEF IInv, TypeOK, RowsOK, rowVars, OutcomesExclude, GivenUpForAReason

\* Taking runnable rows.
LEMMA TakeRows ==
    ASSUME IInv, NEW w \in Workers, NEW S \in SUBSET Jobs,
           Claimable(S), TakeJobs(w, S), condemned' = condemned
    PROVE  /\ RowsOK' /\ created' = created
           /\ S \subseteq created
           /\ \A j \in Jobs : attempts'[j] >= attempts[j]
           /\ \A j \in S : attempts'[j] = attempts[j] + 1
<1>1. \A j \in S : j \in created /\ j \notin completed /\ j \notin failed
  BY DEF Claimable, Runnable, Live
<1>2. /\ wait' = wait /\ created' = created /\ completed' = completed /\ failed' = failed
      /\ claimedBy' \in [Jobs -> Workers \cup {NoWorker}]
      /\ lease' \in [Jobs -> -1 .. Lease]
      /\ attempts' \in [Jobs -> Nat]
      /\ \A j \in Jobs : attempts'[j] >= attempts[j]
      /\ \A j \in S : attempts'[j] = attempts[j] + 1
  BY DEF TakeJobs, IInv, TypeOK
<1>3. \A j \in completed \cup failed : claimedBy'[j] = NoWorker
  BY <1>1 DEF TakeJobs, IInv, TypeOK, OutcomesExclude
<1>4. OutcomesExclude'
  BY <1>2, <1>3 DEF IInv, OutcomesExclude
<1>5. GivenUpForAReason'
  BY <1>2 DEF IInv, TypeOK, GivenUpForAReason
<1> QED BY <1>1, <1>2, <1>4, <1>5 DEF RowsOK, IInv, TypeOK

\* Every step keeps the invariant.
LEMMA NextIInv == IInv /\ [Next]_vars => IInv'
<1> SUFFICES ASSUME IInv, [Next]_vars PROVE IInv'
  OBVIOUS
<1> USE DEF faultVars, historyVars
<1>1. ASSUME NEW j \in Jobs, Enqueue(j) PROVE IInv'
  <2> PICK d \in Delays : InsertJob(j, d)
    BY <1>1 DEF Enqueue
  <2>1. TypeOK'
    BY <1>1 DEF IInv, TypeOK, Enqueue, InsertJob, runnerVars
  <2>2. HeldOK' /\ PositionOK' /\ ReasonOK'
    BY <1>1 DEF IInv, TypeOK, HeldOK, PositionOK, ReasonOK, Enqueue, InsertJob, runnerVars
  <2>3. OutcomesExclude' /\ GivenUpForAReason'
    BY <1>1 DEF IInv, TypeOK, OutcomesExclude, GivenUpForAReason, Enqueue, InsertJob
  <2> QED BY <2>1, <2>2, <2>3 DEF IInv
<1>2. ASSUME NEW w \in Workers, Claim(w) PROVE IInv'
  <2> PICK S \in SUBSET Jobs :
          /\ Claimable(S)
          /\ TakeJobs(w, S)
          /\ batch' = [batch EXCEPT ![w] = [j \in Jobs |->
                          IF j \in S THEN attempts[j] + 1 ELSE 0]]
          /\ until' = [until EXCEPT ![w] = IF S = {} THEN -1 ELSE Lease]
          /\ Goto(w, IF S = {} THEN "top" ELSE "batch")
    BY <1>2 DEF Claim
  <2>1. pc[w] = "claim" /\ UNCHANGED <<current, permanent, stopping, historyVars, faultVars>>
    BY <1>2 DEF Claim
  <2>2. /\ RowsOK' /\ created' = created /\ S \subseteq created
        /\ \A j \in Jobs : attempts'[j] >= attempts[j]
        /\ \A j \in S : attempts'[j] = attempts[j] + 1
    BY <2>1, TakeRows
  <2>3. TypeOK'
    BY <2>1, <2>2 DEF IInv, TypeOK, RowsOK, Goto, Labels
  <2>4. HeldOK'
    BY <2>1, <2>2 DEF IInv, TypeOK, RowsOK, HeldOK
  <2>5. PositionOK' /\ ReasonOK'
    BY <2>1, <2>2 DEF IInv, TypeOK, PositionOK, ReasonOK, Goto
  <2> QED BY <2>2, <2>3, <2>4, <2>5 DEF IInv, RowsOK
<1>3. ASSUME NEW w \in Workers, Complete(w) \/ Fail(w) PROVE IInv'
  <2>1. /\ RowsOK' /\ created' = created /\ attempts' = attempts
    BY <1>3, SettleRows DEF Complete, Fail
  <2>2. /\ HeldOK' /\ PositionOK' /\ ReasonOK'
        /\ pc' \in [Workers -> Labels]
        /\ batch' \in [Workers -> [Jobs -> Nat]]
        /\ current' \in [Workers -> Jobs \cup {NoJob}]
        /\ permanent' \in [Workers -> BOOLEAN]
        /\ until' \in [Workers -> -1 .. Lease]
    BY <1>3, <2>1, EndOfJobOK DEF Complete, Fail
  <2>3. TypeOK'
    BY <1>3, <2>1, <2>2 DEF IInv, TypeOK, RowsOK, Complete, Fail
  <2> QED BY <2>1, <2>2, <2>3 DEF IInv, RowsOK
<1>4. ASSUME NEW w \in Workers, FailThrows(w) \/ FailBreaks(w) \/ Crash(w) PROVE IInv'
  <2>1. /\ RowsOK' /\ created' = created /\ attempts' = attempts
    BY <1>4, SettleRows, SameRows DEF FailThrows, FailBreaks, Crash
  <2>2. /\ HeldOK' /\ PositionOK' /\ ReasonOK'
        /\ pc' \in [Workers -> Labels]
        /\ batch' \in [Workers -> [Jobs -> Nat]]
        /\ current' \in [Workers -> Jobs \cup {NoJob}]
        /\ permanent' \in [Workers -> BOOLEAN]
        /\ until' \in [Workers -> -1 .. Lease]
    BY <1>4, <2>1, DropBatchOK DEF FailThrows, FailBreaks, Crash
  <2>3. restarts' \in Nat /\ dbErrors' \in Nat
    BY <1>4 DEF IInv, TypeOK, FailThrows, FailBreaks, Crash, DbError
  <2>4. stopping' = stopping /\ UNCHANGED historyVars
    BY <1>4 DEF FailThrows, FailBreaks, Crash
  <2>5. TypeOK'
    BY <2>1, <2>2, <2>3, <2>4 DEF IInv, TypeOK, RowsOK
  <2> QED BY <2>1, <2>2, <2>5 DEF IInv, RowsOK
<1>5. ASSUME NEW w \in Workers, ClaimBreaks(w) PROVE IInv'
  <2> PICK S \in SUBSET Jobs : Claimable(S) /\ TakeJobs(w, S)
    BY <1>5 DEF ClaimBreaks
  <2>1. /\ RowsOK' /\ created' = created
        /\ \A j \in Jobs : attempts'[j] >= attempts[j]
    BY <1>5, TakeRows DEF ClaimBreaks
  <2>2. TypeOK'
    BY <1>5, <2>1 DEF IInv, TypeOK, RowsOK, ClaimBreaks, DbError, Goto, Labels
  <2>3. HeldOK' /\ PositionOK' /\ ReasonOK'
    BY <1>5, <2>1 DEF IInv, TypeOK, RowsOK, HeldOK, PositionOK, ReasonOK, ClaimBreaks, Goto
  <2> QED BY <2>1, <2>2, <2>3 DEF IInv, RowsOK
<1>6. ASSUME NEW w \in Workers, CompleteBreaks(w) PROVE IInv'
  <2>1. /\ RowsOK' /\ created' = created /\ attempts' = attempts
    BY <1>6, SettleRows, SameRows DEF CompleteBreaks, CatchCompleteError
  <2>2. current[w] \in Jobs /\ current[w] \in created
    BY <1>6 DEF IInv, HeldOK, PositionOK, CompleteBreaks
  <2>3. TypeOK'
    BY <1>6, <2>1, <2>2 DEF IInv, TypeOK, RowsOK, CompleteBreaks, CatchCompleteError,
                            DbError, Goto, Labels
  <2>4. HeldOK' /\ PositionOK' /\ ReasonOK'
    BY <1>6, <2>1, <2>2 DEF IInv, TypeOK, HeldOK, PositionOK, ReasonOK, CompleteBreaks,
                            CatchCompleteError, Goto
  <2> QED BY <2>1, <2>3, <2>4 DEF IInv, RowsOK
<1>7. ASSUME NEW w \in Workers, Stop(w) \/ Restart(w) PROVE IInv'
  <2>1. RowsOK' /\ created' = created /\ attempts' = attempts
    BY <1>7, SameRows DEF Stop, Restart
  <2>2. TypeOK'
    BY <1>7, <2>1 DEF IInv, TypeOK, RowsOK, Stop, Restart, Goto, Labels
  <2>3. HeldOK' /\ PositionOK' /\ ReasonOK'
    BY <1>7, <2>1 DEF IInv, TypeOK, HeldOK, PositionOK, ReasonOK, Stop, Restart, Goto, Up
  <2> QED BY <2>1, <2>2, <2>3 DEF IInv, RowsOK
<1>8. CASE Tick
  <2>1. TypeOK'
    BY <1>8 DEF IInv, TypeOK, Tick, Less, Lapse
  <2>2. HeldOK' /\ PositionOK' /\ ReasonOK' /\ OutcomesExclude' /\ GivenUpForAReason'
    BY <1>8 DEF IInv, HeldOK, PositionOK, ReasonOK, OutcomesExclude, GivenUpForAReason, Tick
  <2> QED BY <2>1, <2>2 DEF IInv
<1>9. CASE UNCHANGED vars
  BY <1>9 DEF IInv, TypeOK, HeldOK, PositionOK, ReasonOK, OutcomesExclude,
              GivenUpForAReason, vars, rowVars, runnerVars
<1> QED
  BY <1>1, <1>2, <1>3, <1>4, <1>5, <1>6, <1>7, <1>8, <1>9, MoveIInv
     DEF Next, Loop, Fault

LEMMA SpecIInv == Spec => []IInv
<1> QED BY InitIInv, NextIInv, PTL DEF Spec

\* Every variable keeps its type, and the rows satisfy the table's checks.
THEOREM TypeCorrect == Spec => []TypeOK
<1>1. IInv => TypeOK
  BY DEF IInv
<1> QED BY <1>1, SpecIInv, PTL

\* A job never has two outcomes and nobody holds a job that has one, although
\* complete() and fail() write without looking at who holds the claim.
THEOREM OutcomesNeverMeet == Spec => []OutcomesExclude
<1>1. IInv => OutcomesExclude
  BY DEF IInv
<1> QED BY <1>1, SpecIInv, PTL

\* No job is given up early, whoever reports the failure and however late.
THEOREM NeverGivenUpEarly == Spec => []GivenUpForAReason
<1>1. IInv => GivenUpForAReason
  BY DEF IInv
<1> QED BY <1>1, SpecIInv, PTL

\* A job has one outcome, nobody holds one that has, and it failed for a reason:
\* what JobQueue.complete() and fail() write by id alone, with no look at the claim.
THEOREM OutcomesAreEarned == Spec => []OutcomesEarned
  BY TypeCorrect, OutcomesNeverMeet, NeverGivenUpEarly, PTL DEF OutcomesEarned

-----------------------------------------------------------------------------
(* What a step does to the outcomes. *)

\* A step leaves the outcomes alone, gives one to a live job for a reason the
\* history records, or inserts a row whose key nobody holds.
OutcomesSame == created' = created /\ completed' = completed /\ failed' = failed

Completes(j) ==
    /\ created' = created /\ failed' = failed
    /\ completed' = completed \cup {j}
    /\ j \in created /\ j \notin failed /\ j \in returned

GivesUp(j) ==
    /\ created' = created /\ completed' = completed
    /\ failed' = failed \cup {j}
    /\ j \in created /\ j \notin completed /\ j \in troubled

\* The statements that report on a job do no more than that to the outcomes.
LEMMA SettleOutcome ==
    ASSUME IInv, NEW w \in Workers,
           \/ pc[w] = "completing" /\ ~ CompleteRefused(current[w]) /\ MarkCompleted(current[w])
           \/ pc[w] = "failing" /\ ApplyFail(w, current[w])
    PROVE  OutcomesSame \/ Completes(current[w]) \/ GivesUp(current[w])
<1>1. current[w] \in Jobs /\ current[w] \in created
  BY DEF IInv, HeldOK, PositionOK
<1>2. CASE pc[w] = "completing"
  BY <1>1, <1>2 DEF IInv, ReasonOK, Completes, CompleteRefused, MarkCompleted
<1>3. CASE pc[w] = "failing"
  BY <1>1, <1>3 DEF IInv, ReasonOK, GivesUp, OutcomesSame, ApplyFail, FailRefused,
                    MarkFailed, Postpone
<1> QED BY <1>2, <1>3

\* An outcome is never taken back, nor attempted again.
THEOREM OutcomesFinal == Spec => OutcomeIsFinal
<1> DEFINE A == /\ completed \subseteq completed'
                /\ failed \subseteq failed'
                /\ \A j \in completed \cup failed : attempts'[j] = attempts[j]
<1>1. IInv /\ [Next]_vars => A
  <2> SUFFICES ASSUME IInv, [Next]_vars PROVE A
    OBVIOUS
  <2>1. ASSUME NEW w \in Workers,
               \/ pc[w] = "completing" /\ ~ CompleteRefused(current[w]) /\ MarkCompleted(current[w])
               \/ pc[w] = "failing" /\ ApplyFail(w, current[w])
        PROVE  A
    BY <2>1 DEF MarkCompleted, ApplyFail, MarkFailed, Postpone
  <2>2. ASSUME NEW w \in Workers, NEW S \in SUBSET Jobs, Claimable(S), TakeJobs(w, S)
        PROVE  A
    <3>1. \A j \in S : j \notin completed \cup failed
      BY <2>2 DEF Claimable, Runnable, Live
    <3> QED BY <2>2, <3>1 DEF TakeJobs, IInv, TypeOK
  <2>3. ASSUME UNCHANGED rowVars PROVE A
    BY <2>3 DEF rowVars
  <2>4. ASSUME NEW j \in Jobs, Enqueue(j) PROVE A
    BY <2>4 DEF Enqueue, InsertJob
  <2>5. ASSUME NEW w \in Workers, Loop(w) PROVE A
    BY <2>1, <2>2, <2>3, <2>5
       DEF Loop, ReleaseExpiredClaims, LeaveLoop, Claim, StartJob, HandlerReturns,
           HandlerThrows, Complete, CompleteThrows, Fail, FailThrows
  <2>6. ASSUME NEW w \in Workers, Fault(w) \/ Restart(w) PROVE A
    BY <2>1, <2>2, <2>3, <2>6
       DEF Fault, ClaimBreaks, CompleteBreaks, FailBreaks, Crash, Stop, Restart
  <2>7. CASE Tick
    BY <2>7 DEF Tick
  <2>8. CASE UNCHANGED vars
    BY <2>3, <2>8 DEF vars
  <2> QED BY <2>4, <2>5, <2>6, <2>7, <2>8 DEF Next
<1>2. IInv /\ [Next]_vars => [A]_vars
  BY <1>1
<1> QED BY <1>2, SpecIInv, PTL DEF Spec, OutcomeIsFinal

\* Only enqueue() makes a job live.
LEMMA LiveStep ==
    ASSUME IInv, [Next]_vars
    PROVE  (\E j \in Jobs : Enqueue(j)) \/ \A k \in Jobs : Live(k)' => Live(k)
<1> DEFINE A == \A k \in Jobs : Live(k)' => Live(k)
<1>1. ASSUME NEW w \in Workers,
             \/ pc[w] = "completing" /\ ~ CompleteRefused(current[w]) /\ MarkCompleted(current[w])
             \/ pc[w] = "failing" /\ ApplyFail(w, current[w])
      PROVE  A
  BY <1>1 DEF MarkCompleted, ApplyFail, MarkFailed, Postpone, Live
<1>2. ASSUME created' = created, completed' = completed, failed' = failed PROVE A
  BY <1>2 DEF Live
<1>3. ASSUME NEW w \in Workers, Loop(w) PROVE A
  BY <1>1, <1>2, <1>3
     DEF Loop, ReleaseExpiredClaims, LeaveLoop, Claim, TakeJobs, StartJob, HandlerReturns,
         HandlerThrows, Complete, CompleteThrows, Fail, FailThrows, rowVars
<1>4. ASSUME NEW w \in Workers, Fault(w) \/ Restart(w) PROVE A
  BY <1>1, <1>2, <1>4
     DEF Fault, ClaimBreaks, TakeJobs, CompleteBreaks, FailBreaks, Crash, Stop, Restart, rowVars
<1>5. CASE Tick
  BY <1>2, <1>5 DEF Tick
<1>6. CASE UNCHANGED vars
  BY <1>2, <1>6 DEF vars, rowVars
<1> QED BY <1>3, <1>4, <1>5, <1>6 DEF Next

\* A natural key is on the queue at most once at any time.
THEOREM KeysOnce == Spec => []OneLivePerKey
<1>1. Init => OneLivePerKey
  BY DEF Init, OneLivePerKey, Live
<1>2. IInv /\ OneLivePerKey /\ [Next]_vars => OneLivePerKey'
  <2> SUFFICES ASSUME IInv, OneLivePerKey, [Next]_vars PROVE OneLivePerKey'
    OBVIOUS
  <2>1. ASSUME NEW j \in Jobs, Enqueue(j) PROVE OneLivePerKey'
    <3>1. created' = created \cup {j} /\ completed' = completed /\ failed' = failed
      BY <2>1 DEF Enqueue, InsertJob
    <3>2. \A k \in Jobs : Live(k)' => Live(k) \/ k = j
      BY <3>1 DEF Live
    <3>3. \A k \in Jobs : Live(k) /\ Key[k] = Key[j] => Key[j] = NoKey
      BY <2>1 DEF Enqueue, KeyTaken
    <3> QED BY <3>2, <3>3 DEF OneLivePerKey
  <2>2. ASSUME \A k \in Jobs : Live(k)' => Live(k) PROVE OneLivePerKey'
    BY <2>2 DEF OneLivePerKey
  <2> QED BY <2>1, <2>2, LiveStep
<1> QED BY <1>1, <1>2, SpecIInv, PTL DEF Spec

-----------------------------------------------------------------------------
(* Exclusive runs, when no worker outlives its lease. *)

\* The claim on a held job is the holder's and lasts as long as the holder
\* thinks, unless a broken connection hid that the job is completed already.
Ownership ==
    \A w \in Workers : \A j \in Held(w) :
        /\ until[w] >= 0
        /\ \/ claimedBy[j] = w /\ lease[j] = until[w]
           \/ j \in completed

\* A held job is not up for a claim.
LEMMA HeldNotRunnable ==
    ASSUME IInv, Ownership, NEW w \in Workers, NEW j \in Held(w), Runnable(j)
    PROVE  FALSE
  BY DEF IInv, TypeOK, Ownership, Held, Runnable, Live

\* Reporting on the current job touches no row another runner holds.
LEMMA SettleOwnership ==
    ASSUME IInv, Ownership, NoConcurrentRun, NEW w \in Workers,
           pc[w] \in {"completing", "failing"},
           \/ pc[w] = "completing" /\ ~ CompleteRefused(current[w]) /\ MarkCompleted(current[w])
           \/ pc[w] = "failing" /\ ApplyFail(w, current[w])
           \/ UNCHANGED rowVars
    PROVE  \A v \in Workers : \A j \in Held(v) : j # current[w] =>
               \/ claimedBy'[j] = v /\ lease'[j] = until[v]
               \/ j \in completed'
<1>1. current[w] \in Jobs
  BY DEF IInv, PositionOK
<1>2. \A j \in Jobs : j # current[w] => claimedBy'[j] = claimedBy[j] /\ lease'[j] = lease[j]
  BY <1>1 DEF IInv, TypeOK, MarkCompleted, ApplyFail, MarkFailed, Postpone, ClearClaim, rowVars
<1>3. completed \subseteq completed'
  BY DEF MarkCompleted, ApplyFail, MarkFailed, Postpone, rowVars
<1> QED BY <1>2, <1>3 DEF Ownership, Held

\* Every step keeps each held job its holder's.
LEMMA OwnershipKept ==
    ASSUME Punctual, IInv, Ownership, NoConcurrentRun, [Next]_vars
    PROVE  Ownership' /\ NoConcurrentRun'
<1> DEFINE Inv == Ownership /\ NoConcurrentRun
<1>1. ASSUME NEW j \in Jobs, Enqueue(j) PROVE Inv'
  BY <1>1 DEF Enqueue, InsertJob, runnerVars, Ownership, NoConcurrentRun, Held
<1>2. ASSUME NEW w \in Workers, ReleaseExpiredClaims(w) PROVE Inv'
  <2>1. \A v \in Workers : \A j \in Held(v) :
            claimedBy'[j] = claimedBy[j] \/ j \in completed
    BY <1>2 DEF ReleaseExpiredClaims, Ownership, Held, IInv, TypeOK
  <2> QED
    BY <1>2, <2>1 DEF ReleaseExpiredClaims, Ownership, NoConcurrentRun, Held
<1>3. ASSUME NEW w \in Workers,
             \/ LeaveLoop(w) \/ StartJob(w) \/ HandlerReturns(w) \/ HandlerThrows(w)
             \/ CompleteThrows(w) \/ Stop(w) \/ Restart(w)
      PROVE  Inv'
  BY <1>3 DEF LeaveLoop, StartJob, HandlerReturns, HandlerThrows, CompleteThrows,
              CatchCompleteError, Stop, Restart, rowVars, Ownership, NoConcurrentRun, Held
<1>4. ASSUME NEW w \in Workers, Claim(w) PROVE Inv'
  <2> PICK S \in SUBSET Jobs :
          /\ Claimable(S)
          /\ TakeJobs(w, S)
          /\ batch' = [batch EXCEPT ![w] = [j \in Jobs |->
                          IF j \in S THEN attempts[j] + 1 ELSE 0]]
          /\ until' = [until EXCEPT ![w] = IF S = {} THEN -1 ELSE Lease]
    BY <1>4 DEF Claim
  <2>1. \A v \in Workers : \A j \in Held(v) : j \notin S
    BY HeldNotRunnable DEF Claimable
  <2>2. Held(w)' = S
    BY DEF Held, IInv, TypeOK
  <2>3. \A v \in Workers \ {w} : Held(v)' = Held(v) /\ until'[v] = until[v]
    BY DEF Held, IInv, TypeOK
  <2>4. NoConcurrentRun'
    BY <2>1, <2>2, <2>3 DEF NoConcurrentRun
  <2>5. \A v \in Workers \ {w} : \A j \in Held(v) :
            claimedBy'[j] = claimedBy[j] /\ lease'[j] = lease[j]
    BY <2>1 DEF TakeJobs, Held
  <2>6. \A j \in S : claimedBy'[j] = w /\ lease'[j] = Lease /\ until'[w] = Lease
    BY DEF TakeJobs, IInv, TypeOK
  <2>7. Ownership'
    <3> SUFFICES ASSUME NEW v \in Workers, NEW j \in Held(v)'
                 PROVE  /\ until'[v] >= 0
                        /\ \/ claimedBy'[j] = v /\ lease'[j] = until'[v]
                           \/ j \in completed'
      BY DEF Ownership
    <3>1. CASE v = w
      BY <2>2, <2>6, <3>1
    <3>2. CASE v # w
      BY <2>3, <2>5, <3>2 DEF Ownership, TakeJobs
    <3> QED BY <3>1, <3>2
  <2> QED BY <2>4, <2>7
<1>5. ASSUME NEW w \in Workers, ClaimBreaks(w) PROVE Inv'
  <2> PICK S \in SUBSET Jobs : Claimable(S) /\ TakeJobs(w, S)
    BY <1>5 DEF ClaimBreaks
  <2>1. \A v \in Workers : \A j \in Held(v) : j \notin S
    BY HeldNotRunnable DEF Claimable
  <2> QED
    BY <1>5, <2>1 DEF ClaimBreaks, TakeJobs, Ownership, NoConcurrentRun, Held
<1>6. ASSUME NEW w \in Workers, Complete(w) \/ Fail(w) PROVE Inv'
  <2>1. \A v \in Workers : \A j \in Held(v) : j # current[w] =>
            \/ claimedBy'[j] = v /\ lease'[j] = until[v]
            \/ j \in completed'
    BY <1>6, SettleOwnership DEF Complete, Fail
  <2>2. current[w] \in Held(w)
    BY <1>6 DEF IInv, PositionOK, Held, Complete, Fail
  <2>3. \A v \in Workers \ {w} : Held(v)' = Held(v) /\ until'[v] = until[v]
    BY <1>6 DEF Complete, Fail, EndOfJob, DropBatch, Held, IInv, TypeOK
  <2>4. /\ Held(w)' \subseteq Held(w) \ {current[w]}
        /\ Held(w)' = {} \/ until'[w] = until[w]
    BY <1>6, <2>2 DEF Complete, Fail, EndOfJob, DropBatch, NoBatch, Held, IInv, TypeOK
  <2>5. \A v \in Workers \ {w} : current[w] \notin Held(v)
    BY <2>2 DEF NoConcurrentRun
  <2> QED
    BY <2>1, <2>3, <2>4, <2>5 DEF Ownership, NoConcurrentRun
<1>7. ASSUME NEW w \in Workers, FailThrows(w) \/ FailBreaks(w) \/ Crash(w) PROVE Inv'
  <2>1. Held(w)' = {}
    BY <1>7 DEF FailThrows, FailBreaks, Crash, DropBatch, NoBatch, Held, IInv, TypeOK
  <2>2. \A v \in Workers \ {w} : Held(v)' = Held(v) /\ until'[v] = until[v]
    BY <1>7 DEF FailThrows, FailBreaks, Crash, DropBatch, Held, IInv, TypeOK
  <2>3. \A v \in Workers \ {w} : \A j \in Held(v) :
            \/ claimedBy'[j] = v /\ lease'[j] = until[v]
            \/ j \in completed'
    <3>1. CASE UNCHANGED rowVars
      BY <3>1 DEF rowVars, Ownership
    <3>2. CASE FailBreaks(w) /\ ApplyFail(w, current[w])
      <4>1. current[w] \in Held(w) /\ pc[w] = "failing"
        BY <3>2 DEF IInv, PositionOK, Held, FailBreaks
      <4>2. \A v \in Workers \ {w} : current[w] \notin Held(v)
        BY <4>1 DEF NoConcurrentRun
      <4> QED BY <3>2, <4>1, <4>2, SettleOwnership
    <3> QED BY <1>7, <3>1, <3>2 DEF FailThrows, FailBreaks, Crash
  <2> QED BY <2>1, <2>2, <2>3 DEF Ownership, NoConcurrentRun
<1>8. ASSUME NEW w \in Workers, CompleteBreaks(w) PROVE Inv'
  <2>1. batch' = batch /\ until' = until /\ pc[w] = "completing"
    BY <1>8 DEF CompleteBreaks, CatchCompleteError
  <2>2. \A v \in Workers : \A j \in Held(v) :
            \/ claimedBy'[j] = v /\ lease'[j] = until[v]
            \/ j \in completed'
    BY <1>8, <2>1, SettleOwnership
       DEF CompleteBreaks, MarkCompleted, rowVars, Ownership
  <2> QED BY <2>1, <2>2 DEF Ownership, NoConcurrentRun, Held
<1>9. CASE Tick
  <2>1. \A w \in Workers : \A j \in Held(w) : until[w] > 0
    BY <1>9 DEF Tick
  <2>2. batch' = batch /\ completed' = completed /\ claimedBy' = claimedBy
    BY <1>9 DEF Tick
  <2>3. \A w \in Workers : \A j \in Held(w) :
            /\ until'[w] = until[w] - 1
            /\ lease[j] = until[w] => lease'[j] = lease[j] - 1
    BY <1>9, <2>1 DEF Tick, Lapse, Held, IInv, TypeOK
  <2> QED
    BY <2>1, <2>2, <2>3 DEF Ownership, NoConcurrentRun, Held, IInv, TypeOK
<1>10. CASE UNCHANGED vars
  BY <1>10 DEF vars, rowVars, runnerVars, Ownership, NoConcurrentRun, Held
<1> QED
  BY <1>1, <1>2, <1>3, <1>4, <1>5, <1>6, <1>7, <1>8, <1>9, <1>10 DEF Next, Loop, Fault

\* It holds of idle workers.
LEMMA OwnershipStart == Init => Ownership /\ NoConcurrentRun
  BY DEF Init, Ownership, NoConcurrentRun, Held, NoBatch

\* Two live workers never run the same job while leases outlast the work.
THEOREM ExclusiveRuns == ASSUME Punctual PROVE Spec => []NoConcurrentRun
<1> DEFINE Inv == Ownership /\ NoConcurrentRun
<1>1. IInv /\ Inv /\ [Next]_vars => Inv'
  BY OwnershipKept
<1> QED BY <1>1, OwnershipStart, SpecIInv, PTL DEF Spec

\* Until a connection breaks, no worker holds a job that is completed: complete()
\* is the holder's alone.
HeldUndone == dbErrors = 0 => \A w \in Workers : \A j \in Held(w) : j \notin completed

\* What settling the current job leaves to the runners.
LEMMA SettledBatch ==
    ASSUME IInv, NEW w \in Workers, Complete(w) \/ Fail(w)
    PROVE  /\ current[w] \in Held(w) /\ Held(w)' = Held(w) \ {current[w]}
           /\ \A v \in Workers \ {w} : Held(v)' = Held(v)
<1>1. current[w] \in Held(w)
  BY DEF IInv, PositionOK, Held, Complete, Fail
<1>2. \A v \in Workers \ {w} : Held(v)' = Held(v)
  BY DEF Complete, Fail, EndOfJob, DropBatch, Held, IInv, TypeOK
<1>3. Held(w)' = Held(w) \ {current[w]}
  BY <1>1 DEF Complete, Fail, EndOfJob, DropBatch, NoBatch, Held, IInv, TypeOK
<1> QED BY <1>1, <1>2, <1>3

\* The steps that change no batch, and those that end one or take one.
LEMMA BatchesOtherwise ==
    ASSUME IInv, [Next]_vars
    PROVE  \/ dbErrors' > 0
           \/ \E w \in Workers : Complete(w) \/ Fail(w)
           \/ /\ \A w \in Workers : Held(w)' = Held(w)
              /\ completed' = completed /\ dbErrors' = dbErrors
           \/ \E w \in Workers :
                 /\ \/ Claim(w) /\ Held(w) = {} /\ \A j \in Held(w)' : j \notin completed
                    \/ FailThrows(w) /\ Held(w)' = {}
                    \/ Crash(w) /\ Held(w)' = {} /\ pc'[w] = "crashed"
                 /\ \A v \in Workers \ {w} : Held(v)' = Held(v)
                 /\ completed' = completed /\ dbErrors' = dbErrors
<1>1. ASSUME NEW j \in Jobs, Enqueue(j)
      PROVE  /\ \A w \in Workers : Held(w)' = Held(w)
             /\ completed' = completed /\ dbErrors' = dbErrors
  BY <1>1 DEF Enqueue, InsertJob, runnerVars, faultVars, Held
<1>2. ASSUME NEW w \in Workers,
             \/ ReleaseExpiredClaims(w) \/ LeaveLoop(w) \/ StartJob(w) \/ HandlerReturns(w)
             \/ HandlerThrows(w) \/ CompleteThrows(w) \/ Stop(w) \/ Restart(w)
      PROVE  /\ \A v \in Workers : Held(v)' = Held(v)
             /\ completed' = completed /\ dbErrors' = dbErrors
  BY <1>2 DEF ReleaseExpiredClaims, LeaveLoop, StartJob, HandlerReturns, HandlerThrows,
              CompleteThrows, CatchCompleteError, Stop, Restart, rowVars, faultVars, Held
<1>3. ASSUME NEW w \in Workers, Claim(w)
      PROVE  /\ Held(w) = {} /\ \A j \in Held(w)' : j \notin completed
             /\ \A v \in Workers \ {w} : Held(v)' = Held(v)
             /\ completed' = completed /\ dbErrors' = dbErrors
  <2>1. PICK S \in SUBSET Jobs :
            /\ Claimable(S)
            /\ TakeJobs(w, S)
            /\ batch' = [batch EXCEPT ![w] = [j \in Jobs |->
                            IF j \in S THEN attempts[j] + 1 ELSE 0]]
    BY <1>3 DEF Claim
  <2>2. Held(w)' = S
    BY <2>1 DEF Held, IInv, TypeOK
  <2>3. \A v \in Workers \ {w} : Held(v)' = Held(v)
    BY <2>1 DEF Held, IInv, TypeOK
  <2>4. \A j \in S : j \notin completed
    BY <2>1 DEF Claimable, Runnable, Live
  <2>5. Held(w) = {}
    BY <1>3 DEF Claim, IInv, PositionOK, Held
  <2>6. completed' = completed /\ dbErrors' = dbErrors
    BY <1>3 DEF Claim, TakeJobs, faultVars
  <2> QED BY <2>2, <2>3, <2>4, <2>5, <2>6
<1>4. ASSUME NEW w \in Workers, FailThrows(w) \/ Crash(w)
      PROVE  /\ Held(w)' = {} /\ (Crash(w) => pc'[w] = "crashed")
             /\ \A v \in Workers \ {w} : Held(v)' = Held(v)
             /\ completed' = completed /\ dbErrors' = dbErrors
  BY <1>4 DEF FailThrows, Crash, DropBatch, Goto, NoBatch, Held, rowVars, faultVars, IInv, TypeOK
<1>5. ASSUME NEW w \in Workers, ClaimBreaks(w) \/ CompleteBreaks(w) \/ FailBreaks(w)
      PROVE  dbErrors' > 0
  BY <1>5 DEF ClaimBreaks, CompleteBreaks, FailBreaks, DbError, IInv, TypeOK
<1>6. CASE Tick
  BY <1>6 DEF Tick, faultVars, Held
<1>7. CASE UNCHANGED vars
  BY <1>7 DEF vars, rowVars, runnerVars, faultVars, Held
<1> QED BY <1>1, <1>2, <1>3, <1>4, <1>5, <1>6, <1>7 DEF Next, Loop, Fault

\* While leases outlast the work, a runner lets go of a job of its batch for no
\* reason but that it settled it, died, or a connection broke: above all, fail()
\* is never refused for a job somebody else completed.
THEOREM NothingLetGo == ASSUME Punctual PROVE Spec => NothingAbandoned
<1> DEFINE Inv == Ownership /\ NoConcurrentRun /\ HeldUndone
           LetsGo == \A w \in Workers : \A j \in Held(w) \ (Held(w))' :
                        current[w] = j \/ pc'[w] = "crashed" \/ dbErrors' > 0
<1>1. Init => Inv
  BY OwnershipStart DEF Init, HeldUndone
<1>2. IInv /\ Inv /\ [Next]_vars => Inv'
  <2> SUFFICES ASSUME IInv, Ownership, NoConcurrentRun, HeldUndone, [Next]_vars
               PROVE  HeldUndone'
    BY OwnershipKept
  <2>1. CASE dbErrors' > 0
    BY <2>1 DEF HeldUndone
  <2>2. ASSUME NEW w \in Workers, Complete(w) \/ Fail(w) PROVE HeldUndone'
    <3>1. completed' \subseteq completed \cup {current[w]} /\ dbErrors' = dbErrors
      BY <2>2 DEF Complete, Fail, MarkCompleted, ApplyFail, MarkFailed, Postpone, faultVars
    <3>2. \A v \in Workers \ {w} : current[w] \notin Held(v)
      BY <2>2, SettledBatch DEF NoConcurrentRun
    <3>3. \A v \in Workers : Held(v)' \subseteq Held(v) \ {current[w]}
      BY <2>2, <3>2, SettledBatch
    <3> QED BY <3>1, <3>3 DEF HeldUndone
  <2>3. CASE /\ \A w \in Workers : Held(w)' = Held(w)
             /\ completed' = completed /\ dbErrors' = dbErrors
    BY <2>3 DEF HeldUndone
  <2>4. ASSUME NEW w \in Workers, Held(w)' = {} \/ \A j \in Held(w)' : j \notin completed,
               \A v \in Workers \ {w} : Held(v)' = Held(v),
               completed' = completed, dbErrors' = dbErrors
        PROVE  HeldUndone'
    BY <2>4 DEF HeldUndone
  <2> QED BY <2>1, <2>2, <2>3, <2>4, BatchesOtherwise
<1>3. IInv /\ Inv /\ [Next]_vars => [LetsGo]_vars
  <2> SUFFICES ASSUME IInv, NoConcurrentRun, HeldUndone, [Next]_vars PROVE LetsGo
    OBVIOUS
  <2>1. CASE dbErrors' > 0
    BY <2>1
  <2>2. ASSUME NEW w \in Workers, Complete(w) \/ Fail(w) PROVE LetsGo
    BY <2>2, SettledBatch
  <2>3. ASSUME NEW w \in Workers, FailThrows(w), completed' = completed, dbErrors' = dbErrors
        PROVE  dbErrors' > 0
    <3>1. current[w] \in Held(w) /\ current[w] \in completed
      BY <2>3 DEF IInv, PositionOK, Held, FailThrows, FailRefused
    <3> QED BY <2>3, <3>1 DEF HeldUndone, IInv, TypeOK
  <2> QED BY <2>1, <2>2, <2>3, BatchesOtherwise
<1> QED BY <1>1, <1>2, <1>3, SpecIInv, PTL DEF Spec, NothingAbandoned

-----------------------------------------------------------------------------
(* The queue implements at-least-once delivery. *)

\* The mapped status of each job follows its row.
LEMMA StatusFacts ==
    ASSUME IInv
    PROVE  /\ statusBar \in [Jobs -> {"absent", "live", "completed", "failed"}]
           /\ \A j \in Jobs :
                 /\ (statusBar[j] = "absent") <=> (j \notin created)
                 /\ (statusBar[j] = "live") <=> Live(j)
  BY DEF statusBar, StatusOf, Live, IInv, TypeOK

\* An unchanged set of outcomes is an unchanged status.
LEMMA StatusSame ==
    ASSUME OutcomesSame PROVE statusBar' = statusBar
  BY DEF statusBar, StatusOf, OutcomesSame

LEMMA StatusCompletes ==
    ASSUME IInv, NEW j \in Jobs, Completes(j)
    PROVE  \/ statusBar' = statusBar
           \/ Live(j) /\ statusBar' = [statusBar EXCEPT ![j] = "completed"]
<1>1. CASE j \in completed
  BY <1>1, StatusSame DEF Completes, OutcomesSame
<1>2. CASE j \notin completed
  <2>1. Live(j)
    BY <1>2 DEF Completes, Live
  <2>2. \A k \in Jobs : StatusOf(k)' = IF k = j THEN "completed" ELSE StatusOf(k)
    BY <1>2 DEF Completes, StatusOf
  <2>3. statusBar' = [statusBar EXCEPT ![j] = "completed"]
    BY <2>2 DEF statusBar
  <2> QED BY <2>1, <2>3
<1> QED BY <1>1, <1>2

LEMMA StatusGivesUp ==
    ASSUME IInv, NEW j \in Jobs, GivesUp(j)
    PROVE  \/ statusBar' = statusBar
           \/ Live(j) /\ statusBar' = [statusBar EXCEPT ![j] = "failed"]
<1>1. CASE j \in failed
  BY <1>1, StatusSame DEF GivesUp, OutcomesSame
<1>2. CASE j \notin failed
  <2>1. Live(j)
    BY <1>2 DEF GivesUp, Live
  <2>2. \A k \in Jobs : StatusOf(k)' = IF k = j THEN "failed" ELSE StatusOf(k)
    BY <1>2 DEF GivesUp, StatusOf
  <2>3. statusBar' = [statusBar EXCEPT ![j] = "failed"]
    BY <2>2 DEF statusBar
  <2> QED BY <2>1, <2>3
<1> QED BY <1>1, <1>2

\* Runners, leases, retries and faults implement JobDelivery.
THEOREM Refinement == Spec => DeliverySpec
<1>1. Init => Delivery!Init
  BY DEF Init, Delivery!Init, statusBar, StatusOf
<1>2. IInv /\ [Next]_vars => [Delivery!Next]_(Delivery!vars)
  <2> SUFFICES ASSUME IInv, [Next]_vars
               PROVE  Delivery!Next \/ UNCHANGED Delivery!vars
    OBVIOUS
  <2> USE DEF Delivery!vars
  <2>1. ASSUME NEW j \in Jobs, Enqueue(j) PROVE Delivery!Submit(j)
    <3>1. statusBar[j] = "absent"
      BY <2>1 DEF Enqueue, statusBar, StatusOf
    <3>2. Key[j] # NoKey => \A k \in Jobs : Key[k] = Key[j] => statusBar[k] # "live"
      BY <2>1, StatusFacts DEF Enqueue, KeyTaken
    <3>3. statusBar' = [statusBar EXCEPT ![j] = "live"]
      <4>1. \A k \in Jobs : StatusOf(k)' = IF k = j THEN "live" ELSE StatusOf(k)
        BY <2>1 DEF Enqueue, InsertJob, StatusOf, IInv, TypeOK
      <4> QED BY <4>1 DEF statusBar
    <3>4. UNCHANGED <<returned, troubled>>
      BY <2>1 DEF Enqueue, historyVars
    <3> QED BY <3>1, <3>2, <3>3, <3>4 DEF Delivery!Submit
  <2>2. ASSUME OutcomesSame, UNCHANGED <<returned, troubled>>
        PROVE  UNCHANGED Delivery!vars
    BY <2>2, StatusSame
  <2>3. ASSUME NEW w \in Workers, StartJob(w)
        PROVE  Delivery!Next \/ UNCHANGED Delivery!vars
    <3>1. statusBar' = statusBar /\ returned' = returned
      BY <2>3, StatusSame DEF StartJob, OutcomesSame, rowVars
    <3>2. CASE troubled' = troubled
      BY <3>1, <3>2
    <3>3. ASSUME NEW j \in Held(w), troubled' = troubled \cup {j}
          PROVE  Delivery!Next
      <4>1. j \in Jobs /\ statusBar[j] # "absent"
        BY StatusFacts DEF Held, IInv, HeldOK
      <4>2. Delivery!RunErrs(j)
        BY <3>1, <3>3, <4>1 DEF Delivery!RunErrs
      <4> QED BY <4>1, <4>2 DEF Delivery!Next
    <3> QED BY <2>3, <3>2, <3>3 DEF StartJob
  <2>4. ASSUME NEW w \in Workers, HandlerReturns(w) \/ HandlerThrows(w) \/ CompleteThrows(w)
        PROVE  Delivery!Next
    <3> DEFINE j == current[w]
    <3>1. j \in Jobs /\ statusBar[j] # "absent"
      BY <2>4, StatusFacts
         DEF IInv, HeldOK, PositionOK, HandlerReturns, HandlerThrows, CompleteThrows
    <3>2. statusBar' = statusBar
      BY <2>4, StatusSame
         DEF HandlerReturns, HandlerThrows, CompleteThrows, OutcomesSame, rowVars
    <3>3. Delivery!RunReturns(j) \/ Delivery!RunErrs(j)
      BY <2>4, <3>1, <3>2
         DEF HandlerReturns, HandlerThrows, CompleteThrows, CatchCompleteError,
             Delivery!RunReturns, Delivery!RunErrs
    <3> QED BY <3>1, <3>3 DEF Delivery!Next
  <2>5. ASSUME NEW w \in Workers, Complete(w) \/ Fail(w) \/ FailBreaks(w)
        PROVE  Delivery!Next \/ UNCHANGED Delivery!vars
    <3> DEFINE j == current[w]
    <3>1. j \in Jobs
      BY <2>5 DEF IInv, PositionOK, Complete, Fail, FailBreaks
    <3>2. UNCHANGED <<returned, troubled>>
      BY <2>5 DEF Complete, Fail, FailBreaks, historyVars
    <3>3. OutcomesSame \/ Completes(j) \/ GivesUp(j)
      BY <2>5, SettleOutcome DEF Complete, Fail, FailBreaks, OutcomesSame, rowVars
    <3>4. ASSUME Completes(j) PROVE Delivery!Next \/ UNCHANGED Delivery!vars
      <4>1. CASE statusBar' = statusBar
        BY <3>2, <4>1
      <4>2. CASE Live(j) /\ statusBar' = [statusBar EXCEPT ![j] = "completed"]
        <5>1. Delivery!Complete(j)
          BY <3>1, <3>2, <3>4, <4>2, StatusFacts DEF Delivery!Complete, Completes
        <5> QED BY <3>1, <5>1 DEF Delivery!Next
      <4> QED BY <3>1, <3>4, <4>1, <4>2, StatusCompletes
    <3>5. ASSUME GivesUp(j) PROVE Delivery!Next \/ UNCHANGED Delivery!vars
      <4>1. CASE statusBar' = statusBar
        BY <3>2, <4>1
      <4>2. CASE Live(j) /\ statusBar' = [statusBar EXCEPT ![j] = "failed"]
        <5>1. Delivery!GiveUp(j)
          BY <3>1, <3>2, <3>5, <4>2, StatusFacts DEF Delivery!GiveUp, GivesUp
        <5> QED BY <3>1, <5>1 DEF Delivery!Next
      <4> QED BY <3>1, <3>5, <4>1, <4>2, StatusGivesUp
    <3> QED BY <2>2, <3>2, <3>3, <3>4, <3>5
  <2>6. ASSUME NEW w \in Workers, CompleteBreaks(w) PROVE Delivery!Next
    <3> DEFINE j == current[w]
    <3>1. j \in Jobs /\ statusBar[j] # "absent" /\ j \in returned
      BY <2>6, StatusFacts DEF IInv, HeldOK, PositionOK, ReasonOK, CompleteBreaks
    <3>2. returned' = returned /\ troubled' = troubled \cup {j}
      BY <2>6 DEF CompleteBreaks, CatchCompleteError
    <3>3. CASE statusBar' = statusBar
      <4>1. Delivery!RunErrs(j)
        BY <3>1, <3>2, <3>3 DEF Delivery!RunErrs
      <4> QED BY <3>1, <4>1 DEF Delivery!Next
    <3>4. CASE Live(j) /\ statusBar' = [statusBar EXCEPT ![j] = "completed"]
      <4>1. Delivery!CompleteInDoubt(j)
        BY <3>1, <3>2, <3>4, StatusFacts DEF Delivery!CompleteInDoubt
      <4> QED BY <3>1, <4>1 DEF Delivery!Next
    <3>5. OutcomesSame \/ Completes(j)
      BY <2>6, <3>1
         DEF CompleteBreaks, CompleteRefused, MarkCompleted, OutcomesSame, rowVars,
             Completes, IInv, HeldOK, PositionOK
    <3> QED BY <3>1, <3>3, <3>4, <3>5, StatusSame, StatusCompletes
  <2>7. ASSUME NEW w \in Workers,
               \/ ReleaseExpiredClaims(w) \/ LeaveLoop(w) \/ Claim(w) \/ FailThrows(w)
               \/ ClaimBreaks(w) \/ Crash(w) \/ Stop(w) \/ Restart(w)
        PROVE  UNCHANGED Delivery!vars
    BY <2>2, <2>7
       DEF ReleaseExpiredClaims, LeaveLoop, Claim, FailThrows, ClaimBreaks, Crash, Stop,
           Restart, TakeJobs, rowVars, historyVars, OutcomesSame
  <2>8. CASE Tick
    BY <2>2, <2>8 DEF Tick, historyVars, OutcomesSame
  <2>9. CASE UNCHANGED vars
    BY <2>2, <2>9 DEF vars, rowVars, historyVars, OutcomesSame
  <2>10. (\E j \in Jobs : Delivery!Submit(j)) => Delivery!Next
    BY DEF Delivery!Next
  <2> QED
    BY <2>1, <2>3, <2>4, <2>5, <2>6, <2>7, <2>8, <2>9, <2>10 DEF Next, Loop, Fault
<1> QED BY <1>1, <1>2, SpecIInv, PTL DEF Spec, DeliverySpec, Delivery!Spec

=============================================================================
