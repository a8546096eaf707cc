------------------------------ MODULE JobQueue ------------------------------
(***************************************************************************)
(* The background job queue on Postgres (packages/queue, ADR-0006) and the *)
(* JobRunner loops of the worker processes that share it.                  *)
(*                                                                         *)
(* The columns of table jobs are variables indexed by job. Timestamps are  *)
(* kept relative to the present: wait[j] is the time left until run_at,    *)
(* lease[j] and until[w] the time left until a lease_until, -1 once it has *)
(* lapsed (or is NULL). Each SQL statement is one step, because Postgres   *)
(* commits it as one; everything between two statements of a worker        *)
(* interleaves with the other workers, with the clock and with crashes.    *)
(*                                                                         *)
(* Operators named Mut... are faulty variants of the definition that       *)
(* follows them; no behaviour of the model uses one.                       *)
(***************************************************************************)
EXTENDS Integers, FiniteSets

CONSTANTS
    Jobs,         \* job ids; each is enqueued at most once (ids are ulids)
    Workers,      \* worker processes, by claimed_by name
    NoWorker,     \* claimed_by IS NULL
    NoJob,        \* a worker that is between jobs
    Key,          \* Key[j]: the unique_key of j, or NoKey
    NoKey,
    Priority,     \* Priority[j]: larger is taken first
    Handled,      \* the jobs whose name has a registered handler
    Delays,       \* run_at of a request, relative to the time it is made
    MaxAttempts,  \* max_attempts
    Lease,        \* leaseSeconds
    BatchSize,    \* batchSize
    Punctual,     \* TRUE: no worker outlives the lease on work it holds
    MaxRestarts,  \* bound on crashes and shutdowns together
    MaxDbErrors   \* bound on statements whose connection breaks

ASSUME JobQueueAssumption ==
    /\ IsFiniteSet(Jobs)
    /\ NoWorker \notin Workers
    /\ NoJob \notin Jobs
    /\ DOMAIN Key = Jobs
    /\ Priority \in [Jobs -> Int]
    /\ Handled \subseteq Jobs
    /\ Delays \subseteq Nat
    /\ MaxAttempts \in Nat \ {0}
    /\ Lease \in Nat
    /\ BatchSize \in Nat \ {0}
    /\ Punctual \in BOOLEAN
    /\ MaxRestarts \in Nat
    /\ MaxDbErrors \in Nat

VARIABLES
    \* table jobs
    created,      \* the rows
    completed,    \* rows with completed_at
    failed,       \* rows with failed_at
    wait,         \* run_at
    claimedBy,    \* claimed_by (and claimed_at)
    lease,        \* lease_until
    attempts,
    \* one JobRunner per worker
    pc,           \* where its loop is
    batch,        \* batch[w][j]: Job.attempts as claimed, 0 when not held
    current,      \* the job runOne is working on
    permanent,    \* the error being reported is a PermanentJobFailure
    until,        \* when the lease its last claim asked for runs out
    stopping,     \* workers told to stop
    \* what the environment and the handlers have done
    returned,     \* jobs a handler ran to its end for
    troubled,     \* jobs some run of which ended in an error
    condemned,    \* ... in an error that says retrying will not help
    restarts,
    dbErrors

rowVars == <<created, completed, failed, wait, claimedBy, lease, attempts>>
runnerVars == <<pc, batch, current, permanent, until, stopping>>
historyVars == <<returned, troubled, condemned>>
faultVars == <<restarts, dbErrors>>
vars == <<rowVars, runnerVars, historyVars, faultVars>>

-----------------------------------------------------------------------------
(* Reading the table *)

MutLiveUnlessCompleted(j) == j \in created /\ j \notin completed

Live(j) == j \in created /\ j \notin completed \cup failed

MutRunnableOnLastSecond(j) ==
    Live(j) /\ wait[j] = 0 /\ (claimedBy[j] = NoWorker \/ lease[j] <= 0)

MutRunnableWithinMax(j) ==
    /\ Live(j) /\ wait[j] = 0 /\ attempts[j] < MaxAttempts
    /\ claimedBy[j] = NoWorker \/ lease[j] < 0

\* The WHERE clause of claim(): a lease may be taken back once it is past.
Runnable(j) ==
    /\ Live(j)
    /\ wait[j] = 0
    /\ claimedBy[j] = NoWorker \/ lease[j] < 0

Held(w) == {j \in Jobs : batch[w][j] > 0}

\* ORDER BY priority DESC, run_at LIMIT BatchSize. Rows of one priority whose
\* time has come are taken in any order.
Claimable(S) ==
    LET ready == {j \in Jobs : Runnable(j)}
    IN  /\ S \subseteq ready
        /\ Cardinality(S) <= BatchSize
        /\ S # ready => Cardinality(S) = BatchSize
        /\ \A a \in S, b \in ready \ S : Priority[a] >= Priority[b]

\* backoffSeconds: min(2 ^ min(n, 16), 300) for n >= 1.
Doublings == <<2, 4, 8, 16, 32, 64, 128, 256>>
BackoffSeconds(n) == IF n \in 1 .. 8 THEN Doublings[n] ELSE 300

-----------------------------------------------------------------------------
(* Statements: what each does to the rows. *)

InsertJob(j, d) ==
    /\ created' = created \cup {j}
    /\ wait' = [wait EXCEPT ![j] = d]
    /\ UNCHANGED <<completed, failed, claimedBy, lease, attempts>>

MutTakeJobsLongLease(w, S) ==
    /\ claimedBy' = [j \in Jobs |-> IF j \in S THEN w ELSE claimedBy[j]]
    /\ lease' = [j \in Jobs |-> IF j \in S THEN Lease + 1 ELSE lease[j]]
    /\ attempts' = [j \in Jobs |-> IF j \in S THEN attempts[j] + 1 ELSE attempts[j]]
    /\ UNCHANGED <<created, completed, failed, wait>>

TakeJobs(w, S) ==
    /\ claimedBy' = [j \in Jobs |-> IF j \in S THEN w ELSE claimedBy[j]]
    /\ lease' = [j \in Jobs |-> IF j \in S THEN Lease ELSE lease[j]]
    /\ attempts' = [j \in Jobs |-> IF j \in S THEN attempts[j] + 1 ELSE attempts[j]]
    /\ UNCHANGED <<created, completed, failed, wait>>

ClearClaim(j) ==
    /\ claimedBy' = [claimedBy EXCEPT ![j] = NoWorker]
    /\ lease' = [lease EXCEPT ![j] = -1]

\* complete(): by id alone, whoever holds the claim now.
MarkCompleted(j) ==
    /\ completed' = completed \cup {j}
    /\ ClearClaim(j)
    /\ UNCHANGED <<created, failed, wait, attempts>>

MarkFailed(j) ==
    /\ failed' = failed \cup {j}
    /\ ClearClaim(j)
    /\ UNCHANGED <<created, completed, wait, attempts>>

Postpone(j, d) ==
    /\ wait' = [wait EXCEPT ![j] = d]
    /\ ClearClaim(j)
    /\ UNCHANGED <<created, completed, failed, attempts>>

MutNeverRefused(j) == FALSE

\* CHECK jobs_not_both_outcomes refuses the other outcome's update.
CompleteRefused(j) == j \in failed
FailRefused(j) == j \in completed

MutExhaustedOneEarly(w, j) == permanent[w] \/ batch[w][j] + 1 >= MaxAttempts

\* fail(): a stop when the claimed copy says the attempts are used up.
Exhausted(w, j) == permanent[w] \/ batch[w][j] >= MaxAttempts

ApplyFail(w, j) ==
    IF Exhausted(w, j)
    THEN ~ FailRefused(j) /\ MarkFailed(j)
    ELSE Postpone(j, BackoffSeconds(batch[w][j]))

-----------------------------------------------------------------------------
(* What a producer does. *)

MutKeyTakenByWaiting(j) ==
    Key[j] # NoKey /\ \E k \in Jobs :
        Live(k) /\ claimedBy[k] = NoWorker /\ Key[k] = Key[j]

\* enqueue(): ON CONFLICT DO NOTHING. When a live row holds the unique key
\* nothing is inserted and null is returned, which is a stuttering step here.
KeyTaken(j) == Key[j] # NoKey /\ \E k \in Jobs : Live(k) /\ Key[k] = Key[j]

Enqueue(j) ==
    /\ j \notin created
    /\ ~ KeyTaken(j)
    /\ \E d \in Delays : InsertJob(j, d)
    /\ UNCHANGED <<runnerVars, historyVars, faultVars>>

-----------------------------------------------------------------------------
(* The loop of JobRunner.start() on worker w. *)

Goto(w, label) == pc' = [pc EXCEPT ![w] = label]
NoBatch == [j \in Jobs |-> 0]

\* The runner forgets its batch: at its end, or because an error left runOnce.
DropBatch(w, label) ==
    /\ Goto(w, label)
    /\ batch' = [batch EXCEPT ![w] = NoBatch]
    /\ current' = [current EXCEPT ![w] = NoJob]
    /\ permanent' = [permanent EXCEPT ![w] = FALSE]
    /\ until' = [until EXCEPT ![w] = -1]

\* while (this.running) ...: releaseExpiredClaims(), or leave the loop.
ReleaseExpiredClaims(w) ==
    /\ pc[w] = "top"
    /\ w \notin stopping
    /\ LET lapsed == {j \in Jobs : /\ Live(j)
                                   /\ claimedBy[j] # NoWorker
                                   /\ lease[j] < 0}
       IN  claimedBy' = [j \in Jobs |-> IF j \in lapsed THEN NoWorker ELSE claimedBy[j]]
    /\ Goto(w, "claim")
    /\ UNCHANGED <<created, completed, failed, wait, lease, attempts, batch,
                   current, permanent, until, stopping, historyVars, faultVars>>

LeaveLoop(w) ==
    /\ pc[w] = "top"
    /\ w \in stopping
    /\ Goto(w, "stopped")
    /\ UNCHANGED <<rowVars, batch, current, permanent, until, stopping,
                   historyVars, faultVars>>

\* claim(): one UPDATE takes the rows and hands back their new attempts.
Claim(w) ==
    /\ pc[w] = "claim"
    /\ \E S \in SUBSET Jobs :
          /\ Claimable(S)
          /\ TakeJobs(w, S)
          /\ batch' = [batch EXCEPT ![w] = [j \in Jobs |->
                          IF j \in S THEN attempts[j] + 1 ELSE 0]]
          /\ until' = [until EXCEPT ![w] = IF S = {} THEN -1 ELSE Lease]
          /\ Goto(w, IF S = {} THEN "top" ELSE "batch")
    /\ UNCHANGED <<current, permanent, stopping, historyVars, faultVars>>

\* for (const job of jobs) await this.runOne(job): UPDATE ... RETURNING gives
\* no order. A job nothing handles goes straight to a permanent failure.
StartJob(w) ==
    /\ pc[w] = "batch"
    /\ \E j \in Held(w) :
          /\ current' = [current EXCEPT ![w] = j]
          /\ IF j \in Handled
             THEN Goto(w, "running") /\ UNCHANGED <<permanent, troubled, condemned>>
             ELSE /\ Goto(w, "failing")
                  /\ permanent' = [permanent EXCEPT ![w] = TRUE]
                  /\ troubled' = troubled \cup {j}
                  /\ condemned' = condemned \cup {j}
    /\ UNCHANGED <<rowVars, batch, until, stopping, returned, faultVars>>

HandlerReturns(w) ==
    /\ pc[w] = "running"
    /\ Goto(w, "completing")
    /\ returned' = returned \cup {current[w]}
    /\ UNCHANGED <<rowVars, batch, current, permanent, until, stopping,
                   troubled, condemned, faultVars>>

HandlerThrows(w) ==
    /\ pc[w] = "running"
    /\ Goto(w, "failing")
    /\ troubled' = troubled \cup {current[w]}
    /\ \/ UNCHANGED <<permanent, condemned>>
       \/ /\ permanent' = [permanent EXCEPT ![w] = TRUE]
          /\ condemned' = condemned \cup {current[w]}
    /\ UNCHANGED <<rowVars, batch, current, until, stopping, returned, faultVars>>

MutEndOfJobEndsBatch(w) == DropBatch(w, "top")

\* The current job is settled: the loop goes on to the next of the batch.
EndOfJob(w) ==
    LET rest == Held(w) \ {current[w]}
    IN  IF rest = {}
        THEN DropBatch(w, "top")
        ELSE /\ Goto(w, "batch")
             /\ batch' = [batch EXCEPT ![w][current[w]] = 0]
             /\ current' = [current EXCEPT ![w] = NoJob]
             /\ permanent' = [permanent EXCEPT ![w] = FALSE]
             /\ UNCHANGED until

Complete(w) ==
    /\ pc[w] = "completing"
    /\ ~ CompleteRefused(current[w])
    /\ MarkCompleted(current[w])
    /\ EndOfJob(w)
    /\ UNCHANGED <<stopping, historyVars, faultVars>>

\* An error from complete() lands in the same catch as one from the handler.
CatchCompleteError(w) ==
    /\ Goto(w, "failing")
    /\ troubled' = troubled \cup {current[w]}
    /\ UNCHANGED <<batch, current, permanent, until, stopping, returned, condemned>>

CompleteThrows(w) ==
    /\ pc[w] = "completing"
    /\ CompleteRefused(current[w])
    /\ CatchCompleteError(w)
    /\ UNCHANGED <<rowVars, faultVars>>

Fail(w) ==
    /\ pc[w] = "failing"
    /\ ApplyFail(w, current[w])
    /\ EndOfJob(w)
    /\ UNCHANGED <<stopping, historyVars, faultVars>>

\* An error from fail() leaves runOnce, and with it the rest of the batch.
FailThrows(w) ==
    /\ pc[w] = "failing"
    /\ Exhausted(w, current[w])
    /\ FailRefused(current[w])
    /\ DropBatch(w, "top")
    /\ UNCHANGED <<rowVars, stopping, historyVars, faultVars>>

-----------------------------------------------------------------------------
(* What may go wrong around it. *)

\* The connection breaks under a statement: the caller gets an error, whether
\* or not Postgres had committed it. A broken releaseExpiredClaims only makes
\* the loop start over and is left out.
DbError ==
    /\ dbErrors < MaxDbErrors
    /\ dbErrors' = dbErrors + 1
    /\ UNCHANGED restarts

\* The rows are taken and nobody knows: they wait for the lease to lapse.
ClaimBreaks(w) ==
    /\ pc[w] = "claim"
    /\ DbError
    /\ \E S \in SUBSET Jobs : S # {} /\ Claimable(S) /\ TakeJobs(w, S)
    /\ Goto(w, "top")
    /\ UNCHANGED <<batch, current, permanent, until, stopping, historyVars>>

CompleteBreaks(w) ==
    /\ pc[w] = "completing"
    /\ DbError
    /\ \/ UNCHANGED rowVars
       \/ ~ CompleteRefused(current[w]) /\ MarkCompleted(current[w])
    /\ CatchCompleteError(w)

FailBreaks(w) ==
    /\ pc[w] = "failing"
    /\ DbError
    /\ UNCHANGED rowVars \/ ApplyFail(w, current[w])
    /\ DropBatch(w, "top")
    /\ UNCHANGED <<stopping, historyVars>>

Up(w) == pc[w] \notin {"stopped", "crashed"}

\* The process dies. Its memory is gone, its claims stay in the table.
Crash(w) ==
    /\ Up(w)
    /\ restarts < MaxRestarts
    /\ restarts' = restarts + 1
    /\ DropBatch(w, "crashed")
    /\ UNCHANGED <<rowVars, stopping, historyVars, dbErrors>>

\* stop(), on SIGTERM: the flag is read at the top of the loop.
Stop(w) ==
    /\ Up(w)
    /\ w \notin stopping
    /\ restarts < MaxRestarts
    /\ restarts' = restarts + 1
    /\ stopping' = stopping \cup {w}
    /\ UNCHANGED <<rowVars, pc, batch, current, permanent, until, historyVars, dbErrors>>

Restart(w) ==
    /\ ~ Up(w)
    /\ Goto(w, "top")
    /\ stopping' = stopping \ {w}
    /\ UNCHANGED <<rowVars, batch, current, permanent, until, historyVars, faultVars>>

Less(n) == IF n > 0 THEN n - 1 ELSE 0
Lapse(n) == IF n >= 0 THEN n - 1 ELSE -1

\* A second passes for everybody (the database and the workers share a clock).
Tick ==
    /\ Punctual => \A w \in Workers : Held(w) # {} => until[w] > 0
    /\ wait' = [j \in Jobs |-> Less(wait[j])]
    /\ lease' = [j \in Jobs |-> Lapse(lease[j])]
    /\ until' = [w \in Workers |-> Lapse(until[w])]
    /\ UNCHANGED <<created, completed, failed, claimedBy, attempts, pc, batch,
                   current, permanent, stopping, historyVars, faultVars>>

-----------------------------------------------------------------------------
Init ==
    /\ created = {} /\ completed = {} /\ failed = {}
    /\ wait = [j \in Jobs |-> 0]
    /\ claimedBy = [j \in Jobs |-> NoWorker]
    /\ lease = [j \in Jobs |-> -1]
    /\ attempts = [j \in Jobs |-> 0]
    /\ pc = [w \in Workers |-> "top"]
    /\ batch = [w \in Workers |-> NoBatch]
    /\ current = [w \in Workers |-> NoJob]
    /\ permanent = [w \in Workers |-> FALSE]
    /\ until = [w \in Workers |-> -1]
    /\ stopping = {}
    /\ returned = {} /\ troubled = {} /\ condemned = {}
    /\ restarts = 0 /\ dbErrors = 0

\* What a running worker does of its own accord.
Loop(w) ==
    \/ ReleaseExpiredClaims(w)
    \/ LeaveLoop(w)
    \/ Claim(w)
    \/ StartJob(w)
    \/ HandlerReturns(w)
    \/ HandlerThrows(w)
    \/ Complete(w)
    \/ CompleteThrows(w)
    \/ Fail(w)
    \/ FailThrows(w)

Fault(w) ==
    \/ ClaimBreaks(w)
    \/ CompleteBreaks(w)
    \/ FailBreaks(w)
    \/ Crash(w)
    \/ Stop(w)

Next ==
    \/ \E j \in Jobs : Enqueue(j)
    \/ \E w \in Workers : Loop(w) \/ Fault(w) \/ Restart(w)
    \/ Tick

Spec == Init /\ [][Next]_vars

\* The loop of a live process goes on, handlers end, the supervisor starts a
\* dead worker again and time passes. Nothing makes anybody enqueue or fail.
Fairness ==
    /\ \A w \in Workers : WF_vars(Loop(w)) /\ WF_vars(Restart(w))
    /\ WF_vars(Tick)

FairSpec == Spec /\ Fairness

-----------------------------------------------------------------------------
(* Properties *)

Labels == {"top", "claim", "batch", "running", "completing", "failing",
           "stopped", "crashed"}

\* Types, and the columns only hold what the table's constraints allow.
TypeOK ==
    /\ created \subseteq Jobs
    /\ completed \subseteq created
    /\ failed \subseteq created
    /\ wait \in [Jobs -> Nat]
    /\ claimedBy \in [Jobs -> Workers \cup {NoWorker}]
    /\ lease \in [Jobs -> -1 .. Lease]
    /\ attempts \in [Jobs -> Nat]
    /\ pc \in [Workers -> Labels]
    /\ batch \in [Workers -> [Jobs -> Nat]]
    /\ current \in [Workers -> Jobs \cup {NoJob}]
    /\ permanent \in [Workers -> BOOLEAN]
    /\ until \in [Workers -> -1 .. Lease]
    /\ stopping \subseteq Workers
    /\ returned \subseteq created
    /\ troubled \subseteq created
    /\ condemned \subseteq troubled
    /\ restarts \in Nat
    /\ dbErrors \in Nat

\* A job has at most one outcome and, once it has one, nobody holds it,
\* although complete() and fail() write by id for workers whose lease is over.
OutcomesExclude ==
    /\ completed \cap failed = {}
    /\ \A j \in completed \cup failed : claimedBy[j] = NoWorker

\* An outcome is never taken back, exchanged or followed by another attempt,
\* however late the worker that reports on the job.
OutcomeIsFinal ==
    [][/\ completed \subseteq completed'
       /\ failed \subseteq failed'
       /\ \A j \in completed \cup failed : attempts'[j] = attempts[j]]_vars

\* Work with a natural key is on the queue once at a time, whatever retries,
\* lapses and re-enqueues there are (jobs_unique_key_idx).
OneLivePerKey ==
    \A j, k \in Jobs :
        Live(j) /\ Live(k) /\ Key[j] = Key[k] /\ Key[j] # NoKey => j = k

\* A job is given up only when its attempts are used up or a run said that
\* retrying will not help.
GivenUpForAReason ==
    \A j \in failed : j \in condemned \/ attempts[j] >= MaxAttempts

\* Two live workers never run the same job. It needs Punctual: the lease is
\* what keeps the second one away.
NoConcurrentRun ==
    \A v, w \in Workers : v # w => Held(v) \cap Held(w) = {}

\* A runner that does not crash, on connections that do not break, leaves no
\* job of its batch before its turn: one job failing never stops the batch.
NothingAbandoned ==
    [][\A w \in Workers : \A j \in Held(w) \ (Held(w))' :
          current[w] = j \/ pc'[w] = "crashed" \/ dbErrors' > 0]_vars

\* Every job gets an outcome in the end: none is lost to a crash, a lapsed
\* lease or a broken connection.
EventuallySettled ==
    \A j \in Jobs : j \in created ~> j \in completed \cup failed

\* The refinement mapping to the promise the queue makes.
StatusOf(j) ==
    IF j \notin created THEN "absent"
    ELSE IF j \in completed THEN "completed"
    ELSE IF j \in failed THEN "failed"
    ELSE "live"

statusBar == [j \in Jobs |-> StatusOf(j)]

Delivery == INSTANCE JobDelivery WITH status <- statusBar

\* Runners, leases, retries and faults implement at-least-once delivery with
\* one final outcome per job and one live job per key.
DeliverySpec == Delivery!Spec

\* The rows are well formed, and a job has one outcome, which it has come to: nobody
\* holds it any more, and it was not given up before its time, whoever reports and
\* however late.
OutcomesEarned == TypeOK /\ OutcomesExclude /\ GivenUpForAReason
=============================================================================
