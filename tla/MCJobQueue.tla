----------------------------- MODULE MCJobQueue -----------------------------
(* Instances of JobQueue for TLC: two workers; a and b share a natural key, *)
(* c has none and a higher priority.                                       *)
EXTENDS JobQueue, TLC

CONSTANTS a, b, c, k

TwoJobs == {a, b}
TwoKeys == [j \in TwoJobs |-> IF j = a THEN k ELSE NoKey]
TwoPriorities == [j \in TwoJobs |-> IF j = a THEN 0 ELSE 1]

SameKeys == [j \in TwoJobs |-> k]

ThreeJobs == {a, b, c}
ThreeKeys == [j \in ThreeJobs |-> IF j = c THEN NoKey ELSE k]
ThreePriorities == [j \in ThreeJobs |-> IF j = c THEN 1 ELSE 0]

\* The table in JobQueue is the formula of backoffSeconds.
ASSUME BackoffAssumption ==
    \A n \in 1 .. 20 :
        LET m == IF n < 16 THEN n ELSE 16
        IN  BackoffSeconds(n) = IF 2 ^ m < 300 THEN 2 ^ m ELSE 300
=============================================================================
