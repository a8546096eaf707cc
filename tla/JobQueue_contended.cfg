\* Two workers that may outlive their lease, one crash or shutdown.
SPECIFICATION FairSpec
CONSTANTS
    a = a  b = b  c = c  k = k
    NoWorker = NoWorker  NoJob = NoJob  NoKey = NoKey
    Jobs <- TwoJobs  Key <- SameKeys  Priority <- TwoPriorities
    Workers = {w1, w2}
    Handled <- TwoJobs
    Delays = {0}
    MaxAttempts = 2
    Lease = 1
    BatchSize = 2
    Punctual = FALSE
    MaxRestarts = 1
    MaxDbErrors = 0
INVARIANTS OutcomesEarned
PROPERTIES DeliverySpec EventuallySettled
