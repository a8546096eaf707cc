\* Workers that stay within their lease; three jobs in batches of two, two of
\* them sharing a key and one with no handler.
SPECIFICATION Spec
CONSTANTS
    a = a  b = b  c = c  k = k
    NoWorker = NoWorker  NoJob = NoJob  NoKey = NoKey
    Jobs <- ThreeJobs  Key <- ThreeKeys  Priority <- ThreePriorities
    Workers = {w1, w2}
    Handled = {a, b}
    Delays = {0, 1}
    MaxAttempts = 1
    Lease = 1
    BatchSize = 2
    Punctual = TRUE
    MaxRestarts = 1
    MaxDbErrors = 1
INVARIANTS NoConcurrentRun
PROPERTIES NothingAbandoned
