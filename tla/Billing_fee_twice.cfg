\* One request at a time, a project worked on in two months for one fee.
\* Once every hour is invoiced nothing is left to do.
CHECK_DEADLOCK FALSE
SPECIFICATION Spec
CONSTANTS
    a = a  b = b  c = c  project = project  day = day  None = None
    Entries <- ThreeEntries  Line <- ThreeLines  Periods <- Months
    Fees = {project}
    Flagged = {}
    Statements = {s1, s2}
    Clerks = {p}
    Guarded = TRUE
    MaxInvoices = 2
INVARIANTS FeeBilledOnce
