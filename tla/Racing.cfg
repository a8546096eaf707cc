\* Two requests at a time with nothing to keep them apart: one flagged entry
\* and three statements fighting over it. Or two people at two clients' records,
\* a form or the vault's panel used twice between them, one request lost. Or
\* two pages that show one thing, each as it was when it last heard.
\* Once every hour is invoiced, and no form may be saved, nothing is left to do.
CHECK_DEADLOCK FALSE
SPECIFICATION RacingSpec
CONSTANTS
    a = a  b = b  c = c  project = project  day = day  None = None
    Entries <- OneEntry  Line <- OneLine  Periods <- Whole
    Fees = {project}
    Flagged = {a}
    Statements = {s1, s2, s3}
    Clerks = {p, q}
    Guarded = FALSE
    MaxInvoices = 3
SYMMETRY Symmetry
INVARIANTS NumbersGapless HoldsWhatIsDue ScreensHold
PROPERTIES RecordKept
CONSTANTS
    OnBooks = {c1, c2}
    c1 = c1
    Numbers = {n1, n2}
    n1 = n1
    References = {r1, r2}
    Logins = {k1, k2, k3}
    k1 = k1
    Portals = {"tax"}
    Keepers = {p1, p2}
    Absent = Absent
    MaxUses = 2
    MaxLost = 1
    Desks = {d1, d2}
    NoPage = NoPage
    Lines = {l1, l2}
    MaxOwed = 2
