\* Two requests at a time that never conflict: three entries over two months,
\* two of them under one agreed fee, one flagged; three statements. Or the
\* figures of two lines, on one invoice or two, or of two lines of an offer. Or
\* one client's folder: two desks, two folders, a file. Or one person's hours over
\* four days, hour by hour. Or two papers to upload.
\* Once everything is invoiced and paid nothing is left to do.
CHECK_DEADLOCK FALSE
SPECIFICATION RecordsSpec
CONSTANTS
    a = a  b = b  c = c  project = project  day = day  None = None
    Entries <- ThreeEntries  Line <- ThreeLines  Periods <- Months
    Fees = {project}
    Flagged = {a}
    Statements = {s1, s2, s3}
    Clerks = {p, q}
    Guarded = TRUE
    MaxInvoices = 2
SYMMETRY RecordsSymmetry
INVARIANTS BilledOnce InvoiceBacked FiguresHold FoldersHold ListHolds
PROPERTIES DecisionsStand HoursHold
CONSTANTS
    ann = ann  bob = bob
    NotSet = NotSet
    SheetLines <- SmallLines
    Agreed = {700}
    VatRates = {0, 500}
    MaxBooked = 2
    Receivable <- SmallPayments
    MaxReceived = 2
    OfferLines <- SmallOffers
    MaxOffered = 2
    Folders = {f1, f2}
    Files = {x1}
    Top = Top
    Names = {na, nb, nx}
    na = na  nb = nb  nx = nx  d1 = d1
    Cleaned <- Clean
    Desks = {d1, d2}
    Panels <- OnePanel
    Paths <- Directories
    MaxDepth = 2
    MaxFaults = 1
    Nil = Nil
    Parts = 24  Ahead = 4  FirstDay = 1  LastDay = 4  Longest = 26  TooLong = 12
    Usual <- NineToSix
    Typable <- TypedHours
    NoHours = NoHours  NoEntry = NoEntry  NoOwn = NoOwn
    k1 = k1  licence = licence  other = other
    Scans = {k1, k2}
    Kinds = {licence, other}
    Guess <- Guessed
    MustExpire = {licence}
    Noted = {other}
    NotListed = NotListed
    MaxMissed = 1
