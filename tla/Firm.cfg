\* One list of the firm, two managers with two requests between them. Or one
\* document of each kind: a branch, an account, a salesperson without one, two
\* choices. Or a form sent twice, with a good file and a strange one, and one
\* process or answer lost. Or the team of a job: two people, two errands, two rows.
\* Once every document is made and no choice is left, nothing is left to do.
CHECK_DEADLOCK FALSE
SPECIFICATION FirmSpec
SYMMETRY FirmSymmetry
CONSTANTS
    Managers = {m1, m2}
    Kinds = {"service", "branch", "letter", "campaign", "option", "person"}
    RowNames = {n1}
    t1 = t1  t2 = t2  fa = fa  fb = fb
    m1 = m1  m2 = m2  p1 = p1  p2 = p2
    w1 = w1  w2 = w2  u1 = u1  u2 = u2
    Texts = {t1, t2}
    Facts = {fa, fb}
    Asks <- Wordings
    Blank = Blank
    MaxRows = 2
    MaxRequests = 2
    NoRow = NoRow
    Pickers = {p1, p2}
    Offices = {o1}
    Employees = {e1}
    Agents = {g1}
    Unset = Unset
    MaxPicks = 2
    MaxChanges = 1
    Talks = {w1, w2}
    Shots = {g2, g3}
    Strange = {g3}
    Serving = {r1, r2}
    None = None
    MaxCuts = 1
    Colleagues = {u1, u2}
    Errands = {x1, x2}
    MaxPlaces = 2
    MaxHours = 1
    NoPlace = NoPlace
PROPERTIES SettingsHold ClassificationHolds TeamHolds
INVARIANTS ContactHolds
