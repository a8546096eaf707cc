SPECIFICATION Spec
CONSTANTS
  Workers = {w1, w2}
  Stages = {reminder}
  DueDay <- DueOnDayThree
  Audience = {u1, u2}
  MarkDay = 1
  CatchUp = 1
  MaxAttempts = 2
  MaxFaults = 1
  FinalDay = 3
  NoRun = NoRun
  Accounts = {a1, a2}
  Founder = a1
  Addresses = {e1, e2}
  FirstAddress = e1
  Passwords = {q1, q2}
  FirstPassword = q1
  Sessions = {s1, s2}
  Links = {k1, k2}
  Requests = {r1, r2}
  MaxFailed = 2
  MaxServed = 5
  MaxRacing = 3
  Nobody = Nobody
  NoAddress = NoAddress
  NoPassword = NoPassword
  NoSession = NoSession
  NoLink = NoLink
  Processes = {p1, p2}
  Callers = {c1, c2}
  Ttl = 2
  MaxChoices = 1
  Ticked <- TickedForOne
  LastMoment = 3
  Blank = Blank
INVARIANTS MorningsHold ChoicesReach
PROPERTIES MorningsArrive 
\* Enough wrong answers, or the end of the calendar, and nothing is left to do.
CHECK_DEADLOCK FALSE
