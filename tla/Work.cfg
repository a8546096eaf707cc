SPECIFICATION Spec
CONSTANTS
  Clients = {k1, k2}
  Returning = {k1}
  LastPeriod = 2
  Sweepers = {w1}
  People = {h1}
  MaxDeaths = 1
  Nothing = Nothing
  Papers = {trn, bank}
  Steps = {s1}
  Staff = {r1, r2}
  NoEvent = NoEvent
  FirstYear = 2024
  FirstWeekday = 1
  FirstMonth = 36
  LastMonth = 52
  MaxGap = 28
  MaxByHand = 1
  DueDays <- DaysDue
  MayBeHolidays <- Announceable
  FirstShown = 25
  LastShown = 26
  Within = 14
INVARIANTS RecurrenceHolds DatesHold
PROPERTIES EngagedIsOpened ProjectHolds
\* Every period opened, the project removed, or the last day is the end.
CHECK_DEADLOCK FALSE
