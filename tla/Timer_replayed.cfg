\* One replay loop at a time; four taps on two projects, one failure anywhere, a
\* silence of more than one unit trimmed.
\* Once the clock and the taps have run out nothing is left to do.
CHECK_DEADLOCK FALSE
SPECIFICATION FairSpec
CONSTANTS
    None = None
    Projects = {p, q}
    Drains = {d}
    AbandonedAfter = 1
    MaxTime = 3
    MaxTaps = 4
    MaxFaults = 1
INVARIANTS RecordedOnce TimeAccountedFor
PROPERTIES EventuallySent
