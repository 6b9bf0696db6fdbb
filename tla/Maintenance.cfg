\* Two overlapping sweeps and an operator, across one midnight.
CONSTANTS
    s1 = s1
    s2 = s2
    m = m
    Null = Null
    Occurrences = {1, 2}
    ScheduledDate <- MCScheduledDate
    Recovering = {2}
    Sweeps = {s1, s2}
    Manuals = {m}
    RetryWindow = 1
    MaxDay = 1
    MaxDeaths = 1
SPECIFICATION Spec
SYMMETRY Symmetry
INVARIANTS
    TypeOK
    LockFollowsCheck
    FinishedSweepAccounts
