\* One sweep whose check of an occurrence raises a ValueError.
CONSTANTS
    s1 = s1
    s2 = s2
    m = m
    Null = Null
    Occurrences = {1, 2}
    ScheduledDate <- MCScheduledDate
    Recovering = {2}
    Sweeps = {s1}
    Manuals = {}
    RetryWindow = 1
    MaxDay = 1
    MaxDeaths = 1
SPECIFICATION Spec
INVARIANT ExitOneMeansFinished
