\* Two sweeps overlap: the second works from a stale list.
CONSTANTS
    s1 = s1
    s2 = s2
    m = m
    Null = Null
    Occurrences = {1, 2}
    ScheduledDate <- MCScheduledDate
    Recovering = {2}
    Sweeps = {s1, s2}
    Manuals = {}
    RetryWindow = 1
    MaxDay = 1
    MaxDeaths = 0
SPECIFICATION Spec
PROPERTY AtMostOncePerDay
