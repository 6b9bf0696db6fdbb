\* One worker whose sweeps never overlap; both occurrences due on the last day.
CONSTANTS
    s1 = s1
    s2 = s2
    m = m
    Null = Null
    Occurrences = {1, 2}
    ScheduledDate <- MCScheduledDate
    Recovering = {2}
    Sweeps = {s1}
    Manuals = {}
    RetryWindow = 2
    MaxDay = 2
    MaxDeaths = 2
SPECIFICATION FairSpec
PROPERTIES
    AtMostOncePerDay
    RetriedUntilSettled
