\* A request between a check run's clock read and its commit.
CONSTANTS
    Null = Null
    Runs = {r1}
    Tabs = {t1, t2}
    Lookback = 1
    MaxTime = 3
SPECIFICATION VisitSpec
INVARIANT NothingIsLost
