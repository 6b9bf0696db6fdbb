SPECIFICATION Spec
CONSTANTS
    Null = Null
    NaN = NaN
    Failed = Failed
    BandNum = 1
    BandDen = 10
    ConditionDeadband = 1
    MomentumDeadband = 1
    UnemploymentDeadband = 1
    Lookback = 4
    MaxChecks = 2
    Workers = {w1}
    Eligible = {"CPI"}
    BaseRows <- FirstRows
    Answers <- SilentAnswers
    ImportRow <- MCImportRow
INVARIANT EveryConclusionIsTold
CHECK_DEADLOCK FALSE
