SPECIFICATION Spec
CONSTANTS
    Null = Null
    NaN = NaN
    Failed = Failed
    BandNum = 1
    BandDen = 10
    ConditionDeadband = 1
    MomentumDeadband = 1
    UnemploymentDeadband = 1
    Lookback = 4
    MaxChecks = 1
    Workers = {w1}
    Eligible = {"ES"}
    BaseRows <- FirstRows
    Answers <- FirstAnswers
    ImportRow <- MCImportRow
INVARIANT FirstRunIsNeverAConfirmation
CHECK_DEADLOCK FALSE
