SPECIFICATION Spec
CONSTANTS
    Null = Null
    NaN = NaN
    Failed = Failed
    BandNum = 1
    BandDen = 10
    ConditionDeadband = 1
    MomentumDeadband = 1
    UnemploymentDeadband = 1
    Lookback = 4
    MaxChecks = 2
    Workers = {w1, w2}
    Eligible = {"CPI", "PIO", "ES"}
    BaseRows <- MCBaseRows
    Answers <- MCAnswers
    ImportRow <- MCImportRow
SYMMETRY Symmetry
INVARIANTS
    MonitorTypeOK
    ReplayMismatchOnlyIfOverlapped
    IdenticalInputsSameState
    PagesFollowOneAnother
    StatusIsOfTheLastCheck
    RecapIsComplete
    PeriodsInOrder
    DurationAgreesWithWhatChanged
    
PROPERTIES
    AnalysisMissesNothing
    EvidenceIsNeverHidden
CHECK_DEADLOCK FALSE
