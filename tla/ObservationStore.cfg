\* One import or sync racing one release-processing occurrence.
CONSTANTS
    o1 = o1
    o2 = o2
    x = x
    y = y
    Null = Null
    Obs = {o1, o2}
    Values = {x, y}
    Writers = {"import", "release"}
    Processors = {"release"}
    MaxTime = 2
SPECIFICATION Spec
SYMMETRY Symmetry
CONSTRAINT SmallBatches
INVARIANTS
    TypeOK
    VersionsTileTime
    CacheMatchesHistory
    OnlyFirstVersionIsImported
    AsOfIsInForce
PROPERTIES
    HistoryIsAppendOnly
    ImplementsHistory
