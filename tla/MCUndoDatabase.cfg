SPECIFICATION Spec
CONSTANTS
    Types = {t1}
    Values = {v1, v2}
    MaxInstance = 1
    Nothing = Nothing
    MaxDepth = 3
    MinHistory = 2
    MaxHistory = 2
SYMMETRY ValueSymmetry
INVARIANTS
    TypeOK
    LogsAreExact
    RestoreNeverThrows
    NoIllegalMerge
    NextIdIsFresh
    SessionsSurvive
PROPERTIES
    UndoReturnsToStart
    ImplementsSnapshots
