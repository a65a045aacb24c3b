CONSTANTS
    Labels <- MCLabels
    Means <- MCMeans
    Offsets <- MCOffsets
    Dash = Dash
SPECIFICATION Spec
\* ComparePerf returns after writing its report: the final states are real.
CHECK_DEADLOCK FALSE
INVARIANTS
    TypeOK
    RowsSortedAndComplete
    VerdictSound
    CountsMatchRows
PROPERTIES
    ImplementsAbstract
