CONSTANTS
    Labels <- MCLabels
    Means <- MCMeans
    Offsets <- MCOffsets
    Dash = Dash
SPECIFICATION Spec
CHECK_DEADLOCK FALSE
INVARIANT FactorRangeOrdered
