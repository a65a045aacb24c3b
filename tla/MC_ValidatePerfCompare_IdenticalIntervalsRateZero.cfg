CONSTANTS
    Labels <- MCLabels
    Means <- MCMeans
    Offsets <- MCOffsets
    MaxBoots = 4
    GroupSizes = {0, 1, 2, 3}
SPECIFICATION Spec
\* ValidatePerfCompare returns after its report, or raises: it stops.
CHECK_DEADLOCK FALSE
INVARIANT IdenticalIntervalsRateZero
