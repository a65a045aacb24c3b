CONSTANTS
    Labels <- MCLabels
    Samples <- MCSamples
    MaxBoots = 3
    MaxRecords = 2
SPECIFICATION Spec
\* ResultsFromDirs returns (or raises) after the last boot.
CHECK_DEADLOCK FALSE
INVARIANTS
    TypeOK
    AggregationMatchesSpec
    ResultsMatchSpec
    FailsExactlyOnShortSample
