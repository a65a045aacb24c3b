\* Two outputs of up to two GN lines each: a "_build" line can come first,
\* second, in the second answer only, or not at all.
CONSTANTS
    Paths <- MCPaths
    Names <- MCNames
    MaxOutputs = 2
    MaxLines = 2
SPECIFICATION Spec
\* The function returns (or raises) after its last step.
CHECK_DEADLOCK FALSE
INVARIANTS TypeOK FirstBuildRefReturned
