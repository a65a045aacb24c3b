\* Listings of up to two lines: no match, one match, a match here and above,
\* two matches that the name filter separates.
CONSTANTS
    Paths <- MCPaths
    TNames <- MCTNames
    NoName = NoName
    MaxTargets = 2
SPECIFICATION Spec
\* The script exits after its last step.
CHECK_DEADLOCK FALSE
INVARIANTS TypeOK DiscoveryMatchesSpec LinkMatchesManifests
PROPERTIES OutputOnlyLinkedToBuiltManifest GenCargoImplementsAbstract
