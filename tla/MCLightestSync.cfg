CONSTANTS
    MaxU64 = 100
    BadKeys = {}
    EpochSize = 2
    GenesisSet <- MCGenesisSet
    Candidates <- MCCandidates
    MaxJoin = 2
    MaxLeave = 1
    MaxNumber = 5
    AllowedClockSkew = 1
    FetchFails = TRUE
SPECIFICATION Spec
INVARIANTS
    ReportIsRight
    RebuildsSet
\* The program ends.
CHECK_DEADLOCK FALSE
