CONSTANTS
    MaxU64 = 100
    BadKeys = {}
    EpochSize = 2
    GenesisSet <- MCGenesisSet
    Candidates <- MCCandidates
    MaxJoin = 2
    MaxLeave = 1
    MaxNumber = 3
    AllowedClockSkew = 1
    FetchFails = TRUE
SPECIFICATION Spec
INVARIANT ReportedIsSealed
\* The program ends.
CHECK_DEADLOCK FALSE
