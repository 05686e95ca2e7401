CONSTANTS
    MaxU64 = 100
    BadKeys = {}
    EpochSize = 2
    GenesisSet <- MCGenesisSet
    Candidates <- MCCandidates
    MaxJoin = 1
    MaxLeave = 1
    MaxNumber = 5
    Config <- MCConfig
    MaxNow = 4
SPECIFICATION FairSpec
INVARIANTS
    OnChain
    SetFollowsChain
    StoredSnapshotVerifies
PROPERTIES
    RefusalChangesNothing
    ImplementsTrustedHead
    CatchesUp
CHECK_DEADLOCK FALSE
