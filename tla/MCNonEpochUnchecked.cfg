CONSTANTS
    MaxU64 = 100
    BadKeys = {}
    EpochSize = 2
    GenesisSet <- MCGenesisSet
    Candidates = {}
    MaxJoin = 0
    MaxLeave = 1
    MaxNumber = 2
    Config <- MCConfig
    MaxNow = 1
SPECIFICATION Spec
INVARIANT HeldSetWasInForce
CHECK_DEADLOCK FALSE
