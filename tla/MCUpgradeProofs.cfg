CONSTANTS
    MaxU64 = 100
    BadKeys = {}
    EpochSize = 2
    GenesisSet <- ThreeValidators
    Candidates <- MCCandidates
    MaxJoin = 1
    MaxLeave = 1
    MaxNumber = 3
    Clients = {c1}
    Data <- LongTrust
    Heights <- TwoHeights
    UpgradeHeight <- MCUpgradeHeight
    LabelIsNumber = FALSE
    Forks = {}
    BlockTimes = {0, 1}
    MaxTime = 1
    MaxHeight = 2
    Delays = {0, 1}
SPECIFICATION Spec
INVARIANT ProvenUpgradeAccepted
\* The bounds stop the chain and the host.
CHECK_DEADLOCK FALSE
