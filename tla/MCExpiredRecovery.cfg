CONSTANTS
    MaxU64 = 100
    BadKeys = {}
    EpochSize = 4
    GenesisSet <- OneValidator
    Candidates = {}
    MaxJoin = 0
    MaxLeave = 0
    MaxNumber = 3
    Clients = {c1, c2}
    Data <- ShortTrust
    Heights <- ThreeHeights
    UpgradeHeight <- NoUpgrade
    LabelIsNumber = TRUE
    Forks = {1, 3}
    BlockTimes = {2}
    MaxTime = 4
    MaxHeight = 3
    Delays = {0, 1, 2}
SPECIFICATION Spec
SYMMETRY SymmetricClients
INVARIANT ExpiredIsRecovered
\* The bounds stop the chain and the host.
CHECK_DEADLOCK FALSE
