CONSTANTS
    MaxU64 = 100
    BadKeys = {}
    EpochSize = 4
    GenesisSet <- OneValidator
    Candidates = {}
    MaxJoin = 0
    MaxLeave = 0
    MaxNumber = 3
    Clients = {c1, c2}
    Data <- ShortTrust
    Heights <- ThreeHeights
    UpgradeHeight <- NoUpgrade
    LabelIsNumber = TRUE
    Forks = {1, 3}
    BlockTimes = {0, 3}
    MaxTime = 3
    MaxHeight = 2
    Delays = {0, 1}
SPECIFICATION Spec
SYMMETRY SymmetricClients
INVARIANTS
    FrozenByForkOnly
    StatesFollowChain
    PacketsWait
    LatestIsKept
PROPERTY ImplementsLifecycle
\* The bounds stop the chain and the host.
CHECK_DEADLOCK FALSE
