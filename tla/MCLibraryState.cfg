CONSTANTS
    MaxU64 <- MCMaxU64
    BadKeys <- MCBadKeys
    ByteBase = 2
    HASH_LENGTH = 3
    ADDRESS_LENGTH = 1
    BLOOM_BYTE_LENGTH = 1
    PUBLIC_KEY_LENGTH = 2
    ISTANBUL_EXTRA_VANITY_LENGTH = 2
    Sent <- MCSent
    Address <- MCAddress
    PublicKey <- MCPublicKey
    Config <- MCConfig
    Headers <- MCHeaders
    ValidatorLists <- MCValidatorLists
    Bitmaps <- MCBitmaps
    Timestamps <- MCTimestamps
SPECIFICATION Spec
INVARIANTS
    TypeOK
    UniqueAddresses
    SnapshotSurvives
    HashIsOfContent
    BentIsHarmless
PROPERTIES
    HeadOnlyAdvances
    SealedByPriorSet
    FailureKeepsHead
\* A panic aborts the process: such states have no successor.
CHECK_DEADLOCK FALSE
