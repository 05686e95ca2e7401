CONSTANTS
    MaxEpochSize = 6
    MaxNumber = 31
SPECIFICATION Spec
INVARIANTS
    FormulasCount
    BoundsEnclose
    QuorumsIntersect
PROPERTY EpochTurnsAfterLastBlock
CHECK_DEADLOCK FALSE
