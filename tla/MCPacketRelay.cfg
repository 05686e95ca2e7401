CONSTANTS
    MaxU64 = 100
    BadKeys = {}
    MaxSequence = 2
    Timeout = 3
    Acks = {success, failure}
    Heights <- OneHeight
    Delays = {0, 1}
    MaxBlock = 3
    MaxTime = 1
    MaxHeight = 3
SPECIFICATION Spec
SYMMETRY SymmetricAcks
INVARIANTS
    
    HeldIsProvable
    TimedOutIsNeverReceived
    
\* The bounds stop both chains.
CHECK_DEADLOCK FALSE
