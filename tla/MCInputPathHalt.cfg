CONSTANTS
    MaxKeys = 2
    Room = 2
    TICK_MODULUS = 2
SPECIFICATION FairSpec
INVARIANT NoKeyMissedByHalt
CHECK_DEADLOCK FALSE
