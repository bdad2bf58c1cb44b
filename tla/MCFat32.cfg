SPECIFICATION FairSpec
CONSTANTS
    Volumes <- MCVolumes
    Names <- MCNames
    Dots = {".."}
    Requests <- MCRequests
    SECTOR_SIZE = 4
    MIN_CLUSTERS = 3
    U32_MAX = 15
    FAT_MODULUS = 16
INVARIANT ReadsInsideVolume
INVARIANT AnswersMatchVolume
PROPERTY CallsReturn
CHECK_DEADLOCK FALSE
