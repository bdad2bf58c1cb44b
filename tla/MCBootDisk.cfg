CONSTANTS
    EFI <- BuildEfi
    BASIC <- BuildBasic
    BootName <- BuildBootName
    DataName <- BuildDataName
    GPT_NAME_CHARS = 36
    DATA_PARTITION_LBAS <- BuildDataSize
    BootSizes = {3, 4, 5}
    PARTITION_ALIGNMENT_LBAS = 3
    GPT_LBAS = 2
    MaxBuilds = 2
    SOL_DATA_PARTITION_TYPE <- LoaderType
    SOL_DATA_PARTITION_NAME <- LoaderName
    SOL_DATA_BLOCKS <- LoaderSize
    Machines <- MCMachines
    BLOCK_SIZE = 1
    CHUNK_BLOCKS = 2
    Nul = "Nul"
    Unread = Unread
SPECIFICATION BootDiskSpec
CHECK_DEADLOCK FALSE
INVARIANT RoomForBoth
INVARIANT BuiltImageIsWhole
INVARIANT ImageIsOfOneBuild
INVARIANT SnapshotIsThePartition
INVARIANT FirstSolDataDecides
INVARIANT BuiltVolumeReachesKernel
INVARIANT BuiltVolumeIsFound
